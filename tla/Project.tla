------------------------------ MODULE Project ------------------------------
(***************************************************************************)
(* The declarations of a project: the source files in its root, and the    *)
(* [[batch_table]], [[cluster]] and [[table_meta]] entries of              *)
(* table-tool.toml, as the web handlers and the commands of the CLI change *)
(* them (core/table_admin.py, core/config.py, core/discovery.py).          *)
(*                                                                         *)
(* A request of a client (a worker thread of the web server, or a CLI      *)
(* process) is checked once, when it is made, and then runs as a job: a    *)
(* sequence of file operations and edits of table-tool.toml.  Every edit   *)
(* reads the file, changes what it read and writes the whole file back     *)
(* (config.py, _read_full_config and _write_full_config): a step to read   *)
(* and a step to write, with the steps of the other clients in between.    *)
(*                                                                         *)
(* A list of TOML tables is the set of its entries: where two entries have *)
(* the same name, an edit of "the first" may be an edit of either.  Tags   *)
(* and notes (with the custom properties) are there or not; the defaults   *)
(* and plugin sections of a cluster are left out, and so are glob sources, *)
(* subfolders, sidecars and the order of the members of a batch.           *)
(***************************************************************************)
EXTENDS Naturals, Sequences, FiniteSets

CONSTANTS
  Names,        \* names a table, a batch table or a cluster may have
  Exts,         \* file extensions
  Clients,      \* the requests that may be in progress at once
  NoCluster,    \* a table outside every cluster
  Unread,       \* a client that holds no copy of table-tool.toml
  Starts,       \* the projects a behavior may start from
  MaxRequests,  \* bound: requests made in a behavior
  MaxRacing     \* bound: requests made by the time one overlaps another or follows a crash

ASSUME ProjectAssumption == /\ NoCluster \notin Names
                            /\ {MaxRequests, MaxRacing} \subseteq Nat

File == Names \X Exts
Stem(f) == f[1]

Batch == [name : Names, sources : (SUBSET File) \ {{}}]
Meta  == [name : Names, cluster : Names \cup {NoCluster}, tags : BOOLEAN, notes : BOOLEAN]

IsConfig(k) == /\ k.clusters \subseteq Names
               /\ k.batches \subseteq Batch
               /\ k.metas \subseteq Meta
               /\ k = [clusters |-> k.clusters, batches |-> k.batches, metas |-> k.metas]

VARIABLES
  files,      \* the source files in the project root
  cfg,        \* table-tool.toml
  tracked,    \* the tables with a history
  job,        \* job[c]: what client c still has to do
  seen,       \* seen[c]: the copy of table-tool.toml that c has read
  shared,     \* the files that two batch tables have listed at the same time
  disturbed,  \* two requests have overlapped, or a client died in the middle of one
  requests    \* requests made so far

vars == <<files, cfg, tracked, job, seen, shared, disturbed, requests>>

-----------------------------------------------------------------------------
(* Discovery *)

BatchNames(k) == {b.name : b \in k.batches}
Members(k)    == UNION {b.sources : b \in k.batches}
Singles       == files \ Members(cfg)
TableNames    == {Stem(f) : f \in Singles} \cup BatchNames(cfg)

\* resolve_batch_tables raises nothing
BatchesResolve ==
  /\ \A b \in cfg.batches : b.sources \subseteq files
  /\ \A b1, b2 \in cfg.batches : b1.name = b2.name => b1 = b2

\* discover_for_history raises nothing
Discoverable ==
  /\ \A f, g \in files : Stem(f) = Stem(g) => f = g
  /\ BatchesResolve
  /\ {Stem(f) : f \in Singles} \cap BatchNames(cfg) = {}

RefsExist(k) == \A m \in k.metas : m.cluster # NoCluster => m.cluster \in k.clusters

\* A behavior starts from projects that payload has left in order: the files that a batch
\* table lists are there, and no other lists them.
ASSUME StartsAssumption ==
  \A p \in Starts : /\ p.files \subseteq File /\ IsConfig(p.cfg) /\ RefsExist(p.cfg)
                    /\ Members(p.cfg) \subseteq p.files
                    /\ \A b1, b2 \in p.cfg.batches : b1.sources \cap b2.sources # {} => b1 = b2

\* resolve_table_meta raises nothing
MetasResolve ==
  /\ \A m1, m2 \in cfg.metas : m1.name = m2.name => m1 = m2
  /\ RefsExist(cfg)

MetasOf(k, t) == {m \in k.metas : m.name = t}
Blank(t) == [name |-> t, cluster |-> NoCluster, tags |-> FALSE, notes |-> FALSE]

-----------------------------------------------------------------------------
(* Requests *)

\* The calls a job is made of: operations on files, and edits of table-tool.toml.
TableEdit ==
       [do : {"set_table_cluster"}, table : Names, cluster : Names \cup {NoCluster}]
  \cup [do : {"set_table_tags"}, table : Names, tags : BOOLEAN]
  \cup [do : {"set_table_meta_fields"}, table : Names, notes : BOOLEAN]
ClusterEdit ==
       [do : {"create_cluster", "update_cluster"}, name : Names]
  \cup [do : {"delete_cluster"}, name : Names, force : BOOLEAN]
MemberEdit ==
  [do : {"add_batch_table_source", "remove_batch_table_source"}, name : Names, source : File]
BatchEdit ==
  [do : {"create_batch_table", "upsert_batch_table"}, name : Names,
   sources : (SUBSET File) \ {{}}]
OtherEdit ==
       [do : {"remove_batch_table_entry", "remove_table_meta_entry"}, name : Names]
  \cup [do : {"rewrite_table_name"}, old : Names, new : Names]
Edit == TableEdit \cup ClusterEdit \cup MemberEdit \cup BatchEdit \cup OtherEdit

FileCall ==
       [do : {"write"}, files : SUBSET File, overwrite : BOOLEAN]
  \cup [do : {"unlink"}, files : SUBSET File]
  \cup [do : {"move", "copy"}, from : File, to : File]
  \cup [do : {"rename_history"}, old : Names, new : Names]

Idle(c) == job[c] = <<>>

Request(c, calls) ==
  /\ Idle(c)
  /\ requests < MaxRequests
  /\ disturbed' = (disturbed \/ \E d \in Clients : ~Idle(d))
  /\ disturbed' => requests < MaxRacing
  /\ requests' = requests + 1
  /\ job' = [job EXCEPT ![c] = calls]
  /\ UNCHANGED <<files, cfg, tracked, seen, shared>>

\* PUT .../cluster, .../tags and .../meta take any table name; so do the cluster routes.
EditMetadata(c) == \E e \in TableEdit \cup ClusterEdit : Request(c, <<e>>)

\* 'pld batch NAME --add/--remove PATH'; nothing is asked of the path.
EditMembers(c) == \E e \in MemberEdit : Request(c, <<e>>)

\* 'pld batch NAME --delete' and DELETE /api/batch/NAME: the entry, not its files.
DropBatchEntry(c) ==
  \E n \in Names : Request(c, <<[do |-> "remove_batch_table_entry", name |-> n]>>)

\* POST /api/batch and PUT /api/batch/NAME, once _clean_sources has passed the list.
EditBatch(c) ==
  /\ BatchesResolve
  /\ \E e \in BatchEdit :
       /\ e.sources \subseteq files
       /\ \A f \in e.sources : Stem(f) \in tracked => f \in Members(cfg)
       /\ Request(c, <<e>>)

\* 'pld import', one file or --each: the files whose name is taken are left out, unless
\* the user has asked to overwrite.
ImportTables(c) ==
  /\ Discoverable
  /\ \E S \in SUBSET File, overwrite \in BOOLEAN :
       /\ S # {}
       /\ ~overwrite => /\ \A f \in S : Stem(f) \notin TableNames
                        /\ \A f, g \in S : Stem(f) = Stem(g) => f = g
       /\ Request(c, <<[do |-> "write", files |-> S, overwrite |-> overwrite]>>)

\* 'pld import --new-batch'
ImportNewBatch(c) ==
  /\ Discoverable
  /\ \E n \in Names \ TableNames, S \in SUBSET (File \ files) :
       /\ S # {}
       /\ Request(c, <<[do |-> "write", files |-> S, overwrite |-> FALSE],
                       [do |-> "create_batch_table", name |-> n, sources |-> S]>>)

\* 'pld import --batch'
ImportMember(c) ==
  /\ Discoverable
  /\ \E b \in cfg.batches : \E f \in File \ b.sources :
       Request(c, <<[do |-> "write", files |-> {f}, overwrite |-> FALSE],
                    [do |-> "add_batch_table_source", name |-> b.name, source |-> f]>>)

RenameCalls(old, new) == <<[do |-> "rename_history", old |-> old, new |-> new],
                           [do |-> "rewrite_table_name", old |-> old, new |-> new]>>

\* Mutant: the name is checked against the tables only, not against the files.
RenameUnchecked(c) ==
  /\ Discoverable
  /\ \E f \in Singles, new \in Names \ TableNames :
       Request(c, <<[do |-> "move", from |-> f, to |-> <<new, f[2]>>]>> \o RenameCalls(Stem(f), new))

\* rename_table of a single-file table
RenameSingle(c) ==
  /\ Discoverable
  /\ \E f \in Singles, new \in Names \ TableNames :
       LET to == <<new, f[2]>> IN
       /\ to \notin files
       /\ Request(c, <<[do |-> "move", from |-> f, to |-> to]>> \o RenameCalls(Stem(f), new))

\* rename_table of a batch table
RenameBatch(c) ==
  /\ Discoverable
  /\ \E old \in BatchNames(cfg), new \in Names \ TableNames : Request(c, RenameCalls(old, new))

\* The entry of the original, copied onto the clone; nothing if the metadata do not resolve.
CloneMeta(old, new) ==
  IF ~MetasResolve \/ MetasOf(cfg, old) = {} THEN <<>>
  ELSE LET m == CHOOSE m \in MetasOf(cfg, old) : TRUE IN
       <<[do |-> "set_table_tags", table |-> new, tags |-> m.tags]>>
       \o (IF m.cluster = NoCluster THEN <<>>
           ELSE <<[do |-> "set_table_cluster", table |-> new, cluster |-> m.cluster]>>)

\* clone_table of a single-file table
CloneSingle(c) ==
  /\ Discoverable
  /\ \E f \in Singles, new \in Names \ TableNames :
       LET to == <<new, f[2]>> IN
       /\ to \notin files
       /\ Request(c, <<[do |-> "copy", from |-> f, to |-> to]>> \o CloneMeta(Stem(f), new))

\* clone_table of a batch table: a second entry over the same files
CloneBatch(c) ==
  /\ Discoverable
  /\ \E b \in cfg.batches, new \in Names \ TableNames :
       Request(c, <<[do |-> "create_batch_table", name |-> new, sources |-> b.sources]>>)

\* The end of both deletions of a whole batch table.
RemoveEntries(n) == <<[do |-> "remove_batch_table_entry", name |-> n],
                      [do |-> "remove_table_meta_entry", name |-> n]>>

\* delete_table of a single-file table
DeleteSingle(c) ==
  /\ Discoverable
  /\ MetasResolve
  /\ \E f \in Singles :
       Request(c, <<[do |-> "unlink", files |-> {f}],
                    [do |-> "remove_table_meta_entry", name |-> Stem(f)]>>)

\* Mutant: the entry is left to whoever edits the configuration next.
DeleteBatchFiles(c) ==
  /\ Discoverable
  /\ MetasResolve
  /\ \E b \in cfg.batches :
       Request(c, <<[do |-> "unlink", files |-> b.sources],
                    [do |-> "remove_table_meta_entry", name |-> b.name]>>)

\* delete_table of a batch table
DeleteBatch(c) ==
  /\ Discoverable
  /\ MetasResolve
  /\ \E b \in cfg.batches :
       Request(c, <<[do |-> "unlink", files |-> b.sources]>> \o RemoveEntries(b.name))

\* delete_batch_member
DeleteMember(c) ==
  /\ Discoverable
  /\ MetasResolve
  /\ \E b \in cfg.batches : \E f \in b.sources :
       Request(c, <<[do |-> "unlink", files |-> {f}]>> \o
                  (IF b.sources = {f}
                   THEN RemoveEntries(b.name)
                   ELSE <<[do |-> "remove_batch_table_source", name |-> b.name, source |-> f]>>))

\* The first commit of a table; History models the store itself.
Commit ==
  /\ Discoverable
  /\ MetasResolve
  /\ \E t \in TableNames \ tracked : tracked' = tracked \cup {t}
  /\ UNCHANGED <<files, cfg, job, seen, shared, disturbed, requests>>

-----------------------------------------------------------------------------
(* The calls of a job *)

Call(c) == Head(job[c])
IsAt(c, what) == ~Idle(c) /\ Call(c).do = what

\* The call returns, or raises and ends the request.
Return(c) == job' = [job EXCEPT ![c] = Tail(@)]
Raise(c)  == job' = [job EXCEPT ![c] = <<>>]

\* One file of a call that handles several has been dealt with.
FileDone(c, f) ==
  LET e == Call(c) IN
  job' = [job EXCEPT ![c] = IF e.files = {f} THEN Tail(@)
                            ELSE <<[e EXCEPT !.files = e.files \ {f}]>> \o Tail(@)]

OnlyFiles == UNCHANGED <<cfg, tracked, seen, shared, disturbed, requests>>

WriteFile(c) ==
  /\ IsAt(c, "write")
  /\ \E f \in Call(c).files : files' = files \cup {f} /\ FileDone(c, f)
  /\ OnlyFiles

\* A file that another client has removed was never in the list, or makes unlink() raise.
UnlinkFile(c) ==
  /\ IsAt(c, "unlink")
  /\ \E f \in Call(c).files :
       /\ files' = files \ {f}
       /\ FileDone(c, f) \/ (f \notin files /\ Raise(c))
  /\ OnlyFiles

MoveFile(c) ==
  /\ IsAt(c, "move")
  /\ IF Call(c).from \in files
     THEN files' = (files \ {Call(c).from}) \cup {Call(c).to} /\ Return(c)
     ELSE UNCHANGED files /\ Raise(c)
  /\ OnlyFiles

CopyFile(c) ==
  /\ IsAt(c, "copy")
  /\ IF Call(c).from \in files
     THEN files' = files \cup {Call(c).to} /\ Return(c)
     ELSE UNCHANGED files /\ Raise(c)
  /\ OnlyFiles

\* HistoryStore.rename_table: a manifest of the new name keeps the old one where it is.
RenameHistory(c) ==
  /\ IsAt(c, "rename_history")
  /\ tracked' = IF Call(c).new \in tracked THEN tracked
                ELSE {IF t = Call(c).old THEN Call(c).new ELSE t : t \in tracked}
  /\ Return(c)
  /\ UNCHANGED <<files, cfg, seen, shared, disturbed, requests>>

-----------------------------------------------------------------------------
(* The edits of table-tool.toml *)

ReadConfig(c) ==
  /\ ~Idle(c)
  /\ Call(c).do \in {e.do : e \in Edit}
  /\ seen[c] = Unread
  /\ seen' = [seen EXCEPT ![c] = cfg]
  /\ UNCHANGED <<files, cfg, tracked, job, shared, disturbed, requests>>

HasRead(c, what) == IsAt(c, what) /\ seen[c] # Unread

EndEdit(c) == /\ seen' = [seen EXCEPT ![c] = Unread]
              /\ UNCHANGED <<files, tracked, disturbed, requests>>

\* The edit writes k; it returns without writing; or it raises before writing.
Save(c, k) ==
  /\ cfg' = k
  /\ shared' = shared \cup {f \in Members(k) : \E b1, b2 \in k.batches :
                                   b1 # b2 /\ f \in b1.sources \cap b2.sources}
  /\ Return(c)
  /\ EndEdit(c)
Keep(c)   == Return(c) /\ EndEdit(c) /\ UNCHANGED <<cfg, shared>>
Refuse(c) == Raise(c) /\ EndEdit(c) /\ UNCHANGED <<cfg, shared>>

BatchesOf(k, n) == {b \in k.batches : b.name = n}

CreateBatchTable(c) ==
  /\ HasRead(c, "create_batch_table")
  /\ LET k == seen[c]  e == Call(c) IN
     IF e.name \in BatchNames(k) THEN Refuse(c)
     ELSE Save(c, [k EXCEPT !.batches = @ \cup {[name |-> e.name, sources |-> e.sources]}])

UpsertBatchTable(c) ==
  /\ HasRead(c, "upsert_batch_table")
  /\ LET k == seen[c]  e == Call(c)  new == [name |-> e.name, sources |-> e.sources] IN
     IF BatchesOf(k, e.name) = {} THEN Save(c, [k EXCEPT !.batches = @ \cup {new}])
     ELSE \E b \in BatchesOf(k, e.name) : Save(c, [k EXCEPT !.batches = (@ \ {b}) \cup {new}])

AddBatchTableSource(c) ==
  /\ HasRead(c, "add_batch_table_source")
  /\ LET k == seen[c]  e == Call(c) IN
     IF BatchesOf(k, e.name) = {} THEN Refuse(c)
     ELSE \E b \in BatchesOf(k, e.name) :
            Save(c, [k EXCEPT !.batches =
                       (@ \ {b}) \cup {[b EXCEPT !.sources = @ \cup {e.source}]}])

\* A batch table left without a source does not pass _build_config.
RemoveBatchTableSource(c) ==
  /\ HasRead(c, "remove_batch_table_source")
  /\ LET k == seen[c]  e == Call(c) IN
     IF BatchesOf(k, e.name) = {} THEN Keep(c)
     ELSE \E b \in BatchesOf(k, e.name) :
            IF e.source \notin b.sources THEN Keep(c)
            ELSE IF b.sources = {e.source} THEN Refuse(c)
            ELSE Save(c, [k EXCEPT !.batches =
                            (@ \ {b}) \cup {[b EXCEPT !.sources = @ \ {e.source}]}])

RemoveBatchTableEntry(c) ==
  /\ HasRead(c, "remove_batch_table_entry")
  /\ LET k == seen[c]  gone == BatchesOf(k, Call(c).name) IN
     IF gone = {} THEN Keep(c) ELSE Save(c, [k EXCEPT !.batches = @ \ gone])

CreateCluster(c) ==
  /\ HasRead(c, "create_cluster")
  /\ LET k == seen[c]  n == Call(c).name IN
     IF n \in k.clusters THEN Refuse(c) ELSE Save(c, [k EXCEPT !.clusters = @ \cup {n}])

\* Defaults and plugin options are not modelled: what is written back is what was read.
UpdateCluster(c) ==
  /\ HasRead(c, "update_cluster")
  /\ IF Call(c).name \in seen[c].clusters THEN Save(c, seen[c]) ELSE Refuse(c)

\* Mutant: every entry without tags is taken for an empty one.
DeleteClusterAndUntagged(c) ==
  /\ HasRead(c, "delete_cluster")
  /\ LET k == seen[c]
         e == Call(c)
     IN IF e.name \notin k.clusters THEN Keep(c)
        ELSE IF ~e.force /\ (\E m \in k.metas : m.cluster = e.name) THEN Refuse(c)
        ELSE Save(c, [clusters |-> k.clusters \ {e.name}, batches |-> k.batches,
                      metas |-> {IF m.cluster = e.name THEN [m EXCEPT !.cluster = NoCluster] ELSE m :
                                   m \in {i \in k.metas : i.tags}}])

\* Forced, the members leave the cluster; an entry without tags goes, notes or not.
DeleteCluster(c) ==
  /\ HasRead(c, "delete_cluster")
  /\ LET k == seen[c]
         e == Call(c)
         in == {m \in k.metas : m.cluster = e.name}
     IN IF e.name \notin k.clusters THEN Keep(c)
        ELSE IF in # {} /\ ~e.force THEN Refuse(c)
        ELSE Save(c, [clusters |-> k.clusters \ {e.name}, batches |-> k.batches,
                      metas |-> (k.metas \ in)
                        \cup {[m EXCEPT !.cluster = NoCluster] : m \in {i \in in : i.tags}}])

\* The [[table_meta]] entry an edit of table t works on.
EntryFor(k, t) == IF MetasOf(k, t) = {} THEN {Blank(t)} ELSE MetasOf(k, t)

\* m has become new; an entry that says nothing any more is dropped.
WithMeta(k, m, new) ==
  [k EXCEPT !.metas = (@ \ {m}) \cup (IF new = Blank(new.name) THEN {} ELSE {new})]

\* Mutant: the check looks at the copy, the change is made to the file as it is now.
SetTableClusterLate(c) ==
  /\ HasRead(c, "set_table_cluster")
  /\ LET e == Call(c) IN
     IF e.cluster \notin seen[c].clusters \cup {NoCluster} THEN Refuse(c)
     ELSE \E m \in EntryFor(cfg, e.table) :
            Save(c, WithMeta(cfg, m, [m EXCEPT !.cluster = e.cluster]))

SetTableCluster(c) ==
  /\ HasRead(c, "set_table_cluster")
  /\ LET k == seen[c]  e == Call(c) IN
     IF e.cluster \notin k.clusters \cup {NoCluster} THEN Refuse(c)
     ELSE \E m \in EntryFor(k, e.table) : Save(c, WithMeta(k, m, [m EXCEPT !.cluster = e.cluster]))

SetTableTags(c) ==
  /\ HasRead(c, "set_table_tags")
  /\ LET k == seen[c]  e == Call(c) IN
     \E m \in EntryFor(k, e.table) : Save(c, WithMeta(k, m, [m EXCEPT !.tags = e.tags]))

SetTableMetaFields(c) ==
  /\ HasRead(c, "set_table_meta_fields")
  /\ LET k == seen[c]  e == Call(c) IN
     \E m \in EntryFor(k, e.table) : Save(c, WithMeta(k, m, [m EXCEPT !.notes = e.notes]))

RemoveTableMetaEntry(c) ==
  /\ HasRead(c, "remove_table_meta_entry")
  /\ LET k == seen[c]  gone == MetasOf(k, Call(c).name) IN
     IF gone = {} THEN Keep(c) ELSE Save(c, [k EXCEPT !.metas = @ \ gone])

Renamed(S, old, new) == {IF r.name = old THEN [r EXCEPT !.name = new] ELSE r : r \in S}

\* _rewrite_table_name_in_config, a substitution in the text of two kinds of blocks
RewriteTableName(c) ==
  /\ HasRead(c, "rewrite_table_name")
  /\ LET k == seen[c]  e == Call(c) IN
     Save(c, [clusters |-> k.clusters, batches |-> Renamed(k.batches, e.old, e.new),
              metas |-> Renamed(k.metas, e.old, e.new)])

-----------------------------------------------------------------------------
\* The process or the server of a client dies.
Crash(c) ==
  /\ ~Idle(c)
  /\ job' = [job EXCEPT ![c] = <<>>]
  /\ seen' = [seen EXCEPT ![c] = Unread]
  /\ disturbed' = TRUE
  /\ UNCHANGED <<files, cfg, tracked, shared, requests>>

Init ==
  /\ \E p \in Starts : files = p.files /\ cfg = p.cfg /\ tracked = p.tracked
  /\ shared = {}
  /\ job = [c \in Clients |-> <<>>]
  /\ seen = [c \in Clients |-> Unread]
  /\ disturbed = FALSE
  /\ requests = 0

Ask(c) ==
  \/ EditMetadata(c) \/ EditMembers(c) \/ EditBatch(c) \/ DropBatchEntry(c)
  \/ ImportTables(c) \/ ImportNewBatch(c) \/ ImportMember(c)
  \/ RenameSingle(c) \/ RenameBatch(c) \/ CloneSingle(c) \/ CloneBatch(c)
  \/ DeleteSingle(c) \/ DeleteBatch(c) \/ DeleteMember(c)

DoFile(c) ==
  WriteFile(c) \/ UnlinkFile(c) \/ MoveFile(c) \/ CopyFile(c) \/ RenameHistory(c)

DoEdit(c) ==
  \/ CreateBatchTable(c) \/ UpsertBatchTable(c) \/ AddBatchTableSource(c)
  \/ RemoveBatchTableSource(c) \/ RemoveBatchTableEntry(c)
  \/ CreateCluster(c) \/ UpdateCluster(c) \/ DeleteCluster(c)
  \/ SetTableCluster(c) \/ SetTableTags(c) \/ SetTableMetaFields(c)
  \/ RemoveTableMetaEntry(c) \/ RewriteTableName(c)

Next == \/ Commit
        \/ \E c \in Clients : Ask(c) \/ DoFile(c) \/ ReadConfig(c) \/ DoEdit(c) \/ Crash(c)

Spec == Init /\ [][Next]_vars

-----------------------------------------------------------------------------
(* Properties *)

\* A [[table_meta]] entry never names a cluster that does not exist, however the edits of
\* the clients interleave and whenever one of them dies: load_config would fail for every
\* table.
ClusterRefsExist == RefsExist(cfg)

\* The tables whose metadata the call that client c is at may change.
Subjects(c) ==
  LET e == Call(c) IN
  CASE e.do = "delete_cluster"          -> {m.name : m \in {i \in cfg.metas : i.cluster = e.name}}
    [] e.do = "rewrite_table_name"      -> {e.old, e.new}
    [] e.do = "remove_table_meta_entry" -> {e.name}
    [] e.do \in {t.do : t \in TableEdit} -> {e.table}
    [] OTHER                            -> {}

\* An edit made while no other is in progress leaves the tags, notes and cluster of every
\* table alone but those of the tables it is about.
OthersKeepTheirMeta ==
  [][ ~disturbed' => \A t \in Names : MetasOf(cfg, t) # MetasOf(cfg', t)
                       => \E c \in Clients : ~Idle(c) /\ t \in Subjects(c) ]_vars

\* The name check of a rename or a clone, one request at a time, is enough: the file it
\* creates never replaces one, such as a member of a batch table of that name.
RenameReplacesNothing ==
  ~disturbed => \A c \in Clients :
     ~Idle(c) /\ Call(c).do \in {"move", "copy"} => Call(c).to \notin files

\* An import that was not asked to overwrite never replaces a file, one request at a time:
\* no table is destroyed without confirmation (table_admin.py, import_new_batch_table).
ImportReplacesNothing ==
  ~disturbed => \A c \in Clients :
     IsAt(c, "write") /\ ~Call(c).overwrite => Call(c).files \cap files = {}
=============================================================================
