---------------------------- MODULE FileBrowser ----------------------------
(***************************************************************************)
(* The file browser of the web interface (web/routes/fs.py) over the       *)
(* project of module Project: requests to create, write, upload, rename,   *)
(* copy and delete a file of the project root, next to the requests that   *)
(* know about tables.  A request of the browser is a check and one         *)
(* operation on a file, with steps of the other clients in between; it     *)
(* never edits table-tool.toml.  Folders are left out.                     *)
(***************************************************************************)
EXTENDS Project

VARIABLE absent    \* files taken away by the browser, and not by their table, or named in
                   \* 'pld batch --add' when they were not there

browserVars == <<vars, absent>>

BrowserInit == Init /\ absent = {}

\* _table_context: the files that may stand for the owner of a table name.  Files are
\* entered before batch tables, a batch table by its first source (the order of sources is
\* left out); if a batch table does not resolve, discovery raises and no name has an owner.
Owners(n) ==
  LET single == {f \in Singles : Stem(f) = n}
  IN IF ~BatchesResolve THEN {}
     ELSE IF single # {} THEN single
     ELSE UNION {b.sources : b \in {k \in cfg.batches : k.name = n}}

\* Mutant: the names of the batch tables are not looked at.
NameFreeAmongFiles(f, movable) ==
  {g \in Singles : Stem(g) = Stem(f)} \subseteq {f} \cup movable

\* _stem_collision finds nothing against file f: its name has no owner, or the owner is f
\* itself or the file that moves.
NameFree(f, movable) ==
  Owners(Stem(f)) = {} \/ Owners(Stem(f)) \cap ({f} \cup movable) # {}

Write(c, f, overwrite) ==
  Request(c, <<[do |-> "write", files |-> {f}, overwrite |-> overwrite]>>)

\* POST /api/fs/create, an empty file
CreateFile(c) == \E f \in File \ files : NameFree(f, {}) /\ Write(c, f, FALSE)

\* PUT /api/fs/write, meant for a file that is open in the editor; nothing is checked
EditContent(c) == \E f \in File : Write(c, f, TRUE)

\* POST /api/fs/upload, one file; several are as many requests, each checked in turn
UploadFile(c) ==
  \E f \in File, overwrite \in BOOLEAN :
    /\ NameFree(f, {})
    /\ overwrite \/ f \notin files
    /\ Write(c, f, overwrite)

\* POST /api/fs/rename
RenameFile(c) ==
  \E f \in files, to \in File \ files :
    /\ NameFree(to, {f})
    /\ Request(c, <<[do |-> "move", from |-> f, to |-> to]>>)

\* POST /api/fs/copy
DuplicateFile(c) ==
  \E f \in files, to \in File \ files :
    /\ NameFree(to, {})
    /\ Request(c, <<[do |-> "copy", from |-> f, to |-> to]>>)

\* POST /api/fs/delete, confirmed
DeleteFile(c) ==
  \E f \in files : Request(c, <<[do |-> "unlink", files |-> {f}]>>)

Browse(c) ==
  \/ /\ CreateFile(c) \/ EditContent(c) \/ UploadFile(c) \/ DuplicateFile(c)
     /\ UNCHANGED absent
  \/ /\ RenameFile(c) \/ DeleteFile(c)
     /\ LET e == job'[c][1]
        IN absent' = absent \cup (IF e.do = "move" THEN {e.from} ELSE e.files)

\* The files that a step names in 'pld batch --add', and that are not there.
Misnamed ==
  {f \in File \ files : \E c \in Clients, n \in Names :
     Idle(c) /\ job'[c] = <<[do |-> "add_batch_table_source", name |-> n, source |-> f]>>}

BrowserNext ==
  \/ Next /\ absent' = absent \cup Misnamed
  \/ \E c \in Clients : Browse(c)

BrowserSpec == BrowserInit /\ [][BrowserNext]_browserVars

-----------------------------------------------------------------------------
(* Properties *)

Quiet == ~disturbed /\ \A c \in Clients : Idle(c)

\* Between requests made one at a time, a [[batch_table]] lists a file that is not there,
\* and so blocks the discovery of the whole project, for one of three reasons only: two batch
\* tables have listed it, the browser has taken it away, or 'pld batch --add', which takes
\* any path, was given it when it was not there.  No import, rename, clone or deletion and
\* no edit of the web interface leaves such a batch table, whatever the project has become.
SourcesExist ==
  Quiet => \A b \in cfg.batches : b.sources \subseteq files \cup shared \cup absent

\* The names that two tables have: two files, two batch tables, or a file and a batch table.
Clashes(fs) ==
  LET single(n) == {f \in fs \ Members(cfg) : Stem(f) = n}
  IN {n \in Names : \/ \E f, g \in single(n) : f # g
                    \/ \E b1, b2 \in BatchesOf(cfg, n) : b1 # b2
                    \/ single(n) # {} /\ BatchesOf(cfg, n) # {}}

\* A source of a batch table is renamed to the name of the batch table.
TakesItsBatchName(e) ==
  e.do = "move" /\ \E b \in BatchesOf(cfg, Stem(e.to)) : e.from \in b.sources

\* "The uniqueness guards still prevent adding MORE conflicts" (fs.py, _table_context): a
\* request that is one operation on a file, alone and not told to overwrite, gives no two
\* tables the same name, also in a project where some have it already.  Not so where a
\* batch table does not resolve, and for a source that takes the name of its batch table.
FilesAddNoClash ==
  [][\A c \in Clients :
       /\ ~disturbed /\ BatchesResolve
       /\ Len(job[c]) = 1 /\ Call(c).do \in {"write", "move", "copy"}
       /\ Call(c).do = "write" => ~Call(c).overwrite
       /\ ~TakesItsBatchName(Call(c))
       => Clashes(files') \subseteq Clashes(files)]_files
=============================================================================
