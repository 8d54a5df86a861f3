--------------------------- MODULE ProjectProofs ---------------------------
(***************************************************************************)
(* For any number of clients, names and files: however their edits of      *)
(* table-tool.toml interleave and wherever a client dies, the file on disk *)
(* never names a cluster that it does not declare.  And until two requests *)
(* overlap or a client dies, a rename or a clone replaces no file, the     *)
(* sources of the batch tables are there, an edit changes no metadata but  *)
(* those of the tables it is about, and the file browser gives no two      *)
(* tables the same name.                                                   *)
(***************************************************************************)
EXTENDS FileBrowser, SequenceTheorems, TLAPS

\* What the edits rely on of a configuration: it is made of records of the right fields.
Shape(k) ==
  /\ k = [clusters |-> k.clusters, batches |-> k.batches, metas |-> k.metas]
  /\ \A m \in k.metas :
       m = [name |-> m.name, cluster |-> m.cluster, tags |-> m.tags, notes |-> m.notes]

Sound(k) == Shape(k) /\ RefsExist(k)

\* The file is sound and so is every copy of it that a client holds: a copy may be out of
\* date, but it was the whole file once.
CopiesAreSound ==
  /\ Sound(cfg)
  /\ DOMAIN seen = Clients
  /\ \A c \in Clients : seen[c] # Unread => Sound(seen[c])

\* A configuration of the right type is made of the right fields.
LEMMA ConfigIsShaped ==
  ASSUME NEW k, IsConfig(k)
  PROVE  Shape(k)
  BY DEF IsConfig, Shape, Meta

\* An edit that changes neither the clusters nor the metadata keeps a configuration sound.
LEMMA OtherBatchesAreSound ==
  ASSUME NEW k, Sound(k), NEW B
  PROVE  Sound([k EXCEPT !.batches = B])
  BY DEF Sound, Shape, RefsExist

\* So does one that drops metadata, or writes entries each sound on its own.
LEMMA OtherMetasAreSound ==
  ASSUME NEW k, Sound(k), NEW M,
         \A m \in M : /\ m = [name |-> m.name, cluster |-> m.cluster,
                              tags |-> m.tags, notes |-> m.notes]
                      /\ m.cluster # NoCluster => m.cluster \in k.clusters
  PROVE  Sound([k EXCEPT !.metas = M])
  BY DEF Sound, Shape, RefsExist

\* The entry an edit works on is one of the configuration, or a blank one.
LEMMA EntryIsSound ==
  ASSUME NEW k, Sound(k), NEW t, NEW m \in EntryFor(k, t)
  PROVE  /\ m = [name |-> m.name, cluster |-> m.cluster, tags |-> m.tags, notes |-> m.notes]
         /\ m.cluster # NoCluster => m.cluster \in k.clusters
  BY DEF EntryFor, MetasOf, Blank, Sound, Shape, RefsExist

\* An entry that is sound on its own may be written in the place of another.
LEMMA WithMetaIsSound ==
  ASSUME NEW k, Sound(k), NEW m, NEW new,
         new = [name |-> new.name, cluster |-> new.cluster,
                tags |-> new.tags, notes |-> new.notes],
         new.cluster # NoCluster => new.cluster \in k.clusters
  PROVE  Sound(WithMeta(k, m, new))
<1> DEFINE M == (k.metas \ {m}) \cup (IF new = Blank(new.name) THEN {} ELSE {new})
<1>1. \A n \in M : /\ n = [name |-> n.name, cluster |-> n.cluster,
                           tags |-> n.tags, notes |-> n.notes]
                   /\ n.cluster # NoCluster => n.cluster \in k.clusters
  BY DEF Sound, Shape, RefsExist
<1>2. Sound([k EXCEPT !.metas = M])
  BY <1>1, OtherMetasAreSound
<1> QED BY <1>2 DEF WithMeta, Shape, Sound

\* What a client saves is sound if what it read was, and the copies of the others stay.
LEMMA SaveIsSound ==
  ASSUME CopiesAreSound, NEW c \in Clients, NEW k, Sound(k), Save(c, k)
  PROVE  CopiesAreSound'
  BY DEF CopiesAreSound, Save, EndEdit, Sound, Shape, RefsExist

\* An edit that writes nothing changes no copy but its own, which it gives up.
LEMMA OtherEndsAreSound ==
  ASSUME CopiesAreSound, NEW c \in Clients, Keep(c) \/ Refuse(c)
  PROVE  CopiesAreSound'
  BY DEF CopiesAreSound, Keep, Refuse, EndEdit, Sound, Shape, RefsExist

\* At the start nobody holds a copy.
LEMMA CopiesAtStart == Init => CopiesAreSound
<1> SUFFICES ASSUME Init PROVE CopiesAreSound
  OBVIOUS
<1>1. Sound(cfg)
  BY StartsAssumption, ConfigIsShaped DEF Init, Sound
<1> QED BY <1>1 DEF Init, CopiesAreSound

\* Every step keeps the file and the copies sound.
LEMMA CopiesKept == CopiesAreSound /\ [Next]_vars => CopiesAreSound'
<1> SUFFICES ASSUME CopiesAreSound, [Next]_vars
             PROVE  CopiesAreSound'
  OBVIOUS
<1>1. CASE UNCHANGED <<cfg, seen>>
  BY <1>1 DEF CopiesAreSound, Sound, Shape, RefsExist
<1>2. CASE Commit
  BY <1>1, <1>2 DEF Commit
<1>3. ASSUME NEW c \in Clients, Ask(c)
      PROVE  CopiesAreSound'
  <2>1. UNCHANGED <<cfg, seen>>
    BY <1>3 DEF Ask, Request, EditMetadata, EditMembers, EditBatch, DropBatchEntry,
       ImportTables, ImportNewBatch, ImportMember, RenameSingle, RenameBatch, CloneSingle,
       CloneBatch, DeleteSingle, DeleteBatch, DeleteMember
  <2> QED BY <2>1, <1>1
<1>4. ASSUME NEW c \in Clients, DoFile(c)
      PROVE  CopiesAreSound'
  <2>1. UNCHANGED <<cfg, seen>>
    BY <1>4 DEF DoFile, WriteFile, UnlinkFile, MoveFile, CopyFile, RenameHistory, OnlyFiles
  <2> QED BY <2>1, <1>1
<1>5. ASSUME NEW c \in Clients, ReadConfig(c)
      PROVE  CopiesAreSound'
  BY <1>5 DEF ReadConfig, CopiesAreSound, Sound, Shape, RefsExist
<1>6. ASSUME NEW c \in Clients, DoEdit(c)
      PROVE  CopiesAreSound'
  <2> DEFINE k == seen[c]  e == Call(c)
  <2>1. Sound(k)
    BY <1>6 DEF DoEdit, HasRead, CopiesAreSound, CreateBatchTable, UpsertBatchTable,
       AddBatchTableSource, RemoveBatchTableSource, RemoveBatchTableEntry, CreateCluster,
       UpdateCluster, DeleteCluster, SetTableCluster, SetTableTags, SetTableMetaFields,
       RemoveTableMetaEntry, RewriteTableName
  <2>2. ASSUME NEW B, Save(c, [k EXCEPT !.batches = B])
        PROVE  CopiesAreSound'
    BY <2>1, <2>2, OtherBatchesAreSound, SaveIsSound
  <2>3. CASE CreateBatchTable(c)
    BY <2>3, <2>2, OtherEndsAreSound DEF CreateBatchTable
  <2>4. CASE UpsertBatchTable(c)
    BY <2>4, <2>2, OtherEndsAreSound DEF UpsertBatchTable
  <2>5. CASE AddBatchTableSource(c)
    BY <2>5, <2>2, OtherEndsAreSound DEF AddBatchTableSource
  <2>6. CASE RemoveBatchTableSource(c)
    BY <2>6, <2>2, OtherEndsAreSound DEF RemoveBatchTableSource
  <2>7. CASE RemoveBatchTableEntry(c)
    BY <2>7, <2>2, OtherEndsAreSound DEF RemoveBatchTableEntry
  <2>8. CASE CreateCluster(c)
    <3> DEFINE new == [k EXCEPT !.clusters = @ \cup {e.name}]
    <3>1. Sound(new)
      BY <2>1 DEF Sound, Shape, RefsExist
    <3>2. Refuse(c) \/ Save(c, new)
      BY <2>8 DEF CreateCluster
    <3> QED BY <3>1, <3>2, SaveIsSound, OtherEndsAreSound
  <2>9. CASE UpdateCluster(c)
    BY <2>9, <2>1, SaveIsSound, OtherEndsAreSound DEF UpdateCluster
  <2>10. CASE DeleteCluster(c)
    <3> DEFINE in == {m \in k.metas : m.cluster = e.name}
               left == {[m EXCEPT !.cluster = NoCluster] : m \in {i \in in : i.tags}}
               new == [clusters |-> k.clusters \ {e.name}, batches |-> k.batches,
                       metas |-> (k.metas \ in) \cup left]
    <3>1. \A m \in k.metas \ in : m.cluster # NoCluster => m.cluster \in k.clusters \ {e.name}
      BY <2>1 DEF Sound, RefsExist
    <3>2. \A m \in left : /\ m.cluster = NoCluster
                          /\ m = [name |-> m.name, cluster |-> m.cluster,
                                  tags |-> m.tags, notes |-> m.notes]
      BY <2>1 DEF Sound, Shape
    <3>3. Sound(new)
      BY <2>1, <3>1, <3>2 DEF Sound, Shape, RefsExist
    <3>4. Keep(c) \/ Refuse(c) \/ Save(c, new)
      BY <2>10 DEF DeleteCluster
    <3> QED BY <3>3, <3>4, SaveIsSound, OtherEndsAreSound
  <2>11. CASE SetTableCluster(c)
    <3>1. CASE e.cluster \notin k.clusters \cup {NoCluster}
      BY <2>11, <3>1, OtherEndsAreSound DEF SetTableCluster
    <3>2. CASE e.cluster \in k.clusters \cup {NoCluster}
      <4>1. PICK m \in EntryFor(k, e.table) :
                   Save(c, WithMeta(k, m, [m EXCEPT !.cluster = e.cluster]))
        BY <2>11, <3>2 DEF SetTableCluster
      <4> DEFINE new == [m EXCEPT !.cluster = e.cluster]
      <4>2. /\ new = [name |-> new.name, cluster |-> new.cluster,
                      tags |-> new.tags, notes |-> new.notes]
            /\ new.cluster # NoCluster => new.cluster \in k.clusters
        BY <2>1, <3>2, EntryIsSound
      <4>3. Sound(WithMeta(k, m, new))
        BY <2>1, <4>2, WithMetaIsSound
      <4> QED BY <4>1, <4>3, SaveIsSound
    <3> QED BY <3>1, <3>2
  <2>12. CASE SetTableTags(c)
    <3>1. PICK m \in EntryFor(k, e.table) :
                 Save(c, WithMeta(k, m, [m EXCEPT !.tags = e.tags]))
      BY <2>12 DEF SetTableTags
    <3> DEFINE new == [m EXCEPT !.tags = e.tags]
    <3>2. /\ new = [name |-> new.name, cluster |-> new.cluster,
                    tags |-> new.tags, notes |-> new.notes]
          /\ new.cluster # NoCluster => new.cluster \in k.clusters
      BY <2>1, EntryIsSound
    <3>3. Sound(WithMeta(k, m, new))
      BY <2>1, <3>2, WithMetaIsSound
    <3> QED BY <3>1, <3>3, SaveIsSound
  <2>13. CASE SetTableMetaFields(c)
    <3>1. PICK m \in EntryFor(k, e.table) :
                 Save(c, WithMeta(k, m, [m EXCEPT !.notes = e.notes]))
      BY <2>13 DEF SetTableMetaFields
    <3> DEFINE new == [m EXCEPT !.notes = e.notes]
    <3>2. /\ new = [name |-> new.name, cluster |-> new.cluster,
                    tags |-> new.tags, notes |-> new.notes]
          /\ new.cluster # NoCluster => new.cluster \in k.clusters
      BY <2>1, EntryIsSound
    <3>3. Sound(WithMeta(k, m, new))
      BY <2>1, <3>2, WithMetaIsSound
    <3> QED BY <3>1, <3>3, SaveIsSound
  <2>14. CASE RemoveTableMetaEntry(c)
    <3> DEFINE rest == k.metas \ MetasOf(k, e.name)
    <3>1. \A m \in rest : /\ m = [name |-> m.name, cluster |-> m.cluster,
                                  tags |-> m.tags, notes |-> m.notes]
                          /\ m.cluster # NoCluster => m.cluster \in k.clusters
      BY <2>1 DEF Sound, Shape, RefsExist
    <3>2. Keep(c) \/ Save(c, [k EXCEPT !.metas = rest])
      BY <2>14 DEF RemoveTableMetaEntry
    <3> HIDE DEF rest
    <3>3. Sound([k EXCEPT !.metas = rest])
      BY <2>1, <3>1, OtherMetasAreSound
    <3> QED BY <3>2, <3>3, SaveIsSound, OtherEndsAreSound
  <2>15. CASE RewriteTableName(c)
    <3> DEFINE M == Renamed(k.metas, e.old, e.new)
               B == Renamed(k.batches, e.old, e.new)
    <3>1. \A m \in M : /\ m = [name |-> m.name, cluster |-> m.cluster,
                               tags |-> m.tags, notes |-> m.notes]
                       /\ m.cluster # NoCluster => m.cluster \in k.clusters
      BY <2>1 DEF Renamed, Sound, Shape, RefsExist
    <3> DEFINE new == [clusters |-> k.clusters, batches |-> B, metas |-> M]
    <3>2. Sound(new)
      BY <3>1 DEF Sound, Shape, RefsExist
    <3>3. Save(c, new)
      BY <2>15 DEF RewriteTableName
    <3> QED BY <3>2, <3>3, SaveIsSound
  <2> QED BY <1>6, <2>3, <2>4, <2>5, <2>6, <2>7, <2>8, <2>9, <2>10, <2>11, <2>12, <2>13,
             <2>14, <2>15 DEF DoEdit
<1>7. ASSUME NEW c \in Clients, Crash(c)
      PROVE  CopiesAreSound'
  BY <1>7 DEF Crash, CopiesAreSound, Sound, Shape, RefsExist
<1> QED BY <1>1, <1>2, <1>3, <1>4, <1>5, <1>6, <1>7 DEF Next, vars

\* Every copy of table-tool.toml, on disk or in the hands of a client, is sound: an edit
\* checks the cluster it names in the copy it then writes back.
THEOREM CopiesStaySound == Spec => []CopiesAreSound
  BY CopiesAtStart, CopiesKept, PTL DEF Spec

\* config.py: set_table_cluster checks that the cluster exists and delete_cluster clears the
\* entries that name it, so no [[table_meta]] entry names a cluster that is not there.
THEOREM ClustersStayDefined == Spec => []ClusterRefsExist
<1>1. CopiesAreSound => ClusterRefsExist
  BY DEF CopiesAreSound, Sound, ClusterRefsExist
<1> QED BY <1>1, CopiesStaySound, PTL

\* The same with the requests of the file browser, which edit no configuration.
THEOREM ClustersStayDefinedInBrowser == BrowserSpec => []ClusterRefsExist
<1>1. BrowserInit => CopiesAreSound
  BY CopiesAtStart DEF BrowserInit
<1>2. CopiesAreSound /\ [BrowserNext]_browserVars => CopiesAreSound'
  <2> SUFFICES ASSUME CopiesAreSound, [BrowserNext]_browserVars
               PROVE  CopiesAreSound'
    OBVIOUS
  <2>1. CASE [Next]_vars
    BY <2>1, CopiesKept
  <2>2. ASSUME NEW c \in Clients, Browse(c) PROVE UNCHANGED <<cfg, seen>>
    BY <2>2 DEF Browse, CreateFile, EditContent, UploadFile, RenameFile, DuplicateFile,
       DeleteFile, Write, Request
  <2>3. CASE UNCHANGED <<cfg, seen>>
    BY <2>3 DEF CopiesAreSound, Sound, Shape, RefsExist
  <2>4. QED  BY <2>1, <2>2, <2>3 DEF BrowserNext, browserVars, vars
<1>3. CopiesAreSound => ClusterRefsExist
  BY DEF CopiesAreSound, Sound, ClusterRefsExist
<1>4. QED  BY <1>1, <1>2, <1>3, PTL DEF BrowserSpec

-----------------------------------------------------------------------------
(* One request at a time.                                                  *)

Calls == FileCall \cup Edit
Creates == {"move", "copy"}
OnFiles == {"write", "unlink"} \cup Creates
OnBatches == {"create_batch_table", "upsert_batch_table", "add_batch_table_source",
              "remove_batch_table_source", "remove_batch_table_entry"}

Without(calls, what) == \A i \in DOMAIN calls : calls[i].do \notin what

\* A job begins with what it does to files; an edit of a batch table comes next, if it is
\* about the files that were written or deleted.
InOrder(calls) ==
  \A i \in DOMAIN calls :
    /\ i # 1 => calls[i].do \notin OnFiles
    /\ calls[i].do \in OnBatches => i = 1 \/ (i = 2 /\ calls[1].do \in {"write", "unlink"})

\* What holds until two requests overlap or a client dies: one client at most is at work,
\* and the copy it edits is the file as it is.
Alone ==
  ~disturbed =>
    /\ files \subseteq File /\ IsConfig(cfg)
    /\ job \in [Clients -> Seq(Calls)]
    /\ DOMAIN seen = Clients
    /\ \A c, d \in Clients : ~Idle(c) /\ ~Idle(d) => c = d
    /\ \A c \in Clients : seen[c] # Unread => seen[c] = cfg /\ ~Idle(c) /\ Call(c) \in Edit
    /\ \A c \in Clients : InOrder(job[c])
    /\ RenameReplacesNothing

\* An edit is told from an operation on a file by what it does.
LEMMA EditsAreNoFileCalls ==
  \A e \in Edit : e.do \notin OnFiles \cup {"rename_history"}
BY DEF Edit, TableEdit, ClusterEdit, MemberEdit, BatchEdit, OtherEdit, OnFiles, Creates

\* An operation on a file by what it does.
LEMMA FileCallKinds ==
  ASSUME NEW e \in FileCall
  PROVE  /\ e.do \in OnFiles \cup {"rename_history"} /\ e.do \notin OnBatches
         /\ e.do = "write" => e \in [do : {"write"}, files : SUBSET File, overwrite : BOOLEAN]
         /\ e.do = "unlink" => e \in [do : {"unlink"}, files : SUBSET File]
         /\ e.do \in Creates => e \in [do : {"move", "copy"}, from : File, to : File]
BY DEF FileCall, Creates, OnFiles, OnBatches

\* An edit by what it does.
LEMMA EditKinds ==
  ASSUME NEW e \in Edit
  PROVE  /\ e.do = "set_table_cluster" => e \in [do : {"set_table_cluster"}, table : Names,
                                                 cluster : Names \cup {NoCluster}]
         /\ e.do = "set_table_tags" => e \in [do : {"set_table_tags"}, table : Names,
                                              tags : BOOLEAN]
         /\ e.do = "set_table_meta_fields" => e \in [do : {"set_table_meta_fields"},
                                                     table : Names, notes : BOOLEAN]
         /\ e.do \in {"create_cluster", "update_cluster"} =>
               e \in [do : {"create_cluster", "update_cluster"}, name : Names]
         /\ e.do = "delete_cluster" => e \in [do : {"delete_cluster"}, name : Names,
                                              force : BOOLEAN]
         /\ e.do \in {"add_batch_table_source", "remove_batch_table_source"} => e \in MemberEdit
         /\ e.do \in {"create_batch_table", "upsert_batch_table"} => e \in BatchEdit
         /\ e.do \in {"remove_batch_table_entry", "remove_table_meta_entry"} =>
               e \in [do : {"remove_batch_table_entry", "remove_table_meta_entry"}, name : Names]
         /\ e.do = "rewrite_table_name" => e \in [do : {"rewrite_table_name"}, old : Names,
                                                  new : Names]
BY DEF Edit, TableEdit, ClusterEdit, MemberEdit, BatchEdit, OtherEdit

\* A job is of one call, or of one and the rest.
LEMMA OneCall ==
  ASSUME NEW e \in Calls
  PROVE  /\ <<e>> \in Seq(Calls) /\ <<e>> # <<>> /\ <<e>>[1] = e
         /\ Len(<<e>>) = 1 /\ DOMAIN <<e>> = {1}
         /\ InOrder(<<e>>)
         /\ \A what : e.do \notin what => Without(<<e>>, what)
BY DEF InOrder, Without

\* Of one and the rest, when nothing else is on files.
LEMMA FirstAndRest ==
  ASSUME NEW e \in Calls, NEW rest \in Seq(Calls), Without(rest, OnFiles),
         \A i \in DOMAIN rest : rest[i].do \in OnBatches => i = 1 /\ e.do \in {"write", "unlink"}
  PROVE  /\ <<e>> \o rest \in Seq(Calls) /\ <<e>> \o rest # <<>> /\ (<<e>> \o rest)[1] = e
         /\ DOMAIN (<<e>> \o rest) = 1..(Len(rest) + 1)
         /\ \A i \in DOMAIN rest : (<<e>> \o rest)[i + 1] = rest[i]
         /\ \A i \in DOMAIN (<<e>> \o rest) : i # 1 =>
               i - 1 \in DOMAIN rest /\ (<<e>> \o rest)[i] = rest[i - 1]
         /\ InOrder(<<e>> \o rest)
<1> DEFINE j == <<e>> \o rest
<1>1. /\ j \in Seq(Calls) /\ Len(j) = Len(rest) + 1 /\ j[1] = e /\ Len(rest) \in Nat
      /\ \A i \in DOMAIN rest : j[i + 1] = rest[i]
      /\ \A i \in 1..Len(j) : i # 1 => j[i] = rest[i - 1] /\ i - 1 \in DOMAIN rest
  OBVIOUS
<1>2. DOMAIN j = 1..Len(j) /\ j # <<>>
  BY <1>1
<1> HIDE DEF j
<1>3. InOrder(j)
  BY <1>1, <1>2 DEF InOrder, Without
<1>5. QED  BY <1>1, <1>2, <1>3 DEF j

\* What is left of a job, when its first call is done or when one of its files is.
LEMMA RestOfJob ==
  ASSUME NEW j \in Seq(Calls), j # <<>>, InOrder(j)
  PROVE  /\ Tail(j) \in Seq(Calls) /\ Head(j) \in Calls /\ Head(j) = j[1] /\ 1 \in DOMAIN j
         /\ InOrder(Tail(j)) /\ Without(Tail(j), OnFiles)
         /\ Head(j).do \notin {"write", "unlink"} => Without(Tail(j), OnBatches)
         /\ \A i \in DOMAIN Tail(j) : i + 1 \in DOMAIN j /\ Tail(j)[i] = j[i + 1]
         /\ \A i \in DOMAIN j : i = 1 \/ (i - 1 \in DOMAIN Tail(j) /\ Tail(j)[i - 1] = j[i])
         /\ \A i \in DOMAIN Tail(j) : Tail(j)[i].do \in OnBatches =>
               i = 1 /\ Head(j).do \in {"write", "unlink"}
<1>1. /\ Tail(j) \in Seq(Calls) /\ Head(j) \in Calls /\ Head(j) = j[1] /\ 1 \in DOMAIN j
      /\ DOMAIN j = 1..Len(j) /\ DOMAIN Tail(j) = 1..(Len(j) - 1) /\ Len(j) \in Nat
      /\ \A i \in DOMAIN Tail(j) : Tail(j)[i] = j[i + 1]
  OBVIOUS
<1>2. /\ \A i \in DOMAIN Tail(j) : i + 1 \in DOMAIN j /\ i + 1 # 1 /\ (i + 1 = 2 => i = 1)
      /\ \A i \in DOMAIN j : i = 1 \/ (i - 1 \in DOMAIN Tail(j) /\ Tail(j)[i - 1] = j[i])
  BY <1>1
<1>3. \A i \in DOMAIN Tail(j) :
        /\ Tail(j)[i].do \notin OnFiles
        /\ Tail(j)[i].do \in OnBatches => i = 1 /\ Head(j).do \in {"write", "unlink"}
  BY <1>1, <1>2 DEF InOrder
<1>4. QED  BY <1>1, <1>2, <1>3 DEF InOrder, Without

\* A request that is alone finds nobody at work.
LEMMA AloneRequest ==
  ASSUME Alone, NEW c \in Clients, NEW calls \in Seq(Calls), Request(c, calls),
         InOrder(calls), calls[1].do \in Creates => calls[1].to \notin files
  PROVE  Alone'
<1> SUFFICES ASSUME ~disturbed' PROVE Alone'
  BY DEF Alone
<1>1. /\ ~disturbed /\ \A d \in Clients : Idle(d)
      /\ job' = [job EXCEPT ![c] = calls] /\ UNCHANGED <<files, cfg, seen>>
  BY DEF Request
<1>2. /\ job' \in [Clients -> Seq(Calls)] /\ job'[c] = calls
      /\ \A d \in Clients \ {c} : job'[d] = <<>>
  BY <1>1 DEF Alone, Idle
<1>3. RenameReplacesNothing'
  BY <1>1, <1>2 DEF RenameReplacesNothing, Idle, Call, Creates
<1>4. \A d \in Clients : InOrder(job[d])'
  BY <1>1, <1>2 DEF Alone, InOrder
<1>5. \A d \in Clients : seen'[d] = Unread
  BY <1>1 DEF Alone
<1>6. QED  BY <1>1, <1>2, <1>3, <1>4, <1>5 DEF Alone, Idle

\* A call of the client at work, when what is left of its job creates nothing.
LEMMA AloneCall ==
  ASSUME Alone, NEW c \in Clients, ~Idle(c), disturbed' = disturbed,
         NEW j, ~disturbed => j \in Seq(Calls) /\ InOrder(j) /\ Without(j, Creates),
         job' = [job EXCEPT ![c] = j],
         ~disturbed => files' \subseteq File /\ IsConfig(cfg)',
         DOMAIN seen' = DOMAIN seen, ~disturbed => seen'[c] = Unread,
         \A d \in Clients \ {c} : seen'[d] = seen[d]
  PROVE  Alone'
<1> SUFFICES ASSUME ~disturbed' PROVE Alone'
  BY DEF Alone
<1>1. /\ ~disturbed /\ \A d \in Clients \ {c} : Idle(d) /\ seen[d] = Unread
  BY DEF Alone
<1>2. /\ job' \in [Clients -> Seq(Calls)] /\ job'[c] = j
      /\ \A d \in Clients \ {c} : job'[d] = <<>>
  BY <1>1 DEF Alone, Idle
<1>3. j # <<>> => Head(j) = j[1] /\ 1 \in DOMAIN j
  BY <1>1
<1>4. RenameReplacesNothing'
  BY <1>1, <1>2, <1>3 DEF RenameReplacesNothing, Idle, Call, Without, Creates
<1>5. \A d \in Clients : InOrder(job[d])'
  BY <1>1, <1>2 DEF InOrder
<1>6. \A d \in Clients : seen'[d] = Unread
  BY <1>1
<1>7. QED  BY <1>1, <1>2, <1>4, <1>5, <1>6 DEF Alone, Idle

-----------------------------------------------------------------------------
(* The files of the batch tables.                                          *)

\* The call e takes file f out of batch table b, or b out of the configuration.
Clears(e, b, f) ==
  \/ e.do = "remove_batch_table_entry" /\ e.name = b.name
  \/ /\ e.do = "remove_batch_table_source" /\ e.name = b.name /\ e.source = f
     /\ b.sources # {f} /\ BatchesOf(cfg, b.name) = {b}

Cleared(calls, b, f) == \E i \in DOMAIN calls : Clears(calls[i], b, f)

\* The files that a job has to write, and those that a call enters in a batch table.
Written(calls) ==
  IF calls # <<>> /\ calls[1].do = "write" THEN calls[1].files ELSE {}

Entered(e) == IF e.do = "add_batch_table_source" THEN {e.source}
              ELSE IF e.do \in {"create_batch_table", "upsert_batch_table"} THEN e.sources
              ELSE {}

\* The files that a call takes away.
Taken(e) == IF e.do = "unlink" THEN e.files ELSE IF e.do = "move" THEN {e.from} ELSE {}

\* A job enters the files that are there, that it writes, or that the user has named in
\* 'pld batch --add' all the same; what it takes away is there,
\* and no batch table keeps it but those of the exceptions of SourcesExist.
SafeJob(calls, gone) ==
  \A i \in DOMAIN calls :
    /\ Entered(calls[i]) \subseteq files \cup Written(calls) \cup gone
    /\ calls[1].do = "unlink" => Entered(calls[i]) = {}
    /\ Taken(calls[i]) \subseteq files
    /\ \A b \in cfg.batches : \A f \in b.sources \cap Taken(calls[i]) :
         f \in shared \cup gone \/ Cleared(calls, b, f)

Sourced ==
  ~disturbed =>
    /\ \A b1, b2 \in cfg.batches : b1 # b2 => b1.sources \cap b2.sources \subseteq shared
    /\ \A c \in Clients : SafeJob(job[c], absent)
    /\ \A b \in cfg.batches : \A f \in b.sources :
         f \in files \cup shared \cup absent \/ \E c \in Clients : Cleared(job[c], b, f)

\* The job of a request, as it is made.
GoodJob(calls, gone) ==
  /\ calls \in Seq(Calls) /\ calls # <<>> /\ InOrder(calls) /\ SafeJob(calls, gone)
  /\ calls[1].do \in Creates => calls[1].to \notin files

\* A job of one call that takes nothing away, or of one that the rest has nothing to do with.
LEMMA GoodOne ==
  ASSUME NEW e \in Calls, NEW gone,
         Entered(e) \subseteq files \cup gone, Taken(e) \subseteq files,
         Taken(e) \cap Members(cfg) \subseteq gone,
         e.do \in Creates => e.to \notin files
  PROVE  GoodJob(<<e>>, gone)
<1>1. SafeJob(<<e>>, gone)
  BY OneCall DEF SafeJob, Members, Entered
<1>2. QED  BY <1>1, OneCall DEF GoodJob

\* The same, followed by calls on neither files nor batch tables.
LEMMA GoodMore ==
  ASSUME NEW e \in Calls, NEW rest \in Seq(Calls), NEW gone,
         Without(rest, OnFiles \cup OnBatches),
         Entered(e) \subseteq files, Taken(e) \subseteq files,
         Taken(e) \cap Members(cfg) \subseteq gone,
         e.do \in Creates => e.to \notin files
  PROVE  GoodJob(<<e>> \o rest, gone)
<1> DEFINE j == <<e>> \o rest
<1>1. /\ j \in Seq(Calls) /\ j # <<>> /\ j[1] = e /\ InOrder(j)
      /\ \A i \in DOMAIN j : i # 1 => i - 1 \in DOMAIN rest /\ j[i] = rest[i - 1]
  BY FirstAndRest DEF Without
<1> HIDE DEF j
<1>2. \A i \in DOMAIN j : i # 1 => Entered(j[i]) = {} /\ Taken(j[i]) = {}
  BY <1>1 DEF Without, Entered, Taken, OnFiles, OnBatches, Creates
<1>3. SafeJob(j, gone)
  <2>1. e.do = "unlink" => Entered(e) = {}
    BY DEF Entered
  <2>2. QED  BY <1>1, <1>2, <2>1 DEF SafeJob, Members
<1>4. QED  BY <1>1, <1>3 DEF GoodJob, j

\* The two calls at the end of the deletion of a whole batch table.
LEMMA RemovalCalls ==
  ASSUME NEW n \in Names
  PROVE  /\ RemoveEntries(n) \in Seq(Calls) /\ Len(RemoveEntries(n)) = 2
         /\ DOMAIN RemoveEntries(n) = 1..2
         /\ RemoveEntries(n)[1] = [do |-> "remove_batch_table_entry", name |-> n]
         /\ RemoveEntries(n)[2] = [do |-> "remove_table_meta_entry", name |-> n]
<1>1. /\ [do |-> "remove_batch_table_entry", name |-> n] \in Calls
      /\ [do |-> "remove_table_meta_entry", name |-> n] \in Calls
  BY DEF Calls, Edit, OtherEdit
<1>2. QED  BY <1>1 DEF RemoveEntries

\* A deletion: the files go first, then the entry, or what it says of the file.
LEMMA GoodDeletion ==
  ASSUME NEW gone, NEW b \in cfg.batches, NEW F \in SUBSET File, F \subseteq b.sources,
         F \subseteq files, NEW rest \in Seq(Calls), rest # <<>>, Without(rest, OnFiles),
         \A i \in DOMAIN rest : i # 1 => rest[i].do \notin OnBatches,
         \A i \in DOMAIN rest : Entered(rest[i]) = {},
         \A f \in F : Clears(rest[1], b, f),
         \A b1, b2 \in cfg.batches : b1 # b2 => b1.sources \cap b2.sources \subseteq shared
  PROVE  GoodJob(<<[do |-> "unlink", files |-> F]>> \o rest, gone)
<1>1. PICK e : e = [do |-> "unlink", files |-> F]
  OBVIOUS
<1>2. /\ e \in Calls /\ e.do = "unlink" /\ Taken(e) = F /\ Entered(e) = {}
      /\ e.do \notin Creates
  BY <1>1 DEF Calls, FileCall, Taken, Entered, Creates
<1> DEFINE j == <<e>> \o rest
<1>3. /\ j \in Seq(Calls) /\ j # <<>> /\ j[1] = e /\ InOrder(j)
      /\ DOMAIN j = 1..(Len(rest) + 1)
      /\ \A i \in DOMAIN rest : j[i + 1] = rest[i]
      /\ \A i \in DOMAIN j : i # 1 => i - 1 \in DOMAIN rest /\ j[i] = rest[i - 1]
  BY <1>2, FirstAndRest
<1>4. 1 \in DOMAIN rest /\ 2 \in DOMAIN j /\ j[2] = rest[1]
  BY <1>3
<1> HIDE DEF j
<1>5. \A i \in DOMAIN j : /\ Entered(j[i]) = {}
                          /\ i # 1 => Taken(j[i]) = {}
  BY <1>2, <1>3 DEF Without, Taken, OnFiles, Creates
<1>6. \A a \in cfg.batches : \A f \in a.sources \cap F : f \in shared \/ Cleared(j, a, f)
  <2>1. ASSUME NEW a \in cfg.batches, NEW f \in a.sources \cap F
        PROVE  f \in shared \/ Cleared(j, a, f)
    <3>1. CASE a = b
      BY <1>4, <2>1, <3>1 DEF Cleared
    <3>2. CASE a # b
      BY <2>1, <3>2
    <3>3. QED  BY <3>1, <3>2
  <2>2. QED  BY <2>1
<1>7. SafeJob(j, gone)
  BY <1>2, <1>3, <1>5, <1>6 DEF SafeJob
<1>8. GoodJob(j, gone)
  BY <1>2, <1>3, <1>7 DEF GoodJob
<1>9. QED  BY <1>1, <1>8 DEF j

\* An import that goes on to enter its files in a batch table.
LEMMA GoodImport ==
  ASSUME NEW gone, NEW S \in SUBSET File, NEW overwrite \in BOOLEAN, NEW d \in Calls,
         d.do \in OnBatches, Entered(d) \subseteq files \cup S, Taken(d) = {}
  PROVE  GoodJob(<<[do |-> "write", files |-> S, overwrite |-> overwrite], d>>, gone)
<1>1. PICK e : e = [do |-> "write", files |-> S, overwrite |-> overwrite]
  OBVIOUS
<1>2. /\ e \in Calls /\ e.do = "write" /\ e.files = S /\ Taken(e) = {} /\ Entered(e) = {}
      /\ e.do \notin Creates /\ d.do \notin OnFiles
  BY <1>1 DEF Calls, FileCall, Taken, Entered, Creates, OnFiles, OnBatches
<1> DEFINE j == <<e, d>>
<1>3. /\ j \in Seq(Calls) /\ j # <<>> /\ j[1] = e /\ j[2] = d /\ DOMAIN j = 1..2
  BY <1>2
<1> HIDE DEF j
<1>4. InOrder(j) /\ S \subseteq Written(j)
  BY <1>2, <1>3 DEF InOrder, Written
<1>5. \A i \in DOMAIN j : Taken(j[i]) = {} /\ Entered(j[i]) \subseteq files \cup Written(j)
  <2>1. \A i \in DOMAIN j : j[i] = e \/ j[i] = d
    BY <1>3
  <2>2. QED  BY <1>2, <1>4, <2>1
<1>6. SafeJob(j, gone)
  BY <1>2, <1>3, <1>5 DEF SafeJob
<1>7. GoodJob(j, gone)
  BY <1>2, <1>3, <1>4, <1>6 DEF GoodJob
<1>8. QED  BY <1>1, <1>7 DEF j

\* The calls of the requests that know about tables.
LEMMA CallTypes ==
  ASSUME IsConfig(cfg), files \subseteq File
  PROVE  /\ \A e \in Edit : e \in Calls /\ Taken(e) = {} /\ e.do \notin Creates
         /\ \A S \in SUBSET File, o \in BOOLEAN :
              LET e == [do |-> "write", files |-> S, overwrite |-> o]
              IN e \in Calls /\ Entered(e) = {} /\ Taken(e) = {} /\ e.do \notin Creates
         /\ \A f, g \in File :
              LET e == [do |-> "copy", from |-> f, to |-> g]
              IN e \in Calls /\ Entered(e) = {} /\ Taken(e) = {} /\ e.to = g
         /\ \A f, g \in File :
              LET e == [do |-> "move", from |-> f, to |-> g]
              IN e \in Calls /\ Entered(e) = {} /\ Taken(e) = {f} /\ e.to = g
         /\ \A S \in SUBSET File :
              LET e == [do |-> "unlink", files |-> S]
              IN e \in Calls /\ Entered(e) = {} /\ Taken(e) = S /\ e.do \notin Creates
         /\ \A b \in cfg.batches : b.name \in Names /\ b.sources \in (SUBSET File) \ {{}}
         /\ \A f \in files : Stem(f) \in Names /\ f[2] \in Exts
         /\ \A n \in Names, x \in Exts : <<n, x>> \in File /\ Stem(<<n, x>>) = n
<1>1. \A e \in Edit : e \in Calls /\ Taken(e) = {} /\ e.do \notin Creates
  BY EditsAreNoFileCalls DEF Calls, Taken, OnFiles, Creates
<1>2. /\ \A b \in cfg.batches : b.name \in Names /\ b.sources \in (SUBSET File) \ {{}}
      /\ \A f \in files : Stem(f) \in Names /\ f[2] \in Exts
      /\ \A n \in Names, x \in Exts : <<n, x>> \in File /\ Stem(<<n, x>>) = n
  BY DEF IsConfig, Batch, File, Stem
<1>3. \A S \in SUBSET File, o \in BOOLEAN :
        LET e == [do |-> "write", files |-> S, overwrite |-> o]
        IN e \in Calls /\ Entered(e) = {} /\ Taken(e) = {} /\ e.do \notin Creates
  BY DEF Calls, FileCall, Entered, Taken, Creates
<1>4. \A f, g \in File :
        LET e == [do |-> "copy", from |-> f, to |-> g]
        IN e \in Calls /\ Entered(e) = {} /\ Taken(e) = {} /\ e.to = g
  BY DEF Calls, FileCall, Entered, Taken
<1>5. \A f, g \in File :
        LET e == [do |-> "move", from |-> f, to |-> g]
        IN e \in Calls /\ Entered(e) = {} /\ Taken(e) = {f} /\ e.to = g
  BY DEF Calls, FileCall, Entered, Taken
<1>6. \A S \in SUBSET File :
        LET e == [do |-> "unlink", files |-> S]
        IN e \in Calls /\ Entered(e) = {} /\ Taken(e) = S /\ e.do \notin Creates
  BY DEF Calls, FileCall, Entered, Taken, Creates
<1>7. QED  BY <1>1, <1>2, <1>3, <1>4, <1>5, <1>6

\* Two jobs of one call make a job of two.
LEMMA PairOfCalls ==
  ASSUME NEW d \in Calls, NEW e \in Calls
  PROVE  <<d>> \o <<e>> = <<d, e>>
<1>1. <<d>> \in Seq(Calls) /\ <<e>> \in Seq(Calls) /\ <<d, e>> \in Seq(Calls)
  OBVIOUS
<1>2. /\ <<d>> \o <<e>> \in Seq(Calls)
      /\ Len(<<d>> \o <<e>>) = 2 /\ Len(<<d, e>>) = 2
      /\ (<<d>> \o <<e>>)[1] = d /\ (<<d>> \o <<e>>)[2] = e
  BY <1>1
<1>3. \A i \in 1..2 : (<<d>> \o <<e>>)[i] = <<d, e>>[i]
  BY <1>2
<1>4. QED  BY <1>1, <1>2, <1>3, SeqEqual

\* The calls that copy the metadata of a table onto its clone.
LEMMA CloneCalls ==
  ASSUME IsConfig(cfg), NEW old, NEW new \in Names
  PROVE  /\ CloneMeta(old, new) \in Seq(Calls)
         /\ Without(CloneMeta(old, new), OnFiles \cup OnBatches)
<1>1. CASE ~MetasResolve \/ MetasOf(cfg, old) = {}
  BY <1>1 DEF CloneMeta, Without
<1>2. CASE MetasResolve /\ MetasOf(cfg, old) # {}
  <2>1. PICK m : m = CHOOSE i \in MetasOf(cfg, old) : TRUE
    OBVIOUS
  <2>2. m \in cfg.metas /\ m.tags \in BOOLEAN /\ m.cluster \in Names \cup {NoCluster}
    BY <1>2, <2>1 DEF MetasOf, IsConfig, Meta
  <2>3. PICK d1 : d1 = [do |-> "set_table_tags", table |-> new, tags |-> m.tags]
    OBVIOUS
  <2>4. PICK d2 : d2 = [do |-> "set_table_cluster", table |-> new, cluster |-> m.cluster]
    OBVIOUS
  <2>5. /\ d1 \in Calls /\ d2 \in Calls
        /\ d1.do \notin OnFiles \cup OnBatches /\ d2.do \notin OnFiles \cup OnBatches
    BY <2>2, <2>3, <2>4 DEF Calls, Edit, TableEdit, OnFiles, OnBatches, Creates
  <2>6. CASE m.cluster = NoCluster
    <3>1. CloneMeta(old, new) = <<d1>> \o <<>>
      BY <1>2, <2>1, <2>3, <2>6 DEF CloneMeta
    <3>2. <<d1>> \o <<>> = <<d1>>
      BY <2>5, OneCall, ConcatEmptySeq
    <3>3. QED  BY <2>5, <3>1, <3>2, OneCall
  <2>7. CASE m.cluster # NoCluster
    <3>1. CloneMeta(old, new) = <<d1>> \o <<d2>>
      BY <1>2, <2>1, <2>3, <2>4, <2>7 DEF CloneMeta
    <3>2. <<d1>> \o <<d2>> = <<d1, d2>>
      BY <2>5, PairOfCalls
    <3>3. /\ <<d1, d2>> \in Seq(Calls)
          /\ \A i \in DOMAIN <<d1, d2>> : <<d1, d2>>[i] \in {d1, d2}
      BY <2>5
    <3>4. QED  BY <2>5, <3>1, <3>2, <3>3 DEF Without
  <2>8. QED  BY <2>6, <2>7
<1>3. QED  BY <1>1, <1>2

\* Every request that knows about tables, made while nobody is at work, is a good job.
LEMMA AskedJob ==
  ASSUME Alone, Sourced, NEW c \in Clients, Ask(c), ~disturbed', absent' = absent \cup Misnamed
  PROVE  \E calls : Request(c, calls) /\ GoodJob(calls, absent')
<1>1. /\ ~disturbed /\ IsConfig(cfg) /\ files \subseteq File
      /\ \A b1, b2 \in cfg.batches : b1 # b2 => b1.sources \cap b2.sources \subseteq shared
  <2>1. ~disturbed
    BY DEF Ask, Request, EditMetadata, EditMembers, EditBatch, DropBatchEntry,
       ImportTables, ImportNewBatch, ImportMember, RenameSingle, RenameBatch, CloneSingle,
       CloneBatch, DeleteSingle, DeleteBatch, DeleteMember
  <2>2. QED  BY <2>1 DEF Alone, Sourced
<1>2. \A f \in Singles : f \in files /\ f \notin Members(cfg)
  BY DEF Singles
<1>3. CASE EditMetadata(c)
  <2>1. PICK e \in TableEdit \cup ClusterEdit : Request(c, <<e>>)
    BY <1>3 DEF EditMetadata
  <2>2. e \in Edit /\ Entered(e) = {}
    BY DEF Edit, TableEdit, ClusterEdit, Entered
  <2>3. QED  BY <1>1, <2>1, <2>2, CallTypes, GoodOne
<1>4. CASE EditMembers(c)
  <2>1. PICK e \in MemberEdit : Request(c, <<e>>)
    BY <1>4 DEF EditMembers
  <2>2. e \in Edit /\ Idle(c) /\ job'[c] = <<e>>
    BY <1>1, <2>1 DEF Edit, Request, Alone
  <2>3. Entered(e) \subseteq files \cup absent'
    <3>1. CASE e.do = "add_batch_table_source"
      <4>1. /\ e.name \in Names /\ e.source \in File
            /\ e = [do |-> "add_batch_table_source", name |-> e.name, source |-> e.source]
        BY <3>1 DEF MemberEdit
      <4>2. e.source \in files \/ e.source \in Misnamed
        BY <2>2, <4>1 DEF Misnamed
      <4>3. QED  BY <3>1, <4>2 DEF Entered
    <3>2. CASE e.do = "remove_batch_table_source"
      BY <3>2 DEF Entered
    <3>3. QED  BY <3>1, <3>2 DEF MemberEdit
  <2>4. QED  BY <1>1, <2>1, <2>2, <2>3, CallTypes, GoodOne
<1>5. CASE EditBatch(c)
  <2>1. PICK e \in BatchEdit : e.sources \subseteq files /\ Request(c, <<e>>)
    BY <1>5 DEF EditBatch
  <2>2. e \in Edit /\ Entered(e) \subseteq files
    BY <2>1 DEF Edit, BatchEdit, Entered
  <2>3. QED  BY <1>1, <2>1, <2>2, CallTypes, GoodOne
<1>6. CASE DropBatchEntry(c)
  <2>1. PICK n \in Names : Request(c, <<[do |-> "remove_batch_table_entry", name |-> n]>>)
    BY <1>6 DEF DropBatchEntry
  <2>2. PICK e : e = [do |-> "remove_batch_table_entry", name |-> n]
    OBVIOUS
  <2>3. e \in Edit /\ Entered(e) = {}
    BY <2>2 DEF Edit, OtherEdit, Entered
  <2>4. QED  BY <1>1, <2>1, <2>2, <2>3, CallTypes, GoodOne
<1>7. CASE ImportTables(c)
  <2>1. PICK S \in SUBSET File, overwrite \in BOOLEAN :
               Request(c, <<[do |-> "write", files |-> S, overwrite |-> overwrite]>>)
    BY <1>7 DEF ImportTables
  <2>2. PICK e : e = [do |-> "write", files |-> S, overwrite |-> overwrite]
    OBVIOUS
  <2>3. e \in Calls /\ Entered(e) = {} /\ Taken(e) = {} /\ e.do \notin Creates
    BY <1>1, <2>2, CallTypes
  <2>4. QED  BY <2>1, <2>2, <2>3, GoodOne
<1>8. CASE ImportNewBatch(c)
  <2>1. PICK n \in Names, S \in SUBSET File :
               /\ S # {}
               /\ Request(c, <<[do |-> "write", files |-> S, overwrite |-> FALSE],
                               [do |-> "create_batch_table", name |-> n, sources |-> S]>>)
    BY <1>8 DEF ImportNewBatch
  <2>2. PICK e : e = [do |-> "create_batch_table", name |-> n, sources |-> S]
    OBVIOUS
  <2>3. e \in Edit /\ e.do \in OnBatches /\ Entered(e) = S
    <3>1. S \in (SUBSET File) \ {{}}
      BY <2>1
    <3>2. e \in BatchEdit
      BY <2>2, <3>1 DEF BatchEdit
    <3>3. e.do \in OnBatches /\ Entered(e) = S
      BY <2>2 DEF OnBatches, Entered
    <3>4. QED  BY <3>2, <3>3 DEF Edit
  <2>4. QED  BY <1>1, <2>1, <2>2, <2>3, CallTypes, GoodImport
<1>9. CASE ImportMember(c)
  <2>1. PICK b \in cfg.batches : \E f \in File \ b.sources :
               Request(c, <<[do |-> "write", files |-> {f}, overwrite |-> FALSE],
                            [do |-> "add_batch_table_source", name |-> b.name, source |-> f]>>)
    BY <1>9 DEF ImportMember
  <2>6. PICK f \in File :
               Request(c, <<[do |-> "write", files |-> {f}, overwrite |-> FALSE],
                            [do |-> "add_batch_table_source", name |-> b.name, source |-> f]>>)
    BY <2>1
  <2>2. PICK e : e = [do |-> "add_batch_table_source", name |-> b.name, source |-> f]
    OBVIOUS
  <2>3. e \in Edit /\ e.do \in OnBatches /\ Entered(e) = {f}
    BY <1>1, <2>2, CallTypes DEF Edit, MemberEdit, OnBatches, Entered
  <2>4. PICK S : S = {f}
    OBVIOUS
  <2>5. Taken(e) = {} /\ e \in Calls /\ S \in SUBSET File /\ FALSE \in BOOLEAN
    BY <1>1, <2>3, <2>4, CallTypes
  <2>7. GoodJob(<<[do |-> "write", files |-> S, overwrite |-> FALSE], e>>, absent')
    BY <2>3, <2>4, <2>5, GoodImport
  <2>8. QED  BY <2>6, <2>2, <2>4, <2>7
<1>10. ASSUME NEW old \in Names, NEW new \in Names
       PROVE  /\ RenameCalls(old, new) \in Seq(Calls)
              /\ Without(RenameCalls(old, new), OnFiles \cup OnBatches)
              /\ GoodJob(RenameCalls(old, new), absent')
  <2>1. PICK e : e = [do |-> "rename_history", old |-> old, new |-> new]
    OBVIOUS
  <2>2. PICK d : d = [do |-> "rewrite_table_name", old |-> old, new |-> new]
    OBVIOUS
  <2>3. /\ e \in Calls /\ d \in Calls /\ e.do = "rename_history" /\ d.do = "rewrite_table_name"
        /\ RenameCalls(old, new) = <<e, d>>
    BY <2>1, <2>2 DEF Calls, FileCall, Edit, OtherEdit, RenameCalls
  <2>4. /\ e.do \notin OnFiles \cup OnBatches /\ d.do \notin OnFiles \cup OnBatches
        /\ e.do \notin Creates
        /\ Entered(e) = {} /\ Entered(d) = {} /\ Taken(e) = {} /\ Taken(d) = {}
    BY <2>3 DEF OnFiles, OnBatches, Creates, Entered, Taken
  <2>5. /\ <<e, d>> \in Seq(Calls) /\ <<e, d>> # <<>>
        /\ \A i \in DOMAIN <<e, d>> : <<e, d>>[i] \in {e, d}
        /\ <<e, d>>[1] = e
    BY <2>3
  <2>6. /\ Without(<<e, d>>, OnFiles \cup OnBatches) /\ InOrder(<<e, d>>)
        /\ SafeJob(<<e, d>>, absent')
    BY <2>4, <2>5 DEF Without, InOrder, SafeJob
  <2>7. QED  BY <2>3, <2>4, <2>5, <2>6 DEF GoodJob
<1>11. CASE RenameSingle(c)
  <2>1. PICK f \in Singles, new \in Names :
               /\ <<new, f[2]>> \notin files
               /\ Request(c, <<[do |-> "move", from |-> f, to |-> <<new, f[2]>>]>>
                               \o RenameCalls(Stem(f), new))
    BY <1>11 DEF RenameSingle
  <2>2. PICK e : e = [do |-> "move", from |-> f, to |-> <<new, f[2]>>]
    OBVIOUS
  <2>3. /\ f \in files /\ f \in File /\ Stem(f) \in Names /\ <<new, f[2]>> \in File
        /\ f \notin Members(cfg)
    BY <1>1, <1>2, CallTypes
  <2>4. /\ e \in Calls /\ Entered(e) = {} /\ Taken(e) = {f} /\ e.to = <<new, f[2]>>
    BY <1>1, <2>2, <2>3, CallTypes
  <2>5. GoodJob(<<e>> \o RenameCalls(Stem(f), new), absent')
    BY <1>10, <2>1, <2>3, <2>4, GoodMore
  <2>6. QED  BY <2>1, <2>2, <2>5
<1>12. CASE RenameBatch(c)
  <2>1. PICK old \in Names, new \in Names : Request(c, RenameCalls(old, new))
    BY <1>1, <1>12, CallTypes DEF RenameBatch, BatchNames
  <2>2. QED  BY <1>10, <2>1
<1>13. CASE CloneSingle(c)
  <2>1. PICK f \in Singles, new \in Names :
               /\ <<new, f[2]>> \notin files
               /\ Request(c, <<[do |-> "copy", from |-> f, to |-> <<new, f[2]>>]>>
                               \o CloneMeta(Stem(f), new))
    BY <1>13 DEF CloneSingle
  <2>2. PICK e : e = [do |-> "copy", from |-> f, to |-> <<new, f[2]>>]
    OBVIOUS
  <2>3. f \in File /\ Stem(f) \in Names /\ <<new, f[2]>> \in File
    BY <1>1, <1>2, CallTypes
  <2>4. e \in Calls /\ Entered(e) = {} /\ Taken(e) = {} /\ e.to = <<new, f[2]>>
    BY <1>1, <2>2, <2>3, CallTypes
  <2>5. /\ CloneMeta(Stem(f), new) \in Seq(Calls)
        /\ Without(CloneMeta(Stem(f), new), OnFiles \cup OnBatches)
    BY <1>1, CloneCalls
  <2>6. GoodJob(<<e>> \o CloneMeta(Stem(f), new), absent')
    BY <2>1, <2>4, <2>5, GoodMore
  <2>7. QED  BY <2>1, <2>2, <2>6
<1>14. CASE CloneBatch(c)
  <2>1. PICK b \in cfg.batches, new \in Names :
               Request(c, <<[do |-> "create_batch_table", name |-> new, sources |-> b.sources]>>)
    BY <1>14 DEF CloneBatch
  <2>2. PICK e : e = [do |-> "create_batch_table", name |-> new, sources |-> b.sources]
    OBVIOUS
  <2>3. e \in Edit /\ Entered(e) = b.sources /\ b.sources \subseteq files
    BY <1>1, <1>14, <2>2, CallTypes
    DEF Edit, BatchEdit, Entered, CloneBatch, Discoverable, BatchesResolve
  <2>4. QED  BY <1>1, <2>1, <2>2, <2>3, CallTypes, GoodOne
<1>15. CASE DeleteSingle(c)
  <2>1. PICK f \in Singles :
               Request(c, <<[do |-> "unlink", files |-> {f}],
                            [do |-> "remove_table_meta_entry", name |-> Stem(f)]>>)
    BY <1>15 DEF DeleteSingle
  <2>2. PICK e : e = [do |-> "unlink", files |-> {f}]
    OBVIOUS
  <2>3. PICK d : d = [do |-> "remove_table_meta_entry", name |-> Stem(f)]
    OBVIOUS
  <2>4. f \in files /\ f \in File /\ Stem(f) \in Names /\ f \notin Members(cfg)
    BY <1>1, <1>2, CallTypes
  <2>5. e \in Calls /\ Entered(e) = {} /\ Taken(e) = {f} /\ e.do \notin Creates
    BY <1>1, <2>2, <2>4, CallTypes
  <2>6. d \in Calls /\ d.do \notin OnFiles \cup OnBatches
    BY <2>3, <2>4 DEF Calls, Edit, OtherEdit, OnFiles, OnBatches, Creates
  <2>7. /\ <<d>> \in Seq(Calls) /\ Without(<<d>>, OnFiles \cup OnBatches)
        /\ <<e>> \o <<d>> = <<e, d>>
    <3>1. <<d>> \in Seq(Calls) /\ Without(<<d>>, OnFiles \cup OnBatches)
      BY <2>6, OneCall
    <3>2. <<e>> \o <<d>> = <<e, d>>
      BY <2>5, <2>6, PairOfCalls
    <3>3. QED  BY <3>1, <3>2
  <2>8. GoodJob(<<e>> \o <<d>>, absent')
    BY <2>4, <2>5, <2>7, GoodMore
  <2>9. QED  BY <2>1, <2>2, <2>3, <2>7, <2>8
<1>16. ASSUME NEW b \in cfg.batches, NEW F, F \in SUBSET b.sources, F \subseteq files
       PROVE  GoodJob(<<[do |-> "unlink", files |-> F]>> \o RemoveEntries(b.name), absent')
  <2>1. PICK rest : rest = RemoveEntries(b.name)
    OBVIOUS
  <2>2. b.name \in Names /\ F \subseteq File
    BY <1>1, <1>16, CallTypes
  <2>3. /\ rest \in Seq(Calls) /\ rest # <<>> /\ DOMAIN rest = 1..2
        /\ rest[1] = [do |-> "remove_batch_table_entry", name |-> b.name]
        /\ rest[2] = [do |-> "remove_table_meta_entry", name |-> b.name]
    BY <2>1, <2>2, RemovalCalls
  <2>4. /\ Without(rest, OnFiles) /\ \A i \in DOMAIN rest : i # 1 => rest[i].do \notin OnBatches
        /\ \A i \in DOMAIN rest : Entered(rest[i]) = {}
        /\ \A f \in F : Clears(rest[1], b, f)
    BY <2>3 DEF Without, OnFiles, OnBatches, Creates, Entered, Clears
  <2>5. QED  BY <1>1, <1>16, <2>1, <2>2, <2>3, <2>4, GoodDeletion
<1>17. CASE DeleteBatch(c)
  <2>1. PICK b \in cfg.batches :
               Request(c, <<[do |-> "unlink", files |-> b.sources]>> \o RemoveEntries(b.name))
    BY <1>17 DEF DeleteBatch
  <2>2. b.sources \subseteq files
    BY <1>17 DEF DeleteBatch, Discoverable, BatchesResolve
  <2>3. QED  BY <1>16, <2>1, <2>2
<1>18. CASE DeleteMember(c)
  <2>1. PICK b \in cfg.batches : \E f \in b.sources :
               Request(c, <<[do |-> "unlink", files |-> {f}]>> \o
                  (IF b.sources = {f}
                   THEN RemoveEntries(b.name)
                   ELSE <<[do |-> "remove_batch_table_source", name |-> b.name, source |-> f]>>))
    BY <1>18 DEF DeleteMember
  <2>11. PICK f \in b.sources :
               Request(c, <<[do |-> "unlink", files |-> {f}]>> \o
                  (IF b.sources = {f}
                   THEN RemoveEntries(b.name)
                   ELSE <<[do |-> "remove_batch_table_source", name |-> b.name, source |-> f]>>))
    BY <2>1
  <2>2. f \in files /\ BatchesOf(cfg, b.name) = {b}
    BY <1>18 DEF DeleteMember, Discoverable, BatchesResolve, BatchesOf
  <2>3. PICK F : F = {f}
    OBVIOUS
  <2>4. F \in SUBSET b.sources /\ F \subseteq files /\ F \in SUBSET File
    BY <1>1, <2>2, <2>3
  <2>5. CASE b.sources = {f}
    BY <1>16, <2>11, <2>3, <2>4, <2>5
  <2>6. CASE b.sources # {f}
    <3>1. PICK d : d = [do |-> "remove_batch_table_source", name |-> b.name, source |-> f]
      OBVIOUS
    <3>2. /\ d \in Calls /\ d.do \notin OnFiles /\ Entered(d) = {}
          /\ Clears(d, b, f)
      BY <1>1, <2>2, <2>4, <2>3, <2>6, <3>1, CallTypes
      DEF Calls, Edit, MemberEdit, OnFiles, Creates, Entered, Clears
    <3>3. /\ <<d>> \in Seq(Calls) /\ <<d>> # <<>> /\ <<d>>[1] = d /\ DOMAIN <<d>> = {1}
          /\ Without(<<d>>, OnFiles)
      BY <3>2, OneCall
    <3>4. /\ \A i \in DOMAIN <<d>> : i # 1 => <<d>>[i].do \notin OnBatches
          /\ \A i \in DOMAIN <<d>> : Entered(<<d>>[i]) = {}
          /\ \A g \in F : Clears(<<d>>[1], b, g)
      BY <2>3, <3>2, <3>3
    <3>5. GoodJob(<<[do |-> "unlink", files |-> F]>> \o <<d>>, absent')
      BY <1>1, <2>4, <3>3, <3>4, GoodDeletion
    <3>6. QED  BY <2>11, <2>3, <2>6, <3>1, <3>5
  <2>7. QED  BY <2>5, <2>6
<1>19. QED
  BY <1>3, <1>4, <1>5, <1>6, <1>7, <1>8, <1>9, <1>11, <1>12, <1>13, <1>14, <1>15, <1>17,
     <1>18 DEF Ask

\* Every request of the browser.
LEMMA BrowsedJob ==
  ASSUME Alone, NEW c \in Clients, Browse(c), ~disturbed'
  PROVE  \E calls : Request(c, calls) /\ GoodJob(calls, absent')
<1>1. ~disturbed /\ IsConfig(cfg) /\ files \subseteq File /\ DOMAIN job = Clients
  <2>1. ~disturbed
    BY DEF Browse, Request, CreateFile, EditContent, UploadFile, DuplicateFile, RenameFile,
       DeleteFile, Write
  <2>2. QED  BY <2>1 DEF Alone
<1>2. ASSUME NEW f \in File, NEW o \in BOOLEAN, Write(c, f, o)
      PROVE  \E calls : Request(c, calls) /\ GoodJob(calls, absent')
  <2>1. PICK S : S = {f}
    OBVIOUS
  <2>2. PICK e : e = [do |-> "write", files |-> S, overwrite |-> o]
    OBVIOUS
  <2>3. e \in Calls /\ Entered(e) = {} /\ Taken(e) = {} /\ e.do \notin Creates
    BY <1>1, <2>1, <2>2, CallTypes
  <2>4. GoodJob(<<e>>, absent')
    BY <2>3, GoodOne
  <2>5. QED  BY <1>2, <2>1, <2>2, <2>4 DEF Write
<1>3. CASE CreateFile(c) \/ EditContent(c) \/ UploadFile(c)
  BY <1>2, <1>3 DEF CreateFile, EditContent, UploadFile
<1>4. CASE DuplicateFile(c)
  <2>1. PICK f \in files, to \in File \ files :
               Request(c, <<[do |-> "copy", from |-> f, to |-> to]>>)
    BY <1>4 DEF DuplicateFile
  <2>2. PICK e : e = [do |-> "copy", from |-> f, to |-> to]
    OBVIOUS
  <2>3. e \in Calls /\ Entered(e) = {} /\ Taken(e) = {} /\ e.to = to
    BY <1>1, <2>2, CallTypes
  <2>4. GoodJob(<<e>>, absent')
    BY <2>3, GoodOne
  <2>5. QED  BY <2>1, <2>2, <2>4
<1>5. ASSUME NEW e, Request(c, <<e>>), RenameFile(c) \/ DeleteFile(c)
      PROVE  absent' = absent \cup (IF e.do = "move" THEN {e.from} ELSE e.files)
  <2>1. job'[c][1] = e
    BY <1>1, <1>5 DEF Request
  <2>2. CASE UNCHANGED absent /\ (CreateFile(c) \/ EditContent(c) \/ UploadFile(c)
                                   \/ DuplicateFile(c))
    <3>1. \A calls : Request(c, calls) => job'[c] = calls
      BY <1>1 DEF Request
    <3>2. job'[c][1].do = "write" \/ job'[c][1].do = "copy"
      <4>1. ASSUME NEW f, NEW o, Write(c, f, o)
            PROVE  job'[c][1].do = "write"
        <5>1. PICK w : w = [do |-> "write", files |-> {f}, overwrite |-> o]
          OBVIOUS
        <5>2. Request(c, <<w>>) /\ w.do = "write"
          BY <4>1, <5>1 DEF Write
        <5>3. QED  BY <3>1, <5>2
      <4>2. ASSUME DuplicateFile(c)
            PROVE  job'[c][1].do = "copy"
        <5>1. PICK f, to : Request(c, <<[do |-> "copy", from |-> f, to |-> to]>>)
          BY <4>2 DEF DuplicateFile
        <5>2. QED  BY <3>1, <5>1
      <4>3. QED  BY <2>2, <4>1, <4>2 DEF CreateFile, EditContent, UploadFile
    <3>3. job'[c][1].do = "move" \/ job'[c][1].do = "unlink"
      <4>1. ASSUME RenameFile(c)
            PROVE  job'[c][1].do = "move"
        <5>1. PICK f, to : Request(c, <<[do |-> "move", from |-> f, to |-> to]>>)
          BY <4>1 DEF RenameFile
        <5>2. QED  BY <3>1, <5>1
      <4>2. ASSUME DeleteFile(c)
            PROVE  job'[c][1].do = "unlink"
        <5>1. PICK f : Request(c, <<[do |-> "unlink", files |-> {f}]>>)
          BY <4>2 DEF DeleteFile
        <5>2. QED  BY <3>1, <5>1
      <4>3. QED  BY <1>5, <4>1, <4>2
    <3>4. QED  BY <3>2, <3>3
  <2>3. QED  BY <2>1, <2>2 DEF Browse
<1>6. CASE RenameFile(c)
  <2>1. PICK f \in files, to \in File \ files :
               Request(c, <<[do |-> "move", from |-> f, to |-> to]>>)
    BY <1>6 DEF RenameFile
  <2>2. PICK e : e = [do |-> "move", from |-> f, to |-> to]
    OBVIOUS
  <2>3. /\ e \in Calls /\ Entered(e) = {} /\ Taken(e) = {f} /\ e.to = to
        /\ e.do = "move" /\ e.from = f
    BY <1>1, <2>2, CallTypes
  <2>4. f \in absent'
    BY <1>5, <1>6, <2>1, <2>2, <2>3
  <2>5. GoodJob(<<e>>, absent')
    BY <2>3, <2>4, GoodOne
  <2>6. QED  BY <2>1, <2>2, <2>5
<1>7. CASE DeleteFile(c)
  <2>1. PICK f \in files : Request(c, <<[do |-> "unlink", files |-> {f}]>>)
    BY <1>7 DEF DeleteFile
  <2>2. PICK S : S = {f}
    OBVIOUS
  <2>3. PICK e : e = [do |-> "unlink", files |-> S]
    OBVIOUS
  <2>4. /\ e \in Calls /\ Entered(e) = {} /\ Taken(e) = S /\ e.do \notin Creates
        /\ e.do = "unlink" /\ e.files = S
    BY <1>1, <2>2, <2>3, CallTypes
  <2>5. f \in absent'
    BY <1>5, <1>7, <2>1, <2>2, <2>3, <2>4
  <2>6. GoodJob(<<e>>, absent')
    BY <2>2, <2>4, <2>5, GoodOne
  <2>7. QED  BY <2>1, <2>2, <2>3, <2>6
<1>8. QED  BY <1>3, <1>4, <1>6, <1>7 DEF Browse

\* A request brings its good job.
LEMMA SourcedRequest ==
  ASSUME Alone, Sourced, NEW c \in Clients, NEW calls, Request(c, calls),
         GoodJob(calls, absent'), absent \subseteq absent'
  PROVE  Alone' /\ Sourced'
<1>1. Alone'
  BY AloneRequest DEF GoodJob
<1>2. ASSUME ~disturbed' PROVE Sourced'
  <2>1. /\ ~disturbed /\ \A d \in Clients : Idle(d) /\ job[d] = <<>>
        /\ job' = [job EXCEPT ![c] = calls] /\ UNCHANGED <<files, cfg, shared>>
    BY <1>2 DEF Request, Idle
  <2>2. job'[c] = calls /\ \A d \in Clients \ {c} : job'[d] = <<>>
    BY <2>1 DEF Alone
  <2>3. SafeJob(calls, absent)'
    <3>1. SafeJob(calls, absent')
      BY DEF GoodJob
    <3>2. \A b, f : Cleared(calls, b, f)' <=> Cleared(calls, b, f)
      BY <2>1 DEF Cleared, Clears
    <3>3. QED  BY <2>1, <3>1, <3>2 DEF SafeJob
  <2>4. \A d \in Clients : SafeJob(job[d], absent)'
    <3>1. ASSUME NEW d \in Clients PROVE SafeJob(job[d], absent)'
      <4>1. CASE d = c
        <5>1. job'[d] = calls
          BY <2>2, <4>1
        <5>2. \A b, f : Cleared(job[d], b, f)' <=> Cleared(calls, b, f)'
          BY <5>1 DEF Cleared, Clears
        <5>3. QED  BY <2>3, <5>1, <5>2 DEF SafeJob
      <4>2. CASE d # c
        BY <2>2, <4>2 DEF SafeJob
      <4>3. QED  BY <4>1, <4>2
    <3>2. QED  BY <3>1
  <2>5. \A b \in cfg.batches : \A f \in b.sources : f \in files \cup shared \cup absent
    BY <2>1 DEF Sourced, Cleared
  <2>6. QED  BY <1>2, <2>1, <2>4, <2>5 DEF Sourced
<1>3. QED  BY <1>1, <1>2 DEF Sourced

\* A call on the files, after which the files of the batch tables are there, or are not for
\* a reason.
LEMMA SourcedCall ==
  ASSUME Alone, Sourced, NEW c \in Clients, ~Idle(c), NEW j, job' = [job EXCEPT ![c] = j],
         UNCHANGED <<disturbed, cfg, shared, absent>>,
         ~disturbed => /\ SafeJob(j, absent)'
                       /\ \A b \in cfg.batches : \A f \in b.sources :
                            f \notin files' /\ (f \in files \/ Cleared(job[c], b, f))
                              => f \in shared \cup absent \/ Cleared(j, b, f)
  PROVE  Sourced'
<1> SUFFICES ASSUME ~disturbed' PROVE Sourced'
  BY DEF Sourced
<1>1. ~disturbed /\ \A d \in Clients \ {c} : job[d] = <<>>
  BY DEF Alone, Idle
<1>2. job'[c] = j /\ \A d \in Clients \ {c} : job'[d] = <<>>
  BY <1>1 DEF Alone
<1>3. \A d \in Clients : SafeJob(job[d], absent)'
  <2>1. ASSUME NEW d \in Clients PROVE SafeJob(job[d], absent)'
    <3>1. CASE d = c
      <4>1. job'[d] = j
        BY <1>2, <3>1
      <4>2. \A b, f : Cleared(job[d], b, f)' <=> Cleared(j, b, f)'
        BY <4>1 DEF Cleared, Clears
      <4>3. SafeJob(j, absent)'
        BY <1>1
      <4>4. QED  BY <4>1, <4>2, <4>3 DEF SafeJob
    <3>2. CASE d # c
      BY <1>2, <3>2 DEF SafeJob
    <3>3. QED  BY <3>1, <3>2
  <2>2. QED  BY <2>1
<1>4. ASSUME NEW b \in cfg.batches, NEW f \in b.sources, f \notin files' \cup shared \cup absent
      PROVE  Cleared(j, b, f)
  <2>1. f \in files \/ \E d \in Clients : Cleared(job[d], b, f)
    BY <1>1, <1>4 DEF Sourced
  <2>2. f \in files \/ Cleared(job[c], b, f)
    BY <1>1, <2>1 DEF Cleared
  <2>3. QED  BY <1>1, <1>4, <2>2
<1>5. \A b \in cfg.batches : \A f \in b.sources :
        f \in files' \cup shared \cup absent \/ Cleared(job[c], b, f)'
  BY <1>2, <1>4 DEF Cleared, Clears
<1>6. QED  BY <1>1, <1>3, <1>5 DEF Sourced

\* A job whose first call has been done, or some of it, clears what it was to clear.
LEMMA StillCleared ==
  ASSUME NEW j \in Seq(Calls), j # <<>>, InOrder(j), Head(j) \in FileCall, NEW b, NEW f,
         Cleared(j, b, f)
  PROVE  /\ Cleared(Tail(j), b, f)
         /\ \A e \in Calls : Cleared(<<e>> \o Tail(j), b, f)
         /\ Head(j).do \in {"write", "unlink"}
<1>1. PICK i \in DOMAIN j : Clears(j[i], b, f)
  BY DEF Cleared
<1>2. j[i].do \in OnBatches
  BY <1>1 DEF Clears, OnBatches
<1>3. Head(j).do \notin OnBatches
  BY FileCallKinds
<1>4. /\ i # 1 /\ i - 1 \in DOMAIN Tail(j) /\ Tail(j)[i - 1] = j[i]
      /\ Tail(j) \in Seq(Calls)
      /\ Head(j).do \in {"write", "unlink"}
  BY <1>2, <1>3, RestOfJob DEF Without
<1>5. ASSUME NEW e \in Calls PROVE Cleared(<<e>> \o Tail(j), b, f)
  <2>1. i \in DOMAIN (<<e>> \o Tail(j)) /\ (<<e>> \o Tail(j))[i] = Tail(j)[i - 1]
    BY <1>4
  <2>2. QED  BY <1>1, <1>4, <2>1 DEF Cleared
<1>6. QED  BY <1>1, <1>4, <1>5 DEF Cleared

\* What is left of a job after one file of a call is in order as well.
LEMMA FileLess ==
  ASSUME NEW j \in Seq(Calls), j # <<>>, InOrder(j), Head(j).do \in {"write", "unlink"},
         NEW e \in Calls, e.do = Head(j).do
  PROVE  /\ <<e>> \o Tail(j) \in Seq(Calls) /\ InOrder(<<e>> \o Tail(j))
         /\ Without(<<e>> \o Tail(j), Creates)
         /\ (<<e>> \o Tail(j))[1] = e
         /\ \A i \in DOMAIN (<<e>> \o Tail(j)) : i # 1 =>
               i - 1 \in DOMAIN Tail(j) /\ (<<e>> \o Tail(j))[i] = Tail(j)[i - 1]
<1>1. /\ Tail(j) \in Seq(Calls) /\ Without(Tail(j), OnFiles)
      /\ \A i \in DOMAIN Tail(j) : Tail(j)[i].do \in OnBatches => i = 1
  BY RestOfJob
<1>2. PICK rest : rest = Tail(j)
  OBVIOUS
<1>3. /\ rest \in Seq(Calls) /\ Without(rest, OnFiles)
      /\ \A i \in DOMAIN rest : rest[i].do \in OnBatches => i = 1 /\ e.do \in {"write", "unlink"}
  BY <1>1, <1>2
<1>4. /\ <<e>> \o rest \in Seq(Calls) /\ InOrder(<<e>> \o rest)
      /\ (<<e>> \o rest)[1] = e
      /\ \A i \in DOMAIN (<<e>> \o rest) : i # 1 =>
            i - 1 \in DOMAIN rest /\ (<<e>> \o rest)[i] = rest[i - 1]
  BY <1>3, FirstAndRest
<1>5. e.do \notin Creates
  BY DEF Creates
<1>6. Without(<<e>> \o rest, Creates)
  BY <1>3, <1>4, <1>5 DEF Without, OnFiles
<1>7. QED  BY <1>2, <1>4, <1>6

\* The client at work, what it is at and what is left of its job.
LEMMA AtWork ==
  ASSUME Alone, ~disturbed, NEW c \in Clients, ~Idle(c)
  PROVE  /\ job[c] \in Seq(Calls) /\ job[c] # <<>> /\ InOrder(job[c])
         /\ Call(c) = Head(job[c]) /\ Call(c) \in Calls /\ Call(c) = job[c][1]
         /\ 1 \in DOMAIN job[c]
         /\ Call(c).do \in OnFiles \cup {"rename_history"} => Call(c) \in FileCall
         /\ Call(c) \in FileCall => seen[c] = Unread
<1>1. job[c] \in Seq(Calls) /\ job[c] # <<>> /\ InOrder(job[c])
  BY DEF Alone, Idle
<1>2. /\ Call(c) = Head(job[c]) /\ Call(c) \in Calls /\ Call(c) = job[c][1] /\ 1 \in DOMAIN job[c]
  BY <1>1 DEF Call
<1>3. Call(c).do \in OnFiles \cup {"rename_history"} => Call(c) \in FileCall
  BY <1>2, EditsAreNoFileCalls DEF Calls
<1>4. Call(c) \in FileCall => seen[c] = Unread
  BY FileCallKinds, EditsAreNoFileCalls DEF Alone
<1>5. QED  BY <1>1, <1>2, <1>3, <1>4

\* A job with nothing on files or batch tables in it is safe, and clears nothing.
LEMMA HarmlessJob ==
  ASSUME NEW j, Without(j, OnFiles \cup OnBatches)
  PROVE  /\ \A i \in DOMAIN j : Entered(j[i]) = {} /\ Taken(j[i]) = {}
         /\ \A b, f : ~Cleared(j, b, f)
<1>1. \A i \in DOMAIN j : Entered(j[i]) = {} /\ Taken(j[i]) = {}
  BY DEF Without, Entered, Taken, OnFiles, OnBatches, Creates
<1>2. ASSUME NEW b, NEW f PROVE ~Cleared(j, b, f)
  BY DEF Without, Cleared, Clears, OnBatches
<1>3. QED  BY <1>1, <1>2

\* One file of a call that writes or deletes several is done.
LEMMA FileDoneJob ==
  ASSUME Alone, ~disturbed, NEW c \in Clients, ~Idle(c), Call(c).do \in {"write", "unlink"},
         NEW f \in Call(c).files, FileDone(c, f)
  PROVE  \E j : /\ job' = [job EXCEPT ![c] = j]
                /\ j \in Seq(Calls) /\ InOrder(j) /\ Without(j, Creates)
                /\ \A i \in DOMAIN j : i # 1 => \E k \in DOMAIN job[c] : k # 1 /\ j[i] = job[c][k]
                /\ \/ Call(c).files = {f} /\ Without(j, OnFiles)
                      /\ (1 \in DOMAIN j => \E k \in DOMAIN job[c] : k # 1 /\ j[1] = job[c][k])
                   \/ /\ j # <<>> /\ 1 \in DOMAIN j
                      /\ j[1].do = Call(c).do /\ j[1].files = Call(c).files \ {f}
                /\ \A b, g : Cleared(job[c], b, g) => Cleared(j, b, g)
<1>1. PICK old : old = job[c]
  OBVIOUS
<1>2. /\ old \in Seq(Calls) /\ old # <<>> /\ InOrder(old)
      /\ Call(c) = Head(old) /\ Call(c) \in FileCall
      /\ \/ Call(c) \in [do : {"write"}, files : SUBSET File, overwrite : BOOLEAN]
         \/ Call(c) \in [do : {"unlink"}, files : SUBSET File]
  BY <1>1, AtWork, FileCallKinds DEF OnFiles
<1>3. PICK e : e = [Head(old) EXCEPT !.files = @ \ {f}]
  OBVIOUS
<1>4. e \in Calls /\ e.do = Head(old).do /\ e.files = Call(c).files \ {f}
  <2>1. CASE Call(c) \in [do : {"write"}, files : SUBSET File, overwrite : BOOLEAN]
    <3>1. e \in [do : {"write"}, files : SUBSET File, overwrite : BOOLEAN]
      BY <1>2, <1>3, <2>1
    <3>2. QED  BY <1>2, <1>3, <2>1, <3>1 DEF Calls, FileCall
  <2>2. CASE Call(c) \in [do : {"unlink"}, files : SUBSET File]
    <3>1. e \in [do : {"unlink"}, files : SUBSET File]
      BY <1>2, <1>3, <2>2
    <3>2. QED  BY <1>2, <1>3, <2>2, <3>1 DEF Calls, FileCall
  <2>3. QED  BY <1>2, <2>1, <2>2
<1>5. PICK rest : rest = Tail(old)
  OBVIOUS
<1>6. /\ rest \in Seq(Calls) /\ InOrder(rest) /\ Without(rest, OnFiles)
      /\ \A i \in DOMAIN rest : i + 1 \in DOMAIN old /\ rest[i] = old[i + 1]
      /\ DOMAIN rest = 1..Len(rest) /\ Len(rest) \in Nat
  BY <1>2, <1>5, RestOfJob
<1>7. \A i \in DOMAIN rest : \E k \in DOMAIN old : k # 1 /\ rest[i] = old[k]
  <2>1. \A i \in DOMAIN rest : i + 1 # 1
    BY <1>6
  <2>2. QED  BY <1>6, <2>1
<1>8. \A b, g : Cleared(old, b, g) => Cleared(rest, b, g) /\ Cleared(<<e>> \o rest, b, g)
  BY <1>2, <1>4, <1>5, StillCleared
<1>9. CASE Head(old).files = {f}
  <2>1. job' = [job EXCEPT ![c] = rest]
    BY <1>1, <1>2, <1>5, <1>9 DEF FileDone
  <2>2. Without(rest, Creates)
    BY <1>6 DEF Without, OnFiles
  <2>3. QED  BY <1>1, <1>2, <1>6, <1>7, <1>8, <1>9, <2>1, <2>2
<1>10. CASE Head(old).files # {f}
  <2>1. PICK new : new = <<e>> \o rest
    OBVIOUS
  <2>2. job' = [job EXCEPT ![c] = new]
    <3>1. Call(c) = Head(old) /\ e = [Call(c) EXCEPT !.files = Call(c).files \ {f}]
      BY <1>2, <1>3
    <3>2. QED  BY <1>1, <1>5, <1>10, <2>1, <3>1 DEF FileDone
  <2>3. /\ new \in Seq(Calls) /\ InOrder(new) /\ Without(new, Creates) /\ new[1] = e
        /\ \A i \in DOMAIN new : i # 1 => i - 1 \in DOMAIN rest /\ new[i] = rest[i - 1]
    BY <1>2, <1>4, <1>5, <2>1, FileLess
  <2>4. Len(new) = Len(rest) + 1 /\ DOMAIN new = 1..Len(new)
    BY <1>4, <1>6, <2>1
  <2>5. new # <<>> /\ 1 \in DOMAIN new
    BY <1>6, <2>4
  <2>6. \A b, g : Cleared(old, b, g) => Cleared(new, b, g)
    BY <1>8, <2>1
  <2>7. \A i \in DOMAIN new : i # 1 => \E k \in DOMAIN old : k # 1 /\ new[i] = old[k]
    BY <1>7, <2>3
  <2>8. QED  BY <1>1, <1>2, <1>4, <2>2, <2>3, <2>5, <2>6, <2>7
<1>11. QED  BY <1>9, <1>10

\* Only the first call of a job is on files.
LEMMA TakenFirst ==
  ASSUME NEW j, InOrder(j), NEW i \in DOMAIN j, i # 1
  PROVE  Taken(j[i]) = {}
BY DEF InOrder, Taken, OnFiles, Creates

\* Of several files to write, one is there now and the others are still to come.
LEMMA WriteFileInv ==
  ASSUME Alone, Sourced, NEW c \in Clients, WriteFile(c), absent' = absent
  PROVE  Alone' /\ Sourced'
<1>1. /\ ~Idle(c) /\ Call(c).do = "write"
      /\ UNCHANGED <<cfg, seen, shared, disturbed, absent>>
  BY DEF WriteFile, IsAt, OnlyFiles
<1>2. PICK f \in Call(c).files : files' = files \cup {f} /\ FileDone(c, f)
  BY DEF WriteFile
<1>3. CASE disturbed
  BY <1>1, <1>3 DEF Alone, Sourced
<1>4. CASE ~disturbed
  <2>1. PICK j : /\ job' = [job EXCEPT ![c] = j]
                 /\ j \in Seq(Calls) /\ InOrder(j) /\ Without(j, Creates)
                 /\ \A i \in DOMAIN j : i # 1 => \E k \in DOMAIN job[c] : k # 1 /\ j[i] = job[c][k]
                 /\ \/ Call(c).files = {f} /\ Without(j, OnFiles)
                       /\ (1 \in DOMAIN j => \E k \in DOMAIN job[c] : k # 1 /\ j[1] = job[c][k])
                    \/ /\ j # <<>> /\ 1 \in DOMAIN j
                       /\ j[1].do = Call(c).do /\ j[1].files = Call(c).files \ {f}
                 /\ \A b, g : Cleared(job[c], b, g) => Cleared(j, b, g)
    BY <1>1, <1>2, <1>4, FileDoneJob
  <2>2. /\ job[c] # <<>> /\ InOrder(job[c]) /\ Call(c) = job[c][1] /\ 1 \in DOMAIN job[c]
        /\ Call(c) \in FileCall /\ seen[c] = Unread
        /\ Call(c) \in [do : {"write"}, files : SUBSET File, overwrite : BOOLEAN]
    BY <1>1, <1>4, AtWork, FileCallKinds DEF OnFiles
  <2>3. Alone'
    <3>1. files' \subseteq File /\ IsConfig(cfg)'
      BY <1>1, <1>2, <1>4, <2>2 DEF Alone, IsConfig
    <3>2. QED  BY <1>1, <1>4, <2>1, <2>2, <3>1, AloneCall
  <2>4. SafeJob(job[c], absent)
    BY <1>4 DEF Sourced
  <2>5. Written(job[c]) = Call(c).files /\ Written(job[c]) \subseteq files' \cup Written(j)
    BY <1>1, <1>2, <2>1, <2>2 DEF Written
  <2>6. ASSUME NEW i \in DOMAIN j
        PROVE  /\ Taken(j[i]) = {} /\ Entered(j[i]) \subseteq files' \cup Written(j) \cup absent
               /\ j[1].do = "unlink" => Entered(j[i]) = {}
    <3>1. CASE i # 1
      <4>1. PICK k \in DOMAIN job[c] : k # 1 /\ j[i] = job[c][k]
        BY <2>1, <3>1
      <4>2. Taken(j[i]) = {} /\ Entered(j[i]) \subseteq files' \cup Written(j) \cup absent
        BY <1>2, <2>2, <2>4, <2>5, <4>1, TakenFirst DEF SafeJob
      <4>3. j[1].do # "unlink" \/ Without(j, OnFiles)
        BY <1>1, <2>1
      <4>4. 1 \in DOMAIN j
        BY <2>1
      <4>5. QED  BY <4>2, <4>3, <4>4 DEF Without, OnFiles
    <3>2. CASE i = 1 /\ j[1].do = "write"
      BY <3>2 DEF Taken, Entered
    <3>3. CASE i = 1 /\ j[1].do # "write"
      <4>1. PICK k \in DOMAIN job[c] : k # 1 /\ j[1] = job[c][k]
        BY <1>1, <2>1, <3>3
      <4>2. Taken(j[i]) = {} /\ Entered(j[i]) \subseteq files' \cup Written(j) \cup absent
        BY <1>2, <2>2, <2>4, <2>5, <3>3, <4>1, TakenFirst DEF SafeJob
      <4>3. j[1].do # "unlink"
        BY <1>1, <2>1, <3>3 DEF Without, OnFiles
      <4>4. QED  BY <4>2, <4>3
    <3>4. QED  BY <3>1, <3>2, <3>3
  <2>7. SafeJob(j, absent)'
    BY <2>6 DEF SafeJob
  <2>8. Sourced'
    BY <1>1, <1>2, <2>1, <2>7, SourcedCall
  <2>9. QED  BY <2>3, <2>8
<1>5. QED  BY <1>3, <1>4

\* Of several files to delete, one is gone: it was there, and what listed it is to be edited.
LEMMA UnlinkFileInv ==
  ASSUME Alone, Sourced, NEW c \in Clients, UnlinkFile(c), absent' = absent
  PROVE  Alone' /\ Sourced'
<1>1. /\ ~Idle(c) /\ Call(c).do = "unlink"
      /\ UNCHANGED <<cfg, seen, shared, disturbed, absent>>
  BY DEF UnlinkFile, IsAt, OnlyFiles
<1>2. PICK f \in Call(c).files :
             files' = files \ {f} /\ (FileDone(c, f) \/ f \notin files)
  BY DEF UnlinkFile
<1>3. CASE disturbed
  BY <1>1, <1>3 DEF Alone, Sourced
<1>4. CASE ~disturbed
  <2>1. /\ job[c] # <<>> /\ InOrder(job[c]) /\ Call(c) = job[c][1] /\ 1 \in DOMAIN job[c]
        /\ Call(c) \in FileCall /\ seen[c] = Unread
        /\ Call(c) \in [do : {"unlink"}, files : SUBSET File]
    BY <1>1, <1>4, AtWork, FileCallKinds DEF OnFiles
  <2>2. SafeJob(job[c], absent) /\ Taken(Call(c)) = Call(c).files
    BY <1>1, <1>4 DEF Sourced, Taken
  <2>3. Call(c).files \subseteq files
    BY <2>1, <2>2 DEF SafeJob
  <2>4. FileDone(c, f)
    BY <1>2, <2>3
  <2>5. PICK j : /\ job' = [job EXCEPT ![c] = j]
                 /\ j \in Seq(Calls) /\ InOrder(j) /\ Without(j, Creates)
                 /\ \A i \in DOMAIN j : i # 1 => \E k \in DOMAIN job[c] : k # 1 /\ j[i] = job[c][k]
                 /\ \/ Call(c).files = {f} /\ Without(j, OnFiles)
                       /\ (1 \in DOMAIN j => \E k \in DOMAIN job[c] : k # 1 /\ j[1] = job[c][k])
                    \/ /\ j # <<>> /\ 1 \in DOMAIN j
                       /\ j[1].do = Call(c).do /\ j[1].files = Call(c).files \ {f}
                 /\ \A b, g : Cleared(job[c], b, g) => Cleared(j, b, g)
    BY <1>1, <1>2, <1>4, <2>4, FileDoneJob
  <2>6. Alone'
    <3>1. files' \subseteq File /\ IsConfig(cfg)'
      BY <1>1, <1>2, <1>4 DEF Alone, IsConfig
    <3>2. QED  BY <1>1, <1>4, <2>1, <2>5, <3>1, AloneCall
  <2>7. \A b \in cfg.batches : \A g \in b.sources \cap Call(c).files :
          g \in shared \cup absent \/ Cleared(j, b, g)
    BY <2>1, <2>2, <2>5 DEF SafeJob
  <2>8. \A k \in DOMAIN job[c] : Entered(job[c][k]) = {} /\ (k # 1 => Taken(job[c][k]) = {})
    BY <1>1, <2>1, <2>2, TakenFirst DEF SafeJob
  <2>9. ASSUME NEW i \in DOMAIN j
        PROVE  /\ Entered(j[i]) = {}
               /\ Taken(j[i]) = {} \/ Taken(j[i]) = Call(c).files \ {f}
    <3>1. CASE \E k \in DOMAIN job[c] : k # 1 /\ j[i] = job[c][k]
      BY <2>8, <3>1
    <3>2. CASE j[i].do = Call(c).do /\ j[i].files = Call(c).files \ {f}
      BY <1>1, <3>2 DEF Entered, Taken
    <3>3. QED  BY <2>5, <3>1, <3>2
  <2>10. \A b \in cfg.batches : \A i \in DOMAIN j : \A g \in b.sources \cap Taken(j[i]) :
           g \in shared \cup absent \/ Cleared(j, b, g)
    BY <2>7, <2>9
  <2>11. SafeJob(j, absent)'
    <3>1. \A b, g : Cleared(j, b, g)' <=> Cleared(j, b, g)
      BY <1>1 DEF Cleared, Clears
    <3>2. \A i \in DOMAIN j : Taken(j[i]) \subseteq files'
      BY <1>2, <2>3, <2>9
    <3>3. QED  BY <1>1, <2>9, <2>10, <3>1, <3>2 DEF SafeJob
  <2>12. Sourced'
    <3>1. \A b \in cfg.batches : \A g \in b.sources :
            g \notin files' /\ (g \in files \/ Cleared(job[c], b, g))
              => g \in shared \cup absent \/ Cleared(j, b, g)
      BY <1>2, <2>5, <2>7
    <3>2. QED  BY <1>1, <2>5, <2>11, <3>1, SourcedCall
  <2>13. QED  BY <2>6, <2>12
<1>5. QED  BY <1>3, <1>4

\* What is left of a job, in the words of the lemmas on calls.
LEMMA SafeRest ==
  ASSUME NEW j, Without(j, OnFiles \cup OnBatches)
  PROVE  SafeJob(j, absent)' /\ \A b, f : ~Cleared(j, b, f)
BY HarmlessJob DEF SafeJob

\* A call that is neither a write nor a deletion leaves a job without any.
LEMMA AfterOthers ==
  ASSUME NEW j \in Seq(Calls), j # <<>>, InOrder(j), Head(j).do \notin {"write", "unlink"}
  PROVE  /\ Without(Tail(j), OnFiles \cup OnBatches) /\ Without(Tail(j), Creates)
         /\ Tail(j) \in Seq(Calls) /\ InOrder(Tail(j))
         /\ \A b, f : Cleared(j, b, f) => Clears(Head(j), b, f)
<1>1. /\ Without(Tail(j), OnFiles) /\ Without(Tail(j), OnBatches)
      /\ Tail(j) \in Seq(Calls) /\ InOrder(Tail(j))
  BY RestOfJob
<1>2. Without(Tail(j), OnFiles \cup OnBatches) /\ Without(Tail(j), Creates)
  BY <1>1 DEF Without, OnFiles
<1>3. ASSUME NEW b, NEW f, Cleared(j, b, f)
      PROVE  Clears(Head(j), b, f)
  <2>1. PICK i \in DOMAIN j : Clears(j[i], b, f)
    BY <1>3 DEF Cleared
  <2>2. CASE i = 1
    BY <2>1, <2>2, RestOfJob
  <2>3. CASE i # 1
    <3>1. i - 1 \in DOMAIN Tail(j) /\ Tail(j)[i - 1] = j[i]
      BY <2>3, RestOfJob
    <3>2. Cleared(Tail(j), b, f)
      BY <2>1, <3>1 DEF Cleared
    <3>3. QED  BY <1>2, <3>2, HarmlessJob
  <2>4. QED  BY <2>2, <2>3
<1>4. QED  BY <1>1, <1>2, <1>3

\* A job without a call has nothing in it.
LEMMA NoJob ==
  /\ <<>> \in Seq(Calls) /\ InOrder(<<>>) /\ \A what : Without(<<>>, what)
  /\ \A b, f : ~Cleared(<<>>, b, f)
<1>1. <<>> \in Seq(Calls) /\ DOMAIN <<>> = {}
  OBVIOUS
<1>2. QED  BY <1>1 DEF InOrder, Without, Cleared

\* A move, a copy or the renaming of a history, which the rest of the job follows or not.
LEMMA OtherFileInv ==
  ASSUME Alone, Sourced, NEW c \in Clients, ~Idle(c),
         Call(c).do \in Creates \cup {"rename_history"}, Return(c) \/ Raise(c),
         UNCHANGED <<cfg, seen, shared, disturbed, absent>>,
         files' \subseteq files \cup (IF Call(c).do \in Creates THEN {Call(c).to} ELSE {}),
         files \ Taken(Call(c)) \subseteq files'
  PROVE  Alone' /\ Sourced'
<1>1. CASE disturbed
  BY <1>1 DEF Alone, Sourced
<1>2. CASE ~disturbed
  <2>1. /\ job[c] \in Seq(Calls) /\ job[c] # <<>> /\ InOrder(job[c])
        /\ Call(c) = Head(job[c]) /\ Call(c) = job[c][1] /\ 1 \in DOMAIN job[c]
        /\ Call(c) \in FileCall /\ seen[c] = Unread
        /\ Call(c).do \in Creates => Call(c) \in [do : {"move", "copy"}, from : File, to : File]
    BY <1>2, AtWork, FileCallKinds DEF OnFiles
  <2>2. Call(c).do \notin OnBatches /\ Call(c).do \notin {"write", "unlink"}
    BY <2>1, FileCallKinds DEF Creates
  <2>3. PICK j : /\ job' = [job EXCEPT ![c] = j]
                 /\ j \in Seq(Calls) /\ InOrder(j)
                 /\ Without(j, OnFiles \cup OnBatches) /\ Without(j, Creates)
    <3>1. CASE Return(c)
      BY <2>1, <2>2, <3>1, AfterOthers DEF Return
    <3>2. CASE Raise(c)
      BY <3>2, NoJob DEF Raise
    <3>3. QED  BY <3>1, <3>2
  <2>4. Alone'
    <3>1. files' \subseteq File
      BY <1>2, <2>1 DEF Alone
    <3>2. IsConfig(cfg)'
      BY <1>2 DEF Alone, IsConfig
    <3>3. QED  BY <1>2, <2>1, <2>3, <3>1, <3>2, AloneCall
  <2>5. \A b, f : ~Cleared(job[c], b, f)
    BY <2>1, <2>2, AfterOthers DEF Clears, OnBatches
  <2>6. \A b \in cfg.batches : \A f \in b.sources :
          f \in files /\ f \notin files' => f \in shared \cup absent
    <3>1. SafeJob(job[c], absent)
      BY <1>2 DEF Sourced
    <3>2. QED  BY <2>1, <2>5, <3>1 DEF SafeJob
  <2>7. SafeJob(j, absent)'
    BY <2>3, SafeRest
  <2>8. Sourced'
    BY <2>3, <2>5, <2>6, <2>7, SourcedCall
  <2>9. QED  BY <2>4, <2>8
<1>3. QED  BY <1>1, <1>2

\* Every step of a job on the files.
LEMMA FileStepInv ==
  ASSUME Alone, Sourced, NEW c \in Clients, DoFile(c), absent' = absent
  PROVE  Alone' /\ Sourced'
<1>1. CASE WriteFile(c)
  BY <1>1, WriteFileInv
<1>2. CASE UnlinkFile(c)
  BY <1>2, UnlinkFileInv
<1>3. CASE MoveFile(c)
  <2>1. /\ ~Idle(c) /\ Call(c).do = "move"
        /\ Return(c) \/ Raise(c)
        /\ UNCHANGED <<cfg, seen, shared, disturbed, absent>>
    BY <1>3 DEF MoveFile, IsAt, OnlyFiles
  <2>2. /\ files' \subseteq files \cup {Call(c).to}
        /\ files \ Taken(Call(c)) \subseteq files'
    BY <1>3, <2>1 DEF MoveFile, Taken
  <2>3. QED  BY <2>1, <2>2, OtherFileInv DEF Creates
<1>4. CASE CopyFile(c)
  <2>1. /\ ~Idle(c) /\ Call(c).do = "copy"
        /\ Return(c) \/ Raise(c)
        /\ UNCHANGED <<cfg, seen, shared, disturbed, absent>>
    BY <1>4 DEF CopyFile, IsAt, OnlyFiles
  <2>2. /\ files' \subseteq files \cup {Call(c).to}
        /\ files \ Taken(Call(c)) \subseteq files'
    BY <1>4, <2>1 DEF CopyFile
  <2>3. QED  BY <2>1, <2>2, OtherFileInv DEF Creates
<1>5. CASE RenameHistory(c)
  BY <1>5, OtherFileInv DEF RenameHistory, IsAt, Creates
<1>6. QED  BY <1>1, <1>2, <1>3, <1>4, <1>5 DEF DoFile

-----------------------------------------------------------------------------
(* The edits of one client at work.                                        *)

\* How an edit ends: nothing is written, and no batch table waits for it; or what is
\* written lists files that are there, or are not for a reason, and changes the metadata of
\* its subjects only.
GoodEnd(c) ==
  \/ /\ Keep(c) \/ Refuse(c)
     /\ \A b \in cfg.batches : \A f \in b.sources : ~Clears(Call(c), b, f)
  \/ \E k : /\ Save(c, k) /\ IsConfig(k)
            /\ \A b \in k.batches : b.sources \subseteq files \cup shared \cup absent
            /\ \A t \in Names : MetasOf(k, t) # MetasOf(cfg, t) => t \in Subjects(c)

\* A client that has read the configuration holds the one on disk, and what its edit does
\* not clear is there.
LEMMA EditAtWork ==
  ASSUME Alone, Sourced, ~disturbed, NEW c \in Clients, ~Idle(c), seen[c] # Unread
  PROVE  /\ seen[c] = cfg /\ IsConfig(cfg) /\ Call(c) \in Edit
         /\ \A b \in cfg.batches : \A f \in b.sources :
              f \in files \cup shared \cup absent \/ Clears(Call(c), b, f)
         /\ Entered(Call(c)) \subseteq files \cup absent
<1>1. /\ seen[c] = cfg /\ IsConfig(cfg) /\ Call(c) \in Edit
      /\ \A d \in Clients \ {c} : job[d] = <<>>
  BY DEF Alone, Idle
<1>2. /\ job[c] \in Seq(Calls) /\ job[c] # <<>> /\ InOrder(job[c]) /\ Call(c) = Head(job[c])
      /\ Call(c) = job[c][1] /\ 1 \in DOMAIN job[c]
  BY AtWork
<1>3. Call(c).do \notin {"write", "unlink"}
  BY <1>1, EditsAreNoFileCalls DEF OnFiles
<1>4. \A b, f : Cleared(job[c], b, f) => Clears(Call(c), b, f)
  BY <1>2, <1>3, AfterOthers
<1>5. \A d \in Clients \ {c} : \A b, f : ~Cleared(job[d], b, f)
  BY <1>1 DEF Cleared
<1>6. Written(job[c]) = {}
  BY <1>2, <1>3 DEF Written
<1>7. Entered(Call(c)) \subseteq files \cup absent
  BY <1>2, <1>6 DEF Sourced, SafeJob
<1>8. QED  BY <1>1, <1>4, <1>5, <1>7 DEF Sourced

\* An edit that ends well leaves everything in order.
LEMMA EndInv ==
  ASSUME Alone, Sourced, NEW c \in Clients, ~Idle(c), seen[c] # Unread,
         UNCHANGED <<disturbed, absent>>, ~disturbed => GoodEnd(c)
  PROVE  Alone' /\ Sourced'
<1>1. CASE disturbed
  BY <1>1 DEF Alone, Sourced
<1>2. CASE ~disturbed
  <2>1. /\ IsConfig(cfg) /\ Call(c) \in Edit
        /\ \A b \in cfg.batches : \A f \in b.sources :
             f \in files \cup shared \cup absent \/ Clears(Call(c), b, f)
        /\ \A d \in Clients \ {c} : job[d] = <<>>
    BY <1>2, EditAtWork DEF Alone, Idle
  <2>2. /\ job[c] \in Seq(Calls) /\ job[c] # <<>> /\ InOrder(job[c]) /\ Call(c) = Head(job[c])
    BY <1>2, AtWork
  <2>3. Call(c).do \notin {"write", "unlink"}
    BY <2>1, EditsAreNoFileCalls DEF OnFiles
  <2>4. PICK rest : /\ rest = Tail(job[c]) /\ rest \in Seq(Calls) /\ InOrder(rest)
                    /\ Without(rest, OnFiles \cup OnBatches) /\ Without(rest, Creates)
    BY <2>2, <2>3, AfterOthers
  <2>5. PICK j : /\ job' = [job EXCEPT ![c] = j]
                 /\ j \in Seq(Calls) /\ InOrder(j)
                 /\ Without(j, OnFiles \cup OnBatches) /\ Without(j, Creates)
    <3>1. CASE job' = [job EXCEPT ![c] = <<>>]
      BY <3>1, NoJob
    <3>2. CASE job' = [job EXCEPT ![c] = Tail(@)]
      BY <2>4, <3>2
    <3>3. QED
      BY <1>2, <3>1, <3>2 DEF GoodEnd, Keep, Refuse, Save, Return, Raise
  <2>6. seen' = [seen EXCEPT ![c] = Unread] /\ files' = files
    BY <1>2 DEF GoodEnd, Keep, Refuse, Save, EndEdit
  <2>7. /\ IsConfig(cfg')
        /\ \A b \in cfg'.batches : b.sources \subseteq files \cup shared' \cup absent
        /\ \A b1, b2 \in cfg'.batches : b1 # b2 => b1.sources \cap b2.sources \subseteq shared'
    <3>1. CASE Keep(c) \/ Refuse(c)
      <4>1. cfg' = cfg /\ shared' = shared
        BY <3>1 DEF Keep, Refuse
      <4>2. CASE \A b \in cfg.batches : \A f \in b.sources : ~Clears(Call(c), b, f)
        BY <1>2, <2>1, <4>1, <4>2 DEF Sourced
      <4>3. CASE \E k : /\ Save(c, k) /\ IsConfig(k)
                        /\ \A b \in k.batches : b.sources \subseteq files \cup shared \cup absent
        BY <1>2, <2>1, <4>1, <4>3 DEF Save, Sourced
      <4>4. QED  BY <1>2, <4>2, <4>3 DEF GoodEnd
    <3>2. CASE \E k : /\ Save(c, k) /\ IsConfig(k)
                      /\ \A b \in k.batches : b.sources \subseteq files \cup shared \cup absent
      <4>1. PICK k : /\ Save(c, k) /\ IsConfig(k)
                     /\ \A b \in k.batches : b.sources \subseteq files \cup shared \cup absent
        BY <3>2
      <4>2. /\ cfg' = k /\ shared \subseteq shared'
            /\ \A b1, b2 \in k.batches : \A f \in Members(k) :
                 b1 # b2 /\ f \in b1.sources \cap b2.sources => f \in shared'
        BY <4>1 DEF Save
      <4>3. \A b1, b2 \in k.batches : b1 # b2 => b1.sources \cap b2.sources \subseteq shared'
        BY <4>2 DEF Members
      <4>4. QED  BY <4>1, <4>2, <4>3
    <3>3. QED  BY <1>2, <3>1, <3>2 DEF GoodEnd
  <2>8. Alone'
    <3>1. files' \subseteq File /\ IsConfig(cfg)'
      BY <1>2, <2>6, <2>7 DEF Alone, IsConfig
    <3>2. /\ DOMAIN seen' = DOMAIN seen /\ seen'[c] = Unread
          /\ \A d \in Clients \ {c} : seen'[d] = seen[d]
      BY <1>2, <2>6 DEF Alone
    <3>3. QED  BY <1>2, <2>5, <3>1, <3>2, AloneCall
  <2>9. \A d \in Clients : SafeJob(job[d], absent)'
    <3>1. ASSUME NEW d \in Clients PROVE SafeJob(job[d], absent)'
      <4>1. CASE d = c
        <5>1. job'[d] = j
          BY <1>2, <2>5, <4>1 DEF Alone
        <5>2. \A i \in DOMAIN j : Entered(j[i]) = {} /\ Taken(j[i]) = {}
          BY <2>5, HarmlessJob
        <5>3. QED  BY <5>1, <5>2 DEF SafeJob
      <4>2. CASE d # c
        <5>1. job'[d] = <<>>
          BY <1>2, <2>1, <2>5, <4>2 DEF Alone
        <5>2. QED  BY <5>1 DEF SafeJob
      <4>3. QED  BY <4>1, <4>2
    <3>2. QED  BY <3>1
  <2>10. Sourced'
    BY <1>2, <2>6, <2>7, <2>9 DEF Sourced
  <2>11. QED  BY <2>8, <2>10
<1>3. QED  BY <1>1, <1>2

\* A configuration whose batch tables or metadata are replaced is one.
LEMMA EditedConfig ==
  ASSUME NEW k, IsConfig(k)
  PROVE  /\ \A B \in SUBSET Batch : IsConfig([k EXCEPT !.batches = B])
         /\ \A M \in SUBSET Meta : IsConfig([k EXCEPT !.metas = M])
         /\ \A C \in SUBSET Names : IsConfig([k EXCEPT !.clusters = C])
         /\ \A B : /\ [k EXCEPT !.batches = B].batches = B
                   /\ [k EXCEPT !.batches = B].metas = k.metas
         /\ \A M : /\ [k EXCEPT !.metas = M].metas = M
                   /\ [k EXCEPT !.metas = M].batches = k.batches
         /\ \A C : /\ [k EXCEPT !.clusters = C].metas = k.metas
                   /\ [k EXCEPT !.clusters = C].batches = k.batches
BY DEF IsConfig

\* The tables an edit may change the metadata of, by what it does.
LEMMA SubjectsByKind ==
  ASSUME NEW c, Call(c) \in Edit
  PROVE  /\ Call(c).do = "delete_cluster" =>
              \A m \in cfg.metas : m.cluster = Call(c).name => m.name \in Subjects(c)
         /\ Call(c).do = "rewrite_table_name" => Subjects(c) = {Call(c).old, Call(c).new}
         /\ Call(c).do = "remove_table_meta_entry" => Subjects(c) = {Call(c).name}
         /\ Call(c).do \in {"set_table_cluster", "set_table_tags", "set_table_meta_fields"} =>
              Subjects(c) = {Call(c).table}
<1>1. PICK e : e = Call(c)
  OBVIOUS
<1>2. PICK D : D = {t.do : t \in TableEdit}
  OBVIOUS
<1>3. D \subseteq {"set_table_cluster", "set_table_tags", "set_table_meta_fields"}
  BY <1>2 DEF TableEdit
<1>4. e.do \in {"set_table_cluster", "set_table_tags", "set_table_meta_fields"} => e.do \in D
  BY <1>1, <1>2, EditKinds DEF TableEdit
<1>5. Subjects(c) =
        CASE e.do = "delete_cluster"     -> {m.name : m \in {i \in cfg.metas : i.cluster = e.name}}
          [] e.do = "rewrite_table_name" -> {e.old, e.new}
          [] e.do = "remove_table_meta_entry" -> {e.name}
          [] e.do \in D -> {e.table}
          [] OTHER      -> {}
  BY <1>1, <1>2 DEF Subjects
<1>6. CASE e.do = "delete_cluster"
  BY <1>1, <1>3, <1>5, <1>6
<1>7. CASE e.do = "rewrite_table_name"
  BY <1>1, <1>3, <1>5, <1>7
<1>8. CASE e.do = "remove_table_meta_entry"
  BY <1>1, <1>3, <1>5, <1>8
<1>9. CASE e.do \in {"set_table_cluster", "set_table_tags", "set_table_meta_fields"}
  BY <1>1, <1>4, <1>5, <1>9
<1>10. QED  BY <1>1, <1>6, <1>7, <1>8, <1>9

\* An edit of the batch tables ends well, if it lists the files it should.
LEMMA BatchesSaved ==
  ASSUME NEW c \in Clients, IsConfig(cfg), NEW B \in SUBSET Batch,
         Save(c, [cfg EXCEPT !.batches = B]),
         \A b \in B : b.sources \subseteq files \cup shared \cup absent
  PROVE  GoodEnd(c)
<1>1. PICK k : k = [cfg EXCEPT !.batches = B]
  OBVIOUS
<1>2. IsConfig(k) /\ k.batches = B /\ k.metas = cfg.metas
  BY <1>1, EditedConfig
<1>3. QED  BY <1>1, <1>2 DEF GoodEnd, MetasOf

\* So does one that leaves them alone, if it changes the metadata of its subjects only.
LEMMA OthersSaved ==
  ASSUME NEW c \in Clients, NEW k, IsConfig(k), k.batches = cfg.batches, Save(c, k),
         \A b \in cfg.batches : b.sources \subseteq files \cup shared \cup absent,
         \A t \in Names : MetasOf(k, t) # MetasOf(cfg, t) => t \in Subjects(c)
  PROVE  GoodEnd(c)
BY DEF GoodEnd

\* The entry that an edit of a table works on, and what becomes of the others.
LEMMA MetaEdited ==
  ASSUME NEW k, IsConfig(k), NEW t \in Names, NEW m \in EntryFor(k, t), NEW new \in Meta,
         new.name = m.name
  PROVE  /\ IsConfig(WithMeta(k, m, new)) /\ WithMeta(k, m, new).batches = k.batches
         /\ \A n \in Names : MetasOf(WithMeta(k, m, new), n) # MetasOf(k, n) => n = t
<1>1. m.name = t
  BY DEF EntryFor, MetasOf, Blank
<1>2. PICK M : M = (k.metas \ {m}) \cup (IF new = Blank(new.name) THEN {} ELSE {new})
  OBVIOUS
<1>3. M \in SUBSET Meta /\ WithMeta(k, m, new) = [k EXCEPT !.metas = M]
  BY <1>2 DEF IsConfig, WithMeta
<1>4. \A n \in Names : n # t => {i \in M : i.name = n} = {i \in k.metas : i.name = n}
  BY <1>1, <1>2
<1>5. QED  BY <1>3, <1>4, EditedConfig DEF MetasOf

\* The entries are of the right type.
LEMMA EntryTyped ==
  ASSUME NEW k, IsConfig(k), NEW t \in Names, NEW m \in EntryFor(k, t)
  PROVE  m \in Meta
<1>1. Blank(t) \in Meta
  BY DEF Blank, Meta
<1>2. k.metas \subseteq Meta
  BY DEF IsConfig
<1>3. QED  BY <1>1, <1>2 DEF EntryFor, MetasOf

\* Nothing is cleared by an edit that does not remove.
LEMMA ClearsByRemoving ==
  ASSUME NEW e, e.do \notin {"remove_batch_table_entry", "remove_batch_table_source"}
  PROVE  \A b, f : ~Clears(e, b, f)
BY DEF Clears

\* The edits of the batch tables, one client at work.
LEMMA BatchEditEnds ==
  ASSUME Alone, Sourced, ~disturbed, NEW c \in Clients,
         \/ CreateBatchTable(c) \/ UpsertBatchTable(c) \/ AddBatchTableSource(c)
         \/ RemoveBatchTableSource(c) \/ RemoveBatchTableEntry(c)
  PROVE  GoodEnd(c)
<1>1. ~Idle(c) /\ seen[c] # Unread
  BY DEF CreateBatchTable, UpsertBatchTable, AddBatchTableSource, RemoveBatchTableSource,
     RemoveBatchTableEntry, HasRead, IsAt
<1>2. PICK e : e = Call(c)
  OBVIOUS
<1>3. /\ seen[c] = cfg /\ IsConfig(cfg) /\ e \in Edit
      /\ \A b \in cfg.batches : \A f \in b.sources :
           f \in files \cup shared \cup absent \/ Clears(e, b, f)
      /\ Entered(e) \subseteq files \cup absent
  BY <1>1, <1>2, EditAtWork
<1>4. cfg.batches \in SUBSET Batch
  BY <1>3 DEF IsConfig
<1>5. \A b \in cfg.batches : b.sources \in (SUBSET File) \ {{}} /\ b.name \in Names
  BY <1>4 DEF Batch
<1>6. CASE CreateBatchTable(c)
  <2>1. e.do = "create_batch_table" /\ e \in BatchEdit
    BY <1>2, <1>3, <1>6, EditKinds DEF CreateBatchTable, HasRead, IsAt
  <2>2. e.sources \subseteq files \cup absent /\ \A b, f : ~Clears(e, b, f)
    BY <1>3, <2>1, ClearsByRemoving DEF Entered
  <2>3. CASE Refuse(c)
    BY <1>2, <2>2, <2>3 DEF GoodEnd
  <2>4. PICK new : new = [name |-> e.name, sources |-> e.sources]
    OBVIOUS
  <2>5. new \in Batch /\ new.sources \subseteq files \cup absent
    BY <2>1, <2>2, <2>4 DEF Batch, BatchEdit
  <2>6. CASE Save(c, [cfg EXCEPT !.batches = cfg.batches \cup {new}])
    BY <1>3, <1>4, <2>2, <2>5, <2>6, BatchesSaved
  <2>7. QED  BY <1>2, <1>3, <1>6, <2>3, <2>4, <2>6 DEF CreateBatchTable
<1>7. CASE UpsertBatchTable(c)
  <2>1. e.do = "upsert_batch_table" /\ e \in BatchEdit
    BY <1>2, <1>3, <1>7, EditKinds DEF UpsertBatchTable, HasRead, IsAt
  <2>2. e.sources \subseteq files \cup absent /\ \A b, f : ~Clears(e, b, f)
    BY <1>3, <2>1, ClearsByRemoving DEF Entered
  <2>3. PICK new : new = [name |-> e.name, sources |-> e.sources]
    OBVIOUS
  <2>4. new \in Batch /\ new.sources \subseteq files \cup absent
    BY <2>1, <2>2, <2>3 DEF Batch, BatchEdit
  <2>5. ASSUME NEW old \in SUBSET cfg.batches,
               Save(c, [cfg EXCEPT !.batches = (cfg.batches \ old) \cup {new}])
        PROVE  GoodEnd(c)
    BY <1>3, <1>4, <2>2, <2>4, <2>5, BatchesSaved
  <2>6. CASE Save(c, [cfg EXCEPT !.batches = cfg.batches \cup {new}])
    BY <1>3, <1>4, <2>2, <2>4, <2>6, BatchesSaved
  <2>7. CASE \E b \in cfg.batches : Save(c, [cfg EXCEPT !.batches = (cfg.batches \ {b}) \cup {new}])
    BY <2>5, <2>7
  <2>8. QED  BY <1>2, <1>3, <1>7, <2>3, <2>6, <2>7 DEF UpsertBatchTable, BatchesOf
<1>8. CASE AddBatchTableSource(c)
  <2>1. e.do = "add_batch_table_source" /\ e \in MemberEdit
    BY <1>2, <1>3, <1>8, EditKinds DEF AddBatchTableSource, HasRead, IsAt
  <2>2. e.source \in files \cup absent /\ e.source \in File /\ \A b, f : ~Clears(e, b, f)
    BY <1>3, <2>1, ClearsByRemoving DEF Entered, MemberEdit
  <2>3. CASE Refuse(c)
    BY <1>2, <2>2, <2>3 DEF GoodEnd
  <2>4. CASE \E b \in cfg.batches :
               Save(c, [cfg EXCEPT !.batches =
                          (cfg.batches \ {b})
                          \cup {[b EXCEPT !.sources = b.sources \cup {e.source}]}])
    <3>1. PICK b \in cfg.batches :
            Save(c, [cfg EXCEPT !.batches =
                       (cfg.batches \ {b}) \cup {[b EXCEPT !.sources = b.sources \cup {e.source}]}])
      BY <2>4
    <3>2. PICK new : new = [b EXCEPT !.sources = b.sources \cup {e.source}]
      OBVIOUS
    <3>3. new \in Batch /\ new.sources = b.sources \cup {e.source}
      BY <1>4, <2>2, <3>2 DEF Batch
    <3>4. PICK B : B = (cfg.batches \ {b}) \cup {new}
      OBVIOUS
    <3>5. B \in SUBSET Batch /\ Save(c, [cfg EXCEPT !.batches = B])
      BY <1>4, <3>1, <3>2, <3>3, <3>4
    <3>6. \A d \in B : d.sources \subseteq files \cup shared \cup absent
      BY <1>3, <2>2, <3>3, <3>4
    <3>7. QED  BY <1>3, <3>5, <3>6, BatchesSaved
  <2>5. QED  BY <1>2, <1>3, <1>8, <2>3, <2>4 DEF AddBatchTableSource, BatchesOf
<1>9. CASE RemoveBatchTableSource(c)
  <2>1. e.do = "remove_batch_table_source" /\ e \in MemberEdit
    BY <1>2, <1>3, <1>9, EditKinds DEF RemoveBatchTableSource, HasRead, IsAt
  <2>2. \A b, f : Clears(e, b, f) => /\ BatchesOf(cfg, e.name) = {b} /\ e.source = f
                                     /\ b.sources # {f}
    BY <2>1 DEF Clears
  <2>3. CASE Keep(c) /\ BatchesOf(cfg, e.name) = {}
    BY <1>2, <2>2, <2>3 DEF GoodEnd
  <2>4. CASE BatchesOf(cfg, e.name) # {}
    <3>1. PICK b \in BatchesOf(cfg, e.name) :
            IF e.source \notin b.sources THEN Keep(c)
            ELSE IF b.sources = {e.source} THEN Refuse(c)
            ELSE Save(c, [cfg EXCEPT !.batches =
                            (cfg.batches \ {b})
                            \cup {[b EXCEPT !.sources = b.sources \ {e.source}]}])
      BY <1>2, <1>3, <1>9, <2>4 DEF RemoveBatchTableSource
    <3>2. b \in cfg.batches /\ \A d, f : Clears(e, d, f) => d = b
      BY <2>2, <3>1 DEF BatchesOf
    <3>3. CASE e.source \notin b.sources
      <4>1. \A d \in cfg.batches : \A f \in d.sources : ~Clears(e, d, f)
        BY <2>2, <3>2, <3>3
      <4>2. QED  BY <1>2, <3>1, <3>3, <4>1 DEF GoodEnd
    <3>4. CASE b.sources = {e.source}
      <4>1. \A d \in cfg.batches : \A f \in d.sources : ~Clears(e, d, f)
        BY <2>2, <3>2, <3>4
      <4>2. QED  BY <1>2, <3>1, <3>4, <4>1 DEF GoodEnd
    <3>5. CASE e.source \in b.sources /\ b.sources # {e.source}
      <4>1. PICK new : new = [b EXCEPT !.sources = b.sources \ {e.source}]
        OBVIOUS
      <4>2. new \in Batch /\ new.sources = b.sources \ {e.source}
        BY <1>4, <1>5, <3>2, <3>5, <4>1 DEF Batch
      <4>3. Save(c, [cfg EXCEPT !.batches = (cfg.batches \ {b}) \cup {new}])
        BY <3>1, <3>5, <4>1
      <4>4. new.sources \subseteq files \cup shared \cup absent
        BY <1>3, <2>2, <3>2, <4>2
      <4>5. \A d \in cfg.batches \ {b} : d.sources \subseteq files \cup shared \cup absent
        BY <1>3, <3>2
      <4>6. PICK B : B = (cfg.batches \ {b}) \cup {new}
        OBVIOUS
      <4>7. B \in SUBSET Batch /\ Save(c, [cfg EXCEPT !.batches = B])
        BY <1>4, <4>2, <4>3, <4>6
      <4>8. \A d \in B : d.sources \subseteq files \cup shared \cup absent
        BY <4>4, <4>5, <4>6
      <4>9. QED  BY <1>3, <4>7, <4>8, BatchesSaved
    <3>6. QED  BY <3>3, <3>4, <3>5
  <2>5. QED  BY <1>2, <1>3, <1>9, <2>3, <2>4 DEF RemoveBatchTableSource
<1>10. CASE RemoveBatchTableEntry(c)
  <2>1. e.do = "remove_batch_table_entry"
    BY <1>2, <1>10 DEF RemoveBatchTableEntry, HasRead, IsAt
  <2>2. \A b, f : Clears(e, b, f) => e.name = b.name
    BY <2>1 DEF Clears
  <2>3. PICK gone : gone = BatchesOf(cfg, e.name)
    OBVIOUS
  <2>4. \A b \in cfg.batches : b.name = e.name <=> b \in gone
    BY <2>3 DEF BatchesOf
  <2>5. CASE gone = {} /\ Keep(c)
    <3>1. \A b \in cfg.batches : \A f \in b.sources : ~Clears(e, b, f)
      BY <2>2, <2>4, <2>5
    <3>2. QED  BY <1>2, <2>5, <3>1 DEF GoodEnd
  <2>6. CASE Save(c, [cfg EXCEPT !.batches = cfg.batches \ gone])
    <3>1. \A b \in cfg.batches \ gone : b.sources \subseteq files \cup shared \cup absent
      BY <1>3, <2>2, <2>4
    <3>2. QED  BY <1>3, <1>4, <2>6, <3>1, BatchesSaved
  <2>7. QED  BY <1>2, <1>3, <1>10, <2>3, <2>5, <2>6 DEF RemoveBatchTableEntry
<1>11. QED  BY <1>6, <1>7, <1>8, <1>9, <1>10

\* The edits of the metadata and of the clusters, and the renaming, one client at work.
LEMMA OtherEditEnds ==
  ASSUME Alone, Sourced, ~disturbed, NEW c \in Clients,
         \/ CreateCluster(c) \/ UpdateCluster(c) \/ DeleteCluster(c)
         \/ SetTableCluster(c) \/ SetTableTags(c) \/ SetTableMetaFields(c)
         \/ RemoveTableMetaEntry(c) \/ RewriteTableName(c)
  PROVE  GoodEnd(c)
<1>1. /\ ~Idle(c) /\ seen[c] # Unread
      /\ Call(c).do \notin {"remove_batch_table_entry", "remove_batch_table_source"}
  BY DEF CreateCluster, UpdateCluster, DeleteCluster, SetTableCluster, SetTableTags,
     SetTableMetaFields, RemoveTableMetaEntry, RewriteTableName, HasRead, IsAt
<1>2. PICK e : e = Call(c)
  OBVIOUS
<1>3. /\ seen[c] = cfg /\ IsConfig(cfg) /\ e \in Edit
      /\ \A b \in cfg.batches : \A f \in b.sources :
           f \in files \cup shared \cup absent \/ Clears(e, b, f)
  BY <1>1, <1>2, EditAtWork
<1>4. /\ \A b, f : ~Clears(e, b, f)
      /\ \A b \in cfg.batches : b.sources \subseteq files \cup shared \cup absent
  BY <1>1, <1>2, <1>3, ClearsByRemoving
<1>5. /\ cfg.metas \subseteq Meta /\ cfg.clusters \subseteq Names /\ cfg.batches \subseteq Batch
      /\ cfg = [clusters |-> cfg.clusters, batches |-> cfg.batches, metas |-> cfg.metas]
  BY <1>3 DEF IsConfig
<1>6. ASSUME Keep(c) \/ Refuse(c) PROVE GoodEnd(c)
  BY <1>2, <1>4, <1>6 DEF GoodEnd
<1>7. ASSUME NEW m \in EntryFor(cfg, e.table), NEW new \in Meta, new.name = m.name,
             e.table \in Names,
             e.do \in {"set_table_cluster", "set_table_tags", "set_table_meta_fields"},
             Save(c, WithMeta(cfg, m, new))
      PROVE  GoodEnd(c)
  <2>1. Subjects(c) = {e.table}
    BY <1>2, <1>3, <1>7, SubjectsByKind
  <2>2. /\ IsConfig(WithMeta(cfg, m, new)) /\ WithMeta(cfg, m, new).batches = cfg.batches
        /\ \A n \in Names : MetasOf(WithMeta(cfg, m, new), n) # MetasOf(cfg, n) => n = e.table
    BY <1>3, <1>7, MetaEdited
  <2>3. QED  BY <1>4, <1>7, <2>1, <2>2, OthersSaved
<1>8. CASE CreateCluster(c)
  <2>1. e \in [do : {"create_cluster", "update_cluster"}, name : Names]
    BY <1>2, <1>3, <1>8, EditKinds DEF CreateCluster, HasRead, IsAt
  <2>2. PICK k : k = [cfg EXCEPT !.clusters = cfg.clusters \cup {e.name}]
    OBVIOUS
  <2>3. IsConfig(k) /\ k.batches = cfg.batches /\ k.metas = cfg.metas
    BY <1>3, <1>5, <2>1, <2>2, EditedConfig
  <2>4. Refuse(c) \/ Save(c, k)
    BY <1>2, <1>3, <1>8, <2>2 DEF CreateCluster
  <2>5. QED  BY <1>4, <1>6, <2>3, <2>4, OthersSaved DEF MetasOf
<1>9. CASE UpdateCluster(c)
  BY <1>3, <1>4, <1>6, <1>9, OthersSaved DEF UpdateCluster
<1>10. CASE DeleteCluster(c)
  <2>1. e.do = "delete_cluster"
    BY <1>2, <1>10 DEF DeleteCluster, HasRead, IsAt
  <2>2. PICK in : in = {m \in cfg.metas : m.cluster = e.name}
    OBVIOUS
  <2>3. PICK left : left = {[m EXCEPT !.cluster = NoCluster] : m \in {i \in in : i.tags}}
    OBVIOUS
  <2>4. PICK k : k = [clusters |-> cfg.clusters \ {e.name}, batches |-> cfg.batches,
                      metas |-> (cfg.metas \ in) \cup left]
    OBVIOUS
  <2>5. \A n \in left : n \in Meta /\ \E m \in in : m.name = n.name
    BY <1>5, <2>2, <2>3 DEF Meta
  <2>6. IsConfig(k)
    BY <1>5, <2>4, <2>5 DEF IsConfig
  <2>7. \A m \in in : m.name \in Subjects(c)
    BY <1>2, <1>3, <2>1, <2>2, SubjectsByKind
  <2>8. ASSUME NEW t \in Names, t \notin Subjects(c) PROVE MetasOf(k, t) = MetasOf(cfg, t)
    <3>1. \A m \in in \cup left : m.name # t
      BY <2>5, <2>7, <2>8
    <3>2. k.metas = (cfg.metas \ in) \cup left /\ in \subseteq cfg.metas
      BY <2>2, <2>4
    <3>3. QED  BY <3>1, <3>2 DEF MetasOf
  <2>9. Keep(c) \/ Refuse(c) \/ Save(c, k)
    BY <1>2, <1>3, <1>10, <2>2, <2>3, <2>4 DEF DeleteCluster
  <2>10. k.batches = cfg.batches
    BY <2>4
  <2>11. QED  BY <1>4, <1>6, <2>6, <2>8, <2>9, <2>10, OthersSaved
<1>11. CASE SetTableCluster(c)
  <2>1. /\ e.do = "set_table_cluster"
        /\ e \in [do : {"set_table_cluster"}, table : Names, cluster : Names \cup {NoCluster}]
    BY <1>2, <1>3, <1>11, EditKinds DEF SetTableCluster, HasRead, IsAt
  <2>2. CASE \E m \in EntryFor(cfg, e.table) :
               Save(c, WithMeta(cfg, m, [m EXCEPT !.cluster = e.cluster]))
    <3>1. PICK m \in EntryFor(cfg, e.table) :
                 Save(c, WithMeta(cfg, m, [m EXCEPT !.cluster = e.cluster]))
      BY <2>2
    <3>2. PICK new : new = [m EXCEPT !.cluster = e.cluster]
      OBVIOUS
    <3>3. m \in Meta
      BY <1>3, <2>1, EntryTyped
    <3>4. new \in Meta /\ new.name = m.name
      BY <2>1, <3>2, <3>3 DEF Meta
    <3>5. QED  BY <1>7, <2>1, <3>1, <3>2, <3>4
  <2>3. QED  BY <1>2, <1>3, <1>6, <1>11, <2>2 DEF SetTableCluster
<1>12. CASE SetTableTags(c)
  <2>1. /\ e.do = "set_table_tags"
        /\ e \in [do : {"set_table_tags"}, table : Names, tags : BOOLEAN]
    BY <1>2, <1>3, <1>12, EditKinds DEF SetTableTags, HasRead, IsAt
  <2>2. PICK m \in EntryFor(cfg, e.table) :
               Save(c, WithMeta(cfg, m, [m EXCEPT !.tags = e.tags]))
    BY <1>2, <1>3, <1>12 DEF SetTableTags
  <2>3. PICK new : new = [m EXCEPT !.tags = e.tags]
    OBVIOUS
  <2>4. m \in Meta
    BY <1>3, <2>1, EntryTyped
  <2>5. new \in Meta /\ new.name = m.name
    BY <2>1, <2>3, <2>4 DEF Meta
  <2>6. QED  BY <1>7, <2>1, <2>2, <2>3, <2>5
<1>13. CASE SetTableMetaFields(c)
  <2>1. /\ e.do = "set_table_meta_fields"
        /\ e \in [do : {"set_table_meta_fields"}, table : Names, notes : BOOLEAN]
    BY <1>2, <1>3, <1>13, EditKinds DEF SetTableMetaFields, HasRead, IsAt
  <2>2. PICK m \in EntryFor(cfg, e.table) :
               Save(c, WithMeta(cfg, m, [m EXCEPT !.notes = e.notes]))
    BY <1>2, <1>3, <1>13 DEF SetTableMetaFields
  <2>3. PICK new : new = [m EXCEPT !.notes = e.notes]
    OBVIOUS
  <2>4. m \in Meta
    BY <1>3, <2>1, EntryTyped
  <2>5. new \in Meta /\ new.name = m.name
    BY <2>1, <2>3, <2>4 DEF Meta
  <2>6. QED  BY <1>7, <2>1, <2>2, <2>3, <2>5
<1>14. CASE RemoveTableMetaEntry(c)
  <2>1. e.do = "remove_table_meta_entry"
    BY <1>2, <1>14 DEF RemoveTableMetaEntry, HasRead, IsAt
  <2>2. PICK k : k = [cfg EXCEPT !.metas = cfg.metas \ MetasOf(cfg, e.name)]
    OBVIOUS
  <2>3. /\ IsConfig(k) /\ k.batches = cfg.batches
        /\ k.metas = cfg.metas \ MetasOf(cfg, e.name)
    BY <1>3, <1>5, <2>2, EditedConfig
  <2>4. \A t \in Names : t # e.name => MetasOf(k, t) = MetasOf(cfg, t)
    BY <2>3 DEF MetasOf
  <2>5. Keep(c) \/ Save(c, k)
    BY <1>2, <1>3, <1>14, <2>2 DEF RemoveTableMetaEntry
  <2>6. Subjects(c) = {e.name}
    BY <1>2, <1>3, <2>1, SubjectsByKind
  <2>7. QED  BY <1>4, <1>6, <2>3, <2>4, <2>5, <2>6, OthersSaved
<1>15. CASE RewriteTableName(c)
  <2>1. /\ e.do = "rewrite_table_name"
        /\ e \in [do : {"rewrite_table_name"}, old : Names, new : Names]
    BY <1>2, <1>3, <1>15, EditKinds DEF RewriteTableName, HasRead, IsAt
  <2>2. PICK B : B = Renamed(cfg.batches, e.old, e.new)
    OBVIOUS
  <2>3. PICK M : M = Renamed(cfg.metas, e.old, e.new)
    OBVIOUS
  <2>4. PICK k : k = [clusters |-> cfg.clusters, batches |-> B, metas |-> M]
    OBVIOUS
  <2>5. \A b \in B : b \in Batch /\ \E d \in cfg.batches : b.sources = d.sources
    BY <1>5, <2>1, <2>2 DEF Renamed, Batch
  <2>6. M \subseteq Meta
    BY <1>5, <2>1, <2>3 DEF Renamed, Meta
  <2>7. IsConfig(k) /\ k.batches = B /\ k.metas = M
    BY <1>5, <2>4, <2>5, <2>6 DEF IsConfig
  <2>8. ASSUME NEW t \in Names, t \notin {e.old, e.new} PROVE MetasOf(k, t) = MetasOf(cfg, t)
    <3>1. \A m \in cfg.metas : m.name = t => m \in M
      BY <2>3, <2>8 DEF Renamed
    <3>2. \A m \in M : m.name = t => m \in cfg.metas
      BY <1>5, <2>3, <2>8 DEF Renamed, Meta
    <3>3. QED  BY <2>7, <3>1, <3>2 DEF MetasOf
  <2>9. Save(c, k)
    BY <1>2, <1>3, <1>15, <2>2, <2>3, <2>4 DEF RewriteTableName
  <2>10. Subjects(c) = {e.old, e.new}
    BY <1>2, <1>3, <2>1, SubjectsByKind
  <2>11. \A b \in B : b.sources \subseteq files \cup shared \cup absent
    BY <1>4, <2>5
  <2>12. \A t \in Names : MetasOf(k, t) # MetasOf(cfg, t) => t \in Subjects(c)
    BY <2>8, <2>10
  <2>13. QED  BY <2>7, <2>9, <2>11, <2>12 DEF GoodEnd
<1>16. QED
  BY <1>8, <1>9, <1>10, <1>11, <1>12, <1>13, <1>14, <1>15

-----------------------------------------------------------------------------
(* The theorems on requests made one at a time.                            *)

\* Every edit of one client at work ends well.
LEMMA EditEnds ==
  ASSUME Alone, Sourced, ~disturbed, NEW c \in Clients, DoEdit(c)
  PROVE  GoodEnd(c)
BY BatchEditEnds, OtherEditEnds DEF DoEdit

\* What an edit always does and does not.
LEMMA EditFrame ==
  ASSUME NEW c \in Clients, DoEdit(c)
  PROVE  /\ ~Idle(c) /\ seen[c] # Unread
         /\ UNCHANGED <<files, tracked, disturbed, requests>>
<1>1. ~Idle(c) /\ seen[c] # Unread
  BY DEF DoEdit, HasRead, IsAt, CreateBatchTable, UpsertBatchTable, AddBatchTableSource,
     RemoveBatchTableSource, RemoveBatchTableEntry, CreateCluster, UpdateCluster,
     DeleteCluster, SetTableCluster, SetTableTags, SetTableMetaFields, RemoveTableMetaEntry,
     RewriteTableName
<1>2. Keep(c) \/ Refuse(c) \/ \E k : Save(c, k)
  BY DEF DoEdit, CreateBatchTable, UpsertBatchTable, AddBatchTableSource,
     RemoveBatchTableSource, RemoveBatchTableEntry, CreateCluster, UpdateCluster,
     DeleteCluster, SetTableCluster, SetTableTags, SetTableMetaFields, RemoveTableMetaEntry,
     RewriteTableName
<1>3. QED  BY <1>1, <1>2 DEF Keep, Refuse, Save, EndEdit

\* The files of the batch tables are the same when nothing of the project has changed.
LEMMA SourcedSame ==
  ASSUME Sourced, UNCHANGED <<files, cfg, job, shared, disturbed, absent>>
  PROVE  Sourced'
<1> SUFFICES ASSUME ~disturbed PROVE Sourced'
  BY DEF Sourced
<1>1. \A c, b, f : Cleared(job[c], b, f)' <=> Cleared(job[c], b, f)
  BY DEF Cleared, Clears
<1>2. ASSUME NEW c \in Clients PROVE SafeJob(job[c], absent)'
  <2>1. SafeJob(job[c], absent)
    BY DEF Sourced
  <2>2. QED  BY <1>1, <2>1 DEF SafeJob
<1>3. QED  BY <1>1, <1>2 DEF Sourced

\* An edit that reads the configuration has the current one.
LEMMA ReadInv ==
  ASSUME Alone, Sourced, NEW c \in Clients, ReadConfig(c), absent' = absent
  PROVE  Alone' /\ Sourced'
<1>1. /\ ~Idle(c) /\ Call(c).do \in {e.do : e \in Edit}
      /\ seen' = [seen EXCEPT ![c] = cfg]
      /\ UNCHANGED <<files, cfg, job, shared, disturbed, absent>>
  BY DEF ReadConfig
<1>2. Sourced'
  BY <1>1, SourcedSame
<1>3. ASSUME ~disturbed PROVE Alone'
  <2>1. Call(c) \in Edit
    <3>1. Call(c).do \notin OnFiles \cup {"rename_history"}
      BY <1>1, EditsAreNoFileCalls
    <3>2. Call(c) \in Calls
      BY <1>1, <1>3, AtWork
    <3>3. QED  BY <3>1, <3>2, FileCallKinds DEF Calls
  <2>2. /\ DOMAIN seen' = Clients
        /\ \A d \in Clients : seen'[d] # Unread => seen'[d] = cfg /\ ~Idle(d) /\ Call(d) \in Edit
    BY <1>1, <1>3, <2>1 DEF Alone
  <2>3. QED
    BY <1>1, <1>3, <2>2 DEF Alone, IsConfig, Idle, Call, InOrder, RenameReplacesNothing
<1>4. QED  BY <1>1, <1>2, <1>3 DEF Alone

\* A project as payload has left it.
LEMMA AloneAtStart == BrowserInit => Alone /\ Sourced
<1> SUFFICES ASSUME BrowserInit PROVE Alone /\ Sourced
  OBVIOUS
<1>1. PICK p \in Starts : files = p.files /\ cfg = p.cfg
  BY DEF BrowserInit, Init
<1>2. /\ job = [c \in Clients |-> <<>>] /\ seen = [c \in Clients |-> Unread]
      /\ shared = {} /\ absent = {}
  BY DEF BrowserInit, Init
<1>3. /\ files \subseteq File /\ IsConfig(cfg) /\ Members(cfg) \subseteq files
      /\ \A b1, b2 \in cfg.batches : b1.sources \cap b2.sources # {} => b1 = b2
  BY <1>1, StartsAssumption
<1>4. \A c \in Clients : job[c] = <<>> /\ seen[c] = Unread /\ InOrder(job[c])
  BY <1>2, NoJob
<1>5. job \in [Clients -> Seq(Calls)]
  BY <1>2, NoJob
<1>6. Alone
  BY <1>2, <1>3, <1>4, <1>5 DEF Alone, Idle, RenameReplacesNothing
<1>7. Sourced
  <2>1. \A c \in Clients : SafeJob(job[c], absent)
    BY <1>4 DEF SafeJob
  <2>2. \A b \in cfg.batches : b.sources \subseteq files
    BY <1>3 DEF Members
  <2>3. QED  BY <1>3, <2>1, <2>2 DEF Sourced
<1>8. QED  BY <1>6, <1>7

\* A step that leaves the project, the jobs and the copies as they are.
LEMMA AloneStutter ==
  ASSUME Alone, Sourced, UNCHANGED <<files, cfg, job, seen, shared, disturbed, absent>>
  PROVE  Alone' /\ Sourced'
<1>1. Alone'
  BY DEF Alone, IsConfig, Idle, Call, InOrder, RenameReplacesNothing
<1>2. Sourced'
  BY SourcedSame
<1>3. QED  BY <1>1, <1>2

\* Once two requests have overlapped, nothing is claimed.
LEMMA DisturbedInv ==
  ASSUME disturbed' PROVE Alone' /\ Sourced'
BY DEF Alone, Sourced

\* A request of the web interface or of the command line that is alone stays in order.
LEMMA AskInv ==
  ASSUME Alone, Sourced, NEW c \in Clients, Ask(c), absent' = absent \cup Misnamed
  PROVE  Alone' /\ Sourced'
<1>1. CASE disturbed'
  BY <1>1, DisturbedInv
<1>2. CASE ~disturbed'
  <2>1. PICK calls : Request(c, calls) /\ GoodJob(calls, absent')
    BY <1>2, AskedJob
  <2>2. QED  BY <2>1, SourcedRequest
<1>3. QED  BY <1>1, <1>2

\* So does a request of the file browser, with what it takes away.
LEMMA BrowseInv ==
  ASSUME Alone, Sourced, NEW c \in Clients, Browse(c)
  PROVE  Alone' /\ Sourced'
<1>1. CASE disturbed'
  BY <1>1, DisturbedInv
<1>2. CASE ~disturbed'
  <2>1. PICK calls : Request(c, calls) /\ GoodJob(calls, absent')
    BY <1>2, BrowsedJob
  <2>2. absent \subseteq absent'
    BY DEF Browse
  <2>3. QED  BY <2>1, <2>2, SourcedRequest
<1>3. QED  BY <1>1, <1>2

\* A call of a job is a step of the client at work.
LEMMA CallFrame ==
  ASSUME NEW c \in Clients, DoFile(c) \/ ReadConfig(c) \/ DoEdit(c)
  PROVE  /\ ~Idle(c) /\ disturbed' = disturbed
         /\ job' = job \/ \E j : job' = [job EXCEPT ![c] = j]
<1>1. \A f : FileDone(c, f) => \E j : job' = [job EXCEPT ![c] = j]
  BY DEF FileDone
<1>2. Return(c) \/ Raise(c) => \E j : job' = [job EXCEPT ![c] = j]
  BY DEF Return, Raise
<1>3. CASE DoFile(c)
  <2>1. ~Idle(c) /\ disturbed' = disturbed
    BY <1>3 DEF DoFile, WriteFile, UnlinkFile, MoveFile, CopyFile, RenameHistory, OnlyFiles, IsAt
  <2>2. \E j : job' = [job EXCEPT ![c] = j]
    BY <1>1, <1>2, <1>3 DEF DoFile, WriteFile, UnlinkFile, MoveFile, CopyFile, RenameHistory
  <2>3. QED  BY <2>1, <2>2
<1>4. CASE ReadConfig(c)
  BY <1>4 DEF ReadConfig
<1>5. CASE DoEdit(c)
  <2>1. Keep(c) \/ Refuse(c) \/ \E k : Save(c, k)
    BY <1>5 DEF DoEdit, CreateBatchTable, UpsertBatchTable, AddBatchTableSource,
       RemoveBatchTableSource, RemoveBatchTableEntry, CreateCluster, UpdateCluster,
       DeleteCluster, SetTableCluster, SetTableTags, SetTableMetaFields, RemoveTableMetaEntry,
       RewriteTableName
  <2>2. QED  BY <1>2, <1>5, <2>1, EditFrame DEF Keep, Refuse, Save
<1>6. QED  BY <1>3, <1>4, <1>5

\* Only a request names files.
LEMMA NothingMisnamed ==
  ASSUME Alone, ~disturbed', NEW c \in Clients, DoFile(c) \/ ReadConfig(c) \/ DoEdit(c)
  PROVE  Misnamed = {}
<1>1. /\ ~Idle(c) /\ DOMAIN job = Clients
      /\ job' = job \/ \E j : job' = [job EXCEPT ![c] = j]
  BY CallFrame DEF Alone
<1>2. \A d \in Clients : Idle(d) => job'[d] = <<>>
  BY <1>1 DEF Idle
<1>3. \A n, f : <<>> # <<[do |-> "add_batch_table_source", name |-> n, source |-> f]>>
  OBVIOUS
<1>4. QED  BY <1>2, <1>3 DEF Misnamed

\* Every step of the clients, one request at a time or not.
LEMMA AloneKept == Alone /\ Sourced /\ [BrowserNext]_browserVars => Alone' /\ Sourced'
<1> SUFFICES ASSUME Alone, Sourced, [BrowserNext]_browserVars, ~disturbed'
             PROVE  Alone' /\ Sourced'
  BY DisturbedInv
<1>1. CASE UNCHANGED browserVars
  BY <1>1, AloneStutter DEF browserVars, vars
<1>2. CASE Commit /\ absent' = absent \cup Misnamed
  <2>1. UNCHANGED <<files, cfg, job, seen, shared, disturbed>>
    BY <1>2 DEF Commit
  <2>2. \A n, f : <<>> # <<[do |-> "add_batch_table_source", name |-> n, source |-> f]>>
    OBVIOUS
  <2>3. absent' = absent
    BY <1>2, <2>1, <2>2 DEF Misnamed, Idle
  <2>4. QED  BY <2>1, <2>3, AloneStutter
<1>3. ASSUME NEW c \in Clients, Ask(c), absent' = absent \cup Misnamed
      PROVE  Alone' /\ Sourced'
  BY <1>3, AskInv
<1>4. ASSUME NEW c \in Clients, DoFile(c) \/ ReadConfig(c) \/ DoEdit(c),
             absent' = absent \cup Misnamed
      PROVE  Alone' /\ Sourced'
  <2>1. absent' = absent
    BY <1>4, NothingMisnamed
  <2>2. CASE DoFile(c)
    BY <2>1, <2>2, FileStepInv
  <2>3. CASE ReadConfig(c)
    BY <2>1, <2>3, ReadInv
  <2>4. CASE DoEdit(c)
    BY <2>1, <2>4, EditEnds, EditFrame, EndInv
  <2>5. QED  BY <1>4, <2>2, <2>3, <2>4
<1>5. ASSUME NEW c \in Clients, Crash(c)
      PROVE  Alone' /\ Sourced'
  BY <1>5, DisturbedInv DEF Crash
<1>6. ASSUME NEW c \in Clients, Browse(c)
      PROVE  Alone' /\ Sourced'
  BY <1>6, BrowseInv
<1>7. QED
  BY <1>1, <1>2, <1>3, <1>4, <1>5, <1>6 DEF BrowserNext, Next

\* One request at a time: the client at work edits the file as it is, and what its job has
\* still to do accounts for every source that is missing, but for those that two batch tables
\* have listed, the browser took away, or 'pld batch --add' was given when they were missing.
THEOREM RequestsStayInOrder == BrowserSpec => [](Alone /\ Sourced)
  BY AloneAtStart, AloneKept, PTL DEF BrowserSpec

\* table_admin.py: the name check of a rename or a clone, one request at a time, is enough,
\* the browser's requests included: the file it creates never replaces one.
THEOREM NoRenameReplaces == BrowserSpec => []RenameReplacesNothing
<1>1. Alone => RenameReplacesNothing
  BY DEF Alone, RenameReplacesNothing
<1>2. QED  BY <1>1, RequestsStayInOrder, PTL

\* Between requests made one at a time, the sources of every batch table are there, unless
\* two batch tables have listed them, the browser has taken them away, or a user has named
\* them in 'pld batch --add' when they were not there.
THEOREM BatchSourcesExist == BrowserSpec => []SourcesExist
<1>1. Sourced => SourcesExist
  <2> SUFFICES ASSUME Sourced, Quiet
               PROVE  \A b \in cfg.batches : b.sources \subseteq files \cup shared \cup absent
    BY DEF SourcesExist
  <2>1. ~disturbed /\ \A c \in Clients : \A b, f : ~Cleared(job[c], b, f)
    BY NoJob DEF Quiet, Idle
  <2>2. QED  BY <2>1 DEF Sourced
<1>2. QED  BY <1>1, RequestsStayInOrder, PTL

\* An edit alone leaves the tags, notes and cluster of every table alone but those of the
\* tables it is about.
THEOREM EditsKeepOtherMeta == BrowserSpec => OthersKeepTheirMeta
<1> DEFINE Kept == ~disturbed' => \A t \in Names : MetasOf(cfg, t) # MetasOf(cfg', t)
                     => \E c \in Clients : ~Idle(c) /\ t \in Subjects(c)
<1>1. Alone /\ Sourced /\ [BrowserNext]_browserVars => [Kept]_vars
  <2> SUFFICES ASSUME Alone, Sourced, [BrowserNext]_browserVars, ~disturbed',
                      NEW t \in Names, MetasOf(cfg, t) # MetasOf(cfg', t)
               PROVE  \E c \in Clients : ~Idle(c) /\ t \in Subjects(c)
    OBVIOUS
  <2>1. cfg' # cfg
    BY DEF MetasOf
  <2>2. PICK c \in Clients : DoEdit(c)
    <3>1. ASSUME NEW c \in Clients, Ask(c) PROVE cfg' = cfg
      BY <3>1 DEF Ask, Request, EditMetadata, EditMembers, EditBatch, DropBatchEntry,
         ImportTables, ImportNewBatch, ImportMember, RenameSingle, RenameBatch, CloneSingle,
         CloneBatch, DeleteSingle, DeleteBatch, DeleteMember
    <3>2. ASSUME NEW c \in Clients, DoFile(c) PROVE cfg' = cfg
      BY <3>2 DEF DoFile, WriteFile, UnlinkFile, MoveFile, CopyFile, RenameHistory, OnlyFiles
    <3>3. ASSUME NEW c \in Clients, Browse(c) PROVE cfg' = cfg
      BY <3>3 DEF Browse, CreateFile, EditContent, UploadFile, RenameFile, DuplicateFile,
         DeleteFile, Write, Request
    <3>4. QED
      BY <2>1, <3>1, <3>2, <3>3 DEF BrowserNext, browserVars, vars, Next, Commit, ReadConfig,
         Crash
  <2>3. ~Idle(c) /\ ~disturbed
    BY <2>2, EditFrame
  <2>4. GoodEnd(c)
    BY <2>2, <2>3, EditEnds
  <2>5. t \in Subjects(c)
    <3>1. PICK k : Save(c, k) /\ (MetasOf(k, t) # MetasOf(cfg, t) => t \in Subjects(c))
      BY <2>1, <2>4 DEF GoodEnd, Keep, Refuse
    <3>2. QED  BY <3>1 DEF Save
  <2>6. QED  BY <2>3, <2>5
<1>2. BrowserSpec => [][Kept]_vars
  BY <1>1, RequestsStayInOrder, PTL DEF BrowserSpec
<1>3. QED  BY <1>2 DEF OthersKeepTheirMeta

-----------------------------------------------------------------------------
(* The name checks of the file browser.                                    *)

\* A call that is about no file, or deletes, or may overwrite, is not held to anything.
Free(e) ==
  /\ e.do = "write" /\ ~e.overwrite =>
       /\ \A f \in e.files : NameFree(f, {})
       /\ \A f, g \in e.files : Stem(f) = Stem(g) => f = g
       /\ BatchesResolve \/ \A f, g \in e.files : f = g
  /\ e.do = "move" => NameFree(e.to, {e.from})
  /\ e.do = "copy" => NameFree(e.to, {})

\* What the name checks of the requests have found is still so when the file is made.
NamesFree == ~disturbed => \A c \in Clients : Len(job[c]) = 1 => Free(Call(c))

\* A request that is alone finds nobody at work, and changes nothing of the project.
LEMMA RequestAlone ==
  ASSUME NEW c \in Clients, Ask(c) \/ Browse(c), ~disturbed'
  PROVE  /\ ~disturbed /\ \A d \in Clients : Idle(d)
         /\ UNCHANGED <<files, cfg>>
<1>1. \A calls : Request(c, calls) =>
          /\ ~disturbed /\ \A d \in Clients : Idle(d)
          /\ UNCHANGED <<files, cfg>>
  BY DEF Request
<1>2. CASE Ask(c)
  BY <1>1, <1>2 DEF Ask, EditMetadata, EditMembers, EditBatch, DropBatchEntry,
     ImportTables, ImportNewBatch, ImportMember, RenameSingle, RenameBatch, CloneSingle,
     CloneBatch, DeleteSingle, DeleteBatch, DeleteMember
<1>3. CASE Browse(c)
  BY <1>1, <1>3 DEF Browse, CreateFile, EditContent, UploadFile, RenameFile, DuplicateFile,
     DeleteFile, Write
<1>4. QED  BY <1>2, <1>3

\* A name that no table has is free for a file.
LEMMA UnusedName ==
  ASSUME NEW f, Stem(f) \notin TableNames, NEW movable
  PROVE  NameFree(f, movable)
<1>1. \A g \in Singles : Stem(g) # Stem(f)
  BY DEF TableNames
<1>2. \A b \in cfg.batches : b.name # Stem(f)
  BY DEF TableNames, BatchNames
<1>3. Owners(Stem(f)) = {}
  BY <1>1, <1>2 DEF Owners
<1>4. QED  BY <1>3 DEF NameFree

\* A name without an owner is the name of no file and of no batch table, when these resolve.
LEMMA WithoutOwner ==
  ASSUME IsConfig(cfg), BatchesResolve, NEW n, Owners(n) = {}
  PROVE  BatchesOf(cfg, n) = {} /\ \A g \in Singles : Stem(g) # n
<1>1. {g \in Singles : Stem(g) = n} = {}
  BY DEF Owners
<1>2. UNION {b.sources : b \in {k \in cfg.batches : k.name = n}} = {}
  BY <1>1 DEF Owners
<1>3. ASSUME NEW b \in BatchesOf(cfg, n) PROVE FALSE
  <2>1. b \in cfg.batches /\ b.name = n /\ b.sources # {}
    BY DEF BatchesOf, IsConfig, Batch
  <2>2. PICK g : g \in b.sources
    BY <2>1
  <2>3. QED  BY <1>2, <2>1, <2>2
<1>4. QED  BY <1>1, <1>3

\* The first call of a job that is put together.
LEMMA FirstOf ==
  ASSUME NEW e \in Calls, NEW rest \in Seq(Calls)
  PROVE  (<<e>> \o rest)[1] = e
OBVIOUS

\* The requests that know about tables check the name against the tables.
LEMMA AskedFree ==
  ASSUME Alone, NEW c \in Clients, Ask(c), ~disturbed'
  PROVE  \E calls : Request(c, calls) /\ (Len(calls) = 1 => Free(calls[1]))
<1>1. IsConfig(cfg) /\ files \subseteq File
  BY RequestAlone DEF Alone
<1>2. \A e : e.do \notin {"write", "move", "copy"} => Free(e)
  BY DEF Free
<1>3. ASSUME NEW e, e.do \notin {"write", "move", "copy"}, Request(c, <<e>>)
      PROVE  \E calls : Request(c, calls) /\ (Len(calls) = 1 => Free(calls[1]))
  BY <1>2, <1>3
<1>4. ASSUME NEW calls, Len(calls) # 1, Request(c, calls)
      PROVE  \E s : Request(c, s) /\ (Len(s) = 1 => Free(s[1]))
  BY <1>4
<1>5. CASE EditMetadata(c)
  <2>1. PICK e \in TableEdit \cup ClusterEdit : Request(c, <<e>>)
    BY <1>5 DEF EditMetadata
  <2>2. e.do \notin {"write", "move", "copy"}
    BY DEF TableEdit, ClusterEdit
  <2>3. QED  BY <1>3, <2>1, <2>2
<1>6. CASE EditMembers(c)
  <2>1. PICK e \in MemberEdit : Request(c, <<e>>)
    BY <1>6 DEF EditMembers
  <2>2. e.do \notin {"write", "move", "copy"}
    BY DEF MemberEdit
  <2>3. QED  BY <1>3, <2>1, <2>2
<1>7. CASE EditBatch(c)
  <2>1. PICK e \in BatchEdit : Request(c, <<e>>)
    BY <1>7 DEF EditBatch
  <2>2. e.do \notin {"write", "move", "copy"}
    BY DEF BatchEdit
  <2>3. QED  BY <1>3, <2>1, <2>2
<1>8. CASE DropBatchEntry(c)
  <2>1. PICK n, e : e = [do |-> "remove_batch_table_entry", name |-> n] /\ Request(c, <<e>>)
    BY <1>8 DEF DropBatchEntry
  <2>2. QED  BY <1>3, <2>1
<1>9. CASE ImportTables(c)
  <2>1. PICK S \in SUBSET File, overwrite \in BOOLEAN :
          /\ ~overwrite => /\ \A f \in S : Stem(f) \notin TableNames
                           /\ \A f, g \in S : Stem(f) = Stem(g) => f = g
          /\ Request(c, <<[do |-> "write", files |-> S, overwrite |-> overwrite]>>)
    BY <1>9 DEF ImportTables
  <2>2. PICK e : e = [do |-> "write", files |-> S, overwrite |-> overwrite]
    OBVIOUS
  <2>3. BatchesResolve
    BY <1>9 DEF ImportTables, Discoverable
  <2>4. Free(e)
    BY <2>1, <2>2, <2>3, UnusedName DEF Free
  <2>5. QED  BY <2>1, <2>2, <2>4
<1>10. CASE ImportNewBatch(c)
  <2>1. PICK e, d : Request(c, <<e, d>>)
    BY <1>10 DEF ImportNewBatch
  <2>2. QED  BY <1>4, <2>1
<1>11. CASE ImportMember(c)
  <2>1. PICK e, d : Request(c, <<e, d>>)
    BY <1>11 DEF ImportMember
  <2>2. QED  BY <1>4, <2>1
<1>12. ASSUME NEW old \in Names, NEW new \in Names
       PROVE  RenameCalls(old, new) \in Seq(Calls) /\ Len(RenameCalls(old, new)) = 2
  <2>1. PICK e, d : /\ e = [do |-> "rename_history", old |-> old, new |-> new]
                    /\ d = [do |-> "rewrite_table_name", old |-> old, new |-> new]
    OBVIOUS
  <2>2. e \in Calls /\ d \in Calls /\ RenameCalls(old, new) = <<e, d>>
    BY <2>1 DEF Calls, FileCall, Edit, OtherEdit, RenameCalls
  <2>3. QED  BY <2>2
<1>13. CASE RenameSingle(c)
  <2>0. PICK f \in Singles, new \in Names :
          Request(c, <<[do |-> "move", from |-> f, to |-> <<new, f[2]>>]>> \o RenameCalls(Stem(f), new))
    BY <1>13 DEF RenameSingle
  <2>1. PICK e : /\ e = [do |-> "move", from |-> f, to |-> <<new, f[2]>>]
                 /\ Request(c, <<e>> \o RenameCalls(Stem(f), new))
    BY <2>0
  <2>2. f \in files /\ Stem(f) \in Names
    BY <1>1, CallTypes DEF Singles
  <2>3. PICK rest : rest = RenameCalls(Stem(f), new)
    OBVIOUS
  <2>4. rest \in Seq(Calls) /\ Len(rest) = 2
    BY <1>12, <2>2, <2>3
  <2>5. PICK calls : calls = <<e>> \o rest
    OBVIOUS
  <2>6. Len(calls) # 1
    <3>1. <<new, f[2]>> \in File /\ f \in File
      BY <1>1, <2>0, <2>1, <2>2, CallTypes
    <3>2. e \in Calls
      BY <1>1, <2>0, <2>1, <3>1, CallTypes
    <3>3. <<e>> \in Seq(Calls) /\ Len(<<e>>) = 1
      BY <3>2, OneCall
    <3>4. Len(calls) = Len(<<e>>) + Len(rest)
      BY <2>4, <2>5, <3>3, ConcatProperties
    <3>5. QED  BY <2>4, <3>3, <3>4
  <2>7. QED  BY <1>4, <2>0, <2>1, <2>3, <2>5, <2>6
<1>14. CASE RenameBatch(c)
  <2>1. PICK old \in Names, new \in Names : Request(c, RenameCalls(old, new))
    BY <1>1, <1>14, CallTypes DEF RenameBatch, BatchNames
  <2>2. PICK calls : calls = RenameCalls(old, new)
    OBVIOUS
  <2>3. Len(calls) = 2
    BY <1>12, <2>2
  <2>4. Len(calls) # 1
    BY <2>3
  <2>5. QED  BY <1>4, <2>1, <2>2, <2>4
<1>15. CASE CloneSingle(c)
  <2>0. PICK f \in Singles, new \in Names \ TableNames :
          Request(c, <<[do |-> "copy", from |-> f, to |-> <<new, f[2]>>]>> \o CloneMeta(Stem(f), new))
    BY <1>15 DEF CloneSingle
  <2>1. PICK e : /\ e = [do |-> "copy", from |-> f, to |-> <<new, f[2]>>]
                 /\ Request(c, <<e>> \o CloneMeta(Stem(f), new))
    BY <2>0
  <2>2. f \in files /\ f \in File /\ Stem(f) \in Names /\ f[2] \in Exts
    BY <1>1, CallTypes DEF Singles
  <2>3. e \in Calls /\ Stem(<<new, f[2]>>) = new
    BY <1>1, <2>0, <2>1, <2>2, CallTypes
  <2>4. CloneMeta(Stem(f), new) \in Seq(Calls)
    BY <1>1, <2>0, <2>1, CloneCalls
  <2>5. (<<e>> \o CloneMeta(Stem(f), new))[1] = e
    BY <2>3, <2>4, FirstOf
  <2>6. Free(e)
    <3>1. NameFree(<<new, f[2]>>, {})
      BY <2>0, <2>1, <2>3, UnusedName
    <3>2. QED  BY <2>0, <2>1, <3>1 DEF Free
  <2>7. QED  BY <2>0, <2>1, <2>5, <2>6
<1>16. CASE CloneBatch(c)
  <2>1. PICK b, new, e : /\ e = [do |-> "create_batch_table", name |-> new, sources |-> b.sources]
                         /\ Request(c, <<e>>)
    BY <1>16 DEF CloneBatch
  <2>2. QED  BY <1>3, <2>1
<1>17. CASE DeleteSingle(c)
  <2>1. PICK e, d : Request(c, <<e, d>>)
    BY <1>17 DEF DeleteSingle
  <2>2. QED  BY <1>4, <2>1
<1>18. ASSUME NEW F \in SUBSET File, NEW rest \in Seq(Calls),
              Request(c, <<[do |-> "unlink", files |-> F]>> \o rest)
       PROVE  \E calls : Request(c, calls) /\ (Len(calls) = 1 => Free(calls[1]))
  <2>1. PICK e : e = [do |-> "unlink", files |-> F]
    OBVIOUS
  <2>2. e \in Calls
    BY <1>1, <2>1, CallTypes
  <2>3. (<<e>> \o rest)[1] = e
    BY <2>2, FirstOf
  <2>4. QED  BY <1>2, <1>18, <2>1, <2>3
<1>19. CASE DeleteBatch(c)
  <2>1. PICK b \in cfg.batches :
          Request(c, <<[do |-> "unlink", files |-> b.sources]>> \o RemoveEntries(b.name))
    BY <1>19 DEF DeleteBatch
  <2>2. b.sources \in SUBSET File /\ b.name \in Names
    BY <1>1, CallTypes
  <2>3. QED  BY <1>18, <2>1, <2>2, RemovalCalls
<1>20. CASE DeleteMember(c)
  <2>1. PICK b \in cfg.batches : \E f \in b.sources :
               Request(c, <<[do |-> "unlink", files |-> {f}]>> \o
                  (IF b.sources = {f}
                   THEN RemoveEntries(b.name)
                   ELSE <<[do |-> "remove_batch_table_source", name |-> b.name, source |-> f]>>))
    BY <1>20 DEF DeleteMember
  <2>2. PICK f \in b.sources :
               Request(c, <<[do |-> "unlink", files |-> {f}]>> \o
                  (IF b.sources = {f}
                   THEN RemoveEntries(b.name)
                   ELSE <<[do |-> "remove_batch_table_source", name |-> b.name, source |-> f]>>))
    BY <2>1
  <2>3. {f} \in SUBSET File /\ f \in File /\ b.name \in Names
    BY <1>1, CallTypes
  <2>4. CASE b.sources = {f}
    BY <1>18, <2>2, <2>3, <2>4, RemovalCalls
  <2>5. CASE b.sources # {f}
    <3>1. PICK d : d = [do |-> "remove_batch_table_source", name |-> b.name, source |-> f]
      OBVIOUS
    <3>2. d \in Calls
      BY <2>3, <3>1 DEF Calls, Edit, MemberEdit
    <3>3. <<d>> \in Seq(Calls)
      BY <3>2
    <3>4. Request(c, <<[do |-> "unlink", files |-> {f}]>> \o <<d>>)
      BY <2>2, <2>5, <3>1
    <3>5. QED  BY <1>18, <2>3, <3>3, <3>4
  <2>6. QED  BY <2>4, <2>5
<1>21. QED
  BY <1>5, <1>6, <1>7, <1>8, <1>9, <1>10, <1>11, <1>13, <1>14, <1>15, <1>16, <1>17, <1>19,
     <1>20 DEF Ask

\* The browser checks it against the files too.
LEMMA BrowsedFree ==
  ASSUME NEW c \in Clients, Browse(c)
  PROVE  \E calls : Request(c, calls) /\ (Len(calls) = 1 => Free(calls[1]))
<1>1. ASSUME NEW f, NEW o, o = FALSE => NameFree(f, {}), o \in BOOLEAN, Write(c, f, o)
      PROVE  \E calls : Request(c, calls) /\ (Len(calls) = 1 => Free(calls[1]))
  <2>1. PICK e : e = [do |-> "write", files |-> {f}, overwrite |-> o]
    OBVIOUS
  <2>2. Free(e)
    BY <1>1, <2>1 DEF Free
  <2>3. QED  BY <1>1, <2>1, <2>2 DEF Write
<1>2. CASE CreateFile(c) \/ EditContent(c) \/ UploadFile(c)
  BY <1>1, <1>2 DEF CreateFile, EditContent, UploadFile
<1>3. CASE DuplicateFile(c)
  <2>1. PICK f, to, e : /\ NameFree(to, {})
                        /\ e = [do |-> "copy", from |-> f, to |-> to] /\ Request(c, <<e>>)
    BY <1>3 DEF DuplicateFile
  <2>2. QED  BY <2>1 DEF Free
<1>4. CASE RenameFile(c)
  <2>1. PICK f, to, e : /\ NameFree(to, {f})
                        /\ e = [do |-> "move", from |-> f, to |-> to] /\ Request(c, <<e>>)
    BY <1>4 DEF RenameFile
  <2>2. e.do = "move" /\ e.to = to /\ e.from = f
    BY <2>1
  <2>3. Free(e)
    BY <2>1, <2>2 DEF Free
  <2>4. QED  BY <2>1, <2>3
<1>5. CASE DeleteFile(c)
  <2>1. PICK f, e : e = [do |-> "unlink", files |-> {f}] /\ Request(c, <<e>>)
    BY <1>5 DEF DeleteFile
  <2>2. QED  BY <2>1 DEF Free
<1>6. QED  BY <1>2, <1>3, <1>4, <1>5 DEF Browse

\* A request brings a job whose name is free.
LEMMA FreeRequest ==
  ASSUME Alone, NEW c \in Clients, Ask(c) \/ Browse(c)
  PROVE  NamesFree'
<1> SUFFICES ASSUME ~disturbed' PROVE NamesFree'
  BY DEF NamesFree
<1>1. PICK calls : Request(c, calls) /\ (Len(calls) = 1 => Free(calls[1]))
  BY AskedFree, BrowsedFree
<1>2. /\ ~disturbed /\ \A d \in Clients : job[d] = <<>>
      /\ UNCHANGED <<files, cfg>> /\ DOMAIN job = Clients
  BY RequestAlone DEF Idle, Alone
<1>3. job'[c] = calls /\ \A d \in Clients \ {c} : job'[d] = <<>>
  BY <1>1, <1>2 DEF Request
<1>4. Len(calls) = 1 => Free(calls[1])'
  BY <1>1, <1>2 DEF Free, NameFree, Owners, Singles, Members, BatchesResolve
<1>5. \A d \in Clients : Len(job'[d]) = 1 => d = c
  <2>1. Len(<<>>) # 1
    OBVIOUS
  <2>2. QED  BY <1>3, <2>1
<1>6. Len(job'[c]) = 1 => Free(Call(c))'
  <2>1. Call(c)' = calls[1]
    BY <1>3 DEF Call
  <2>2. QED  BY <1>3, <1>4, <2>1 DEF Free, NameFree
<1>7. QED  BY <1>5, <1>6 DEF NamesFree

\* A job of one call that is about no file to be made is not held to anything.
LEMMA NothingToMake ==
  ASSUME NEW j \in Seq(Calls), Without(j, OnFiles), Len(j) = 1
  PROVE  Head(j).do \notin {"write", "move", "copy"}
<1>1. Head(j) = j[1] /\ 1 \in DOMAIN j
  OBVIOUS
<1>2. QED  BY <1>1 DEF Without, OnFiles, Creates

\* A step of the client at work after which nothing is left to be made.
LEMMA FreeRest ==
  ASSUME Alone, NEW c \in Clients, ~Idle(c), disturbed' = disturbed,
         ~disturbed => job' = [job EXCEPT ![c] = <<>>] \/ job' = [job EXCEPT ![c] = Tail(@)]
  PROVE  NamesFree'
<1> SUFFICES ASSUME ~disturbed' PROVE NamesFree'
  BY DEF NamesFree
<1>1. /\ ~disturbed /\ DOMAIN job = Clients /\ \A d \in Clients \ {c} : job[d] = <<>>
  BY DEF Alone, Idle
<1>2. job[c] \in Seq(Calls) /\ job[c] # <<>> /\ InOrder(job[c])
  BY <1>1, AtWork
<1>3. /\ job'[c] = <<>> \/ job'[c] = Tail(job[c])
      /\ \A d \in Clients \ {c} : job'[d] = <<>>
  BY <1>1
<1>4. Len(<<>>) # 1
  OBVIOUS
<1>5. \A d \in Clients : Len(job'[d]) = 1 => d = c /\ job'[d] = Tail(job[c])
  BY <1>3, <1>4
<1>6. Len(Tail(job[c])) = 1 => Head(Tail(job[c])).do \notin {"write", "move", "copy"}
  BY <1>2, RestOfJob, NothingToMake
<1>7. ASSUME NEW d \in Clients, Len(job'[d]) = 1
      PROVE  Free(Call(d))'
  <2>1. Call(d)'.do \notin {"write", "move", "copy"}
    BY <1>5, <1>6, <1>7 DEF Call
  <2>2. QED  BY <2>1 DEF Free
<1>8. QED  BY <1>7 DEF NamesFree

\* A file that is made changes who owns its own name only.
LEMMA OtherOwners ==
  ASSUME NEW f, NEW n, Stem(f) # n, files' = files \cup {f}, cfg' = cfg, BatchesResolve
  PROVE  BatchesResolve' /\ Owners(n)' = Owners(n)
<1>1. BatchesResolve'
  BY DEF BatchesResolve
<1>2. {g \in Singles' : Stem(g) = n} = {g \in Singles : Stem(g) = n}
  BY DEF Singles, Members
<1>3. QED  BY <1>1, <1>2 DEF Owners

\* Of several files to write, the names of the others are as free as before.
LEMMA WriteFree ==
  ASSUME Alone, NamesFree, NEW c \in Clients, WriteFile(c)
  PROVE  NamesFree'
<1>1. ~Idle(c) /\ Call(c).do = "write" /\ UNCHANGED <<cfg, disturbed>>
  BY DEF WriteFile, IsAt, OnlyFiles
<1>2. PICK f \in Call(c).files : files' = files \cup {f} /\ FileDone(c, f)
  BY DEF WriteFile
<1>3. CASE disturbed
  BY <1>1, <1>3 DEF NamesFree
<1>4. CASE Call(c).files = {f}
  BY <1>1, <1>2, <1>4, FreeRest DEF FileDone
<1>5. CASE ~disturbed /\ Call(c).files # {f}
  <2>1. PICK e : e = [Call(c) EXCEPT !.files = Call(c).files \ {f}]
    OBVIOUS
  <2>2. Call(c) \in [do : {"write"}, files : SUBSET File, overwrite : BOOLEAN]
    BY <1>1, <1>5, AtWork, FileCallKinds DEF OnFiles
  <2>3. e.do = "write" /\ e.files = Call(c).files \ {f} /\ e.overwrite = Call(c).overwrite
    BY <2>1, <2>2
  <2>4. PICK rest : rest = Tail(job[c])
    OBVIOUS
  <2>5. /\ job[c] \in Seq(Calls) /\ job[c] # <<>> /\ rest \in Seq(Calls)
        /\ Len(rest) = Len(job[c]) - 1 /\ Len(job[c]) \in Nat
    BY <1>1, <1>5, <2>4, AtWork
  <2>6. e \in Calls
    <3>1. e \in [do : {"write"}, files : SUBSET File, overwrite : BOOLEAN]
      BY <2>1, <2>2
    <3>2. QED  BY <3>1 DEF Calls, FileCall
  <2>7. job'[c] = <<e>> \o rest /\ \A d \in Clients \ {c} : job'[d] = <<>>
    BY <1>1, <1>2, <1>5, <2>1, <2>4 DEF FileDone, Alone, Idle
  <2>8. Head(<<e>> \o rest) = e /\ Len(<<e>> \o rest) = Len(job[c])
    BY <2>5, <2>6
  <2>9. Len(job'[c]) = 1 => Free(Call(c))
    BY <1>5, <2>7, <2>8 DEF NamesFree
  <2>10. ASSUME Free(Call(c)), ~e.overwrite
         PROVE  /\ \A g \in e.files : NameFree(g, {})'
                /\ \A g, h \in e.files : Stem(g) = Stem(h) => g = h
                /\ BatchesResolve'
    <3>1. /\ \A g \in Call(c).files : NameFree(g, {})
          /\ \A g, h \in Call(c).files : Stem(g) = Stem(h) => g = h
          /\ BatchesResolve \/ \A g, h \in Call(c).files : g = h
      BY <1>1, <2>3, <2>10 DEF Free
    <3>2. BatchesResolve
      BY <1>2, <1>5, <3>1
    <3>3. BatchesResolve'
      BY <1>1, <1>2, <3>2 DEF BatchesResolve
    <3>4. ASSUME NEW g \in e.files PROVE NameFree(g, {})'
      <4>1. g \in Call(c).files /\ Stem(f) # Stem(g)
        BY <1>2, <2>3, <3>1
      <4>2. Owners(Stem(g))' = Owners(Stem(g))
        BY <1>1, <1>2, <3>2, <4>1, OtherOwners
      <4>3. NameFree(g, {})
        BY <3>1, <4>1
      <4>4. QED  BY <4>2, <4>3 DEF NameFree
    <3>5. QED  BY <2>3, <3>1, <3>3, <3>4
  <2>11. Call(c)' = e
    BY <2>7, <2>8 DEF Call
  <2>12. Len(job'[c]) = 1 => Free(Call(c))'
    BY <2>3, <2>9, <2>10, <2>11 DEF Free
  <2>13. \A d \in Clients : Len(job'[d]) = 1 => d = c
    <3>1. Len(<<>>) # 1
      OBVIOUS
    <3>2. QED  BY <2>7, <3>1
  <2>14. QED  BY <2>12, <2>13 DEF NamesFree
<1>6. QED  BY <1>3, <1>4, <1>5

\* Every step, one request at a time or not.
LEMMA NamesFreeKept ==
  Alone /\ NamesFree /\ [BrowserNext]_browserVars => NamesFree'
<1> SUFFICES ASSUME Alone, NamesFree, [BrowserNext]_browserVars PROVE NamesFree'
  OBVIOUS
<1>1. CASE UNCHANGED <<files, cfg, job, disturbed>>
  BY <1>1 DEF NamesFree, Free, NameFree, Owners, Singles, Members, BatchesResolve, Call
<1>2. ASSUME NEW c \in Clients, Ask(c) \/ Browse(c) PROVE NamesFree'
  BY <1>2, FreeRequest
<1>3. ASSUME NEW c \in Clients, DoFile(c) PROVE NamesFree'
  <2>1. CASE WriteFile(c)
    BY <2>1, WriteFree
  <2>2. CASE UnlinkFile(c)
    <3>1. ~Idle(c) /\ Call(c).do = "unlink" /\ UNCHANGED <<cfg, disturbed>>
      BY <2>2 DEF UnlinkFile, IsAt, OnlyFiles
    <3>2. PICK f \in Call(c).files : FileDone(c, f) \/ Raise(c)
      BY <2>2 DEF UnlinkFile
    <3>3. CASE Raise(c) \/ (FileDone(c, f) /\ Call(c).files = {f})
      BY <3>1, <3>3, FreeRest DEF Raise, FileDone
    <3>4. CASE disturbed
      BY <3>1, <3>4 DEF NamesFree
    <3>5. CASE ~disturbed /\ FileDone(c, f) /\ Call(c).files # {f}
      <4>1. PICK j : /\ job' = [job EXCEPT ![c] = j]
                     /\ j \in Seq(Calls) /\ InOrder(j)
                     /\ \/ Call(c).files = {f}
                        \/ j # <<>> /\ 1 \in DOMAIN j /\ j[1].do = Call(c).do
        BY <3>1, <3>5, FileDoneJob
      <4>2. /\ j # <<>> /\ Head(j).do = "unlink" /\ DOMAIN job = Clients
            /\ \A d \in Clients \ {c} : job[d] = <<>>
        BY <3>1, <3>5, <4>1 DEF Alone, Idle
      <4>3. Call(c)'.do = "unlink" /\ \A d \in Clients \ {c} : job'[d] = <<>>
        BY <4>1, <4>2 DEF Call
      <4>4. Free(Call(c))'
        BY <4>3 DEF Free
      <4>5. Len(<<>>) # 1
        OBVIOUS
      <4>6. QED  BY <4>3, <4>4, <4>5 DEF NamesFree
    <3>6. QED  BY <3>2, <3>3, <3>4, <3>5
  <2>3. CASE MoveFile(c) \/ CopyFile(c) \/ RenameHistory(c)
    <3>1. ~Idle(c) /\ disturbed' = disturbed /\ (Return(c) \/ Raise(c))
      BY <2>3 DEF MoveFile, CopyFile, RenameHistory, IsAt, OnlyFiles
    <3>2. QED  BY <3>1, FreeRest DEF Return, Raise
  <2>4. QED  BY <1>3, <2>1, <2>2, <2>3 DEF DoFile
<1>4. ASSUME NEW c \in Clients, DoEdit(c) PROVE NamesFree'
  <2>1. Keep(c) \/ Refuse(c) \/ \E k : Save(c, k)
    BY <1>4 DEF DoEdit, CreateBatchTable, UpsertBatchTable, AddBatchTableSource,
       RemoveBatchTableSource, RemoveBatchTableEntry, CreateCluster, UpdateCluster,
       DeleteCluster, SetTableCluster, SetTableTags, SetTableMetaFields, RemoveTableMetaEntry,
       RewriteTableName
  <2>2. Return(c) \/ Raise(c)
    BY <2>1 DEF Keep, Refuse, Save
  <2>3. QED  BY <1>4, <2>2, EditFrame, FreeRest DEF Return, Raise
<1>5. ASSUME NEW c \in Clients, Crash(c) PROVE NamesFree'
  BY <1>5 DEF Crash, NamesFree
<1>6. QED
  BY <1>1, <1>2, <1>3, <1>4, <1>5 DEF BrowserNext, browserVars, vars, Next, Commit, ReadConfig

\* What is made under a name without an owner, or moved from the file that had it, leaves
\* no name to two tables that had not two.
LEMMA FreeNameIsNoClash ==
  ASSUME IsConfig(cfg), BatchesResolve, NEW f, f \notin files, NEW movable, movable \subseteq files,
         NameFree(f, movable), NEW fs, fs \subseteq (files \ movable) \cup {f},
         \A m \in movable : \A b \in BatchesOf(cfg, Stem(f)) : m \notin b.sources,
         \A m1, m2 \in movable : m1 = m2
  PROVE  Clashes(fs) \subseteq Clashes(files)
<1> SUFFICES ASSUME NEW n \in Clashes(fs) PROVE n \in Clashes(files)
  OBVIOUS
<1>1. PICK old : old = {g \in Singles : Stem(g) = n}
  OBVIOUS
<1>2. PICK new : new = {g \in fs \ Members(cfg) : Stem(g) = n}
  OBVIOUS
<1>3. /\ n \in Names
      /\ \/ \E g, h \in new : g # h
         \/ \E b1, b2 \in BatchesOf(cfg, n) : b1 # b2
         \/ new # {} /\ BatchesOf(cfg, n) # {}
  BY <1>2 DEF Clashes
<1>4. SUFFICES \/ \E g, h \in old : g # h
               \/ \E b1, b2 \in BatchesOf(cfg, n) : b1 # b2
               \/ old # {} /\ BatchesOf(cfg, n) # {}
  BY <1>1, <1>3 DEF Clashes, Singles
<1>5. \A g \in new : g = f \/ (g \in old /\ g \notin movable)
  BY <1>1, <1>2 DEF Singles
<1>6. CASE Stem(f) # n
  <2>1. new \subseteq old
    BY <1>2, <1>5, <1>6
  <2>2. QED  BY <1>3, <2>1
<1>7. CASE Stem(f) = n /\ Owners(n) = {}
  <2>1. BatchesOf(cfg, n) = {} /\ old = {}
    BY <1>1, <1>7, WithoutOwner
  <2>2. QED  BY <1>3, <1>5, <2>1
<1>8. CASE Stem(f) = n /\ Owners(n) # {}
  <2>1. PICK m \in Owners(n) : m = f \/ m \in movable
    BY <1>8 DEF NameFree
  <2>2. m \in old \/ \E b \in BatchesOf(cfg, n) : m \in b.sources
    BY <1>1 DEF Owners, BatchesOf
  <2>3. m \in files
    BY <1>1, <2>2 DEF Singles, BatchesOf, BatchesResolve
  <2>4. m \in movable /\ m \in old
    BY <1>8, <2>1, <2>2, <2>3
  <2>5. CASE \E g, h \in new : g # h
    <3>1. PICK g \in new, h \in new : g # h
      BY <2>5
    <3>2. \E k \in old : k # m
      BY <1>5, <2>4, <3>1
    <3>3. QED  BY <2>4, <3>2
  <2>6. QED  BY <1>3, <2>4, <2>5
<1>9. QED  BY <1>6, <1>7, <1>8

\* fs.py, _table_context: "the uniqueness guards still prevent adding MORE conflicts".  For
\* any number of files, batch tables and clients: a request of one operation on a file,
\* alone and not told to overwrite, gives no two tables the same name.
THEOREM GuardsAddNoClash == BrowserSpec => FilesAddNoClash
<1> DEFINE Adds == \A c \in Clients :
       /\ ~disturbed /\ BatchesResolve
       /\ Len(job[c]) = 1 /\ Call(c).do \in {"write", "move", "copy"}
       /\ Call(c).do = "write" => ~Call(c).overwrite
       /\ ~TakesItsBatchName(Call(c))
       => Clashes(files') \subseteq Clashes(files)
<1>1. BrowserInit => NamesFree
  <2> SUFFICES ASSUME BrowserInit PROVE NamesFree
    OBVIOUS
  <2>1. \A c \in Clients : job[c] = <<>>
    BY DEF BrowserInit, Init
  <2>2. Len(<<>>) # 1
    OBVIOUS
  <2>3. QED  BY <2>1, <2>2 DEF NamesFree
<1>2. Alone /\ NamesFree /\ [BrowserNext]_browserVars => [Adds]_files
  <2> SUFFICES ASSUME Alone, NamesFree, [BrowserNext]_browserVars, files' # files,
                      NEW c \in Clients, ~disturbed, BatchesResolve, Len(job[c]) = 1,
                      Call(c).do \in {"write", "move", "copy"},
                      Call(c).do = "write" => ~Call(c).overwrite,
                      ~TakesItsBatchName(Call(c))
               PROVE  Clashes(files') \subseteq Clashes(files)
    OBVIOUS
  <2>1. PICK d \in Clients : DoFile(d)
    <3>1. ASSUME NEW d \in Clients, Ask(d) \/ Browse(d) PROVE files' = files
      <4>1. \A calls : Request(d, calls) => files' = files
        BY DEF Request
      <4>2. QED
        BY <3>1, <4>1 DEF Ask, EditMetadata, EditMembers, EditBatch, DropBatchEntry,
           ImportTables, ImportNewBatch, ImportMember, RenameSingle, RenameBatch, CloneSingle,
           CloneBatch, DeleteSingle, DeleteBatch, DeleteMember, Browse, CreateFile,
           EditContent, UploadFile, RenameFile, DuplicateFile, DeleteFile, Write
    <3>2. ASSUME NEW d \in Clients, DoEdit(d) PROVE files' = files
      BY <3>2, EditFrame
    <3>3. QED
      BY <3>1, <3>2 DEF BrowserNext, browserVars, vars, Next, Commit, ReadConfig, Crash
  <2>2. ~Idle(d) /\ ~Idle(c)
    <3>1. Len(<<>>) # 1
      OBVIOUS
    <3>2. QED
      BY <2>1, <3>1 DEF DoFile, WriteFile, UnlinkFile, MoveFile, CopyFile, RenameHistory,
         IsAt, Idle
  <2>3. d = c /\ IsConfig(cfg)
    BY <2>2 DEF Alone
  <2>4. Free(Call(c))
    BY DEF NamesFree
  <2>5. CASE WriteFile(c)
    <3>1. PICK f \in Call(c).files : files' = files \cup {f}
      BY <2>5 DEF WriteFile
    <3>2. f \notin files /\ NameFree(f, {})
      BY <2>4, <2>5, <3>1 DEF Free, WriteFile, IsAt
    <3>3. files' \subseteq (files \ {}) \cup {f}
      BY <3>1
    <3>4. QED  BY <2>3, <3>2, <3>3, FreeNameIsNoClash
  <2>6. CASE MoveFile(c)
    <3>1. PICK f, to : f = Call(c).from /\ to = Call(c).to
      OBVIOUS
    <3>2. /\ f \in files /\ files' = (files \ {f}) \cup {to} /\ Call(c).do = "move"
      BY <2>6, <3>1 DEF MoveFile, IsAt
    <3>3. NameFree(to, {f}) /\ to \notin files
      BY <2>2, <2>4, <3>1, <3>2 DEF Free, Alone, RenameReplacesNothing
    <3>4. \A m \in {f} : \A b \in BatchesOf(cfg, Stem(to)) : m \notin b.sources
      BY <3>1, <3>2 DEF TakesItsBatchName
    <3>5. /\ {f} \subseteq files /\ files' \subseteq (files \ {f}) \cup {to}
          /\ \A m1, m2 \in {f} : m1 = m2
      BY <3>2
    <3>6. QED  BY <2>3, <3>3, <3>4, <3>5, FreeNameIsNoClash
  <2>7. CASE CopyFile(c)
    <3>1. PICK to : to = Call(c).to
      OBVIOUS
    <3>2. files' = files \cup {to} /\ Call(c).do = "copy"
      BY <2>7, <3>1 DEF CopyFile, IsAt
    <3>3. NameFree(to, {}) /\ to \notin files
      BY <2>4, <3>1, <3>2 DEF Free
    <3>4. files' \subseteq (files \ {}) \cup {to}
      BY <3>2
    <3>5. QED  BY <2>3, <3>3, <3>4, FreeNameIsNoClash
  <2>8. CASE UnlinkFile(c) \/ RenameHistory(c)
    BY <2>8 DEF UnlinkFile, RenameHistory, IsAt
  <2>9. QED  BY <2>1, <2>3, <2>5, <2>6, <2>7, <2>8 DEF DoFile
<1>3. BrowserSpec => [][Adds]_files
  BY <1>1, <1>2, NamesFreeKept, RequestsStayInOrder, PTL DEF BrowserSpec
<1>4. QED  BY <1>3 DEF FilesAddNoClash
=============================================================================
