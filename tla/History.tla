------------------------------ MODULE History ------------------------------
(***************************************************************************)
(* The history of a project: the working tree (sources, built outputs,     *)
(* declared batch tables), the per-table manifests of snapshots, the       *)
(* content-addressed blob store and the head and golden pointers, with     *)
(* the commands that change them: build, commit, restore, golden           *)
(* set/clear, rename, rm (src/payload/core/history.py, golden.py,          *)
(* table_admin.py and the commit and restore commands).  A command is one  *)
(* step here: clients that overlap and crashes inside one are left out.    *)
(*                                                                         *)
(* A hash is the identity of a content, so a blob is named by the content  *)
(* itself.  Source files are known by their stem; a single-file table has  *)
(* the name of its file, a batch table a name of its own.                  *)
(***************************************************************************)
EXTENDS Integers, Sequences, FiniteSets, Maps

CONSTANTS
    File,           \* stems of source files, hence names of single-file tables
    BatchName,      \* names of declared batch tables
    Content,        \* contents of source files and of outputs
    ByteOrder,      \* values of byte_order
    Setting,        \* where a table may have a byte_order of its own
    Writer,         \* writers, each with an output extension of its own
    ReuseNames,     \* may a table be renamed to a name that has a history?
    MaxSnapshots    \* bound: snapshots in a manifest

ASSUME DisjointNames == File \cap BatchName = {}
ASSUME ReuseNamesIsBool == ReuseNames \in BOOLEAN
ASSUME SettingKinds == Setting \subseteq {"own", "cluster"}
ASSUME MaxSnapshotsIsNat == MaxSnapshots \in Nat

VARIABLES
    files,      \* source files on disk: stem -> content
    batches,    \* [[batch_table]] entries: name -> set of member stems
    byteOrder,  \* the project's defaults.byte_order
    orders,     \* byte_order of a table: <<table, setting>> -> byte order
    writers,    \* writers the configured pipeline ends in ({}: unresolvable)
    outs,       \* files of the output directory: <<table, writer>> -> content
    manifest,   \* table -> sequence of snapshots (<<>>: no manifest file)
    head,       \* head.json: table -> snapshot id
    golden,     \* golden.json: table -> snapshot id
    blobs       \* contents in the object store

tree  == <<files, batches, byteOrder, orders, writers, outs>>
store == <<manifest, head, golden, blobs>>
vars  == <<files, batches, byteOrder, orders, writers, outs,
           manifest, head, golden, blobs>>

Table == File \cup BatchName
OutFile == Table \X Writer

SnapshotId == 1..MaxSnapshots

Snapshot == [id : SnapshotId,
             source_blobs : PartialMap(File, Content),
             output_blobs : PartialMap(OutFile, Content),
             byte_order : ByteOrder]

-----------------------------------------------------------------------------
(* Discovery: which tables exist, and what each is made of.                *)

Members == UNION {batches[b] : b \in DOMAIN batches}

\* A missing literal source of a batch table makes every discovery raise.
DiscoveryOk == Members \subseteq DOMAIN files

Live == (DOMAIN files \ Members) \cup DOMAIN batches

SourcePaths(t) == IF t \in DOMAIN batches THEN batches[t] ELSE {t}

CurrentSources(t) == Keep(files, SourcePaths(t))
StemFiles(t) == {t} \X Writer
CurrentOutputs(t) == Keep(outs, StemFiles(t))

\* The [[batch_table]] entry or the sidecar wins over the cluster of the
\* table's [[table_meta]], and that one over the project's defaults.
TableByteOrder(t) ==
    IF <<t, "own">> \in DOMAIN orders THEN orders[<<t, "own">>]
    ELSE IF <<t, "cluster">> \in DOMAIN orders THEN orders[<<t, "cluster">>]
    ELSE byteOrder

-----------------------------------------------------------------------------
(* Reading the store.                                                      *)

SnapshotIds(t) == {manifest[t][k].id : k \in DOMAIN manifest[t]}

TipId(t) == manifest[t][Len(manifest[t])].id

GetSnapshot(t, i) ==
    manifest[t][CHOOSE k \in DOMAIN manifest[t] : manifest[t][k].id = i]

\* head.json wins only if the snapshot it names still exists.
HeadId(t) ==
    IF t \in DOMAIN head /\ head[t] \in SnapshotIds(t) THEN head[t] ELSE TipId(t)

\* One file on both sides is matched by value, whatever its name.
LegacyCompatible(paths, snapBlobs) ==
    IF \E f, g \in File : paths = {f} /\ DOMAIN snapBlobs = {g}
    THEN [f \in paths |-> snapBlobs[CHOOSE g \in DOMAIN snapBlobs : TRUE]]
    ELSE snapBlobs

\* (mutant: the outputs are not compared)
MatchesSourcesOnly(t, s) ==
    /\ CurrentSources(t) = LegacyCompatible(SourcePaths(t), s.source_blobs)
    /\ TableByteOrder(t) = s.byte_order

\* The working tree of t is what snapshot s recorded.
Matches(t, s) ==
    /\ CurrentSources(t) = LegacyCompatible(SourcePaths(t), s.source_blobs)
    /\ CurrentOutputs(t) = s.output_blobs
    /\ TableByteOrder(t) = s.byte_order

IsDirty(t) == manifest[t] # <<>> => ~Matches(t, GetSnapshot(t, HeadId(t)))

\* (mutant: an output that is not there is not compared)
GoldenStatusOfPresent(t) ==
    IF t \notin DOMAIN golden THEN "missing"
    ELSE LET s == GetSnapshot(t, golden[t])
         IN IF CurrentSources(t) # LegacyCompatible(SourcePaths(t), s.source_blobs)
            THEN "stale"
            ELSE IF CurrentOutputs(t) # Keep(s.output_blobs, DOMAIN outs)
            THEN "mismatch"
            ELSE "match"

\* "pld golden check": what became of t since its golden snapshot.  The byte
\* order is not compared, nor are the outputs of other sources.
GoldenStatus(t) ==
    IF t \notin DOMAIN golden THEN "missing"
    ELSE LET s == GetSnapshot(t, golden[t])
         IN IF CurrentSources(t) # LegacyCompatible(SourcePaths(t), s.source_blobs)
            THEN "stale"
            ELSE IF CurrentOutputs(t) # s.output_blobs THEN "mismatch" ELSE "match"

-----------------------------------------------------------------------------
Init ==
    /\ files = EmptyMap
    /\ batches = EmptyMap
    /\ byteOrder \in ByteOrder
    /\ orders = EmptyMap
    /\ writers \in SUBSET Writer
    /\ outs = EmptyMap
    /\ manifest = [t \in Table |-> <<>>]
    /\ head = EmptyMap
    /\ golden = EmptyMap
    /\ blobs = {}

(* The user and the configuration commands.                                *)

EditFile(f, c) ==
    /\ f \in DOMAIN files => files[f] # c
    /\ files' = Put(files, f, c)
    /\ UNCHANGED <<batches, byteOrder, orders, writers, outs, store>>

RemoveFile(f) ==
    /\ f \in DOMAIN files
    /\ files' = Drop(files, {f})
    /\ UNCHANGED <<batches, byteOrder, orders, writers, outs, store>>

Configure(bo, ws) ==
    /\ <<bo, ws>> # <<byteOrder, writers>>
    /\ byteOrder' = bo
    /\ writers' = ws
    /\ UNCHANGED <<files, batches, orders, outs, store>>

\* A table is given a byte order of its own (k = "own": in its sidecar or its
\* [[batch_table]] entry), or one of the cluster it is put into.
SetByteOrder(t, k, bo) ==
    /\ t \in Live
    /\ <<t, k>> \in DOMAIN orders => orders[<<t, k>>] # bo
    /\ orders' = Put(orders, <<t, k>>, bo)
    /\ UNCHANGED <<files, batches, byteOrder, writers, outs, store>>

ClearByteOrder(t, k) ==
    /\ t \in Live /\ <<t, k>> \in DOMAIN orders
    /\ orders' = Drop(orders, {<<t, k>>})
    /\ UNCHANGED <<files, batches, byteOrder, writers, outs, store>>

CreateBatchTable(b, ms) ==
    /\ b \notin DOMAIN batches
    /\ ms # {} /\ ms \subseteq DOMAIN files
    /\ batches' = Put(batches, b, ms)
    /\ UNCHANGED <<files, byteOrder, orders, writers, outs, store>>

\* Outputs no longer part of the pipeline are removed first; then the writers
\* of the group run, and each of a fan-out may fail on its own.  None may run
\* at all: a cache hit, or an error before them.
Build(t, ok, c) ==
    /\ DiscoveryOk /\ t \in Live
    /\ writers # {} /\ ok \subseteq writers
    /\ outs' = Override(Drop(outs, StemFiles(t) \ ({t} \X writers)),
                        [f \in {t} \X ok |-> c])
    /\ UNCHANGED <<files, batches, byteOrder, orders, writers, store>>

(* The store's commands.                                                   *)

\* (mutant: numbering continues from the current snapshot, not from the tip)
NextIdAfterHead(t) == IF manifest[t] = <<>> THEN 1 ELSE HeadId(t) + 1

\* (mutant: numbering starts from the length of the manifest)
NextIdFromZero(t) == Len(manifest[t])

NextId(t) == IF manifest[t] = <<>> THEN 1 ELSE TipId(t) + 1

\* (mutant: the project's byte order is recorded, not the table's)
NewSnapshotOfDefaults(t) ==
    [id |-> NextId(t),
     source_blobs |-> CurrentSources(t),
     output_blobs |-> CurrentOutputs(t),
     byte_order |-> byteOrder]

NewSnapshot(t) ==
    [id |-> NextId(t),
     source_blobs |-> CurrentSources(t),
     output_blobs |-> CurrentOutputs(t),
     byte_order |-> TableByteOrder(t)]

SnapshotBlobs(s) == ValuesOf(s.source_blobs) \cup ValuesOf(s.output_blobs)

\* (mutant: only the sources are stored)
WriteSourceBlobs(t) == blobs \cup ValuesOf(CurrentSources(t))

WriteBlobs(t) == blobs \cup SnapshotBlobs(NewSnapshot(t))

\* (mutant: what follows the current snapshot is discarded)
TruncateAndAppend(t) ==
    Append(SubSeq(manifest[t], 1, IF manifest[t] = <<>> THEN 0 ELSE HeadId(t)),
           NewSnapshot(t))

ExtendedManifest(t) == Append(manifest[t], NewSnapshot(t))

\* (mutant: the head stays where the last restore put it)
KeepHead(t) == head

ClearHead(t) == Drop(head, {t})

\* "pld commit --only t": refused when nothing changed, and when the pipeline
\* expects outputs but none was built.  asGolden is the --golden flag.
Commit(t, asGolden) ==
    /\ DiscoveryOk /\ t \in Live
    /\ IsDirty(t)
    /\ ~ (DOMAIN CurrentOutputs(t) = {} /\ writers # {})
    /\ Len(manifest[t]) < MaxSnapshots
    /\ blobs' = WriteBlobs(t)
    /\ manifest' = [manifest EXCEPT ![t] = ExtendedManifest(t)]
    /\ head' = ClearHead(t)
    /\ golden' = IF asGolden THEN Put(golden, t, NextId(t)) ELSE golden
    /\ UNCHANGED tree

\* (mutant: the recorded paths are used even when the table is there)
RecordedPaths(t, s) == DOMAIN s.source_blobs

\* Where restore writes sources: the live paths, else the recorded ones.
RestorePaths(t, s) == IF t \in Live THEN SourcePaths(t) ELSE DOMAIN s.source_blobs

\* A recorded file with no current path is skipped, a current one the snapshot
\* does not know is left as it is.
RestoredFiles(t, s) ==
    LET paths == RestorePaths(t, s)
    IN Override(files, Keep(LegacyCompatible(paths, s.source_blobs), paths))

\* (mutant: outputs the snapshot does not have are left behind)
RestoredOutsNoCleanup(t, s) == Override(outs, s.output_blobs)

\* Outputs of the snapshot are written under the names they were committed
\* with; every other file of the output directory with this stem goes.
RestoredOuts(t, s) ==
    Override(Drop(outs, StemFiles(t) \ DOMAIN s.output_blobs), s.output_blobs)

\* (mutant: the [[batch_table]] entry is not written again)
KeepBatches(t, s) == batches

\* The entry of a removed batch table is added again with all its members, but
\* without the byte order that it had.
RestoredBatches(t, s) ==
    IF t \notin Live /\ Cardinality(DOMAIN s.source_blobs) > 1
    THEN Put(batches, t, DOMAIN s.source_blobs)
    ELSE batches

Restore(t, i) ==
    /\ DiscoveryOk
    /\ i \in SnapshotIds(t)
    /\ LET s == GetSnapshot(t, i)
       IN /\ SnapshotBlobs(s) \subseteq blobs
          /\ files' = RestoredFiles(t, s)
          /\ outs' = RestoredOuts(t, s)
          /\ batches' = RestoredBatches(t, s)
    /\ head' = Put(head, t, i)
    /\ UNCHANGED <<byteOrder, orders, writers, manifest, golden, blobs>>

SetGolden(t, i) ==
    /\ i \in SnapshotIds(t)
    /\ golden' = Put(golden, t, i)
    /\ UNCHANGED <<tree, manifest, head, blobs>>

ClearGolden(t) ==
    /\ t \in DOMAIN golden
    /\ golden' = Drop(golden, {t})
    /\ UNCHANGED <<tree, manifest, head, blobs>>

MigrateManifest(t, u) ==
    manifest' = IF manifest[t] # <<>> /\ manifest[u] = <<>>
                THEN [manifest EXCEPT ![u] = manifest[t], ![t] = <<>>]
                ELSE manifest

\* (mutant: the pointers stay under the old name)
MigrateManifestOnly(t, u) ==
    MigrateManifest(t, u) /\ UNCHANGED <<golden, head, blobs>>

\* (mutant: the renamed table loses its golden)
MigrateForgettingGolden(t, u) ==
    /\ MigrateManifest(t, u)
    /\ golden' = Drop(golden, {t})
    /\ head' = MoveKey(head, t, u)
    /\ UNCHANGED blobs

\* HistoryStore.rename_table: the manifest moves only to a free name, the two
\* pointers move in any case.
MigrateHistory(t, u) ==
    /\ MigrateManifest(t, u)
    /\ golden' = MoveKey(golden, t, u)
    /\ head' = MoveKey(head, t, u)
    /\ UNCHANGED blobs

SameKind(t, u) == t \in File <=> u \in File

\* Not modelled: two [[table_meta]] entries of one name, which make every later
\* command raise (a table in a cluster takes the name of one that was, until
\* its source was removed by hand).
Rename(t, u) ==
    /\ DiscoveryOk /\ t \in Live
    /\ u \notin Live \cup DOMAIN files /\ SameKind(t, u)
    /\ ReuseNames \/ manifest[u] = <<>>
    /\ ~ {<<t, "cluster">>, <<u, "cluster">>} \subseteq DOMAIN orders
    /\ IF t \in DOMAIN batches
       THEN batches' = MoveKey(batches, t, u) /\ UNCHANGED files
       ELSE files' = MoveKey(files, t, u) /\ UNCHANGED batches
    /\ MigrateHistory(t, u)
    /\ orders' = MoveKey(MoveKey(orders, <<t, "own">>, <<u, "own">>),
                         <<t, "cluster">>, <<u, "cluster">>)
    /\ UNCHANGED <<byteOrder, writers, outs>>

\* (mutant: the sidecar goes too)
ForgetSidecar(t) == {<<t, "own">>, <<t, "cluster">>}

\* What goes with the entries of a removed table: its [[table_meta]] names the
\* cluster, its [[batch_table]] has the byte order.  A sidecar stays.
ForgetEntries(t) ==
    {<<t, "cluster">>} \cup (IF t \in DOMAIN batches THEN {<<t, "own">>} ELSE {})

\* "pld rm": sources, outputs and config entries go, the history stays.
DeleteTable(t) ==
    /\ DiscoveryOk /\ t \in Live
    /\ files' = Drop(files, SourcePaths(t))
    /\ outs' = Drop(outs, StemFiles(t))
    /\ batches' = Drop(batches, {t})
    /\ orders' = Drop(orders, ForgetEntries(t))
    /\ UNCHANGED <<byteOrder, writers, store>>

DeleteBatchMember(b, f) ==
    /\ DiscoveryOk /\ b \in DOMAIN batches /\ f \in batches[b]
    /\ files' = Drop(files, {f})
    /\ IF batches[b] = {f}
       THEN /\ batches' = Drop(batches, {b})
            /\ outs' = Drop(outs, StemFiles(b))
            /\ orders' = Drop(orders, ForgetEntries(b))
       ELSE /\ batches' = Put(batches, b, batches[b] \ {f})
            /\ UNCHANGED <<outs, orders>>
    /\ UNCHANGED <<byteOrder, writers, store>>

UserStep ==
    \/ \E f \in File, c \in Content : EditFile(f, c)
    \/ \E f \in File : RemoveFile(f)
    \/ \E bo \in ByteOrder, ws \in SUBSET Writer : Configure(bo, ws)
    \/ \E t \in Table, k \in Setting, bo \in ByteOrder : SetByteOrder(t, k, bo)
    \/ \E t \in Table, k \in Setting : ClearByteOrder(t, k)
    \/ \E b \in BatchName, ms \in SUBSET File : CreateBatchTable(b, ms)

TableStep ==
    \/ \E t \in Table, ok \in SUBSET Writer, c \in Content : Build(t, ok, c)
    \/ \E t \in Table, u \in Table : Rename(t, u)
    \/ \E t \in Table : DeleteTable(t)
    \/ \E b \in BatchName, f \in File : DeleteBatchMember(b, f)

StoreStep ==
    \/ \E t \in Table, g \in BOOLEAN : Commit(t, g)
    \/ \E t \in Table, i \in SnapshotId : Restore(t, i)
    \/ \E t \in Table, i \in SnapshotId : SetGolden(t, i)
    \/ \E t \in Table : ClearGolden(t)

Next == UserStep \/ TableStep \/ StoreStep

Spec == Init /\ [][Next]_vars

-----------------------------------------------------------------------------
(* Properties.                                                             *)

\* Every variable has its type.
TypeOK ==
    /\ files \in PartialMap(File, Content)
    /\ batches \in PartialMap(BatchName, SUBSET File)
    /\ byteOrder \in ByteOrder
    /\ orders \in PartialMap(Table \X {"own", "cluster"}, ByteOrder)
    /\ writers \in SUBSET Writer
    /\ outs \in PartialMap(OutFile, Content)
    /\ manifest \in [Table -> Seq(Snapshot)]
    /\ head \in PartialMap(Table, SnapshotId)
    /\ golden \in PartialMap(Table, SnapshotId)
    /\ blobs \in SUBSET Content

\* The i-th snapshot of a manifest has id i, so a pointer names at most one
\* snapshot and a commit never reuses an id, through every rename and restore.
IdsArePositions ==
    \A t \in Table : \A k \in DOMAIN manifest[t] : manifest[t][k].id = k

\* Every content a snapshot refers to is in the object store: any recorded
\* version can be brought back, whatever was deleted or renamed since.
EveryVersionRestorable ==
    \A t \in Table : \A k \in DOMAIN manifest[t] :
        SnapshotBlobs(manifest[t][k]) \subseteq blobs

\* The golden and head pointers name snapshots of the table they belong to
\* (golden check, diff and report raise on a golden that does not).
PointersResolve ==
    /\ \A t \in DOMAIN golden : golden[t] \in SnapshotIds(t)
    /\ \A t \in DOMAIN head : head[t] \in SnapshotIds(t)

RestoreChangesNothing(t, s) == RestoredFiles(t, s) = files /\ RestoredOuts(t, s) = outs

\* A table reported "unchanged" is exactly its current snapshot, and one whose
\* golden check says "match" is exactly its golden snapshot: restoring that
\* snapshot would write nothing different and remove nothing.
CleanMeansRestored ==
    DiscoveryOk => \A t \in Live :
        /\ ~IsDirty(t) => RestoreChangesNothing(t, GetSnapshot(t, HeadId(t)))
        /\ GoldenStatus(t) = "match" => RestoreChangesNothing(t, GetSnapshot(t, golden[t]))

IsPrefixOf(p, q) == Len(p) <= Len(q) /\ \A k \in DOMAIN p : p[k] = q[k]

ManifestsGrow ==
    \A t \in Table : \E u \in Table : IsPrefixOf(manifest[t], manifest'[u])

\* No step loses or rewrites a recorded snapshot: each manifest is extended,
\* or moves as a whole to the name its table was given.
HistoryIsAppendOnly == [][ManifestsGrow]_manifest

\* A commit leaves its table unchanged in the status view, also after a restore
\* to an earlier snapshot: the new tip is what the table is compared with.
CommitLeavesClean ==
    [][\A t \in Table, g \in BOOLEAN : Commit(t, g) => ~IsDirty(t)']_vars

\* The state of t and snapshot i agree in what restore does not bring back:
\* the set of source names, the byte order, the name of the table.
SameShape(t, s) ==
    /\ t \in Live
    /\ \/ SourcePaths(t) = DOMAIN s.source_blobs
       \/ t \in File
    /\ TableByteOrder(t) = s.byte_order
    /\ \A f \in DOMAIN s.output_blobs : f[1] = t

\* Restoring a snapshot of an existing table leaves the table unchanged with
\* respect to it, whatever outputs of other writers were lying around.
RestoreLeavesClean ==
    [][\A t \in Table, i \in SnapshotId :
          Restore(t, i) /\ SameShape(t, GetSnapshot(t, i)) => ~IsDirty(t)']_vars

\* Restoring a table that is there writes no source but its own: a file that
\* has left a batch table since, and is perhaps a table of its own now, keeps
\* its content.
RestoreStaysInTable ==
    [][\A t \in Table, i \in SnapshotId :
          Restore(t, i) /\ t \in Live =>
              /\ batches' = batches
              /\ Drop(files', SourcePaths(t)) = Drop(files, SourcePaths(t))]_vars

\* Snapshot s has what a restore needs to make t again: t is not there, its
\* source is not a member of a batch table, it was not renamed since, a batch
\* table had several members, and the settings that remain give t the byte
\* order it was committed with.
Recreatable(t, s) ==
    /\ t \notin Live \cup Members
    /\ IF t \in File THEN DOMAIN s.source_blobs = {t}
                     ELSE Cardinality(DOMAIN s.source_blobs) > 1
    /\ \A f \in DOMAIN s.output_blobs : f[1] = t
    /\ TableByteOrder(t) = s.byte_order

\* A restore of a deleted table brings it back, under its name and as it was
\* committed.
RestoreUndoesDelete ==
    [][\A t \in Table, i \in SnapshotId :
          Restore(t, i) /\ Recreatable(t, GetSnapshot(t, i)) =>
              t \in Live' /\ ~IsDirty(t)']_vars

\* The files and settings that 'pld rm' destroys and no restore writes: none,
\* if the table was committed under this name, is no batch table of one member,
\* and has its byte order neither from its [[batch_table]] entry nor from its
\* cluster.
NothingElseToLose(t, s) ==
    /\ ~IsDirty(t)
    /\ IF t \in File THEN DOMAIN s.source_blobs = {t} ELSE Cardinality(SourcePaths(t)) > 1
    /\ \A f \in DOMAIN s.output_blobs : f[1] = t
    /\ IF t \in File
       THEN <<t, "own">> \in DOMAIN orders \/ <<t, "cluster">> \notin DOMAIN orders
       ELSE \A k \in {"own", "cluster"} : <<t, k>> \notin DOMAIN orders

\* What 'pld rm' removes of an unchanged table, its current snapshot can bring
\* back: 'pld restore' (which undoes "an accidental 'pld rm'") finds in the
\* store and in the settings left behind all it needs.
DeleteLosesNothing ==
    [][\A t \in Table :
          DeleteTable(t) /\ manifest[t] # <<>>
          /\ NothingElseToLose(t, GetSnapshot(t, HeadId(t))) =>
              Recreatable(t, GetSnapshot(t, HeadId(t)))']_vars

\* table_admin.rename_table: "The history is migrated, not lost".
RenameKeepsHistory ==
    [][\A t, u \in Table :
          Rename(t, u) /\ manifest[t] # <<>> => manifest'[u] = manifest[t]]_vars

\* The pointers read as the snapshots they name.
CurrentVersions == [t \in {u \in Table : manifest[u] # <<>>} |-> GetSnapshot(t, HeadId(t))]
GoldenVersions == [t \in DOMAIN golden |-> GetSnapshot(t, golden[t])]

\* What the store promises.
Log == INSTANCE HistoryLog WITH
    Version <- Snapshot,
    log     <- manifest,
    current <- CurrentVersions,
    golden  <- GoldenVersions

\* The store implements an append-only log per table with two movable marks
\* that always mean the version they were put on.
ImplementsLog == Log!Spec
=============================================================================
