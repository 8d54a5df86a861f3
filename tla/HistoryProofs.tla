---------------------------- MODULE HistoryProofs ----------------------------
(***************************************************************************)
(* Theorems about History, for any sets of names and contents and any      *)
(* bound.  The safety invariants are proved together: ids are typed only   *)
(* because they are positions, and a restore is typed only because a       *)
(* single-file table never has a snapshot of several files.                *)
(***************************************************************************)
EXTENDS History, MapsProofs, FiniteSetTheorems

\* A snapshot filed under the name of a single-file table has one source (of
\* that name or, after a rename, of an earlier one).
OneSourcePerFileTable ==
    \A t \in File : \A k \in DOMAIN manifest[t] :
        \E f \in File : DOMAIN manifest[t][k].source_blobs = {f}

Inv == TypeOK /\ IdsArePositions /\ EveryVersionRestorable /\ OneSourcePerFileTable

-----------------------------------------------------------------------------
\* Looking a snapshot up by id is indexing the manifest.
LEMMA IdLookup ==
    ASSUME TypeOK, IdsArePositions, NEW t \in Table
    PROVE  /\ manifest[t] \in Seq(Snapshot)
           /\ SnapshotIds(t) = DOMAIN manifest[t]
           /\ \A i \in SnapshotIds(t) :
                 GetSnapshot(t, i) = manifest[t][i] /\ GetSnapshot(t, i) \in Snapshot
           /\ NextId(t) = Len(manifest[t]) + 1
           /\ Len(manifest[t]) \in Nat
           /\ DOMAIN manifest[t] = 1..Len(manifest[t])
<1>1. /\ manifest[t] \in Seq(Snapshot)
      /\ Len(manifest[t]) \in Nat
      /\ DOMAIN manifest[t] = 1..Len(manifest[t])
  BY DEF TypeOK
<1>2. \A k \in DOMAIN manifest[t] : manifest[t][k].id = k
  BY DEF IdsArePositions
<1>3. SnapshotIds(t) = DOMAIN manifest[t]
  BY <1>2 DEF SnapshotIds
<1>4. ASSUME NEW i \in SnapshotIds(t)
      PROVE  GetSnapshot(t, i) = manifest[t][i] /\ GetSnapshot(t, i) \in Snapshot
  <2>1. (CHOOSE k \in DOMAIN manifest[t] : manifest[t][k].id = i) = i
    BY <1>2, <1>3
  <2>2. manifest[t][i] \in Snapshot
    BY <1>1, <1>3
  <2>3. QED  BY <2>1, <2>2 DEF GetSnapshot
<1>5. NextId(t) = Len(manifest[t]) + 1
  <2>1. CASE manifest[t] = <<>>
    BY <2>1 DEF NextId
  <2>2. CASE manifest[t] # <<>>
    <3>1. Len(manifest[t]) \in DOMAIN manifest[t]
      BY <1>1, <2>2
    <3>2. QED  BY <1>2, <2>2, <3>1 DEF NextId, TipId
  <2>3. QED  BY <2>1, <2>2
<1>6. QED  BY <1>1, <1>3, <1>4, <1>5

\* The fields of a snapshot have their types, so its blobs are contents.
LEMMA SnapshotFields ==
    ASSUME NEW s \in Snapshot
    PROVE  /\ s.id \in SnapshotId
           /\ s.source_blobs \in PartialMap(File, Content)
           /\ s.output_blobs \in PartialMap(OutFile, Content)
           /\ SnapshotBlobs(s) \subseteq Content
<1>1. /\ s.id \in SnapshotId
      /\ s.source_blobs \in PartialMap(File, Content)
      /\ s.output_blobs \in PartialMap(OutFile, Content)
  BY DEF Snapshot
<1>2. QED  BY <1>1, ValuesType DEF SnapshotBlobs

\* The byte order of a table is one.
LEMMA TableByteOrderType ==
    ASSUME TypeOK, NEW t
    PROVE  TableByteOrder(t) \in ByteOrder
<1>1. orders \in [DOMAIN orders -> ByteOrder] /\ byteOrder \in ByteOrder
  BY PartialMapDef DEF TypeOK
<1>2. QED  BY <1>1 DEF TableByteOrder

\* What a commit records is a snapshot.
LEMMA NewSnapshotType ==
    ASSUME TypeOK, IdsArePositions, NEW t \in Table, Len(manifest[t]) < MaxSnapshots
    PROVE  NewSnapshot(t) \in Snapshot /\ NewSnapshot(t).id = Len(manifest[t]) + 1
<1>1. CurrentSources(t) \in PartialMap(File, Content)
  BY KeepType DEF CurrentSources, TypeOK
<1>2. CurrentOutputs(t) \in PartialMap(OutFile, Content)
  BY KeepType DEF CurrentOutputs, TypeOK
<1>3. NextId(t) = Len(manifest[t]) + 1 /\ NextId(t) \in SnapshotId
  BY IdLookup, MaxSnapshotsIsNat DEF SnapshotId
<1>4. TableByteOrder(t) \in ByteOrder
  BY TableByteOrderType
<1>5. QED  BY <1>1, <1>2, <1>3, <1>4 DEF NewSnapshot, Snapshot

\* The sources a restore writes are files with contents.
LEMMA RestoredFilesType ==
    ASSUME TypeOK, NEW t \in Table, NEW s \in Snapshot
    PROVE  RestoredFiles(t, s) \in PartialMap(File, Content)
<1> DEFINE paths == RestorePaths(t, s)
           compatible == LegacyCompatible(paths, s.source_blobs)
<1>1. s.source_blobs \in PartialMap(File, Content)
  BY SnapshotFields
<1>2. compatible \in PartialMap(File, Content)
  <2>1. CASE \E f, g \in File : paths = {f} /\ DOMAIN s.source_blobs = {g}
    <3>1. PICK f \in File, g \in File : paths = {f} /\ DOMAIN s.source_blobs = {g}
      BY <2>1
    <3>2. (CHOOSE x \in DOMAIN s.source_blobs : TRUE) = g
      BY <3>1
    <3>3. s.source_blobs[g] \in Content
      BY <1>1, <3>1, PartialMapDef
    <3>4. compatible = [x \in paths |-> s.source_blobs[g]]
      BY <2>1, <3>2 DEF LegacyCompatible
    <3> HIDE DEF compatible, paths
    <3>5. DOMAIN compatible = {f} /\ compatible \in [{f} -> Content]
      BY <3>1, <3>3, <3>4
    <3>6. QED  BY <3>5, PartialMapDef
  <2>2. CASE ~ \E f, g \in File : paths = {f} /\ DOMAIN s.source_blobs = {g}
    BY <1>1, <2>2 DEF LegacyCompatible
  <2>3. QED  BY <2>1, <2>2
<1>3. files \in PartialMap(File, Content)
  BY DEF TypeOK
<1>4. QED
  BY <1>2, <1>3, KeepType, OverrideType DEF RestoredFiles

-----------------------------------------------------------------------------
(* The initial state and the steps, one lemma per command.                 *)

\* The initial states.
LEMMA InitInv == Init => Inv
<1> SUFFICES ASSUME Init PROVE Inv
  OBVIOUS
<1>1. TypeOK
  BY EmptyMapType DEF Init, TypeOK
<1>2. \A t \in Table : DOMAIN manifest[t] = {}
  BY DEF Init
<1>3. IdsArePositions /\ EveryVersionRestorable
  BY <1>2 DEF IdsArePositions, EveryVersionRestorable
<1>4. OneSourcePerFileTable
  BY <1>2 DEF OneSourcePerFileTable, Table
<1>5. QED  BY <1>1, <1>3, <1>4 DEF Inv

\* What the invariant says of manifests and blobs survives a step that leaves
\* the two alone.
LEMMA StoreUntouched ==
    ASSUME Inv, UNCHANGED <<manifest, blobs>>
    PROVE  /\ IdsArePositions' /\ EveryVersionRestorable' /\ OneSourcePerFileTable'
           /\ manifest' \in [Table -> Seq(Snapshot)] /\ blobs' \in SUBSET Content
BY DEF Inv, TypeOK, IdsArePositions, EveryVersionRestorable, OneSourcePerFileTable

\* What a user does outside the tool leaves the store alone.
LEMMA UserStepInv == Inv /\ UserStep => Inv'
<1> SUFFICES ASSUME Inv, UserStep PROVE Inv'
  OBVIOUS
<1> USE DEF Inv, store
<1>1. CASE \E f \in File, c \in Content : EditFile(f, c)
  BY <1>1, PutType, StoreUntouched DEF EditFile, TypeOK
<1>2. CASE \E f \in File : RemoveFile(f)
  BY <1>2, DropType, StoreUntouched DEF RemoveFile, TypeOK
<1>3. CASE \E bo \in ByteOrder, ws \in SUBSET Writer : Configure(bo, ws)
  BY <1>3, StoreUntouched DEF Configure, TypeOK
<1>4. CASE \E b \in BatchName, ms \in SUBSET File : CreateBatchTable(b, ms)
  BY <1>4, PutType, StoreUntouched DEF CreateBatchTable, TypeOK
<1>5. CASE \E t \in Table, k \in Setting, bo \in ByteOrder : SetByteOrder(t, k, bo)
  <2>1. PICK t \in Table, k \in Setting, bo \in ByteOrder : SetByteOrder(t, k, bo)
    BY <1>5
  <2>2. <<t, k>> \in Table \X {"own", "cluster"}
    BY <2>1, SettingKinds
  <2>3. orders' \in PartialMap(Table \X {"own", "cluster"}, ByteOrder)
    BY <2>1, <2>2, PutType DEF SetByteOrder, TypeOK
  <2>4. QED  BY <2>1, <2>3, StoreUntouched DEF SetByteOrder, TypeOK
<1>6. CASE \E t \in Table, k \in Setting : ClearByteOrder(t, k)
  BY <1>6, DropType, StoreUntouched DEF ClearByteOrder, TypeOK
<1>7. QED  BY <1>1, <1>2, <1>3, <1>4, <1>5, <1>6 DEF UserStep

\* pld build writes outputs only.
LEMMA BuildInv ==
    ASSUME Inv, NEW t \in Table, NEW ok \in SUBSET Writer, NEW c \in Content,
           Build(t, ok, c)
    PROVE  Inv'
<1>1. [f \in {t} \X ok |-> c] \in PartialMap(OutFile, Content)
  BY PartialMapDef DEF OutFile
<1>2. outs' \in PartialMap(OutFile, Content)
  BY <1>1, DropType, OverrideType DEF Build, Inv, TypeOK
<1>3. QED  BY <1>2, StoreUntouched DEF Build, Inv, TypeOK, store

\* pld rm leaves the history.
LEMMA DeleteTableInv ==
    ASSUME Inv, NEW t \in Table, DeleteTable(t)
    PROVE  Inv'
BY DropType, StoreUntouched DEF DeleteTable, Inv, TypeOK, store

\* So does the removal of a member of a batch table.
LEMMA DeleteBatchMemberInv ==
    ASSUME Inv, NEW b \in BatchName, NEW f \in File, DeleteBatchMember(b, f)
    PROVE  Inv'
<1>1. files' \in PartialMap(File, Content)
  BY DropType DEF DeleteBatchMember, Inv, TypeOK
<1>2. batches[b] \in SUBSET File
  BY PartialMapDef DEF DeleteBatchMember, Inv, TypeOK
<1>3. batches' \in PartialMap(BatchName, SUBSET File)
  <2>1. batches[b] \ {f} \in SUBSET File
    BY <1>2
  <2>2. QED  BY <2>1, PutType, DropType DEF DeleteBatchMember, Inv, TypeOK
<1>4. outs' \in PartialMap(OutFile, Content)
  BY DropType DEF DeleteBatchMember, Inv, TypeOK
<1>5. orders' \in PartialMap(Table \X {"own", "cluster"}, ByteOrder)
  BY DropType DEF DeleteBatchMember, Inv, TypeOK
<1>6. QED
  BY <1>1, <1>3, <1>4, <1>5, StoreUntouched DEF DeleteBatchMember, Inv, TypeOK, store

\* A rename moves a manifest whole, and keeps the kind of its table.
LEMMA RenameInv ==
    ASSUME Inv, NEW t \in Table, NEW u \in Table, Rename(t, u)
    PROVE  Inv'
<1>1. files' \in PartialMap(File, Content)
  <2>1. CASE t \in DOMAIN batches
    BY <2>1 DEF Rename, Inv, TypeOK
  <2>2. CASE t \notin DOMAIN batches
    <3>1. t \in File
      BY <2>2, PartialMapDef DEF Rename, Live, Inv, TypeOK
    <3>2. u \in File
      BY <3>1 DEF Rename, SameKind
    <3>3. QED  BY <2>2, <3>2, MoveKeyType DEF Rename, Inv, TypeOK
  <2>3. QED  BY <2>1, <2>2
<1>2. batches' \in PartialMap(BatchName, SUBSET File)
  <2>1. CASE t \in DOMAIN batches
    <3>1. t \in BatchName
      BY <2>1, PartialMapDef DEF Inv, TypeOK
    <3>2. u \in BatchName
      BY <3>1, DisjointNames DEF Rename, SameKind, Table
    <3>3. QED  BY <2>1, <3>2, MoveKeyType DEF Rename, Inv, TypeOK
  <2>2. CASE t \notin DOMAIN batches
    BY <2>2 DEF Rename, Inv, TypeOK
  <2>3. QED  BY <2>1, <2>2
<1>3. golden' \in PartialMap(Table, SnapshotId) /\ head' \in PartialMap(Table, SnapshotId)
  BY MoveKeyType DEF Rename, MigrateHistory, Inv, TypeOK
<1>4. /\ t # u /\ SameKind(t, u)
      /\ UNCHANGED <<byteOrder, writers, outs, blobs>>
      /\ orders' \in PartialMap(Table \X {"own", "cluster"}, ByteOrder)
  <2>1. orders' \in PartialMap(Table \X {"own", "cluster"}, ByteOrder)
    BY MoveKeyType DEF Rename, Inv, TypeOK
  <2>2. QED  BY <2>1 DEF Rename, MigrateHistory
<1>5. CASE UNCHANGED manifest
  BY <1>1, <1>2, <1>3, <1>4, <1>5, StoreUntouched DEF Inv, TypeOK
<1>6. CASE manifest' = [manifest EXCEPT ![u] = manifest[t], ![t] = <<>>]
  <2>1. \A v \in Table : manifest'[v] = IF v = t THEN <<>> ELSE
                          IF v = u THEN manifest[t] ELSE manifest[v]
    BY <1>4, <1>6 DEF Inv, TypeOK
  <2>2. DOMAIN manifest'[t] = {} /\ manifest'[t] \in Seq(Snapshot)
    <3>1. manifest'[t] = <<>>
      BY <2>1
    <3>2. <<>> \in Seq(Snapshot)
      OBVIOUS
    <3>3. DOMAIN <<>> = {}
      OBVIOUS
    <3>4. QED  BY <3>1, <3>2, <3>3
  <2>3. manifest' \in [Table -> Seq(Snapshot)]
    BY <1>6, <2>2 DEF Inv, TypeOK
  <2>4. IdsArePositions'
    BY <2>1, <2>2 DEF Inv, IdsArePositions
  <2>5. EveryVersionRestorable'
    BY <1>4, <2>1, <2>2 DEF Inv, EveryVersionRestorable
  <2>6. OneSourcePerFileTable'
    BY <1>4, <2>1, <2>2 DEF Inv, OneSourcePerFileTable, SameKind, Table
  <2>7. QED
    BY <1>1, <1>2, <1>3, <1>4, <2>3, <2>4, <2>5, <2>6 DEF Inv, TypeOK
<1>7. QED  BY <1>5, <1>6 DEF Rename, MigrateHistory, MigrateManifest

\* A restore brings back a well-typed working tree and moves the head.
LEMMA RestoreInv ==
    ASSUME Inv, NEW t \in Table, NEW i \in SnapshotId, Restore(t, i)
    PROVE  Inv'
<1> DEFINE s == GetSnapshot(t, i)
<1>1. /\ i \in DOMAIN manifest[t]
      /\ s = manifest[t][i]
      /\ s \in Snapshot
  BY IdLookup DEF Restore, Inv
<1>2. files' \in PartialMap(File, Content)
  BY <1>1, RestoredFilesType DEF Restore, Inv
<1>3. outs' \in PartialMap(OutFile, Content)
  BY <1>1, SnapshotFields, DropType, OverrideType DEF Restore, RestoredOuts, Inv, TypeOK
<1>4. batches' \in PartialMap(BatchName, SUBSET File)
  <2>1. CASE t \in File
    <3>1. PICK f \in File : DOMAIN s.source_blobs = {f}
      BY <1>1, <2>1 DEF Inv, OneSourcePerFileTable
    <3>2. Cardinality(DOMAIN s.source_blobs) = 1
      BY <3>1, FS_Singleton
    <3>3. batches' = batches
      BY <3>2 DEF Restore, RestoredBatches
    <3>4. QED  BY <3>3 DEF Inv, TypeOK
  <2>2. CASE t \in BatchName
    <3>1. DOMAIN s.source_blobs \in SUBSET File
      BY <1>1, SnapshotFields, PartialMapDef
    <3>2. QED
      BY <2>2, <3>1, PutType DEF Restore, RestoredBatches, Inv, TypeOK
  <2>3. QED  BY <2>1, <2>2 DEF Table
<1>5. head' \in PartialMap(Table, SnapshotId)
  BY PutType DEF Restore, Inv, TypeOK
<1>6. QED
  BY <1>2, <1>3, <1>4, <1>5, StoreUntouched DEF Restore, Inv, TypeOK

\* A commit appends at the next position, its blobs stored before.
LEMMA CommitInv ==
    ASSUME Inv, NEW t \in Table, NEW g \in BOOLEAN, Commit(t, g)
    PROVE  Inv'
<1> DEFINE n == NewSnapshot(t)
<1>1. Len(manifest[t]) < MaxSnapshots
  BY DEF Commit
<1>2. /\ n \in Snapshot
      /\ n.id = Len(manifest[t]) + 1
      /\ SnapshotBlobs(n) \subseteq Content
  BY <1>1, NewSnapshotType, SnapshotFields DEF Inv
<1>3. /\ manifest[t] \in Seq(Snapshot)
      /\ Len(manifest[t]) \in Nat
      /\ DOMAIN manifest[t] = 1..Len(manifest[t])
  BY IdLookup DEF Inv
<1>4. manifest' = [manifest EXCEPT ![t] = Append(manifest[t], n)]
  BY DEF Commit, ExtendedManifest
<1> HIDE DEF n
<1>5. /\ manifest'[t] = Append(manifest[t], n)
      /\ \A u \in Table \ {t} : manifest'[u] = manifest[u]
  BY <1>4 DEF Inv, TypeOK
<1>6. \A k \in DOMAIN manifest'[t] :
        \/ k \in DOMAIN manifest[t] /\ manifest'[t][k] = manifest[t][k]
        \/ k = Len(manifest[t]) + 1 /\ manifest'[t][k] = n
  BY <1>2, <1>3, <1>5
<1>7. blobs' = blobs \cup SnapshotBlobs(n)
  BY DEF Commit, WriteBlobs, n
<1>8. TypeOK'
  <2>1. manifest' \in [Table -> Seq(Snapshot)]
    BY <1>2, <1>3, <1>4 DEF Inv, TypeOK
  <2>2. blobs' \in SUBSET Content
    BY <1>2, <1>7 DEF Inv, TypeOK
  <2>3. head' \in PartialMap(Table, SnapshotId)
    BY DropType DEF Commit, ClearHead, Inv, TypeOK
  <2>4. golden' \in PartialMap(Table, SnapshotId)
    <3>1. NextId(t) \in SnapshotId
      BY <1>1, <1>3, IdLookup, MaxSnapshotsIsNat DEF SnapshotId, Inv
    <3>2. QED  BY <3>1, PutType DEF Commit, Inv, TypeOK
  <2>5. QED
    BY <2>1, <2>2, <2>3, <2>4 DEF Commit, Inv, TypeOK, tree
<1>9. IdsArePositions'
  BY <1>2, <1>5, <1>6 DEF Inv, IdsArePositions
<1>10. EveryVersionRestorable'
  BY <1>5, <1>6, <1>7 DEF Inv, EveryVersionRestorable
<1>11. OneSourcePerFileTable'
  <2>1. ASSUME t \in File
        PROVE  DOMAIN n.source_blobs = {t}
    <3>1. t \notin DOMAIN batches
      BY <2>1, DisjointNames, PartialMapDef DEF Inv, TypeOK
    <3>2. t \in DOMAIN files /\ SourcePaths(t) = {t}
      BY <3>1 DEF Commit, Live, SourcePaths
    <3>3. QED
      BY <3>2 DEF n, NewSnapshot, CurrentSources, Keep
  <2>2. QED
    BY <1>5, <1>6, <2>1 DEF Inv, OneSourcePerFileTable, Table
<1>12. QED  BY <1>8, <1>9, <1>10, <1>11 DEF Inv

\* Golden pointers are set to snapshots that are there.
LEMMA GoldenInv ==
    ASSUME Inv, NEW t \in Table,
           ClearGolden(t) \/ \E i \in SnapshotId : SetGolden(t, i)
    PROVE  Inv'
<1>1. golden' \in PartialMap(Table, SnapshotId)
  BY PutType, DropType DEF ClearGolden, SetGolden, Inv, TypeOK
<1>2. UNCHANGED <<tree, manifest, head, blobs>>
  BY DEF ClearGolden, SetGolden
<1>3. QED
  BY <1>1, <1>2, StoreUntouched DEF Inv, TypeOK, tree

\* Every step keeps the invariant.
LEMMA NextInv == Inv /\ [Next]_vars => Inv'
<1> SUFFICES ASSUME Inv, [Next]_vars PROVE Inv'
  OBVIOUS
<1>1. CASE UserStep
  BY <1>1, UserStepInv
<1>2. CASE TableStep
  BY <1>2, BuildInv, RenameInv, DeleteTableInv, DeleteBatchMemberInv DEF TableStep
<1>3. CASE StoreStep
  BY <1>3, CommitInv, RestoreInv, GoldenInv DEF StoreStep
<1>4. CASE UNCHANGED vars
  BY <1>4, StoreUntouched DEF vars, Inv, TypeOK
<1>5. QED  BY <1>1, <1>2, <1>3, <1>4 DEF Next

\* The invariant of the store holds in every reachable state.
THEOREM StoreInvariant == Spec => []Inv
<1>1. QED  BY InitInv, NextInv, PTL DEF Spec

\* Every variable keeps its type, ids within the bound included.
THEOREM TypeCorrect == Spec => []TypeOK
<1>1. Inv => TypeOK
  BY DEF Inv
<1>2. QED  BY <1>1, StoreInvariant, PTL

\* Snapshot ids are positions: never reused, never skipped.
THEOREM IdsAreContiguous == Spec => []IdsArePositions
<1>1. Inv => IdsArePositions
  BY DEF Inv
<1>2. QED  BY <1>1, StoreInvariant, PTL

\* No recorded version ever loses a blob.
THEOREM VersionsStayRestorable == Spec => []EveryVersionRestorable
<1>1. Inv => EveryVersionRestorable
  BY DEF Inv
<1>2. QED  BY <1>1, StoreInvariant, PTL

-----------------------------------------------------------------------------
(* Manifests only grow.  Only a commit and a rename write one.             *)

\* A log is a prefix of itself.
LEMMA PrefixOfSelf ==
    ASSUME NEW T, NEW p \in Seq(T)
    PROVE  IsPrefixOf(p, p)
BY DEF IsPrefixOf

\* After a commit every manifest begins as it did.
LEMMA CommitExtends ==
    ASSUME Inv, NEW t \in Table, NEW g \in BOOLEAN, Commit(t, g), NEW v \in Table
    PROVE  IsPrefixOf(manifest[v], manifest'[v])
<1>1. manifest' = [manifest EXCEPT ![t] = Append(manifest[t], NewSnapshot(t))]
  BY DEF Commit, ExtendedManifest
<1>2. manifest \in [Table -> Seq(Snapshot)]
  BY DEF Inv, TypeOK
<1>3. CASE v = t
  <2>1. NewSnapshot(t) \in Snapshot
    BY NewSnapshotType DEF Commit, Inv
  <2> DEFINE n == NewSnapshot(t)
  <2>2. manifest'[v] = Append(manifest[v], n)
    BY <1>1, <1>2, <1>3
  <2>3. manifest[v] \in Seq(Snapshot)
    BY <1>2
  <2> HIDE DEF n
  <2>4. QED  BY <2>2, <2>3 DEF IsPrefixOf
<1>4. CASE v # t
  <2>1. manifest'[v] = manifest[v]
    BY <1>1, <1>2, <1>4
  <2>2. QED  BY <1>2, <2>1, PrefixOfSelf
<1>5. QED  BY <1>3, <1>4

\* After a rename every manifest is there, perhaps under the new name.
LEMMA RenameMoves ==
    ASSUME Inv, NEW t \in Table, NEW u \in Table, Rename(t, u), NEW v \in Table
    PROVE  \E w \in Table : IsPrefixOf(manifest[v], manifest'[w])
<1>1. manifest \in [Table -> Seq(Snapshot)]
  BY DEF Inv, TypeOK
<1>2. CASE UNCHANGED manifest
  BY <1>1, <1>2, PrefixOfSelf
<1>3. CASE /\ manifest[t] # <<>> /\ manifest[u] = <<>>
           /\ manifest' = [manifest EXCEPT ![u] = manifest[t], ![t] = <<>>]
  <2>1. /\ manifest'[u] = manifest[t]
        /\ \A x \in Table \ {t, u} : manifest'[x] = manifest[x]
    BY <1>1, <1>3
  <2>2. CASE v = t
    BY <1>1, <2>1, <2>2, PrefixOfSelf
  <2>3. CASE v = u
    <3>1. manifest[v] = <<>>
      BY <1>3, <2>3
    <3>2. IsPrefixOf(<<>>, manifest[t])
      <4>1. Len(manifest[t]) \in Nat
        BY <1>1
      <4>2. QED  BY <4>1 DEF IsPrefixOf
    <3>3. QED  BY <2>1, <3>1, <3>2
  <2>4. CASE v \notin {t, u}
    BY <1>1, <2>1, <2>4, PrefixOfSelf
  <2>5. QED  BY <2>2, <2>3, <2>4
<1>4. QED  BY <1>2, <1>3 DEF Rename, MigrateHistory, MigrateManifest

\* The steps that change manifests are commits and renames.
LEMMA ManifestSteps ==
    ASSUME Inv, [Next]_vars
    PROVE  \/ UNCHANGED manifest
           \/ \E t \in Table, g \in BOOLEAN : Commit(t, g)
           \/ \E t \in Table, u \in Table : Rename(t, u)
<1>1. CASE UserStep
  BY <1>1 DEF UserStep, EditFile, RemoveFile, Configure, SetByteOrder, ClearByteOrder,
     CreateBatchTable, store
<1>2. CASE TableStep
  BY <1>2 DEF TableStep, Build, DeleteTable, DeleteBatchMember, store
<1>3. CASE StoreStep
  BY <1>3 DEF StoreStep, Restore, SetGolden, ClearGolden
<1>4. CASE UNCHANGED vars
  BY <1>4 DEF vars
<1>5. QED  BY <1>1, <1>2, <1>3, <1>4 DEF Next

\* No step loses or rewrites a recorded snapshot.
THEOREM HistoryOnlyGrows == Spec => HistoryIsAppendOnly
<1>1. Inv /\ [Next]_vars => [ManifestsGrow]_manifest
  <2> SUFFICES ASSUME Inv, [Next]_vars, manifest' # manifest, NEW t \in Table
               PROVE  \E u \in Table : IsPrefixOf(manifest[t], manifest'[u])
    BY DEF ManifestsGrow
  <2>1. QED  BY ManifestSteps, CommitExtends, RenameMoves
<1>2. QED
  BY <1>1, StoreInvariant, PTL DEF Spec, HistoryIsAppendOnly

-----------------------------------------------------------------------------
(* Pointers.  A table renamed onto a name with a history of its own takes  *)
(* its pointers there without its manifest; without such a rename they     *)
(* always resolve.                                                         *)

\* A map of pointers that resolve still resolves when it follows a rename.
LEMMA PointersFollowRename ==
    ASSUME Inv, ReuseNames = FALSE, NEW t \in Table, NEW u \in Table, Rename(t, u),
           NEW p \in PartialMap(Table, SnapshotId),
           \A v \in DOMAIN p : p[v] \in SnapshotIds(v)
    PROVE  \A v \in DOMAIN MoveKey(p, t, u) : MoveKey(p, t, u)[v] \in SnapshotIds(v)'
<1>1. /\ manifest \in [Table -> Seq(Snapshot)]
      /\ DOMAIN p \subseteq Table
  BY PartialMapDef DEF Inv, TypeOK
<1>2. t # u /\ manifest[u] = <<>>
  BY DEF Rename
<1>3. u \notin DOMAIN p
  BY <1>2 DEF SnapshotIds
<1>4. CASE manifest[t] = <<>>
  <2>1. t \notin DOMAIN p
    BY <1>4 DEF SnapshotIds
  <2>2. MoveKey(p, t, u) = p
    BY <2>1 DEF MoveKey
  <2>3. UNCHANGED manifest
    BY <1>4 DEF Rename, MigrateHistory, MigrateManifest
  <2>4. QED  BY <2>2, <2>3 DEF SnapshotIds
<1>5. CASE manifest[t] # <<>>
  <2>1. manifest' = [manifest EXCEPT ![u] = manifest[t], ![t] = <<>>]
    BY <1>2, <1>5 DEF Rename, MigrateHistory, MigrateManifest
  <2>2. /\ manifest'[u] = manifest[t]
        /\ \A x \in Table \ {t, u} : manifest'[x] = manifest[x]
    BY <1>1, <1>2, <2>1
  <2>3. /\ SnapshotIds(u)' = SnapshotIds(t)
        /\ \A x \in Table \ {t, u} : SnapshotIds(x)' = SnapshotIds(x)
    BY <2>2 DEF SnapshotIds
  <2>4. CASE t \in DOMAIN p
    <3>1. /\ DOMAIN MoveKey(p, t, u) = (DOMAIN p \ {t}) \cup {u}
          /\ MoveKey(p, t, u)[u] = p[t]
          /\ \A x \in DOMAIN p \ {t} : MoveKey(p, t, u)[x] = p[x]
      BY <1>3, <2>4 DEF MoveKey, Put, Drop
    <3>2. QED  BY <1>1, <1>3, <2>3, <2>4, <3>1
  <2>5. CASE t \notin DOMAIN p
    <3>1. MoveKey(p, t, u) = p
      BY <2>5 DEF MoveKey
    <3>2. QED  BY <1>1, <1>3, <2>3, <2>5, <3>1
  <2>6. QED  BY <2>4, <2>5
<1>6. QED  BY <1>4, <1>5

\* Pointers that resolve still do when the manifests stay or are extended.
LEMMA PointersKeepResolving ==
    ASSUME Inv, PointersResolve,
           UNCHANGED manifest \/ \E t \in Table, g \in BOOLEAN : Commit(t, g)
    PROVE  \A t \in Table : SnapshotIds(t) \subseteq SnapshotIds(t)'
<1>1. CASE UNCHANGED manifest
  BY <1>1 DEF SnapshotIds
<1>2. ASSUME NEW t \in Table, NEW g \in BOOLEAN, Commit(t, g), NEW v \in Table
      PROVE  SnapshotIds(v) \subseteq SnapshotIds(v)'
  <2>1. IsPrefixOf(manifest[v], manifest'[v])
    BY <1>2, CommitExtends
  <2>2. manifest[v] \in Seq(Snapshot) /\ manifest'[v] \in Seq(Snapshot)
    BY <1>2, CommitInv DEF Inv, TypeOK
  <2>3. \A k \in DOMAIN manifest[v] : k \in DOMAIN manifest'[v] /\ manifest'[v][k] = manifest[v][k]
    BY <2>1, <2>2 DEF IsPrefixOf
  <2>4. QED  BY <2>3 DEF SnapshotIds
<1>3. QED  BY <1>1, <1>2

\* Every step keeps the pointers, if names are not reused.
LEMMA PointerSteps ==
    ASSUME Inv, PointersResolve, ReuseNames = FALSE, [Next]_vars
    PROVE  PointersResolve'
<1>1. /\ golden \in PartialMap(Table, SnapshotId) /\ DOMAIN golden \subseteq Table
      /\ head \in PartialMap(Table, SnapshotId) /\ DOMAIN head \subseteq Table
  BY PartialMapDef DEF Inv, TypeOK
<1>2. CASE UNCHANGED store
  BY <1>2 DEF store, PointersResolve, SnapshotIds
<1>3. ASSUME NEW t \in Table, NEW u \in Table, Rename(t, u)
      PROVE  PointersResolve'
  <2>1. golden' = MoveKey(golden, t, u) /\ head' = MoveKey(head, t, u)
    BY <1>3 DEF Rename, MigrateHistory
  <2>2. \A v \in DOMAIN golden' : golden'[v] \in SnapshotIds(v)'
    BY <1>1, <1>3, <2>1, PointersFollowRename DEF PointersResolve
  <2>3. \A v \in DOMAIN head' : head'[v] \in SnapshotIds(v)'
    BY <1>1, <1>3, <2>1, PointersFollowRename DEF PointersResolve
  <2>4. QED  BY <2>2, <2>3 DEF PointersResolve
<1>4. ASSUME NEW t \in Table, NEW g \in BOOLEAN, Commit(t, g)
      PROVE  PointersResolve'
  <2>1. \A v \in Table : SnapshotIds(v) \subseteq SnapshotIds(v)'
    BY <1>4, PointersKeepResolving
  <2>2. NextId(t) \in SnapshotIds(t)'
    <3>1. DOMAIN manifest'[t] = 1..Len(manifest[t]) + 1
      <4>1. manifest'[t] = Append(manifest[t], NewSnapshot(t))
        BY <1>4 DEF Commit, ExtendedManifest, Inv, TypeOK
      <4>2. manifest[t] \in Seq(Snapshot) /\ NewSnapshot(t) \in Snapshot
        BY <1>4, NewSnapshotType DEF Commit, Inv, TypeOK
      <4> DEFINE n == NewSnapshot(t)
      <4> HIDE DEF n
      <4>3. manifest'[t] = Append(manifest[t], n) /\ n \in Snapshot
        BY <4>1, <4>2 DEF n
      <4>4. QED  BY <4>2, <4>3
    <3>2. NextId(t) = Len(manifest[t]) + 1 /\ Len(manifest[t]) \in Nat
      BY IdLookup DEF Inv
    <3>3. \A k \in DOMAIN manifest'[t] : manifest'[t][k].id = k
      BY <1>4, CommitInv DEF Inv, IdsArePositions
    <3>4. NextId(t) \in DOMAIN manifest'[t] /\ manifest'[t][NextId(t)].id = NextId(t)
      BY <3>1, <3>2, <3>3
    <3> DEFINE n == NextId(t)
    <3> HIDE DEF n
    <3>5. n \in DOMAIN manifest'[t] /\ manifest'[t][n].id = n
      BY <3>4 DEF n
    <3>6. n \in SnapshotIds(t)'
      BY <3>5 DEF SnapshotIds
    <3>7. QED  BY <3>6 DEF n
  <2>3. \A v \in DOMAIN head' : head'[v] \in SnapshotIds(v)'
    BY <1>1, <1>4, <2>1 DEF Commit, ClearHead, Drop, PointersResolve
  <2>4. \A v \in DOMAIN golden' : golden'[v] \in SnapshotIds(v)'
    BY <1>1, <1>4, <2>1, <2>2 DEF Commit, Put, PointersResolve
  <2>5. QED  BY <2>3, <2>4 DEF PointersResolve
<1>5. ASSUME NEW t \in Table, NEW i \in SnapshotId,
             Restore(t, i) \/ SetGolden(t, i) \/ ClearGolden(t)
      PROVE  PointersResolve'
  <2>1. UNCHANGED manifest
    BY <1>5 DEF Restore, SetGolden, ClearGolden
  <2>2. \A v \in DOMAIN golden' : golden'[v] \in SnapshotIds(v)
    BY <1>5 DEF Restore, SetGolden, ClearGolden, Put, Drop, PointersResolve
  <2>3. \A v \in DOMAIN head' : head'[v] \in SnapshotIds(v)
    BY <1>5 DEF Restore, SetGolden, ClearGolden, Put, Drop, PointersResolve
  <2>4. QED  BY <2>1, <2>2, <2>3 DEF PointersResolve, SnapshotIds
<1>6. ASSUME NEW t \in Table, ClearGolden(t)
      PROVE  PointersResolve'
  BY <1>6 DEF ClearGolden, Drop, PointersResolve, SnapshotIds
<1>7. CASE UNCHANGED vars
  BY <1>7 DEF vars, PointersResolve, SnapshotIds
<1>8. CASE TableStep
  BY <1>2, <1>3, <1>8 DEF TableStep, Build, DeleteTable, DeleteBatchMember
<1>9. CASE StoreStep
  BY <1>4, <1>5, <1>6, <1>9 DEF StoreStep
<1>10. CASE UserStep
  BY <1>2, <1>10 DEF UserStep, EditFile, RemoveFile, Configure, SetByteOrder, ClearByteOrder,
     CreateBatchTable
<1>11. QED  BY <1>7, <1>8, <1>9, <1>10 DEF Next

\* Golden and head always name a snapshot of their table, if no table is ever
\* renamed to a name under which a history is left.
THEOREM PointersAlwaysResolve == ReuseNames = FALSE => (Spec => []PointersResolve)
<1> SUFFICES ASSUME ReuseNames = FALSE PROVE Spec => []PointersResolve
  OBVIOUS
<1>1. Init => PointersResolve
  BY EmptyMapType DEF Init, PointersResolve
<1>2. Inv /\ PointersResolve /\ [Next]_vars => PointersResolve'
  BY PointerSteps
<1>3. QED  BY <1>1, <1>2, StoreInvariant, PTL DEF Spec

-----------------------------------------------------------------------------
(* The working tree against the store.  What the status commands compare   *)
(* and what restore writes are the same files, so "unchanged" means that   *)
(* a restore would do nothing, and a restore or a commit ends "unchanged". *)

\* What the head names is a snapshot of the table.
LEMMA HeadLookup ==
    ASSUME Inv, NEW t \in Table, manifest[t] # <<>>
    PROVE  /\ HeadId(t) \in SnapshotIds(t)
           /\ GetSnapshot(t, HeadId(t)) = manifest[t][HeadId(t)]
           /\ GetSnapshot(t, HeadId(t)) \in Snapshot
<1>1. Len(manifest[t]) \in DOMAIN manifest[t] /\ manifest[t] \in Seq(Snapshot)
  BY DEF Inv, TypeOK
<1>2. TipId(t) \in SnapshotIds(t)
  BY <1>1 DEF TipId, SnapshotIds
<1>3. HeadId(t) \in SnapshotIds(t)
  BY <1>2 DEF HeadId
<1>4. QED  BY <1>3, IdLookup DEF Inv

\* A table whose files are those of s has nothing for a restore of s to do.
LEMMA SameFilesRestored ==
    ASSUME TypeOK, NEW t \in Live, NEW s,
           CurrentSources(t) = LegacyCompatible(SourcePaths(t), s.source_blobs),
           CurrentOutputs(t) = s.output_blobs
    PROVE  RestoreChangesNothing(t, s)
<1>1. files = [x \in DOMAIN files |-> files[x]] /\ outs = [x \in DOMAIN outs |-> outs[x]]
  BY MapIsFunction DEF TypeOK
<1>2. RestoredFiles(t, s) = files
  <2>1. RestoredFiles(t, s) =
          Override(files, Keep(Keep(files, SourcePaths(t)), SourcePaths(t)))
    BY DEF RestoredFiles, RestorePaths, CurrentSources
  <2>2. QED  BY <1>1, <2>1, KeepTwice, OverrideByPart
<1>3. RestoredOuts(t, s) = outs
  <2>1. s.output_blobs = Keep(outs, StemFiles(t))
    BY DEF CurrentOutputs
  <2>2. DOMAIN s.output_blobs = DOMAIN outs \cap StemFiles(t)
    BY <2>1 DEF Keep
  <2>3. Drop(outs, StemFiles(t) \ DOMAIN s.output_blobs) = outs
    BY <1>1, <2>2 DEF Drop
  <2>4. QED  BY <1>1, <2>1, <2>3, OverrideByPart DEF RestoredOuts
<1>4. QED  BY <1>2, <1>3 DEF RestoreChangesNothing

\* "Unchanged" in the status view, and "match" in the golden check, mean that
\* restoring the snapshot in question would not touch a file.
THEOREM CleanIsRestored == Spec => []CleanMeansRestored
<1>1. Inv => CleanMeansRestored
  <2> SUFFICES ASSUME Inv, NEW t \in Live
               PROVE  /\ ~IsDirty(t) => RestoreChangesNothing(t, GetSnapshot(t, HeadId(t)))
                      /\ GoldenStatus(t) = "match" =>
                             RestoreChangesNothing(t, GetSnapshot(t, golden[t]))
    BY DEF CleanMeansRestored
  <2>1. TypeOK
    BY DEF Inv
  <2>2. ASSUME ~IsDirty(t)
        PROVE  RestoreChangesNothing(t, GetSnapshot(t, HeadId(t)))
    BY <2>1, <2>2, SameFilesRestored DEF IsDirty, Matches
  <2>3. ASSUME GoldenStatus(t) = "match"
        PROVE  RestoreChangesNothing(t, GetSnapshot(t, golden[t]))
    BY <2>1, <2>3, SameFilesRestored DEF GoldenStatus
  <2>4. QED  BY <2>2, <2>3
<1>2. QED  BY <1>1, StoreInvariant, PTL

\* Sources recorded under the names they still have are compared by name.
LEMMA LegacyOfOwnNames ==
    ASSUME NEW b, b = [x \in DOMAIN b |-> b[x]], NEW paths, DOMAIN b \subseteq paths
    PROVE  LegacyCompatible(paths, b) = b
<1>1. CASE \E f, g \in File : paths = {f} /\ DOMAIN b = {g}
  <2>1. PICK f \in File : paths = {f} /\ DOMAIN b = {f}
    BY <1>1
  <2>2. (CHOOSE g \in DOMAIN b : TRUE) = f
    BY <2>1
  <2>3. LegacyCompatible(paths, b) = [x \in {f} |-> b[f]]
    BY <1>1, <2>1, <2>2 DEF LegacyCompatible
  <2>4. [x \in {f} |-> b[f]] = [x \in DOMAIN b |-> b[x]]
    BY <2>1
  <2>5. QED  BY <2>3, <2>4
<1>2. CASE ~ \E f, g \in File : paths = {f} /\ DOMAIN b = {g}
  BY <1>2 DEF LegacyCompatible
<1>3. QED  BY <1>1, <1>2

\* Read against as many paths as were recorded, the sources are one per path.
LEMMA LegacyCoversPaths ==
    ASSUME NEW b \in PartialMap(File, Content), NEW paths,
           \/ paths = DOMAIN b
           \/ \E f, g \in File : paths = {f} /\ DOMAIN b = {g}
    PROVE  LegacyCompatible(paths, b) \in [paths -> Content]
<1>1. b \in [DOMAIN b -> Content]
  BY PartialMapDef
<1>2. CASE \E f, g \in File : paths = {f} /\ DOMAIN b = {g}
  <2> DEFINE c == b[CHOOSE g \in DOMAIN b : TRUE]
  <2>1. LegacyCompatible(paths, b) = [x \in paths |-> c]
    BY <1>2 DEF LegacyCompatible
  <2>2. c \in Content
    BY <1>1, <1>2
  <2> HIDE DEF c
  <2>3. QED  BY <2>1, <2>2
<1>3. CASE ~ \E f, g \in File : paths = {f} /\ DOMAIN b = {g}
  BY <1>1, <1>3 DEF LegacyCompatible
<1>4. QED  BY <1>2, <1>3

\* A commit makes what it recorded the snapshot its table is compared with.
LEMMA CommitStep ==
    ASSUME Inv, NEW t \in Table, NEW g \in BOOLEAN, Commit(t, g),
           NEW i, i = Len(manifest[t]) + 1
    PROVE  /\ manifest'[t] # <<>>
           /\ HeadId(t)' = i
           /\ GetSnapshot(t, i)' = NewSnapshot(t)
           /\ NewSnapshot(t) \in Snapshot
<1> DEFINE n == NewSnapshot(t)
<1>1. /\ manifest[t] \in Seq(Snapshot)
      /\ Len(manifest[t]) \in Nat
      /\ n \in Snapshot /\ n.id = i
  BY IdLookup, NewSnapshotType DEF Inv, Commit
<1>2. manifest'[t] = Append(manifest[t], n)
  BY DEF Commit, ExtendedManifest, Inv, TypeOK
<1> HIDE DEF n
<1>3. /\ Len(manifest'[t]) = i
      /\ manifest'[t][i] = n
      /\ manifest'[t] # <<>>
      /\ i \in DOMAIN manifest'[t]
  BY <1>1, <1>2
<1>4. HeadId(t)' = i
  <2>1. TipId(t)' = i
    BY <1>1, <1>3 DEF TipId
  <2>2. t \notin DOMAIN head'
    BY DEF Commit, ClearHead, Drop
  <2>3. QED  BY <2>1, <2>2 DEF HeadId
<1>5. GetSnapshot(t, i)' = n
  <2>1. \A k \in DOMAIN manifest'[t] : manifest'[t][k].id = k
    BY CommitInv DEF Inv, IdsArePositions
  <2>2. (CHOOSE k \in DOMAIN manifest'[t] : manifest'[t][k].id = i) = i
    BY <1>3, <2>1
  <2>3. QED  BY <1>3, <2>2 DEF GetSnapshot
<1>6. QED  BY <1>1, <1>3, <1>4, <1>5 DEF n

\* A restore makes the snapshot it brought back the one its table is compared
\* with.
LEMMA RestoreStep ==
    ASSUME Inv, NEW t \in Table, NEW i \in SnapshotId, Restore(t, i),
           NEW s, s = GetSnapshot(t, i)
    PROVE  /\ s \in Snapshot /\ s = manifest[t][i] /\ i \in DOMAIN manifest[t]
           /\ manifest'[t] # <<>>
           /\ HeadId(t)' = i
           /\ GetSnapshot(t, i)' = s
           /\ files' = RestoredFiles(t, s)
           /\ outs' = RestoredOuts(t, s)
           /\ batches' = RestoredBatches(t, s)
           /\ TableByteOrder(t)' = TableByteOrder(t)
<1>1. /\ i \in DOMAIN manifest[t] /\ i \in SnapshotIds(t)
      /\ s \in Snapshot /\ s = manifest[t][i]
  BY IdLookup DEF Restore, Inv
<1>2. UNCHANGED <<manifest, byteOrder, orders>> /\ head' = Put(head, t, i)
  BY DEF Restore
<1>3. manifest'[t] # <<>>
  BY <1>1, <1>2
<1>4. i \in SnapshotIds(t)' /\ t \in DOMAIN head' /\ head'[t] = i
  BY <1>1, <1>2 DEF SnapshotIds, Put
<1>5. HeadId(t)' = i
  BY <1>4 DEF HeadId
<1>6. GetSnapshot(t, i)' = s
  BY <1>2 DEF GetSnapshot
<1>7. QED  BY <1>1, <1>2, <1>3, <1>5, <1>6 DEF Restore, TableByteOrder

\* A commit leaves its table unchanged, wherever the head was.
THEOREM CommitEndsClean == Spec => CommitLeavesClean
<1>1. ASSUME Inv, NEW t \in Table, NEW g \in BOOLEAN, Commit(t, g)
      PROVE  ~IsDirty(t)'
  <2> DEFINE i == Len(manifest[t]) + 1
             n == NewSnapshot(t)
  <2>1. PICK k : k = i
    OBVIOUS
  <2>2. PICK s : s = n
    OBVIOUS
  <2>3. manifest'[t] # <<>> /\ HeadId(t)' = k /\ GetSnapshot(t, k)' = s
    BY <1>1, <2>1, <2>2, CommitStep
  <2>4. UNCHANGED tree
    BY <1>1 DEF Commit
  <2>5. Matches(t, s)'
    <3>1. /\ s.source_blobs = CurrentSources(t)
          /\ s.output_blobs = CurrentOutputs(t)
          /\ s.byte_order = TableByteOrder(t)
      BY <2>2 DEF NewSnapshot
    <3>2. LegacyCompatible(SourcePaths(t), s.source_blobs) = s.source_blobs
      BY <3>1, LegacyOfOwnNames DEF CurrentSources, Keep
    <3>3. Matches(t, s)
      BY <3>1, <3>2 DEF Matches
    <3>4. QED  BY <2>4, <3>3 DEF Matches, CurrentSources, CurrentOutputs, SourcePaths,
                            TableByteOrder, tree
  <2>6. QED  BY <2>3, <2>5 DEF IsDirty
<1>2. Inv => [\A t \in Table, g \in BOOLEAN : Commit(t, g) => ~IsDirty(t)']_vars
  BY <1>1
<1>3. QED  BY <1>2, StoreInvariant, PTL DEF CommitLeavesClean

\* Restoring a table that is there changes no batch table and no source but its
\* own.
THEOREM RestoreEndsInTable == Spec => RestoreStaysInTable
<1>1. ASSUME NEW t \in Table, NEW i \in SnapshotId, Restore(t, i), t \in Live
      PROVE  /\ batches' = batches
             /\ Drop(files', SourcePaths(t)) = Drop(files, SourcePaths(t))
  <2> DEFINE s == GetSnapshot(t, i)
             paths == SourcePaths(t)
             written == Keep(LegacyCompatible(paths, s.source_blobs), paths)
  <2>1. batches' = batches
    BY <1>1 DEF Restore, RestoredBatches
  <2>2. files' = Override(files, written)
    BY <1>1 DEF Restore, RestoredFiles, RestorePaths
  <2>3. DOMAIN written \subseteq paths
    BY DEF Keep
  <2>4. QED  BY <2>1, <2>2, <2>3, DropWritten
<1>2. [\A t \in Table, i \in SnapshotId :
          Restore(t, i) /\ t \in Live =>
              /\ batches' = batches
              /\ Drop(files', SourcePaths(t)) = Drop(files, SourcePaths(t))]_vars
  BY <1>1
<1>3. QED  BY <1>2, PTL DEF RestoreStaysInTable

\* The outputs a restore writes under the table's own name are exactly those
\* of the snapshot.
LEMMA RestoredOutputsExact ==
    ASSUME TypeOK, NEW t \in Table, NEW s \in Snapshot,
           \A f \in DOMAIN s.output_blobs : f[1] = t
    PROVE  Keep(RestoredOuts(t, s), StemFiles(t)) = s.output_blobs
<1> DEFINE o == s.output_blobs
           kept == Drop(outs, StemFiles(t) \ DOMAIN o)
<1>1. o \in PartialMap(OutFile, Content)
  BY SnapshotFields
<1>2. o = [x \in DOMAIN o |-> o[x]] /\ DOMAIN o \subseteq OutFile
  BY <1>1, MapIsFunction, PartialMapDef
<1>3. DOMAIN o \subseteq StemFiles(t)
  BY <1>2 DEF OutFile, StemFiles
<1>4. DOMAIN kept \cap StemFiles(t) \subseteq DOMAIN o
  BY DEF Drop
<1>5. QED  BY <1>2, <1>3, <1>4, KeepWritten DEF RestoredOuts

\* A restore into as many paths as were recorded leaves the sources of the
\* table as the comparison reads the snapshot.
LEMMA RestoredSourcesExact ==
    ASSUME NEW t, NEW s \in Snapshot,
           NEW paths, paths = RestorePaths(t, s),
           \/ paths = DOMAIN s.source_blobs
           \/ \E f, g \in File : paths = {f} /\ DOMAIN s.source_blobs = {g}
    PROVE  /\ Keep(RestoredFiles(t, s), paths) = LegacyCompatible(paths, s.source_blobs)
           /\ paths \subseteq DOMAIN RestoredFiles(t, s)
<1> DEFINE c == LegacyCompatible(paths, s.source_blobs)
<1>1. s.source_blobs \in PartialMap(File, Content)
  BY SnapshotFields
<1>2. c \in [paths -> Content]
  BY <1>1, LegacyCoversPaths
<1> HIDE DEF c
<1>3. DOMAIN c = paths
  BY <1>2
<1>4. Keep(c, paths) = c
  BY <1>2, <1>3 DEF Keep
<1>5. RestoredFiles(t, s) = Override(files, c)
  BY <1>4 DEF RestoredFiles, c
<1>6. Keep(Override(files, c), paths) = c
  BY <1>2, <1>3, KeepWritten
<1>7. paths \subseteq DOMAIN Override(files, c)
  BY <1>3 DEF Override
<1>8. QED  BY <1>5, <1>6, <1>7 DEF c

\* Restoring an existing table of the same shape ends unchanged.
THEOREM RestoreEndsClean == Spec => RestoreLeavesClean
<1>1. ASSUME Inv, NEW t \in Table, NEW i \in SnapshotId, Restore(t, i),
             SameShape(t, GetSnapshot(t, i))
      PROVE  ~IsDirty(t)'
  <2>1. PICK s : s = GetSnapshot(t, i)
    OBVIOUS
  <2>2. PICK paths : paths = SourcePaths(t)
    OBVIOUS
  <2>3. /\ s \in Snapshot /\ s = manifest[t][i] /\ i \in DOMAIN manifest[t]
        /\ manifest'[t] # <<>> /\ HeadId(t)' = i /\ GetSnapshot(t, i)' = s
        /\ files' = RestoredFiles(t, s)
        /\ outs' = RestoredOuts(t, s)
        /\ batches' = RestoredBatches(t, s)
        /\ TableByteOrder(t)' = TableByteOrder(t)
    BY <1>1, <2>1, RestoreStep
  <2>4. /\ t \in Live /\ TableByteOrder(t) = s.byte_order
        /\ \A f \in DOMAIN s.output_blobs : f[1] = t
        /\ paths = DOMAIN s.source_blobs \/ t \in File
    BY <1>1, <2>1, <2>2 DEF SameShape
  <2>5. paths = RestorePaths(t, s) /\ SourcePaths(t)' = paths
    BY <2>2, <2>3, <2>4 DEF RestorePaths, RestoredBatches, SourcePaths
  <2>6. \/ paths = DOMAIN s.source_blobs
        \/ \E f, g \in File : paths = {f} /\ DOMAIN s.source_blobs = {g}
    <3>1. ASSUME t \in File
          PROVE  \E f, g \in File : paths = {f} /\ DOMAIN s.source_blobs = {g}
      <4>1. t \notin DOMAIN batches
        BY <1>1, <3>1, DisjointNames, PartialMapDef DEF Inv, TypeOK
      <4>2. paths = {t}
        BY <2>2, <4>1 DEF SourcePaths
      <4>3. \E g \in File : DOMAIN s.source_blobs = {g}
        BY <1>1, <2>3, <3>1 DEF Inv, OneSourcePerFileTable
      <4>4. QED  BY <3>1, <4>2, <4>3
    <3>2. QED  BY <2>4, <3>1
  <2>7. Keep(files', paths) = LegacyCompatible(paths, s.source_blobs)
    BY <2>3, <2>5, <2>6, RestoredSourcesExact
  <2>8. Keep(outs', StemFiles(t)) = s.output_blobs
    BY <1>1, <2>3, <2>4, RestoredOutputsExact DEF Inv
  <2>9. Matches(t, s)'
    BY <2>3, <2>4, <2>5, <2>7, <2>8 DEF Matches, CurrentSources, CurrentOutputs
  <2>10. QED  BY <2>3, <2>9 DEF IsDirty
<1>2. Inv => [\A t \in Table, i \in SnapshotId :
                 Restore(t, i) /\ SameShape(t, GetSnapshot(t, i)) => ~IsDirty(t)']_vars
  BY <1>1
<1>3. QED  BY <1>2, StoreInvariant, PTL DEF RestoreLeavesClean

\* Restoring a deleted table brings it back, unchanged.
THEOREM DeleteIsUndone == Spec => RestoreUndoesDelete
<1>1. ASSUME Inv, NEW t \in Table, NEW i \in SnapshotId, Restore(t, i),
             Recreatable(t, GetSnapshot(t, i))
      PROVE  t \in Live' /\ ~IsDirty(t)'
  <2>1. PICK s : s = GetSnapshot(t, i)
    OBVIOUS
  <2>2. PICK paths : paths = DOMAIN s.source_blobs
    OBVIOUS
  <2>3. /\ s \in Snapshot /\ s = manifest[t][i] /\ i \in DOMAIN manifest[t]
        /\ manifest'[t] # <<>> /\ HeadId(t)' = i /\ GetSnapshot(t, i)' = s
        /\ files' = RestoredFiles(t, s)
        /\ outs' = RestoredOuts(t, s)
        /\ batches' = RestoredBatches(t, s)
        /\ TableByteOrder(t)' = TableByteOrder(t)
    BY <1>1, <2>1, RestoreStep
  <2>4. /\ t \notin Live \cup Members
        /\ IF t \in File THEN paths = {t} ELSE Cardinality(paths) > 1
        /\ TableByteOrder(t) = s.byte_order
        /\ \A f \in DOMAIN s.output_blobs : f[1] = t
    BY <1>1, <2>1, <2>2 DEF Recreatable
  <2>5. paths = RestorePaths(t, s)
    BY <2>2, <2>4 DEF RestorePaths
  <2>6. /\ Keep(files', paths) = LegacyCompatible(paths, s.source_blobs)
        /\ paths \subseteq DOMAIN files'
    BY <2>2, <2>3, <2>5, RestoredSourcesExact
  <2>7. Keep(outs', StemFiles(t)) = s.output_blobs
    BY <1>1, <2>3, <2>4, RestoredOutputsExact DEF Inv
  <2>8. t \in Live' /\ SourcePaths(t)' = paths
    <3>1. CASE t \in File
      <4>1. paths = {t} /\ Cardinality(paths) = 1
        BY <2>4, <3>1, FS_Singleton
      <4>2. batches' = batches
        BY <2>2, <2>3, <4>1 DEF RestoredBatches
      <4>3. t \notin DOMAIN batches
        BY <1>1, <3>1, DisjointNames, PartialMapDef DEF Inv, TypeOK
      <4>4. t \notin Members'
        BY <2>4, <4>2 DEF Members
      <4>5. QED
        BY <2>6, <4>1, <4>2, <4>3, <4>4 DEF Live, SourcePaths
    <3>2. CASE t \notin File
      <4>1. batches' = Put(batches, t, paths)
        BY <2>2, <2>3, <2>4, <3>2 DEF RestoredBatches
      <4>2. t \in DOMAIN batches' /\ batches'[t] = paths
        BY <4>1 DEF Put
      <4>3. QED  BY <4>2 DEF Live, SourcePaths
    <3>3. QED  BY <3>1, <3>2
  <2>9. Matches(t, s)'
    BY <2>3, <2>4, <2>6, <2>7, <2>8 DEF Matches, CurrentSources, CurrentOutputs
  <2>10. QED  BY <2>3, <2>8, <2>9 DEF IsDirty
<1>2. Inv => [\A t \in Table, i \in SnapshotId :
                 Restore(t, i) /\ Recreatable(t, GetSnapshot(t, i)) =>
                     t \in Live' /\ ~IsDirty(t)']_vars
  BY <1>1
<1>3. QED  BY <1>2, StoreInvariant, PTL DEF RestoreUndoesDelete

\* The removal of an unchanged table leaves what its restore needs.
THEOREM DeletedIsRecreatable == Spec => DeleteLosesNothing
<1>1. ASSUME Inv, NEW t \in Table, DeleteTable(t), manifest[t] # <<>>,
             NothingElseToLose(t, GetSnapshot(t, HeadId(t)))
      PROVE  Recreatable(t, GetSnapshot(t, HeadId(t)))'
  <2>1. PICK s : s = GetSnapshot(t, HeadId(t))
    OBVIOUS
  <2>2. GetSnapshot(t, HeadId(t))' = s
    BY <1>1, <2>1 DEF DeleteTable, store, GetSnapshot, HeadId, TipId, SnapshotIds
  <2>3. /\ files' = Drop(files, SourcePaths(t))
        /\ batches' = Drop(batches, {t})
        /\ orders' = Drop(orders, ForgetEntries(t))
        /\ byteOrder' = byteOrder
    BY <1>1 DEF DeleteTable
  <2>4. /\ t \in File => t \notin DOMAIN batches
        /\ DOMAIN batches' \subseteq BatchName /\ t \notin DOMAIN batches'
        /\ Members \subseteq File
    <3>1. DOMAIN batches \subseteq BatchName /\ batches \in [DOMAIN batches -> SUBSET File]
      BY <1>1, PartialMapDef DEF Inv, TypeOK
    <3>2. QED  BY <2>3, <3>1, DisjointNames DEF Members, Drop
  <2>5. t \notin Members
    <3>1. CASE t \in DOMAIN batches
      BY <2>4, <3>1
    <3>2. CASE t \notin DOMAIN batches
      BY <1>1, <3>2 DEF DeleteTable, Live
    <3>3. QED  BY <3>1, <3>2
  <2>6. (t \notin Live \cup Members)'
    <3>1. t \notin Members'
      BY <2>3, <2>5 DEF Members, Drop
    <3>2. t \notin DOMAIN files'
      <4>1. DOMAIN files \subseteq File
        BY <1>1, PartialMapDef DEF Inv, TypeOK
      <4>2. CASE t \in File
        BY <2>3, <2>4, <4>2 DEF SourcePaths, Drop
      <4>3. CASE t \notin File
        BY <2>3, <4>1, <4>3 DEF Drop
      <4>4. QED  BY <4>2, <4>3
    <3>3. QED  BY <2>4, <3>1, <3>2 DEF Live
  <2>7. /\ CurrentSources(t) = LegacyCompatible(SourcePaths(t), s.source_blobs)
        /\ TableByteOrder(t) = s.byte_order
        /\ \A f \in DOMAIN s.output_blobs : f[1] = t
    BY <1>1, <2>1 DEF NothingElseToLose, IsDirty, Matches
  <2>8. IF t \in File THEN DOMAIN s.source_blobs = {t}
                      ELSE Cardinality(DOMAIN s.source_blobs) > 1
    <3>1. CASE t \in File
      BY <1>1, <2>1, <3>1 DEF NothingElseToLose
    <3>2. CASE t \notin File
      <4>1. /\ Cardinality(SourcePaths(t)) > 1
            /\ t \in DOMAIN batches
        <5>1. DOMAIN files \subseteq File
          BY <1>1, PartialMapDef DEF Inv, TypeOK
        <5>2. QED  BY <1>1, <2>1, <3>2, <5>1 DEF NothingElseToLose, DeleteTable, Live
      <4>2. DOMAIN CurrentSources(t) = SourcePaths(t)
        <5>1. SourcePaths(t) \subseteq DOMAIN files
          BY <1>1, <4>1 DEF DeleteTable, DiscoveryOk, Members, SourcePaths
        <5>2. QED  BY <5>1 DEF CurrentSources, Keep
      <4>3. ~ \E f, g \in File : SourcePaths(t) = {f} /\ DOMAIN s.source_blobs = {g}
        BY <4>1, FS_Singleton
      <4>4. CurrentSources(t) = s.source_blobs
        BY <2>7, <4>3 DEF LegacyCompatible
      <4>5. QED  BY <3>2, <4>1, <4>2, <4>4
    <3>3. QED  BY <3>1, <3>2
  <2>9. TableByteOrder(t)' = TableByteOrder(t)
    <3>1. CASE t \in File
      <4>1. ForgetEntries(t) = {<<t, "cluster">>}
        BY <2>4, <3>1 DEF ForgetEntries
      <4>2. <<t, "own">> \in DOMAIN orders \/ <<t, "cluster">> \notin DOMAIN orders
        BY <1>1, <3>1 DEF NothingElseToLose
      <4>3. QED  BY <2>3, <4>1, <4>2 DEF TableByteOrder, Drop
    <3>2. CASE t \notin File
      <4>1. <<t, "own">> \notin DOMAIN orders /\ <<t, "cluster">> \notin DOMAIN orders
        BY <1>1, <3>2 DEF NothingElseToLose
      <4>2. QED  BY <2>3, <4>1 DEF TableByteOrder, Drop
    <3>3. QED  BY <3>1, <3>2
  <2>10. Recreatable(t, s)'
    BY <2>6, <2>7, <2>8, <2>9 DEF Recreatable
  <2>11. QED  BY <2>2, <2>10
<1>2. Inv => [\A t \in Table :
                 DeleteTable(t) /\ manifest[t] # <<>>
                 /\ NothingElseToLose(t, GetSnapshot(t, HeadId(t))) =>
                     Recreatable(t, GetSnapshot(t, HeadId(t)))']_vars
  BY <1>1
<1>3. QED  BY <1>2, StoreInvariant, PTL DEF DeleteLosesNothing

-----------------------------------------------------------------------------
(* The store refines the log of HistoryLog, if no table is renamed to a    *)
(* name under which a history is left: a commit records, a restore checks  *)
(* out, golden set and clear choose and unchoose, a rename transfers, and  *)
(* every other command leaves the log as it is.                            *)

\* The map operators of the log are those of the store.
LEMMA LogMaps ==
    /\ \A f, k, v : Log!Put(f, k, v) = Put(f, k, v)
    /\ \A f, K : Log!Drop(f, K) = Drop(f, K)
    /\ \A f, k, l : Log!MoveKey(f, k, l) = MoveKey(f, k, l)
    /\ \A f : Log!ValuesOf(f) = ValuesOf(f)
    /\ Log!EmptyMap = EmptyMap
BY DEF Log!Put, Log!Drop, Log!MoveKey, Log!ValuesOf, Log!EmptyMap,
       Put, Drop, MoveKey, ValuesOf, EmptyMap

\* With pointers that resolve, the versions are entries of the manifests.
VersionsAreEntries ==
    /\ DOMAIN CurrentVersions = {t \in Table : manifest[t] # <<>>}
    /\ CurrentVersions = [t \in DOMAIN CurrentVersions |-> CurrentVersions[t]]
    /\ \A t \in DOMAIN CurrentVersions :
          /\ HeadId(t) \in DOMAIN manifest[t]
          /\ CurrentVersions[t] = manifest[t][HeadId(t)]
    /\ DOMAIN GoldenVersions = DOMAIN golden
    /\ GoldenVersions = [t \in DOMAIN GoldenVersions |-> GoldenVersions[t]]
    /\ \A t \in DOMAIN golden :
          /\ t \in Table /\ golden[t] \in DOMAIN manifest[t]
          /\ GoldenVersions[t] = manifest[t][golden[t]]

Readable == Inv /\ PointersResolve /\ VersionsAreEntries

\* What a pointer names is the entry at its position.
LEMMA EntriesLookup == Inv /\ PointersResolve => VersionsAreEntries
<1> SUFFICES ASSUME Inv, PointersResolve PROVE VersionsAreEntries
  OBVIOUS
<1>1. /\ DOMAIN CurrentVersions = {t \in Table : manifest[t] # <<>>}
      /\ CurrentVersions = [t \in DOMAIN CurrentVersions |-> CurrentVersions[t]]
      /\ \A t \in DOMAIN CurrentVersions : CurrentVersions[t] = GetSnapshot(t, HeadId(t))
  BY DEF CurrentVersions
<1>2. /\ DOMAIN GoldenVersions = DOMAIN golden
      /\ GoldenVersions = [t \in DOMAIN GoldenVersions |-> GoldenVersions[t]]
      /\ \A t \in DOMAIN golden : GoldenVersions[t] = GetSnapshot(t, golden[t])
  BY DEF GoldenVersions
<1>3. ASSUME NEW t \in DOMAIN CurrentVersions
      PROVE  /\ HeadId(t) \in DOMAIN manifest[t]
             /\ CurrentVersions[t] = manifest[t][HeadId(t)]
  BY <1>1, HeadLookup, IdLookup DEF Inv
<1>4. ASSUME NEW t \in DOMAIN golden
      PROVE  /\ t \in Table /\ golden[t] \in DOMAIN manifest[t]
             /\ GoldenVersions[t] = manifest[t][golden[t]]
  <2>1. t \in Table
    BY PartialMapDef DEF Inv, TypeOK
  <2>2. golden[t] \in SnapshotIds(t)
    BY DEF PointersResolve
  <2>3. QED  BY <1>2, <2>1, <2>2, IdLookup DEF Inv
<1>5. QED  BY <1>1, <1>2, <1>3, <1>4 DEF VersionsAreEntries

\* A table is compared with the same snapshot as long as its manifest and its
\* head stay, be it under another name.
LEMMA SameHead ==
    ASSUME NEW u, NEW v, manifest'[v] = manifest[u],
           v \in DOMAIN head' <=> u \in DOMAIN head,
           u \in DOMAIN head => head'[v] = head[u]
    PROVE  HeadId(v)' = HeadId(u)
BY DEF HeadId, TipId, SnapshotIds

\* The marks of the log move only with manifests and pointers.
LEMMA MarksStay ==
    ASSUME UNCHANGED <<manifest, head, golden>>
    PROVE  UNCHANGED <<manifest, CurrentVersions, GoldenVersions>>
BY DEF CurrentVersions, GoldenVersions, GetSnapshot, HeadId, TipId, SnapshotIds

\* A commit records a version that the log does not have.
LEMMA CommitRecords ==
    ASSUME Readable, Readable', NEW t \in Table, NEW g \in BOOLEAN, Commit(t, g)
    PROVE  Log!Next
<1> USE DEF Readable, VersionsAreEntries
<1>1. PICK n : n = NewSnapshot(t)
  OBVIOUS
<1>2. PICK k : k = Len(manifest[t]) + 1
  OBVIOUS
<1>3. /\ manifest \in [Table -> Seq(Snapshot)]
      /\ manifest[t] \in Seq(Snapshot) /\ Len(manifest[t]) \in Nat
      /\ DOMAIN manifest[t] = 1..Len(manifest[t])
      /\ n \in Snapshot /\ n.id = k
      /\ NextId(t) = k
  BY <1>1, <1>2, IdLookup, NewSnapshotType DEF Inv, Commit, TypeOK
<1>4. manifest' = [manifest EXCEPT ![t] = Append(manifest[t], n)]
  BY <1>1 DEF Commit, ExtendedManifest
<1>5. /\ manifest'[t] = Append(manifest[t], n)
      /\ manifest'[t][k] = n /\ k \in DOMAIN manifest'[t]
      /\ \A i \in DOMAIN manifest[t] : manifest'[t][i] = manifest[t][i]
      /\ \A u \in Table \ {t} : manifest'[u] = manifest[u]
  BY <1>2, <1>3, <1>4
<1>6. manifest'[t] # <<>> /\ HeadId(t)' = k
  BY <1>2, CommitStep
<1>7. ASSUME NEW u \in Table \ {t}
      PROVE  HeadId(u)' = HeadId(u)
  <2>1. /\ u \in DOMAIN head' <=> u \in DOMAIN head
        /\ u \in DOMAIN head => head'[u] = head[u]
    BY DEF Commit, ClearHead, Drop
  <2>2. QED  BY <1>5, <2>1, SameHead
<1>8. n \notin Log!Recorded(t) /\ n \in Log!Recorded(t)'
  <2>1. \A j \in DOMAIN manifest[t] : manifest[t][j].id = j /\ j # k
    BY <1>2, <1>3 DEF Inv, IdsArePositions
  <2>2. n \notin Log!Recorded(t)
    BY <1>3, <2>1 DEF Log!Recorded, Log!ValuesOf
  <2>3. QED  BY <1>5, <2>2 DEF Log!Recorded, Log!ValuesOf
<1>9. CurrentVersions' = Put(CurrentVersions, t, n)
  <2>1. DOMAIN CurrentVersions' = DOMAIN CurrentVersions \cup {t}
    BY <1>5, <1>6
  <2>2. CurrentVersions'[t] = n
    BY <1>5, <1>6, <2>1
  <2>3. \A u \in DOMAIN CurrentVersions \ {t} : CurrentVersions'[u] = CurrentVersions[u]
    BY <1>5, <1>7, <2>1
  <2>4. QED  BY <2>1, <2>2, <2>3, PutAsFunction
<1>10. GoldenVersions' = IF g THEN Put(GoldenVersions, t, n) ELSE GoldenVersions
  <2>1. CASE g
    <3>1. golden' = Put(golden, t, k)
      BY <1>3, <2>1 DEF Commit
    <3>2. /\ DOMAIN golden' = DOMAIN golden \cup {t} /\ golden'[t] = k
          /\ \A u \in DOMAIN golden \ {t} : golden'[u] = golden[u]
      BY <3>1 DEF Put
    <3>3. /\ DOMAIN GoldenVersions' = DOMAIN GoldenVersions \cup {t}
          /\ GoldenVersions'[t] = n
          /\ \A u \in DOMAIN GoldenVersions \ {t} : GoldenVersions'[u] = GoldenVersions[u]
      BY <1>5, <3>2
    <3>4. GoldenVersions' = Put(GoldenVersions, t, n)
      BY <3>3, PutAsFunction
    <3>5. QED  BY <2>1, <3>4
  <2>2. CASE ~g
    <3>1. golden' = golden
      BY <2>2 DEF Commit
    <3>2. /\ DOMAIN GoldenVersions' = DOMAIN GoldenVersions
          /\ \A u \in DOMAIN GoldenVersions : GoldenVersions'[u] = GoldenVersions[u]
      BY <1>5, <3>1
    <3>3. QED  BY <2>2, <3>2
  <2>3. QED  BY <2>1, <2>2
<1>11. Log!Record(t, n, g)
  BY <1>4, <1>8, <1>9, <1>10, LogMaps DEF Log!Record
<1>12. QED  BY <1>3, <1>8, <1>11 DEF Log!Next

\* A restore checks out a recorded version.
LEMMA RestoreChecksOut ==
    ASSUME Readable, Readable', NEW t \in Table, NEW i \in SnapshotId, Restore(t, i)
    PROVE  Log!Next
<1> USE DEF Readable, VersionsAreEntries
<1>1. i \in DOMAIN manifest[t]
  BY IdLookup DEF Restore, Inv
<1>2. UNCHANGED <<manifest, golden>> /\ head' = Put(head, t, i)
  BY DEF Restore
<1>3. PICK s : s = manifest[t][i]
  OBVIOUS
<1>4. HeadId(t)' = i /\ \A u \in Table \ {t} : HeadId(u)' = HeadId(u)
  <2>1. /\ t \in DOMAIN head' /\ head'[t] = i
        /\ \A u \in Table \ {t} : /\ u \in DOMAIN head' <=> u \in DOMAIN head
                                  /\ u \in DOMAIN head => head'[u] = head[u]
    BY <1>2 DEF Put
  <2>2. i \in SnapshotIds(t)'
    BY <1>1, <1>2 DEF SnapshotIds, Inv, IdsArePositions
  <2>3. HeadId(t)' = i
    BY <2>1, <2>2 DEF HeadId
  <2>4. QED  BY <1>2, <2>1, <2>3, SameHead
<1>5. CurrentVersions' = Put(CurrentVersions, t, s)
  <2>1. manifest[t] # <<>>
    BY <1>1
  <2>2. DOMAIN CurrentVersions' = DOMAIN CurrentVersions \cup {t}
    BY <1>2, <2>1
  <2>3. CurrentVersions'[t] = s
    BY <1>2, <1>3, <1>4, <2>2
  <2>4. \A u \in DOMAIN CurrentVersions \ {t} : CurrentVersions'[u] = CurrentVersions[u]
    BY <1>2, <1>4, <2>2
  <2>5. QED  BY <2>2, <2>3, <2>4, PutAsFunction
<1>6. GoldenVersions' = GoldenVersions
  BY <1>2
<1>7. s \in Log!Recorded(t)
  BY <1>1, <1>3 DEF Log!Recorded, Log!ValuesOf
<1>8. Log!CheckOut(t, s)
  BY <1>2, <1>5, <1>6, <1>7, LogMaps DEF Log!CheckOut
<1>9. QED  BY <1>7, <1>8 DEF Log!Next

\* "golden set" chooses a recorded version.
LEMMA SetGoldenChooses ==
    ASSUME Readable, Readable', NEW t \in Table, NEW i \in SnapshotId, SetGolden(t, i)
    PROVE  Log!Next
<1> USE DEF Readable, VersionsAreEntries
<1>1. i \in DOMAIN manifest[t]
  BY IdLookup DEF SetGolden, Inv
<1>2. UNCHANGED <<manifest, head>> /\ golden' = Put(golden, t, i)
  BY DEF SetGolden
<1>3. PICK s : s = manifest[t][i]
  OBVIOUS
<1>4. GoldenVersions' = Put(GoldenVersions, t, s)
  <2>1. /\ DOMAIN golden' = DOMAIN golden \cup {t} /\ golden'[t] = i
        /\ \A u \in DOMAIN golden \ {t} : golden'[u] = golden[u]
    BY <1>2 DEF Put
  <2>2. /\ DOMAIN GoldenVersions' = DOMAIN GoldenVersions \cup {t}
        /\ GoldenVersions'[t] = s
        /\ \A u \in DOMAIN GoldenVersions \ {t} : GoldenVersions'[u] = GoldenVersions[u]
    BY <1>2, <1>3, <2>1
  <2>3. QED  BY <2>2, PutAsFunction
<1>5. CurrentVersions' = CurrentVersions
  <2>1. \A u \in Table : HeadId(u)' = HeadId(u)
    BY <1>2, SameHead
  <2>2. QED  BY <1>2, <2>1
<1>6. s \in Log!Recorded(t)
  BY <1>1, <1>3 DEF Log!Recorded, Log!ValuesOf
<1>7. Log!Choose(t, s)
  BY <1>2, <1>4, <1>5, <1>6, LogMaps DEF Log!Choose
<1>8. QED  BY <1>6, <1>7 DEF Log!Next

\* "golden clear" gives up the choice.
LEMMA ClearGoldenUnchooses ==
    ASSUME Readable, Readable', NEW t \in Table, ClearGolden(t)
    PROVE  Log!Next
<1> USE DEF Readable, VersionsAreEntries
<1>1. UNCHANGED <<manifest, head>> /\ golden' = Drop(golden, {t})
  BY DEF ClearGolden
<1>2. GoldenVersions' = Drop(GoldenVersions, {t})
  <2>1. /\ DOMAIN golden' = DOMAIN golden \ {t}
        /\ \A u \in DOMAIN golden \ {t} : golden'[u] = golden[u]
    BY <1>1 DEF Drop
  <2>2. DOMAIN GoldenVersions' = DOMAIN GoldenVersions \ {t}
    BY <2>1
  <2>3. ASSUME NEW u \in DOMAIN GoldenVersions \ {t}
        PROVE  GoldenVersions'[u] = GoldenVersions[u]
    <3>1. u \in DOMAIN golden /\ u \in DOMAIN golden' /\ golden'[u] = golden[u]
      BY <2>1
    <3>2. GoldenVersions[u] = manifest[u][golden[u]]
      BY <3>1
    <3>3. GoldenVersions'[u] = manifest'[u][golden'[u]]
      BY <3>1
    <3>4. QED  BY <1>1, <3>1, <3>2, <3>3
  <2>4. GoldenVersions' = [x \in DOMAIN GoldenVersions' |-> GoldenVersions'[x]]
    OBVIOUS
  <2>5. QED  BY <2>2, <2>3, <2>4 DEF Drop
<1>3. CurrentVersions' = CurrentVersions
  <2>1. \A u \in Table : HeadId(u)' = HeadId(u)
    BY <1>1, SameHead
  <2>2. QED  BY <1>1, <2>1
<1>4. Log!Unchoose(t)
  BY <1>1, <1>2, <1>3, LogMaps DEF Log!Unchoose
<1>5. QED  BY <1>4 DEF Log!Next

\* A rename to a name without a history transfers log and marks, if there are
\* any.
LEMMA RenameTransfers ==
    ASSUME Readable, Readable', ReuseNames = FALSE,
           NEW t \in Table, NEW u \in Table, Rename(t, u)
    PROVE  Log!Next \/ UNCHANGED <<manifest, CurrentVersions, GoldenVersions>>
<1> USE DEF Readable, VersionsAreEntries
<1>1. /\ manifest \in [Table -> Seq(Snapshot)]
      /\ t # u /\ manifest[u] = <<>>
      /\ golden' = MoveKey(golden, t, u) /\ head' = MoveKey(head, t, u)
  BY DEF Rename, MigrateHistory, Inv, TypeOK
<1>2. u \notin DOMAIN golden /\ u \notin DOMAIN head
  BY <1>1 DEF PointersResolve, SnapshotIds
<1>3. CASE manifest[t] = <<>>
  <2>1. t \notin DOMAIN golden /\ t \notin DOMAIN head
    BY <1>3 DEF PointersResolve, SnapshotIds
  <2>2. UNCHANGED <<manifest, head, golden>>
    BY <1>1, <1>3, <2>1 DEF Rename, MigrateHistory, MigrateManifest, MoveKey
  <2>3. QED  BY <2>2, MarksStay
<1>4. CASE manifest[t] # <<>>
  <2>1. manifest' = [manifest EXCEPT ![u] = manifest[t], ![t] = <<>>]
    BY <1>1, <1>4 DEF Rename, MigrateHistory, MigrateManifest
  <2>2. /\ manifest'[u] = manifest[t] /\ manifest'[t] = <<>>
        /\ \A x \in Table \ {t, u} : manifest'[x] = manifest[x]
    BY <1>1, <2>1
  <2>3. CurrentVersions' = MoveKey(CurrentVersions, t, u)
    <3>1. /\ HeadId(u)' = HeadId(t)
          /\ \A x \in Table \ {t, u} : HeadId(x)' = HeadId(x)
      <4>1. /\ u \in DOMAIN head' <=> t \in DOMAIN head
            /\ t \in DOMAIN head => head'[u] = head[t]
        BY <1>1, <1>2 DEF MoveKey, Put, Drop
      <4>2. \A x \in Table \ {t, u} : /\ x \in DOMAIN head' <=> x \in DOMAIN head
                                      /\ x \in DOMAIN head => head'[x] = head[x]
        BY <1>1, <1>2 DEF MoveKey, Put, Drop
      <4>3. HeadId(u)' = HeadId(t)
        BY <2>2, <4>1, SameHead
      <4>4. ASSUME NEW x \in Table \ {t, u}
            PROVE  HeadId(x)' = HeadId(x)
        <5>1. manifest'[x] = manifest[x]
          BY <2>2
        <5>2. /\ x \in DOMAIN head' <=> x \in DOMAIN head
              /\ x \in DOMAIN head => head'[x] = head[x]
          BY <4>2
        <5>3. QED  BY <5>1, <5>2, SameHead
      <4>5. QED  BY <4>3, <4>4
    <3>2. /\ t \in DOMAIN CurrentVersions /\ u \notin DOMAIN CurrentVersions
          /\ DOMAIN CurrentVersions' = (DOMAIN CurrentVersions \ {t}) \cup {u}
      BY <1>1, <1>4, <2>2
    <3>3. CurrentVersions'[u] = CurrentVersions[t]
      BY <2>2, <3>1, <3>2
    <3>4. \A x \in DOMAIN CurrentVersions \ {t} : CurrentVersions'[x] = CurrentVersions[x]
      BY <2>2, <3>1, <3>2
    <3>5. QED  BY <3>2, <3>3, <3>4, MoveAsFunction
  <2>4. GoldenVersions' = MoveKey(GoldenVersions, t, u)
    <3>1. CASE t \in DOMAIN golden
      <4>1. /\ DOMAIN golden' = (DOMAIN golden \ {t}) \cup {u} /\ golden'[u] = golden[t]
            /\ \A x \in DOMAIN golden \ {t} : golden'[x] = golden[x]
        BY <1>1, <1>2, <3>1 DEF MoveKey, Put, Drop
      <4>2. /\ t \in DOMAIN GoldenVersions /\ u \notin DOMAIN GoldenVersions
            /\ DOMAIN GoldenVersions' = (DOMAIN GoldenVersions \ {t}) \cup {u}
            /\ GoldenVersions'[u] = GoldenVersions[t]
            /\ \A x \in DOMAIN GoldenVersions \ {t} : GoldenVersions'[x] = GoldenVersions[x]
        BY <1>2, <2>2, <3>1, <4>1
      <4>3. QED  BY <4>2, MoveAsFunction
    <3>2. CASE t \notin DOMAIN golden
      <4>1. golden' = golden
        BY <1>1, <3>2 DEF MoveKey
      <4>2. /\ DOMAIN GoldenVersions' = DOMAIN GoldenVersions
            /\ \A x \in DOMAIN GoldenVersions : GoldenVersions'[x] = GoldenVersions[x]
        BY <1>2, <2>2, <3>2, <4>1
      <4>3. QED  BY <3>2, <4>2 DEF MoveKey
    <3>3. QED  BY <3>1, <3>2
  <2>5. Log!Transfer(t, u)
    BY <1>1, <2>1, <2>3, <2>4, LogMaps DEF Log!Transfer
  <2>6. QED  BY <2>5 DEF Log!Next
<1>5. QED  BY <1>3, <1>4

\* The store is an append-only log per table whose two marks always mean the
\* version they were put on.
THEOREM StoreImplementsLog == ReuseNames = FALSE => (Spec => ImplementsLog)
<1> SUFFICES ASSUME ReuseNames = FALSE PROVE Spec => ImplementsLog
  OBVIOUS
<1>1. Init => Log!Init
  <2> SUFFICES ASSUME Init PROVE Log!Init
    OBVIOUS
  <2>1. manifest = [t \in Table |-> <<>>] /\ DOMAIN golden = {}
    BY EmptyMapType DEF Init
  <2>2. DOMAIN CurrentVersions = {} /\ DOMAIN GoldenVersions = {}
    BY <2>1 DEF CurrentVersions, GoldenVersions
  <2>3. CurrentVersions = EmptyMap /\ GoldenVersions = EmptyMap
    BY <2>2 DEF CurrentVersions, GoldenVersions, EmptyMap
  <2>4. QED  BY <2>1, <2>3, LogMaps DEF Log!Init
<1>2. Readable /\ Readable' /\ [Next]_vars => [Log!Next]_(Log!logVars)
  <2> SUFFICES ASSUME Readable, Readable', [Next]_vars
               PROVE  Log!Next \/ UNCHANGED <<manifest, CurrentVersions, GoldenVersions>>
    BY DEF Log!logVars
  <2>1. CASE UNCHANGED store
    BY <2>1, MarksStay DEF store
  <2>2. CASE StoreStep
    BY <2>2, CommitRecords, RestoreChecksOut, SetGoldenChooses, ClearGoldenUnchooses
    DEF StoreStep
  <2>3. CASE TableStep
    BY <2>1, <2>3, RenameTransfers DEF TableStep, Build, DeleteTable, DeleteBatchMember
  <2>4. CASE UserStep
    BY <2>1, <2>4 DEF UserStep, EditFile, RemoveFile, Configure, SetByteOrder, ClearByteOrder,
     CreateBatchTable
  <2>5. CASE UNCHANGED vars
    BY <2>1, <2>5 DEF vars, store
  <2>6. QED  BY <2>2, <2>3, <2>4, <2>5 DEF Next
<1>3. Spec => []PointersResolve
  BY PointersAlwaysResolve
<1>4. Inv /\ PointersResolve => Readable
  BY EntriesLookup DEF Readable
<1>5. QED
  BY <1>1, <1>2, <1>3, <1>4, StoreInvariant, PTL DEF Spec, ImplementsLog, Log!Spec
=============================================================================
