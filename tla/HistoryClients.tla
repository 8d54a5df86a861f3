--------------------------- MODULE HistoryClients ---------------------------
(***************************************************************************)
(* The history store under several clients: the commit, restore and golden *)
(* commands of the command line and of the web server (whose handlers run  *)
(* in threads), with no lock between them, as the sequences of file        *)
(* accesses they are (src/payload/core/history.py).  A file is written by  *)
(* truncating it and then filling it, and a client may die between any two *)
(* accesses.  History has the same commands as single steps and everything *)
(* else a table goes through; here a table is one source file and, if its  *)
(* pipeline writes one, one output file, and it keeps its name.            *)
(***************************************************************************)
EXTENDS Integers, Sequences, FiniteSets, SequencesExt, Maps

CONSTANTS
    Client,         \* command line processes and request threads
    TableOrder,     \* the tables, in discovery order
    Built,          \* tables whose pipeline writes an output
    Content,        \* contents of source and output files
    Absent,         \* what a file that does not exist reads as
    Torn,           \* what a truncated or cut off file reads as
    Past,           \* table -> contents of the snapshots it starts with
    PastMarks,      \* maps from tables to the ids heads and goldens start with
    Budget          \* bound: [request, death |-> how many of each]

ASSUME MarksAreNoContent ==
    /\ Absent # Torn /\ {Absent, Torn} \cap Content = {}
    /\ {Absent, Torn} \cap Seq([id : Nat, blobs : PartialMap({"source", "output"},
                                                           Content \cup {Torn})]) = {}
    /\ \A D \in SUBSET ToSet(TableOrder) : {Absent, Torn} \cap [D -> Nat] = {}
ASSUME OrderIsDistinct ==
    /\ TableOrder \in Seq(ToSet(TableOrder))
    /\ \A i, j \in DOMAIN TableOrder : TableOrder[i] = TableOrder[j] => i = j
ASSUME BuiltAreTables == Built \subseteq ToSet(TableOrder)
ASSUME PastIsRecorded ==
    /\ Past \in [ToSet(TableOrder) -> Seq(PartialMap({"source", "output"}, Content))]
    /\ \A t \in ToSet(TableOrder) : \A i \in DOMAIN Past[t] :
          /\ "source" \in DOMAIN Past[t][i]
          /\ "output" \in DOMAIN Past[t][i] => t \in Built
ASSUME PastMarksResolve ==
    \A p \in PastMarks : /\ p = [t \in DOMAIN p |-> p[t]] /\ DOMAIN p \subseteq ToSet(TableOrder)
                         /\ \A t \in DOMAIN p : p[t] \in DOMAIN Past[t]
ASSUME BudgetIsBound == Budget \in [{"request", "death"} -> Nat]

VARIABLES
    disk,       \* file -> what is in it
    todo,       \* client -> the calls left of its request, first one next
    mem,        \* client -> what its commit has read: log, blobs
    left,       \* what is left of Budget
    told,       \* what finished requests reported: log, head, golden
    loose,      \* <<pointer file, table>>: its last report may not hold
    disturbed   \* files whose writes overlapped or were cut short

vars == <<disk, todo, mem, left, told, loose, disturbed>>

Table == ToSet(TableOrder)
Data == Content \cup {Torn}
Id == 1..(Budget["request"] + Max({Len(Past[t]) : t \in Table}))

HeadFile == <<"head">>
GoldenFile == <<"golden">>
Pointers == {HeadFile, GoldenFile}
Manifest(t) == <<"manifest", t>>
Blob(c) == <<"blob", c>>
Work(k, t) == <<k, t>>

Kinds(t) == IF t \in Built THEN {"source", "output"} ELSE {"source"}
WorkFiles(t) == {Work(k, t) : k \in Kinds(t)}
AllWorkFiles == UNION {WorkFiles(t) : t \in Table}

File == Pointers \cup {Manifest(t) : t \in Table} \cup {Blob(c) : c \in Data}
            \cup AllWorkFiles

Snapshot == [id : Id, blobs : PartialMap({"source", "output"}, Data)]

-----------------------------------------------------------------------------
(* Reading.                                                                *)

\* A corrupted pointer file reads as no pointers; a corrupted manifest raises.
ReadMap(f) == IF disk[f] \in {Absent, Torn} THEN EmptyMap ELSE disk[f]
Readable(t) == disk[Manifest(t)] # Torn
ReadLog(t) == IF disk[Manifest(t)] = Absent THEN <<>> ELSE disk[Manifest(t)]

Ids(log) == {s.id : s \in ToSet(log)}
GetSnapshot(log, i) == CHOOSE s \in ToSet(log) : s.id = i

HeadId(t) ==
    LET log == ReadLog(t)
        head == ReadMap(HeadFile)
    IN IF t \in DOMAIN head /\ head[t] \in Ids(log) THEN head[t] ELSE Last(log).id

\* The working tree of t: the contents of the files that are there.
WorkOf(t) ==
    LET there == {k \in Kinds(t) : disk[Work(k, t)] # Absent}
    IN [k \in there |-> disk[Work(k, t)]]

IsDirty(t) ==
    ReadLog(t) # <<>> => WorkOf(t) # GetSnapshot(ReadLog(t), HeadId(t)).blobs

-----------------------------------------------------------------------------
(* Requests in progress.  A request ends, for each table, in a "report" of *)
(* what became of it, which carries the pointer files it has set.          *)

Idle(c) == todo[c] = <<>>
Is(c, call) == ~Idle(c) /\ todo[c][1][1] = call
Pending(c, calls) == {x \in ToSet(todo[c]) : x[1] \in calls}

Busy(c) == {x[2] : x \in Pending(c, {"record", "report"})}
BusyOthers(c) == UNION {Busy(d) : d \in Client \ {c}}

\* The pointers the request of c is still to set, or to report.
Sets(c) == UNION {x[3] \X {x[2]} : x \in Pending(c, {"record", "report"})}

\* The JSON files c has read and will write back.
Using(c) ==
    {x[2] : x \in Pending(c, {"open", "fill"})}
    \cup {Manifest(x[2]) : x \in {y \in Pending(c, {"record"}) :
                                      <<"load", y[2]>> \notin Pending(c, {"load"})}}

Overlaps(c, f) == \E d \in Client \ {c} : f \in Using(d)
Filling(f) == \E c \in Client : \E x \in Pending(c, {"fill"}) : x[2] = f

NothingRead == [log |-> <<>>, blobs |-> EmptyMap]

Spend(what) == left[what] > 0 /\ left' = [left EXCEPT ![what] = @ - 1]

\* The first call of c is replaced by calls.
Continue(c, calls) == todo' = [todo EXCEPT ![c] = calls \o Tail(@)]

\* The calls for each of some tables, in discovery order.
InOrder(calls) ==
    FlattenSeq([k \in DOMAIN TableOrder |->
        IF TableOrder[k] \in DOMAIN calls THEN calls[TableOrder[k]] ELSE <<>>])

\* The request of c ends here: what it has written stays.
Abort(c) ==
    LET cut == {x[2] : x \in Pending(c, {"fill"})}
    IN /\ todo' = [todo EXCEPT ![c] = <<>>]
       /\ loose' = loose \cup Sets(c) \cup ((cut \cap Pointers) \X Table)
       /\ disturbed' = disturbed \cup (cut \ Pointers)
       /\ mem' = [mem EXCEPT ![c] = NothingRead]
       /\ UNCHANGED <<disk, told>>

-----------------------------------------------------------------------------
PastLog(t) == [i \in DOMAIN Past[t] |-> [id |-> i, blobs |-> Past[t][i]]]
Stored == UNION {UNION {ValuesOf(Past[t][i]) : i \in DOMAIN Past[t]} : t \in Table}

StoreFiles(head, golden, work) ==
    [f \in File |->
        IF f = HeadFile THEN head
        ELSE IF f = GoldenFile THEN golden
        ELSE IF f \in AllWorkFiles THEN work[f]
        ELSE IF f[1] = "blob" THEN IF f[2] \in Stored THEN f[2] ELSE Absent
        ELSE PastLog(f[2])]

\* A store that commands run one by one have left: any snapshot may be current
\* or golden, the sources have any content and the outputs one of the past.
Init ==
    \E head, golden \in PastMarks, work \in [AllWorkFiles -> Content \cup {Absent}] :
        /\ \A t \in Table : work[Work("source", t)] # Absent
        /\ \A t \in Built : work[Work("output", t)] \in Stored \cup {Absent}
        /\ disk = StoreFiles(head, golden, work)
        /\ todo = [c \in Client |-> <<>>]
        /\ mem = [c \in Client |-> NothingRead]
        /\ left = Budget
        /\ told = [log |-> [t \in Table |-> ToSet(PastLog(t))],
                   head |-> [t \in {u \in Table : Past[u] # <<>>} |->
                               IF t \in DOMAIN head THEN head[t] ELSE Len(Past[t])],
                   golden |-> [t \in DOMAIN golden |-> PastLog(t)[golden[t]]]]
        /\ loose = {}
        /\ disturbed = {}

\* A request that is to set the pointers in sets begins.  If no other is about
\* to set them, what is uncertain about them will be settled by its report.
Begin(c, sets, calls) ==
    /\ Idle(c)
    /\ Spend("request")
    /\ todo' = [todo EXCEPT ![c] = calls]
    /\ loose' = (loose \ sets)
                    \cup (sets \cap UNION {Sets(d) : d \in Client \ {c}})
    /\ UNCHANGED <<disk, mem, told>>

-----------------------------------------------------------------------------
(* commit                                                                  *)

\* Which of the tables asked for have changed is decided for all of them
\* before the first is committed; then they are committed one by one.
CommitCalls(t, ps) ==
    << <<"load", t>>, <<"store", t, "source">> >>
    \o (IF t \in Built THEN << <<"store", t, "output">> >> ELSE <<>>)
    \o << <<"record", t, ps>> >>

BeginCommit(c, only, ps) ==
    /\ \A t \in only : Readable(t)
    /\ LET dirty == {t \in only : IsDirty(t)}
       IN /\ dirty # {}
          /\ Begin(c, ps \X dirty, InOrder([t \in dirty |-> CommitCalls(t, ps)]))
    /\ UNCHANGED disturbed

Load(c) ==
    /\ Is(c, "load")
    /\ LET t == todo[c][1][2]
       IN IF Readable(t)
          THEN /\ mem' = [mem EXCEPT ![c] = [log |-> ReadLog(t), blobs |-> EmptyMap]]
               /\ disturbed' = IF Overlaps(c, Manifest(t))
                               THEN disturbed \cup {Manifest(t)} ELSE disturbed
               /\ Continue(c, <<>>)
               /\ UNCHANGED <<disk, told, loose>>
          ELSE Abort(c)
    /\ UNCHANGED left

\* (mutant: the blobs are written after everything else)
DoLast(calls, rest) == rest \o calls

DoFirst(calls, rest) == calls \o rest

\* A working file is read, and its content stored under its hash unless a blob
\* of that name exists already.  An output may be absent.
Store(c) ==
    /\ Is(c, "store")
    /\ LET k == todo[c][1][3]
           d == disk[Work(k, todo[c][1][2])]
           new == d # Absent /\ disk[Blob(d)] = Absent
       IN /\ mem' = IF d = Absent THEN mem ELSE [mem EXCEPT ![c].blobs = Put(@, k, d)]
          /\ todo' = [todo EXCEPT ![c] =
                DoFirst(IF new THEN << <<"open", Blob(d), d>> >> ELSE <<>>, Tail(@))]
    /\ UNCHANGED <<disk, left, told, loose, disturbed>>

NextId(log) == IF log = <<>> THEN 1 ELSE Last(log).id + 1

\* (mutant: the new snapshot replaces the last one)
Amended(log, s) == IF log = <<>> THEN <<s>> ELSE Append(Front(log), s)

Extended(log, s) == Append(log, s)

\* The manifest is saved with one more snapshot (truncated here), then the head
\* is cleared, then the snapshot becomes golden if that was asked.
Record(c) ==
    /\ Is(c, "record")
    /\ LET t == todo[c][1][2]
           ps == todo[c][1][3]
           s == [id |-> NextId(mem[c].log), blobs |-> mem[c].blobs]
       IN /\ disk' = [disk EXCEPT ![Manifest(t)] = Torn]
          /\ Continue(c, << <<"fill", Manifest(t), Extended(mem[c].log, s)>>,
                            <<"del", HeadFile, t>> >>
                \o (IF GoldenFile \in ps THEN << <<"put", GoldenFile, t, s.id>> >> ELSE <<>>)
                \o << <<"report", t, ps, "commit", s>> >>)
    /\ mem' = [mem EXCEPT ![c] = NothingRead]
    /\ UNCHANGED <<left, told, loose, disturbed>>

-----------------------------------------------------------------------------
(* restore                                                                 *)

\* (mutant: an output the snapshot does not have is left behind)
RestoreNoCleanup(t, s) ==
    (IF "source" \in DOMAIN s.blobs THEN << <<"fetch", t, "source", s>> >> ELSE <<>>)
    \o (IF "output" \in DOMAIN s.blobs THEN << <<"fetch", t, "output", s>> >> ELSE <<>>)
    \o << <<"put", HeadFile, t, s.id>>, <<"report", t, {HeadFile}, "restore", s>> >>

\* The sources, then the outputs, then the removal of outputs the snapshot does
\* not have, then the head.
RestoreCalls(t, s) ==
    << <<"fetch", t, "source", s>> >>
    \o (IF "output" \in DOMAIN s.blobs THEN << <<"fetch", t, "output", s>> >>
        ELSE IF t \in Built THEN << <<"unlink", t>> >> ELSE <<>>)
    \o << <<"put", HeadFile, t, s.id>>, <<"report", t, {HeadFile}, "restore", s>> >>

BeginRestore(c, t, i) ==
    /\ Readable(t) /\ i \in Ids(ReadLog(t))
    /\ Begin(c, {<<HeadFile, t>>}, RestoreCalls(t, GetSnapshot(ReadLog(t), i)))
    /\ disturbed' = IF t \in BusyOthers(c) THEN disturbed ELSE disturbed \ WorkFiles(t)

\* The blob is read, whatever is in it, before the working file is opened.
Fetch(c) ==
    /\ Is(c, "fetch")
    /\ LET x == todo[c][1]
           d == disk[Blob(x[4].blobs[x[3]])]
       IN IF d = Absent
          THEN Abort(c)
          ELSE /\ Continue(c, << <<"open", Work(x[3], x[2]), d>> >>)
               /\ disturbed' = IF Filling(Blob(x[4].blobs[x[3]]))
                               THEN disturbed \cup {Work(x[3], x[2])} ELSE disturbed
               /\ UNCHANGED <<disk, mem, told, loose>>
    /\ UNCHANGED left

Unlink(c) ==
    /\ Is(c, "unlink")
    /\ LET f == Work("output", todo[c][1][2])
       IN /\ disk' = [disk EXCEPT ![f] = Absent]
          /\ disturbed' = IF todo[c][1][2] \in BusyOthers(c)
                          THEN disturbed \cup {f} ELSE disturbed
    /\ Continue(c, <<>>)
    /\ UNCHANGED <<mem, left, told, loose>>

-----------------------------------------------------------------------------
(* golden set, golden clear, clean                                         *)

BeginSetGolden(c, t, i) ==
    /\ Readable(t) /\ i \in Ids(ReadLog(t))
    /\ Begin(c, {<<GoldenFile, t>>},
             << <<"put", GoldenFile, t, i>>,
                <<"report", t, {GoldenFile}, "set", GetSnapshot(ReadLog(t), i)>> >>)
    /\ UNCHANGED disturbed

ClearCalls(t) == << <<"del", GoldenFile, t>>, <<"report", t, {GoldenFile}, "clear">> >>

BeginClearGolden(c, t) ==
    Begin(c, {<<GoldenFile, t>>}, ClearCalls(t)) /\ UNCHANGED disturbed

\* "pld clean --target golden": the pointers there are now, one by one.
BeginClean(c) ==
    /\ LET there == Table \cap DOMAIN ReadMap(GoldenFile)
       IN /\ there # {}
          /\ Begin(c, {GoldenFile} \X there, InOrder([t \in there |-> ClearCalls(t)]))
    /\ UNCHANGED disturbed

-----------------------------------------------------------------------------
(* Calls shared by the requests.                                           *)

\* (mutant: the pointers of the other tables are not kept)
OnlyPut(map, t, i) == t :> i

Pointed(map, t, i) == Put(map, t, i)

\* (mutant: the pointer stays where it is)
KeepPointer(map, t) == map

Cleared(map, t) == Drop(map, {t})

\* A pointer file is read whole, to be written back with one entry changed; if
\* the entry to remove is not there it is not written.
EditPointer(c) ==
    /\ Is(c, "put") \/ Is(c, "del")
    /\ LET x == todo[c][1]
           map == ReadMap(x[2])
       IN /\ Continue(c, IF x[1] = "put"
                         THEN << <<"open", x[2], Pointed(map, x[3], x[4])>> >>
                         ELSE IF x[3] \in DOMAIN map
                         THEN << <<"open", x[2], Cleared(map, x[3])>> >>
                         ELSE <<>>)
          /\ loose' = IF Overlaps(c, x[2]) THEN loose \cup ({x[2]} \X Table) ELSE loose
    /\ UNCHANGED <<disk, mem, left, told, disturbed>>

\* write_text and write_bytes open the file, which truncates it ...
Open(c) ==
    /\ Is(c, "open")
    /\ LET x == todo[c][1]
       IN /\ disk' = [disk EXCEPT ![x[2]] = Torn]
          /\ disturbed' = IF x[2] \in AllWorkFiles /\ x[2][2] \in BusyOthers(c)
                          THEN disturbed \cup {x[2]} ELSE disturbed
          /\ Continue(c, << <<"fill", x[2], x[3]>> >>)
    /\ UNCHANGED <<mem, left, told, loose>>

\* ... and then write it: over what another has put there in between, of which
\* the rest stays if it was longer.
Fill(c) ==
    /\ Is(c, "fill")
    /\ LET x == todo[c][1]
       IN /\ \E v \in {x[3]} \cup (IF disk[x[2]] \in {Torn, x[3]} THEN {} ELSE {Torn}) :
                disk' = [disk EXCEPT ![x[2]] = v]
    /\ Continue(c, <<>>)
    /\ UNCHANGED <<mem, left, told, loose, disturbed>>

\* The user is told that the request is done for this table.
Report(c) ==
    /\ Is(c, "report")
    /\ LET x == todo[c][1]
           t == x[2]
       IN told' =
            [log |-> IF x[4] = "commit" THEN [told.log EXCEPT ![t] = @ \cup {x[5]}]
                     ELSE told.log,
             head |-> IF HeadFile \in x[3] THEN Put(told.head, t, x[5].id) ELSE told.head,
             golden |-> IF GoldenFile \notin x[3] THEN told.golden
                        ELSE IF x[4] = "clear" THEN Drop(told.golden, {t})
                        ELSE Put(told.golden, t, x[5])]
    /\ Continue(c, <<>>)
    /\ UNCHANGED <<disk, mem, left, loose, disturbed>>

\* The process is killed, the server stopped, or a read or a write fails.
Die(c) ==
    /\ ~Idle(c)
    /\ Spend("death")
    /\ Abort(c)

Next ==
    \/ \E c \in Client, only \in SUBSET Table, ps \in {{HeadFile}, Pointers} :
            BeginCommit(c, only, ps)
    \/ \E c \in Client, t \in Table, i \in Id : BeginRestore(c, t, i)
    \/ \E c \in Client, t \in Table, i \in Id : BeginSetGolden(c, t, i)
    \/ \E c \in Client, t \in Table : BeginClearGolden(c, t)
    \/ \E c \in Client : BeginClean(c)
    \/ \E c \in Client : Load(c) \/ Store(c) \/ Record(c)
    \/ \E c \in Client : Fetch(c) \/ Unlink(c)
    \/ \E c \in Client : EditPointer(c) \/ Open(c) \/ Fill(c) \/ Report(c)
    \/ \E c \in Client : Die(c)

Spec == Init /\ [][Next]_vars

-----------------------------------------------------------------------------
(* Properties.                                                             *)

\* Every content a recorded snapshot names is in the object store and reads
\* back as it was, unless its blob is being written right now or the client
\* writing it died: also when another client found the blob there half written
\* and stored nothing, and when any client dies anywhere in between.
RecordedVersionsReadBack ==
    \A t \in Table : Readable(t) =>
        \A s \in ToSet(ReadLog(t)) : \A k \in DOMAIN s.blobs :
            LET blob == Blob(s.blobs[k])
            IN \/ disk[blob] = s.blobs[k]
               \/ disk[blob] = Torn /\ (Filling(blob) \/ blob \in disturbed)

\* A snapshot reported to its committer stays in the manifest, whatever other
\* requests run and die, unless two commits of the same table overlapped or one
\* died while writing that manifest.
ReportedCommitsStay ==
    \A t \in Table :
        Manifest(t) \notin disturbed /\ ~Filling(Manifest(t)) =>
            Readable(t) /\ told.log[t] \subseteq ToSet(ReadLog(t))

\* A report about pointer f of t has to hold: no request is about to set it, and
\* no overlap or death has left it uncertain since the request began.
Settled(f, t) ==
    /\ <<f, t>> \notin loose /\ Readable(t) /\ Manifest(t) \notin disturbed
    /\ ~Filling(f) /\ \A c \in Client : <<f, t>> \notin Sets(c)

\* The current snapshot of a table is the one last committed or restored, also
\* when an earlier commit died between saving the manifest and clearing the
\* head, and whatever happens to the pointers of other tables.
CurrentIsAsReported ==
    \A t \in DOMAIN told.head : Settled(HeadFile, t) => HeadId(t) = told.head[t]

\* The golden of a table is the very version its last golden command or commit
\* reported, and a cleared one stays cleared.
GoldenIsAsReported ==
    \A t \in Table : Settled(GoldenFile, t) =>
        LET golden == ReadMap(GoldenFile)
        IN /\ t \in DOMAIN golden <=> t \in DOMAIN told.golden
           /\ t \in DOMAIN golden =>
                 /\ golden[t] \in Ids(ReadLog(t))
                 /\ GetSnapshot(ReadLog(t), golden[t]) = told.golden[t]

\* When a restore reports, the working tree of the table is the snapshot, unless
\* somebody else wrote to it meanwhile or a blob had been cut short.
RestoreBringsBack ==
    \A c \in Client : Is(c, "report") /\ todo[c][1][4] = "restore" =>
        LET t == todo[c][1][2]
            s == todo[c][1][5]
        IN (WorkFiles(t) \cup {Blob(d) : d \in ValuesOf(s.blobs)}) \cap disturbed = {}
               => WorkOf(t) = s.blobs
=============================================================================
