----------------------------- MODULE BatchBuild -----------------------------
(***************************************************************************)
(* run_batch_build (src/payload/core/batch.py): the tables of a project    *)
(* built by a pool of threads that share the build cache, the folder of    *)
(* checkpoints and, for single-file tables of one folder, the directory of *)
(* intermediate files.  The calling thread gathers the results and saves   *)
(* the cache once.                                                         *)
(*                                                                         *)
(* A table's pipeline is Inner[t] stages that write an intermediate file   *)
(* and one that writes the output.  A file's content is its provenance:    *)
(* the table, the source and the number of stages it went through.         *)
(***************************************************************************)
EXTENDS Naturals, Sequences, FiniteSets, Maps

CONSTANTS
    Order,      \* the tables, in the order they are discovered
    Jobs,       \* sizes of the pool that --jobs may ask for
    Folder,     \* folder of a table's source
    Inner,      \* number of intermediate files of a table's pipeline
    Batch,      \* the batch tables
    Content,    \* contents of a source
    Faults      \* what may go wrong: "stage", "disk"

Table == {Order[i] : i \in DOMAIN Order}

ASSUME JobsArePositive == Jobs \subseteq Nat \ {0}

\* Discovery lists a path once, and a batch table cannot have the name of another.
ASSUME OrderIsDistinct ==
    /\ Order \in Seq(Table)
    /\ \A i, j \in DOMAIN Order : Order[i] = Order[j] => i = j

ASSUME InnerIsNat == Inner \in [Table -> Nat]

VARIABLES
    source,     \* content of each table's source file(s)
    tmp,        \* existing intermediate directories: stage -> content
    artifacts,  \* stage_artifacts: <<table, stage>> -> content
    outs,       \* table -> content of its output
    saved,      \* the cache file: <<table, stage>> (stage 0: the table) -> key
    entries,    \* the cache of the running command
    command,    \* "none", "running" or "raising"
    jobs,       \* threads of its pool
    queue,      \* tables no thread has taken
    job,        \* table -> its build
    summary,    \* tables counted as built, from cache and failed
    unsaved     \* history: tables that ran stages in a command that raised

vars == <<source, tmp, artifacts, outs, saved, entries, command, jobs, queue, job, summary,
          unsaved>>
files == <<tmp, artifacts, outs>>
session == <<saved, command, jobs, summary, unsaved>>

Absent == [of |-> "none"]
Waiting == [pc |-> "waiting"]
NoResults == [built |-> {}, cached |-> {}, errors |-> {}]

Data(t, src, stages) == [of |-> t, src |-> src, stages |-> stages]

Init ==
    /\ source \in [Table -> Content]
    /\ tmp = EmptyMap /\ artifacts = EmptyMap /\ outs = EmptyMap
    /\ saved = EmptyMap /\ entries = EmptyMap
    /\ command = "none"
    /\ jobs \in Jobs
    /\ queue = <<>>
    /\ job = [t \in Table |-> Waiting]
    /\ summary = NoResults
    /\ unsaved = {}

-----------------------------------------------------------------------------
(* Between commands, and the calling thread.                               *)

EditSource(t, c) ==
    /\ command = "none" /\ c # source[t]
    /\ source' = [source EXCEPT ![t] = c]
    /\ UNCHANGED <<files, saved, entries, command, jobs, queue, job, summary, unsaved>>

Start ==
    /\ command = "none"
    /\ command' = "running"
    /\ jobs' \in Jobs
    /\ entries' = saved
    /\ queue' = Order
    /\ job' = [t \in Table |-> Waiting]
    /\ summary' = NoResults
    /\ UNCHANGED <<source, files, saved, unsaved>>

Ended == {t \in Table : job[t].pc = "ended"}
Counted == summary.built \cup summary.cached \cup summary.errors

\* as_completed hands over a result; one that is not a PayloadError is raised
\* by future.result() and ends the gathering.
Gather(t) ==
    /\ command = "running" /\ t \in Ended \ Counted
    /\ IF job[t].result = "raised"
       THEN command' = "raising" /\ UNCHANGED summary
       ELSE /\ summary' = [summary EXCEPT ![job[t].result] = @ \cup {t}]
            /\ UNCHANGED command
    /\ UNCHANGED <<source, files, saved, entries, queue, job, jobs, unsaved>>

\* (mutant: the first failure ends the gathering)
ReturnAtFailure ==
    /\ command # "none"
    /\ (IF command = "running" /\ summary.errors = {} THEN Counted ELSE Ended) = Table
    /\ saved' = entries
    /\ command' = "none"
    /\ entries' = EmptyMap
    /\ UNCHANGED <<source, files, jobs, queue, job, summary, unsaved>>

\* Leaving the pool waits for every table; an exception then skips the save.
Return ==
    /\ command # "none"
    /\ (IF command = "running" THEN Counted ELSE Ended) = Table
    /\ IF command = "running"
       THEN saved' = entries /\ UNCHANGED unsaved
       ELSE saved' = saved /\ unsaved' = unsaved \cup {t \in Table : job[t].result # "cached"}
    /\ command' = "none"
    /\ entries' = EmptyMap
    /\ UNCHANGED <<source, files, jobs, queue, job, summary>>

-----------------------------------------------------------------------------
(* A thread of the pool.                                                   *)

\* (mutant: batch tables too have their intermediates beside their sources)
TmpBesideSource(t) == Folder[t]

TmpDir(t) == IF t \in Batch THEN t ELSE Folder[t]

\* (mutant: an entry is taken whatever its key)
AnyEntry(t, k) == <<t, k>> \in DOMAIN entries

IsFresh(t, k) == <<t, k>> \in DOMAIN entries /\ entries[<<t, k>>] = source[t]

\* No source_bytes, no resuming: a batch table starts over.
Checkpoints(t) ==
    {k \in 1..Inner[t] : t \notin Batch /\ IsFresh(t, k) /\ <<t, k>> \in DOMAIN artifacts}

Furthest(t) == CHOOSE k \in Checkpoints(t) \cup {0} : \A l \in Checkpoints(t) : l <= k

Busy == {t \in Table : job[t].pc = "running"}

FromCache(t) == [pc |-> "ended", key |-> source[t], result |-> "cached", faulty |-> FALSE]

Started(t) ==
    [pc |-> "running", key |-> source[t], at |-> Furthest(t) + 1, emitted |-> FALSE,
     result |-> "none", faulty |-> FALSE,
     input |-> IF Furthest(t) = 0 THEN Data(t, source[t], 0) ELSE artifacts[<<t, Furthest(t)>>]]

FreeThread == Cardinality(Busy) < jobs

\* build up to its stages: the key, the table's freshness, the directory of
\* intermediates and the checkpoint to resume from.
Take ==
    /\ queue # <<>> /\ FreeThread
    /\ LET t == Head(queue)
       IN IF IsFresh(t, 0) /\ t \in DOMAIN outs
          THEN job' = [job EXCEPT ![t] = FromCache(t)] /\ UNCHANGED tmp
          ELSE /\ job' = [job EXCEPT ![t] = Started(t)]
               /\ tmp' = IF TmpDir(t) \in DOMAIN tmp THEN tmp ELSE Put(tmp, TmpDir(t), EmptyMap)
    /\ queue' = Tail(queue)
    /\ UNCHANGED <<source, session, artifacts, outs, entries>>

On(t) == job[t].pc = "running" /\ job[t].result = "none"

InTmp(t, k) == IF TmpDir(t) \in DOMAIN tmp /\ k \in DOMAIN tmp[TmpDir(t)]
               THEN tmp[TmpDir(t)][k] ELSE Absent

\* The first stage that runs reads the source or a checkpoint, the others the
\* file of the stage before, which may be gone or another table's by then.
Input(t) == IF job[t].input # Absent THEN job[t].input ELSE InTmp(t, job[t].at - 1)

Through(data) == [data EXCEPT !.stages = @ + 1]

EndsAs(t, result) == job' = [job EXCEPT ![t].result = result]

\* A stage that is not the last writes its file; without its input or its
\* directory it fails.
Emit(t) ==
    /\ On(t) /\ job[t].at <= Inner[t] /\ ~job[t].emitted
    /\ IF Input(t) = Absent \/ TmpDir(t) \notin DOMAIN tmp
       THEN EndsAs(t, "errors") /\ UNCHANGED tmp
       ELSE /\ tmp' = [tmp EXCEPT ![TmpDir(t)] = Put(@, job[t].at, Through(Input(t)))]
            /\ job' = [job EXCEPT ![t].emitted = TRUE]
    /\ UNCHANGED <<source, session, artifacts, outs, entries, queue>>

\* The file is copied to the checkpoints and the copy recorded.  A file that is
\* gone is an OSError, the key of a batch table a TypeError: neither is caught.
Persist(t) ==
    /\ On(t) /\ job[t].emitted
    /\ LET file == InTmp(t, job[t].at)
       IN /\ artifacts' = IF file = Absent THEN artifacts ELSE Put(artifacts, <<t, job[t].at>>, file)
          /\ IF file = Absent \/ t \in Batch
             THEN EndsAs(t, "raised") /\ UNCHANGED entries
             ELSE /\ entries' = Put(entries, <<t, job[t].at>>, job[t].key)
                  /\ job' = [job EXCEPT ![t].at = @ + 1, ![t].emitted = FALSE, ![t].input = Absent]
    /\ UNCHANGED <<source, session, tmp, outs, queue>>

LastStage(t) ==
    /\ On(t) /\ job[t].at > Inner[t]
    /\ IF Input(t) = Absent
       THEN EndsAs(t, "errors") /\ UNCHANGED outs
       ELSE outs' = Put(outs, t, Through(Input(t))) /\ EndsAs(t, "built")
    /\ UNCHANGED <<source, session, tmp, artifacts, entries, queue>>

StageFails(t) ==
    /\ "stage" \in Faults /\ On(t) /\ ~job[t].emitted
    /\ job' = [job EXCEPT ![t].result = "errors", ![t].faulty = TRUE]
    /\ UNCHANGED <<source, session, files, entries, queue>>

\* No room for the copy: an OSError as well.
PersistFails(t) ==
    /\ "disk" \in Faults /\ On(t) /\ job[t].emitted
    /\ job' = [job EXCEPT ![t].result = "raised", ![t].faulty = TRUE]
    /\ UNCHANGED <<source, session, files, entries, queue>>

\* (mutant: the entry is recorded in the finally clause as well)
LeaveRecordsAlways(t) ==
    /\ job[t].pc = "running" /\ job[t].result # "none"
    /\ tmp' = Drop(tmp, {TmpDir(t)})
    /\ entries' = Put(entries, <<t, 0>>, job[t].key)
    /\ job' = [job EXCEPT ![t].pc = "ended"]
    /\ UNCHANGED <<source, session, artifacts, outs, queue>>

\* The finally clause, then the table's entry if it was built.
Leave(t) ==
    /\ job[t].pc = "running" /\ job[t].result # "none"
    /\ tmp' = Drop(tmp, {TmpDir(t)})
    /\ entries' = IF job[t].result = "built" THEN Put(entries, <<t, 0>>, job[t].key) ELSE entries
    /\ job' = [job EXCEPT ![t].pc = "ended"]
    /\ UNCHANGED <<source, session, artifacts, outs, queue>>

Thread(t) ==
    Emit(t) \/ Persist(t) \/ LastStage(t) \/ StageFails(t) \/ PersistFails(t) \/ Leave(t)

-----------------------------------------------------------------------------
Next ==
    \/ \E t \in Table, c \in Content : EditSource(t, c)
    \/ Start
    \/ \E t \in Table : Gather(t)
    \/ Return
    \/ Take
    \/ \E t \in Table : Thread(t)

Spec == Init /\ [][Next]_vars

\* The pool and the calling thread run; nobody has to start a command.
Fairness ==
    /\ WF_vars(Return) /\ WF_vars(Take)
    /\ \A t \in Table : WF_vars(Gather(t)) /\ WF_vars(Thread(t))

FairSpec == Spec /\ Fairness

-----------------------------------------------------------------------------
(* Properties.                                                             *)

\* A table reported as built or as served from the cache has the output that
\* its own source gives when it is built alone.  Not covered here and below: the
\* tables that a command which raised has left without their entries.
ReportedIsCurrent ==
    \A t \in (summary.built \cup summary.cached) \ unsaved :
        t \in DOMAIN outs /\ outs[t] = Data(t, job[t].key, Inner[t] + 1)

\* A table is reported as failed, or raises, only when a stage of its own went
\* wrong: the builds beside it do not make it fail.
FailuresAreOwn == \A t \in Ended : job[t].result \in {"errors", "raised"} => job[t].faulty

\* What the cache file says of a table is what its output was made from.
SavedIsTrue ==
    command = "none" => \A t \in Table \ unsaved :
        <<t, 0>> \in DOMAIN saved =>
            t \in DOMAIN outs /\ outs[t] = Data(t, saved[<<t, 0>>], Inner[t] + 1)

\* Every command attempts every table and ends, however many fail; it reports
\* each exactly once unless one raised what is not a build error.
EveryTableReported ==
    /\ command = "running" ~>
          command = "none" /\ Ended = Table
          /\ (Counted = Table \/ \E t \in Table : job[t].result = "raised")
    /\ [](summary.built \cap summary.cached = {}
          /\ summary.errors \cap (summary.built \cup summary.cached) = {})
=============================================================================
