---------------------------- MODULE PipelineSpec ----------------------------
(***************************************************************************)
(* validate_alternation (src/payload/core/pipeline_spec.py), the loop that *)
(* accepts or rejects a pipeline before any of its stages runs, one        *)
(* iteration a step, against the rules it stands for.                      *)
(***************************************************************************)
EXTENDS Stages

CONSTANT MaxStages      \* bound: length of a pipeline

ASSUME MaxStagesIsNat == MaxStages \in Nat

VARIABLES
    stages,     \* the pipeline under validation
    i,          \* position of the loop
    runStart,   \* where the current group of writers began
    pc          \* "start", "scan" (outer loop), "run" (inner loop), verdict

loopVars == <<stages, i, runStart, pc>>

AnyPipeline == UNION {[1..n -> Stage] : n \in 0..MaxStages}

LoopInit ==
    /\ stages \in AnyPipeline
    /\ i = 1
    /\ runStart = 1
    /\ pc = "start"

Reject == pc' = "rejected" /\ UNCHANGED <<stages, i, runStart>>

Advance == i' = i + 1 /\ UNCHANGED <<stages, runStart, pc>>

At(kind) == i <= Len(stages) /\ stages[i].kind = kind

CheckStart ==
    /\ pc = "start"
    /\ IF StartsWithReader(stages)
       THEN pc' = "scan" /\ UNCHANGED <<stages, i, runStart>>
       ELSE Reject

\* (mutant: the reader's successor is only required to exist)
ScanReaderAnySuccessor ==
    /\ pc = "scan" /\ At("reader")
    /\ IF i + 1 <= Len(stages) THEN Advance ELSE Reject

ScanReader ==
    /\ pc = "scan" /\ At("reader")
    /\ IF i + 1 <= Len(stages) /\ IsWriter(stages[i + 1]) THEN Advance ELSE Reject

\* (mutant: the group is taken to begin one stage later)
EnterWritersLate ==
    /\ pc = "scan" /\ At("writer")
    /\ runStart' = i + 1
    /\ pc' = "run"
    /\ UNCHANGED <<stages, i>>

EnterWriters ==
    /\ pc = "scan" /\ At("writer")
    /\ runStart' = i
    /\ pc' = "run"
    /\ UNCHANGED <<stages, i>>

NextWriter ==
    /\ pc = "run" /\ At("writer")
    /\ Advance

DuplicateInRun ==
    \E j, k \in runStart..(i - 1) : j < k /\ stages[j].name = stages[k].name

\* A group of two or more writers must end the pipeline.
LeaveWriters ==
    /\ pc = "run" /\ ~At("writer")
    /\ IF DuplicateInRun \/ (i - runStart >= 2 /\ i - 1 # Len(stages))
       THEN Reject
       ELSE pc' = "scan" /\ UNCHANGED <<stages, i, runStart>>

\* (mutant: the loop does not move past an exec)
ScanExecInPlace ==
    /\ pc = "scan" /\ At("exec")
    /\ UNCHANGED loopVars

ScanExec ==
    /\ pc = "scan" /\ At("exec")
    /\ Advance

CheckLast ==
    /\ pc = "scan" /\ i > Len(stages)
    /\ IF LastExecHasExtension(stages)
       THEN pc' = "accepted" /\ UNCHANGED <<stages, i, runStart>>
       ELSE Reject

LoopNext ==
    \/ CheckStart
    \/ ScanReader
    \/ EnterWriters
    \/ NextWriter
    \/ LeaveWriters
    \/ ScanExec
    \/ CheckLast

\* The loop is sequential code: it runs whenever it can.
LoopSpec == LoopInit /\ [][LoopNext]_loopVars /\ WF_loopVars(LoopNext)

-----------------------------------------------------------------------------
\* The loop variables stay in range.
LoopTypeOK ==
    /\ stages \in AnyPipeline
    /\ i \in 1..(Len(stages) + 1)
    /\ runStart \in 1..i
    /\ pc \in {"start", "scan", "run", "accepted", "rejected"}

\* The verdict of the loop is the conjunction of the rules, each stated on the
\* whole pipeline: nothing is accepted that breaks one, nothing else rejected.
VerdictIsRules ==
    /\ pc = "accepted" => Enforced(stages)
    /\ pc = "rejected" => ~Enforced(stages)

\* The validation gives a verdict on every pipeline.
GivesVerdict == <>(pc \in {"accepted", "rejected"})
=============================================================================
