------------------------------- MODULE Stages -------------------------------
(***************************************************************************)
(* The stages of a pipeline and the facts about a sequence of them that    *)
(* the validation and the build engine share                               *)
(* (src/payload/core/pipeline_spec.py).  Positions count from 1.           *)
(***************************************************************************)
EXTENDS Integers, Sequences

CONSTANTS
    Stage,      \* the stages that pipelines are made of
    NoExt       \* the output_extension of an exec stage that declares none

\* name is the plugin or the command, ext the writer's extension or the exec's
\* output_extension, warn the exec's on_error = "warn".
ASSUME StageShape ==
    \A s \in Stage : /\ DOMAIN s = {"kind", "name", "ext", "warn"}
                     /\ s.kind \in {"reader", "writer", "exec"}
                     /\ s.warn \in BOOLEAN

IsReader(s) == s.kind = "reader"
IsWriter(s) == s.kind = "writer"
IsExec(s) == s.kind = "exec"

AllWriters(s, a, b) == \A k \in a..b : IsWriter(s[k])

\* The first stage of the writers a pipeline ends in, Len(s) + 1 if it ends in
\* an exec.
TerminalWriterStart(s) ==
    CHOOSE k \in 1..(Len(s) + 1) :
        /\ AllWriters(s, k, Len(s))
        /\ k > 1 => ~IsWriter(s[k - 1])

\* signature_prefix: what identifies the stages up to position k.
SignaturePrefix(s, k) == SubSeq(s, 1, k)

-----------------------------------------------------------------------------
(* The alternation rules of docs/PIPELINE.md.                              *)

StartsWithReader(s) == Len(s) >= 2 /\ IsReader(s[1])

ReadersAreWritten(s) ==
    \A k \in 1..Len(s) : IsReader(s[k]) => k < Len(s) /\ IsWriter(s[k + 1])

FanOutIsLast(s) ==
    \A k \in 1..(Len(s) - 1) :
        IsWriter(s[k]) /\ IsWriter(s[k + 1]) => AllWriters(s, k, Len(s))

FanOutIsDistinct(s) ==
    \A j, k \in 1..Len(s) : j < k /\ AllWriters(s, j, k) => s[j].name # s[k].name

LastExecHasExtension(s) ==
    Len(s) > 0 /\ IsExec(s[Len(s)]) => s[Len(s)].ext # NoExt

\* Not rule 4, "After an exec, you can put: a reader, another exec, or nothing":
\* no code enforces it.
Enforced(s) ==
    /\ StartsWithReader(s)
    /\ ReadersAreWritten(s)
    /\ FanOutIsLast(s)
    /\ FanOutIsDistinct(s)
    /\ LastExecHasExtension(s)
=============================================================================
