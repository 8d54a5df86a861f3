----------------------------- MODULE HistoryLog -----------------------------
(***************************************************************************)
(* What the history promises to a user, without ids, pointer files or      *)
(* blobs: each table has a log of versions that only grows, one version    *)
(* that is current (the last one recorded, until another is checked out)   *)
(* and at most one that is golden; all three follow the table when it is   *)
(* renamed.  History refines it.                                           *)
(***************************************************************************)
EXTENDS Sequences, Maps

CONSTANTS Table, Version

VARIABLES
    log,        \* table -> sequence of versions
    current,    \* table with a log -> the version it is compared with
    golden      \* table -> the reference version, if one is chosen

logVars == <<log, current, golden>>

Recorded(t) == ValuesOf(log[t])

Init ==
    /\ log = [t \in Table |-> <<>>]
    /\ current = EmptyMap
    /\ golden = EmptyMap

\* A new version, never one recorded before, is recorded and becomes current.
Record(t, v, asGolden) ==
    /\ v \notin Recorded(t)
    /\ log' = [log EXCEPT ![t] = Append(@, v)]
    /\ current' = Put(current, t, v)
    /\ golden' = IF asGolden THEN Put(golden, t, v) ELSE golden

CheckOut(t, v) ==
    /\ v \in Recorded(t)
    /\ current' = Put(current, t, v)
    /\ UNCHANGED <<log, golden>>

Choose(t, v) ==
    /\ v \in Recorded(t)
    /\ golden' = Put(golden, t, v)
    /\ UNCHANGED <<log, current>>

Unchoose(t) ==
    /\ golden' = Drop(golden, {t})
    /\ UNCHANGED <<log, current>>

Transfer(t, u) ==
    /\ t # u /\ log[u] = <<>>
    /\ log' = [log EXCEPT ![u] = log[t], ![t] = <<>>]
    /\ current' = MoveKey(current, t, u)
    /\ golden' = MoveKey(golden, t, u)

\* The version to record is one of those in the log afterwards: Version itself
\* need not be enumerated.
Next ==
    \/ \E t \in Table, g \in BOOLEAN : \E v \in Recorded(t)' \cap Version : Record(t, v, g)
    \/ \E t \in Table : \E v \in Recorded(t) : CheckOut(t, v) \/ Choose(t, v)
    \/ \E t \in Table : Unchoose(t)
    \/ \E t, u \in Table : Transfer(t, u)

Spec == Init /\ [][Next]_logVars
=============================================================================
