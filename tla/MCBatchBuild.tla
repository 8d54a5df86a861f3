---------------------------- MODULE MCBatchBuild ----------------------------
EXTENDS BatchBuild, TLC

\* Two signed tables in one folder.
MCOrder == <<"signed", "other">>
MCFolder == [t \in Table |-> "keys"]
MCInner == [t \in Table |-> 1]
=============================================================================
