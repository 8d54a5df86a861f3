--------------------------- MODULE MCBuildStream ---------------------------
EXTENDS BuildStream, TLC

\* Two tables of one folder: one signed by an exec, and a batch table, which has
\* its intermediates elsewhere.
MCOrder == <<"signed", "batch">>
MCFolder == [t \in Table |-> "keys"]
MCInner == [t \in Table |-> IF t = "signed" THEN 1 ELSE 0]
MCBatch == {"batch"}
=============================================================================
