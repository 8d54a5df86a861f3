------------------------------ MODULE MCWatch ------------------------------
EXTENDS Watch, TLC

\* A batch table of two files.
MCFile == {"row1", "row2"}
MCTableOf == [f \in MCFile |-> "rows"]

MCStageFaults == {"stage"}
=============================================================================
