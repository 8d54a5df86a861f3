-------------------------- MODULE MCHistoryClients --------------------------
EXTENDS HistoryClients

CONSTANTS a, b, c1, c2, Requests, Deaths

MCTables == <<a, b>>
\* a was built before its first commit and not before its second.
MCPast == [t \in {a, b} |->
    IF t = a THEN <<"source" :> c1 @@ "output" :> c1, "source" :> c1>> ELSE <<>>]
MCMarks == {EmptyMap, a :> 1}
MCBudget == [request |-> Requests, death |-> Deaths]
Symmetry == Permutations(Client)
=============================================================================
