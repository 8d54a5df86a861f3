----------------------------- MODULE MCProject -----------------------------
(* Instances of Project for TLC. *)
EXTENDS Project, TLC
CONSTANTS a, b, c, x

\* A project with a single-file table a in a cluster of the same name, and a batch table c
\* with notes, of one file whose stem is free.
MCStarts ==
  { [files |-> {<<a, x>>, <<b, x>>}, tracked |-> {a},
     cfg |-> [clusters |-> {a},
              batches |-> {[name |-> c, sources |-> {<<b, x>>}]},
              metas |-> {[name |-> a, cluster |-> a, tags |-> TRUE, notes |-> FALSE],
                         [name |-> c, cluster |-> NoCluster, tags |-> FALSE, notes |-> TRUE]}]] }

Symmetry == Permutations(Clients)
=============================================================================
