-------------------------------- MODULE Maps --------------------------------
(***************************************************************************)
(* Finite maps: the dictionaries and directories of the program are        *)
(* functions whose domain is the set of keys (or file names) present.      *)
(***************************************************************************)

\* All maps from a subset of S to T.
PartialMap(S, T) == UNION {[D -> T] : D \in SUBSET S}

EmptyMap == [x \in {} |-> x]

\* f with the entries of g over it (dict.update).
Override(f, g) ==
    [x \in DOMAIN f \cup DOMAIN g |-> IF x \in DOMAIN g THEN g[x] ELSE f[x]]

Put(f, k, v) == [x \in DOMAIN f \cup {k} |-> IF x = k THEN v ELSE f[x]]

\* f without the keys in S (dict.pop, unlink).
Drop(f, S) == [x \in DOMAIN f \ S |-> f[x]]

Keep(f, S) == [x \in DOMAIN f \cap S |-> f[x]]

\* The entry of k moved under l, replacing what was there: d[l] = d.pop(k).
MoveKey(f, k, l) ==
    IF k \in DOMAIN f THEN Put(Drop(f, {k}), l, f[k]) ELSE f

ValuesOf(f) == {f[x] : x \in DOMAIN f}
=============================================================================
