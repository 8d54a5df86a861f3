--------------------------- MODULE MCPreparation ---------------------------
(* Instances of Preparation for TLC. *)
EXTENDS Preparation, TLC
CONSTANTS a, b, c, k, r1, r2, w1, w2, p, q

Plugin(kind, name, sound) ==
    [kind |-> kind, name |-> name, sound |-> sound, reads |-> FALSE, sniffs |-> FALSE,
     suggests |-> NoName, accepts |-> {}]
Reader(name, sniffs, suggests) ==
    [Plugin("reader", name, TRUE) EXCEPT !.reads = TRUE, !.sniffs = sniffs, !.suggests = suggests]
Writer(name, accepts) == [Plugin("writer", name, TRUE) EXCEPT !.accepts = accepts]

\* A package brings a reader and the writer it suggests.
MCInstalled == <<Reader(r1, TRUE, w1), Writer(w1, {r1, r2})>>

\* A second reader of the same files, with a writer for it alone; a reader of a name that
\* is taken, and one that does not load; a file that cannot be imported.
Second == [loads |-> TRUE, plugins |-> <<Reader(r2, FALSE, NoName), Writer(w2, {r2})>>]
Overwriting == [loads |-> TRUE, plugins |-> <<Plugin("writer", w2, FALSE), Reader(r1, FALSE, w1)>>]
MCContents == {Second, Overwriting, Unreadable}

S(kind, name) == StageOf(kind, name)
MCStage == {S("reader", r1), S("reader", r2), S("writer", w1), S("writer", w2)}
Fan(r) == <<S("reader", r), S("writer", w1), S("writer", w2)>>
MCPipelines == {Fan(r1), Fan(r2)}

Set(f, v) == Put(EmptyMap, f, v)
MCPluginFiles == <<p, q>>
MCDefaults == {EmptyMap, Put(Set("reader", r2), "writer", w2)}

\* A single-file table a and a batch table c with its own writer, in one cluster, and a
\* sidecar that a table b has left behind.
MCStarts ==
    { [sources |-> {a},
       toml |-> [tiers |-> [s \in {Global, ClusterSlot(k), BatchSlot(c)} |->
                              IF s = ClusterSlot(k) THEN Set("writer", w2)
                              ELSE IF s = BatchSlot(c) THEN Set("writer", w1) ELSE EmptyMap],
                 members |-> [t \in {a, c} |-> <<k>>]],
       sidecar |-> [t \in left |-> Set("reader", r2)],
       plugins |-> [f \in {p} |-> Second]] : left \in {{}, {b}} }

Symmetry == Permutations(Clients)
=============================================================================
