--------------------------- MODULE PipelineProofs ---------------------------
(***************************************************************************)
(* For any stages, sources, configurations, directories and faults: what a *)
(* build leaves, what the cache serves, what a forced build repairs and    *)
(* what a fan-out that failed has still written.  And, for any stages and  *)
(* any length, that the validation accepts only pipelines that obey its    *)
(* rules (PipelineSpec), which the builds take for granted.                *)
(***************************************************************************)
EXTENDS Pipeline, PipelineSpec, FiniteSetTheorems, WellFoundedInduction, TLAPS

-----------------------------------------------------------------------------
(* The inductive invariant.                                                *)

\* v was made from src under cfg by stages 1 to n of spec, but for execs allowed to fail.
Made(v, spec, n, src, cfg) ==
    /\ v # Nothing
    /\ v = [src |-> src, setting |-> cfg.setting, by |-> v.by]
    /\ v.by \in Seq(Stage)
    /\ \E S \in SUBSET Skippable(spec) : Passes(v.by, spec, (1..n) \ S)

Targets == Alternative \cup {NoExt}

\* Entry k of a cache is of a table, or of a checkpoint that stage k of a declared pipeline
\* made on its way to others.
IsEntry(k, e) ==
    \E src \in Content, cfg \in Config :
        \/ k = 0 /\ \E to \in Targets, d \in Dir :
              LET spec == Resolve(cfg, to)
              IN e = [key |-> Key(src, spec, Len(spec), cfg), paths |-> FinalOutputs(spec, d)]
        \/ /\ k \in 1..(Len(cfg.stages) - 1) /\ k < TerminalWriterStart(cfg.stages)
           /\ ~IsReader(cfg.stages[k])
           /\ \E ext \in {e2[2] : e2 \in e.paths} :
                e = [key |-> Key(src, cfg.stages, k, cfg), paths |-> {<<k, ext>>}]

IsCache(c) == \A k \in DOMAIN c : IsEntry(k, c[k])

\* The file f of entry k of a cache, if it is there and accounted for, is what the key says.
Tells(k, e, f) ==
    f \notin upset =>
        /\ k = 0 /\ f \in DOMAIN outs => IsResult(f[2], outs[f], e.key[2], e.key[1], e.key[3])
        /\ k # 0 /\ f \in DOMAIN artifacts =>
              Made(artifacts[f], e.key[3].stages, k, e.key[1], e.key[3])

IsTrue(c) == \A k \in DOMAIN c : \A f \in c[k].paths : Tells(k, c[k], f)

TypeOK ==
    /\ world \in World /\ source \in Content /\ config \in world.configs
    /\ IsCache(entries) /\ IsCache(saved) /\ \A copy \in other : IsCache(copy)

Fields == {"phase", "spec", "src", "cfg", "dir", "force", "dry", "at", "cur", "ir",
           "done", "failed", "sound", "same", "wrote", "stored"}

TaskShape ==
    /\ DOMAIN task = Fields
    /\ task.phase \in {"running", "cached", "dry", "built", "failed", "crashed"}
    /\ task.src \in Content /\ task.cfg \in Config /\ task.dir \in Dir
    /\ \E to \in Targets : task.spec = Resolve(task.cfg, to)
    /\ task.at \in 1..(Len(task.spec) + 1)
    /\ {task.sound, task.same, task.wrote} \subseteq BOOLEAN
    /\ task.force => task.sound
    /\ task.phase \in {"running", "built"} => ~task.dry
    /\ command # "none"

\* A batch table gets past its first two stages in its terminal group only.
BatchStops ==
    Batch /\ task.phase = "running" /\ task.at > 2 =>
        task.at > TerminalWriterStart(task.spec) \/ task.at > Len(task.spec)

\* What the next stage works on has gone through the stages before it.
Flows ==
    Clear /\ task.phase = "running" /\ task.at <= Len(task.spec) =>
        LET t == TerminalWriterStart(task.spec)
            made(v, n) == Made(v, task.spec, n, task.src, task.cfg)
        IN /\ task.at = 1 => made(task.cur, 0)
           /\ 1 < task.at /\ task.at <= t =>
                IF IsReader(task.spec[task.at - 1]) THEN made(task.ir, task.at - 1)
                ELSE made(task.cur, task.at - 1) /\ task.ir = Nothing
           /\ task.at > t /\ task.ir # Nothing => made(task.ir, t - 1)

\* The positions of the terminal stages, and the outputs of those below n.
Finals(spec) == {k \in 1..Len(spec) : k >= TerminalWriterStart(spec) \/ k = Len(spec)}
OutputsBefore(n) == {<<task.dir, task.spec[k].ext>> : k \in {l \in Finals(task.spec) : l < n}}

\* No output of the table is in the directory but those of the pipeline.
Cleaned == {f \in DOMAIN outs : f[1] = task.dir} \subseteq FinalOutputs(task.spec, task.dir)

\* The terminal stages that ran have written their outputs, or are reported.
Done ==
    task.phase \in {"running", "built", "failed"} =>
        /\ task.done \cup task.failed = OutputsBefore(task.at)
        /\ \A f \in task.done : /\ f \in DOMAIN outs
                                /\ Clear /\ f \notin task.failed => IsCurrent(f)
        /\ ~Clear => task.done \subseteq upset
        /\ task.phase = "failed" /\ task.failed # {} => task.at = Len(task.spec) + 1
        /\ task.phase \in {"running", "built"} => Cleaned
        /\ task.phase = "built" =>
              /\ task.failed = {} /\ task.at = Len(task.spec) + 1
              /\ 0 \in DOMAIN entries
              /\ entries[0] = [key   |-> Key(task.src, task.spec, Len(task.spec), task.cfg),
                               paths |-> task.done]

\* The checkpoints that the build has made are in the cache of its command.
Stored ==
    \A f \in task.stored :
       /\ f[1] \in 1..(task.at - 1) /\ f \in DOMAIN artifacts /\ f[1] \in DOMAIN entries
       /\ entries[f[1]] = [key   |-> Key(task.src, task.spec, f[1], task.cfg), paths |-> {f}]
       /\ task.spec = task.cfg.stages
       /\ Clear => Made(artifacts[f], task.spec, f[1], task.src, task.cfg)

\* What is served from the cache is in it.
Served ==
    task.phase = "cached" =>
        /\ 0 \in DOMAIN entries
        /\ entries[0].key = Key(task.src, task.spec, Len(task.spec), task.cfg)
        /\ entries[0].paths \subseteq DOMAIN outs
        /\ ~task.dry => Cleaned

TaskInv ==
    task = Idle \/ (TaskShape /\ BatchStops /\ Flows /\ Done /\ Stored /\ Served)

Inv == TypeOK /\ IsTrue(entries) /\ IsTrue(saved) /\ TaskInv

-----------------------------------------------------------------------------
(* Pipelines.                                                              *)

Less == {p \in Nat \X Nat : p[1] < p[2]}

\* A set of positions that is not empty has a largest.
LEMMA Largest ==
    ASSUME NEW n \in Nat, NEW S \in SUBSET (0..n), S # {}
    PROVE  \E m \in S : \A k \in S : k <= m
<1>1. IsWellFoundedOn(Less, Nat)
  <2>1. OpToRel(<, Nat) = Less
    BY DEF OpToRel, Less
  <2>2. QED  BY <2>1, NatLessThanWellFounded
<1> DEFINE T == {n - k : k \in S}
<1>2. T \subseteq Nat /\ T # {}
  <2>1. \A k \in S : n - k \in Nat /\ n - k \in T
    OBVIOUS
  <2>2. QED  BY <2>1
<1>3. PICK x \in T : \A y \in T : ~(<<y, x>> \in Less)
  BY <1>1, <1>2, WFMin
<1>4. PICK m \in S : x = n - m
  OBVIOUS
<1>5. ASSUME NEW k \in S PROVE k <= m
  <2>1. n - k \in T /\ n - k \in Nat /\ x \in Nat
    BY <1>2
  <2>2. ~(n - k < x)
    BY <1>3, <2>1 DEF Less
  <2>3. QED  BY <1>4, <2>2
<1>6. QED  BY <1>5

\* A pipeline, valid or not, ends in a group of writers, empty if it ends in an exec.
LEMMA GroupExists ==
    ASSUME NEW spec \in Seq(Stage)
    PROVE  /\ TerminalWriterStart(spec) \in 1..(Len(spec) + 1)
           /\ AllWriters(spec, TerminalWriterStart(spec), Len(spec))
           /\ TerminalWriterStart(spec) > 1 =>
                 ~IsWriter(spec[TerminalWriterStart(spec) - 1])
<1>1. Len(spec) \in Nat
  OBVIOUS
<1> DEFINE S == {k \in 1..Len(spec) : ~IsWriter(spec[k])}
           Start(k) == /\ AllWriters(spec, k, Len(spec))
                       /\ k > 1 => ~IsWriter(spec[k - 1])
<1>2. \E k \in 1..(Len(spec) + 1) : Start(k)
  <2>1. CASE S = {}
    <3>1. Start(1) /\ 1 \in 1..(Len(spec) + 1)
      BY <1>1, <2>1 DEF AllWriters
    <3>2. QED  BY <3>1
  <2>2. CASE S # {}
    <3>1. S \subseteq 0..Len(spec)
      BY <1>1
    <3>2. PICK m \in S : \A k \in S : k <= m
      BY <1>1, <2>2, <3>1, Largest
    <3>3. m + 1 \in 1..(Len(spec) + 1) /\ (m + 1) - 1 = m
      BY <1>1, <3>1
    <3>4. Start(m + 1)
      BY <1>1, <3>2, <3>3 DEF AllWriters
    <3>5. QED  BY <3>3, <3>4
  <2>3. QED  BY <2>1, <2>2
<1>3. TerminalWriterStart(spec) = CHOOSE k \in 1..(Len(spec) + 1) : Start(k)
  BY DEF TerminalWriterStart
<1> HIDE DEF Start
<1>4. TerminalWriterStart(spec) \in 1..(Len(spec) + 1) /\ Start(TerminalWriterStart(spec))
  BY <1>2, <1>3
<1>5. QED  BY <1>4 DEF Start

\* The kinds are exclusive.
LEMMA Kinds ==
    ASSUME NEW s \in Stage
    PROVE  /\ IsReader(s) \/ IsWriter(s) \/ IsExec(s)
           /\ ~(IsReader(s) /\ IsWriter(s)) /\ ~(IsReader(s) /\ IsExec(s))
           /\ ~(IsWriter(s) /\ IsExec(s))
           /\ IsReader(s) <=> s.kind = "reader"
           /\ IsWriter(s) <=> s.kind = "writer"
           /\ IsExec(s) <=> s.kind = "exec"
BY StageShape DEF IsReader, IsWriter, IsExec

Valid(spec) == spec \in Seq(Stage) /\ Enforced(spec)

\* The stages of a valid pipeline: it starts with a reader, every reader has its writer,
\* a writer before the terminal group stands alone, and the last stage is no reader.
LEMMA ValidStages ==
    ASSUME NEW spec, Valid(spec), NEW t, t = TerminalWriterStart(spec)
    PROVE  /\ Len(spec) \in Nat /\ Len(spec) >= 2 /\ t \in 2..(Len(spec) + 1)
           /\ \A k \in 1..Len(spec) : spec[k] \in Stage
           /\ IsReader(spec[1]) /\ IsWriter(spec[2])
           /\ \A k \in 1..Len(spec) : IsReader(spec[k]) => k < Len(spec) /\ IsWriter(spec[k + 1])
           /\ \A k \in t..Len(spec) : IsWriter(spec[k])
           /\ \A k \in 1..Len(spec) : IsWriter(spec[k]) /\ k < t =>
                 k < Len(spec) /\ ~IsWriter(spec[k + 1]) /\ ~IsWriter(spec[k - 1])
           /\ ~IsWriter(spec[t - 1])
           /\ IsWriter(spec[Len(spec)]) <=> t <= Len(spec)
<1>1. /\ Len(spec) \in Nat /\ Len(spec) >= 2 /\ \A k \in 1..Len(spec) : spec[k] \in Stage
      /\ IsReader(spec[1])
  BY DEF Valid, Enforced, StartsWithReader
<1>2. /\ t \in 1..(Len(spec) + 1) /\ AllWriters(spec, t, Len(spec))
      /\ t > 1 => ~IsWriter(spec[t - 1])
  BY GroupExists DEF Valid
<1>3. \A k \in 1..Len(spec) : ~(IsReader(spec[k]) /\ IsWriter(spec[k]))
  BY <1>1, Kinds
<1>4. \A k \in t..Len(spec) : IsWriter(spec[k])
  BY <1>2 DEF AllWriters
<1>5. t # 1
  BY <1>1, <1>3, <1>4
<1>6. t \in 2..(Len(spec) + 1) /\ ~IsWriter(spec[t - 1])
  BY <1>1, <1>2, <1>5
<1>7. \A k \in 1..Len(spec) : IsReader(spec[k]) => k < Len(spec) /\ IsWriter(spec[k + 1])
  BY DEF Valid, Enforced, ReadersAreWritten
<1>8. \A k \in 1..Len(spec) : IsWriter(spec[k]) /\ k < t =>
         k < Len(spec) /\ ~IsWriter(spec[k + 1])
  <2>1. SUFFICES ASSUME NEW k \in 1..Len(spec), IsWriter(spec[k]), k < t
                 PROVE  k < Len(spec) /\ ~IsWriter(spec[k + 1])
    OBVIOUS
  <2>2. k < t - 1 /\ t - 1 <= Len(spec)
    BY <1>1, <1>6, <2>1
  <2>3. CASE IsWriter(spec[k + 1])
    <3>1. k \in 1..(Len(spec) - 1)
      BY <1>1, <1>6, <2>2
    <3>2. AllWriters(spec, k, Len(spec))
      BY <2>1, <2>3, <3>1 DEF Valid, Enforced, FanOutIsLast
    <3>3. t - 1 \in k..Len(spec)
      BY <1>1, <1>6, <2>2
    <3>4. QED  BY <1>6, <3>2, <3>3 DEF AllWriters
  <2>4. QED  BY <1>1, <1>6, <2>2, <2>3
<1>9. \A k \in 1..Len(spec) : IsWriter(spec[k]) /\ k < t => ~IsWriter(spec[k - 1])
  <2>1. SUFFICES ASSUME NEW k \in 1..Len(spec), IsWriter(spec[k]), k < t
                 PROVE  ~IsWriter(spec[k - 1])
    OBVIOUS
  <2>2. k # 1
    BY <1>1, <1>3, <2>1
  <2>3. k - 1 \in 1..Len(spec) /\ k - 1 < t /\ (k - 1) + 1 = k
    BY <1>1, <1>6, <2>1, <2>2
  <2>4. QED  BY <1>8, <2>1, <2>3
<1>10. IsWriter(spec[Len(spec)]) <=> t <= Len(spec)
  <2>1. CASE t <= Len(spec)
    BY <1>1, <1>4, <1>6, <2>1
  <2>2. CASE t > Len(spec)
    <3>1. t - 1 = Len(spec)
      BY <1>1, <1>6, <2>2
    <3>2. QED  BY <1>6, <2>2, <3>1
  <2>3. QED  BY <1>1, <1>6, <2>1, <2>2
<1>11. IsWriter(spec[2])
  BY <1>1, <1>7
<1>12. QED  BY <1>1, <1>4, <1>6, <1>7, <1>8, <1>9, <1>10, <1>11

\* What is resolved is valid, and is the declared pipeline unless it has nothing but a
\* reader and a writer.
LEMMA Resolved ==
    ASSUME NEW cfg \in Config, NEW to \in Targets, NEW spec, spec = Resolve(cfg, to)
    PROVE  /\ Valid(spec)
           /\ cfg.stages # <<>> => spec = cfg.stages
           /\ TerminalWriterStart(spec) > 2 => spec = cfg.stages
<1>1. CASE cfg.stages # <<>>
  BY <1>1, PipelinesAreValid DEF Resolve, Valid
<1>2. CASE cfg.stages = <<>>
  <2>1. PICK w : w = IF to = NoExt THEN cfg.writer ELSE to
    OBVIOUS
  <2>2. PICK r : r = cfg.reader
    OBVIOUS
  <2>3. w \in Stage /\ IsWriter(w) /\ r \in Stage /\ IsReader(r)
    BY <2>1, <2>2, PipelinesAreValid DEF Targets
  <2>4. spec = <<r, w>>
    BY <1>2, <2>1, <2>2 DEF Resolve
  <2>5. spec \in Seq(Stage) /\ Len(spec) = 2 /\ spec[1] = r /\ spec[2] = w
    BY <2>3, <2>4
  <2>6. ~IsWriter(r) /\ ~IsExec(w)
    BY <2>3, Kinds
  <2>7. Enforced(spec)
    <3>1. StartsWithReader(spec) /\ LastExecHasExtension(spec)
      BY <2>3, <2>5, <2>6 DEF StartsWithReader, LastExecHasExtension
    <3>2. ReadersAreWritten(spec)
      <4>1. ~IsReader(w)
        BY <2>3, Kinds
      <4>2. QED  BY <2>3, <2>5, <4>1 DEF ReadersAreWritten
    <3>3. FanOutIsLast(spec) /\ FanOutIsDistinct(spec)
      BY <2>5, <2>6 DEF FanOutIsLast, FanOutIsDistinct, AllWriters
    <3>4. QED  BY <3>1, <3>2, <3>3 DEF Enforced
  <2>8. TerminalWriterStart(spec) <= 2
    <3>1. TerminalWriterStart(spec) \in 2..3
      BY <2>5, <2>7, ValidStages DEF Valid
    <3>2. ~IsWriter(spec[TerminalWriterStart(spec) - 1])
      BY <2>5, <2>7, ValidStages DEF Valid
    <3>3. QED  BY <2>3, <2>5, <3>1, <3>2
  <2>9. TerminalWriterStart(spec) \in Nat
    BY <2>5, GroupExists
  <2>10. QED  BY <1>2, <2>5, <2>7, <2>8, <2>9 DEF Valid
<1>3. QED  BY <1>1, <1>2

\* The outputs of a pipeline are those of its terminal stages.
LEMMA FinalOutputsAre ==
    ASSUME NEW spec, Valid(spec), NEW d
    PROVE  /\ FinalOutputs(spec, d) = {<<d, spec[k].ext>> : k \in Finals(spec)}
           /\ Len(spec) \in Finals(spec)
<1>1. PICK t : t = TerminalWriterStart(spec)
  OBVIOUS
<1>2. /\ Len(spec) \in Nat /\ Len(spec) >= 2 /\ t \in 2..(Len(spec) + 1)
      /\ IsWriter(spec[Len(spec)]) <=> t <= Len(spec)
  BY <1>1, ValidStages
<1>3. CASE IsWriter(spec[Len(spec)])
  <2>1. Finals(spec) = t..Len(spec)
    BY <1>1, <1>2, <1>3 DEF Finals
  <2>2. QED  BY <1>1, <1>2, <1>3, <2>1 DEF FinalOutputs
<1>4. CASE ~IsWriter(spec[Len(spec)])
  <2>1. Finals(spec) = {Len(spec)}
    BY <1>1, <1>2, <1>4 DEF Finals
  <2>2. QED  BY <1>1, <1>2, <1>4, <2>1 DEF FinalOutputs
<1>5. QED  BY <1>3, <1>4

-----------------------------------------------------------------------------
(* Contents.                                                               *)

\* One stage more, at a position after the others.
LEMMA PassesOne ==
    ASSUME NEW spec, NEW by \in Seq(Stage), NEW n \in Nat, NEW K \in SUBSET (1..n),
           NEW m \in Nat, n < m, spec[m] \in Stage, Passes(by, spec, K)
    PROVE  Append(by, spec[m]) \in Seq(Stage) /\ Passes(Append(by, spec[m]), spec, K \cup {m})
<1>1. IsFiniteSet(K) /\ m \notin K
  <2>1. 1 \in Int /\ n \in Int
    OBVIOUS
  <2>2. IsFiniteSet(1..n)
    BY <2>1, FS_Interval
  <2>3. IsFiniteSet(K)
    BY <2>2, FS_Subset
  <2>4. QED  BY <2>3
<1>2. Cardinality(K) \in Nat /\ Len(by) = Cardinality(K)
  BY <1>1, FS_CardinalityType DEF Passes
<1>3. Cardinality(K \cup {m}) = Cardinality(K) + 1
  BY <1>1, FS_AddElement
<1>4. PICK new : new = Append(by, spec[m])
  OBVIOUS
<1>5. /\ new \in Seq(Stage) /\ Len(new) = Len(by) + 1 /\ new[Len(by) + 1] = spec[m]
      /\ \A k \in 1..Len(by) : new[k] = by[k]
  BY <1>4
<1>6. ASSUME NEW k \in K
      PROVE  new[Cardinality((K \cup {m}) \cap (1..k))] = spec[k]
  <2>1. (K \cup {m}) \cap (1..k) = K \cap (1..k)
    OBVIOUS
  <2>2. PICK R : R = K \cap (1..k)
    OBVIOUS
  <2>3. R \in SUBSET K /\ k \in R
    BY <2>2
  <2>4. /\ IsFiniteSet(R) /\ Cardinality(R) <= Cardinality(K) /\ Cardinality(R) \in Nat
        /\ Cardinality(R) # 0
    BY <1>1, <2>3, FS_Subset, FS_CardinalityType, FS_EmptySet
  <2>5. Cardinality(R) \in 1..Len(by)
    BY <1>2, <2>4
  <2>6. QED  BY <1>5, <2>1, <2>2, <2>5 DEF Passes
<1>7. (K \cup {m}) \cap (1..m) = K \cup {m}
  <2>1. m \in 1..m /\ \A k \in K : k \in 1..m
    OBVIOUS
  <2>2. QED  BY <2>1
<1>8. Passes(new, spec, K \cup {m})
  BY <1>2, <1>3, <1>5, <1>6, <1>7 DEF Passes
<1>9. QED  BY <1>4, <1>5, <1>8

\* A content is something.
LEMMA NotNothing ==
    ASSUME NEW a, NEW b, NEW c
    PROVE  [src |-> a, setting |-> b, by |-> c] # Nothing
<1>1. "by" \in DOMAIN [src |-> a, setting |-> b, by |-> c]
  OBVIOUS
<1>2. "by" \notin DOMAIN Nothing
  BY DEF Nothing
<1>3. QED  BY <1>1, <1>2

\* A stage is added to what a content has gone through.
LEMMA Applied ==
    ASSUME NEW a, NEW b, NEW c, NEW stage, NEW v, v = [src |-> a, setting |-> b, by |-> c]
    PROVE  \A by : by = Append(c, stage) =>
               Apply(stage, v) = [src |-> a, setting |-> b, by |-> by]
<1>1. v.by = c
  OBVIOUS
<1>2. TAKE by
<1>3. [v EXCEPT !.by = by] = [src |-> a, setting |-> b, by |-> by]
  OBVIOUS
<1>4. QED  BY <1>1, <1>3 DEF Apply

\* Nothing has gone through no stage.
LEMMA RawIsMade ==
    ASSUME NEW spec, NEW src, NEW cfg
    PROVE  Made(Raw(src, cfg), spec, 0, src, cfg)
<1>1. PICK v : v = [src |-> src, setting |-> cfg.setting, by |-> <<>>]
  OBVIOUS
<1>2. /\ v = [src |-> src, setting |-> cfg.setting, by |-> v.by] /\ v.by = <<>>
      /\ v.by \in Seq(Stage)
  BY <1>1
<1>3. v # Nothing
  BY <1>1, NotNothing
<1>4. (1..0) \ {} = {}
  OBVIOUS
<1>5. Passes(<<>>, spec, (1..0) \ {})
  BY <1>4, FS_EmptySet DEF Passes
<1>6. QED  BY <1>1, <1>2, <1>3, <1>5 DEF Made, Raw

\* A stage that runs, and one that is skipped because it may fail.
LEMMA StageMakes ==
    ASSUME NEW spec \in Seq(Stage), NEW n \in 1..Len(spec), NEW v, NEW src, NEW cfg,
           Made(v, spec, n - 1, src, cfg)
    PROVE  /\ Made(Apply(spec[n], v), spec, n, src, cfg)
           /\ IsExec(spec[n]) /\ spec[n].warn => Made(v, spec, n, src, cfg)
<1>1. /\ v = [src |-> src, setting |-> cfg.setting, by |-> v.by] /\ v.by \in Seq(Stage)
      /\ v # Nothing
  BY DEF Made
<1>2. PICK S \in SUBSET Skippable(spec) : Passes(v.by, spec, (1..(n - 1)) \ S)
  BY DEF Made
<1>3. spec[n] \in Stage /\ n \in Nat /\ n - 1 \in Nat /\ n - 1 < n
  OBVIOUS
<1>4. PICK by : by = Append(v.by, spec[n])
  OBVIOUS
<1>5. PICK K : K = (1..(n - 1)) \ S
  OBVIOUS
<1>6. by \in Seq(Stage) /\ Passes(by, spec, K \cup {n})
  BY <1>1, <1>2, <1>3, <1>4, <1>5, PassesOne
<1>7. Passes(by, spec, (1..n) \ (S \ {n}))
  <2>1. K \cup {n} = (1..n) \ (S \ {n})
    BY <1>3, <1>5
  <2>2. QED  BY <1>6, <2>1
<1>8. PICK w : w = [src |-> src, setting |-> cfg.setting, by |-> by]
  OBVIOUS
<1>9. w = [src |-> src, setting |-> cfg.setting, by |-> w.by] /\ w.by = by /\ w # Nothing
  BY <1>8, NotNothing
<1>10. Apply(spec[n], v) = w
  <2>1. PICK past : past = v.by
    OBVIOUS
  <2>2. PICK setting : setting = cfg.setting
    OBVIOUS
  <2>3. PICK stage : stage = spec[n]
    OBVIOUS
  <2>4. v = [src |-> src, setting |-> setting, by |-> past]
    BY <1>1, <2>1, <2>2
  <2>5. Apply(stage, v) = [src |-> src, setting |-> setting, by |-> by]
    BY <1>4, <2>1, <2>3, <2>4, Applied
  <2>6. QED  BY <1>8, <2>2, <2>3, <2>5
<1>11. S \ {n} \in SUBSET Skippable(spec)
  BY <1>2
<1>12. Made(Apply(spec[n], v), spec, n, src, cfg)
  BY <1>6, <1>7, <1>9, <1>10, <1>11 DEF Made
<1>13. ASSUME IsExec(spec[n]), spec[n].warn
       PROVE  Made(v, spec, n, src, cfg)
  <2>1. S \cup {n} \in SUBSET Skippable(spec)
    BY <1>2, <1>13 DEF Skippable
  <2>2. (1..n) \ (S \cup {n}) = (1..(n - 1)) \ S
    BY <1>3
  <2>3. QED  BY <1>1, <1>2, <2>1, <2>2 DEF Made
<1>14. QED  BY <1>12, <1>13

\* What a terminal writer, or the last exec, leaves is a result of the pipeline.
LEMMA WriterResult ==
    ASSUME NEW spec, Valid(spec), NEW n \in 1..Len(spec), n >= TerminalWriterStart(spec),
           NEW v, NEW src, NEW cfg, Made(v, spec, TerminalWriterStart(spec) - 1, src, cfg)
    PROVE  IsResult(spec[n].ext, Apply(spec[n], v), spec, src, cfg)
<1>1. PICK t : t = TerminalWriterStart(spec)
  OBVIOUS
<1>2. /\ Len(spec) \in Nat /\ t \in 2..(Len(spec) + 1) /\ \A k \in 1..Len(spec) : spec[k] \in Stage
      /\ \A k \in t..Len(spec) : IsWriter(spec[k])
  BY <1>1, ValidStages
<1>3. /\ v = [src |-> src, setting |-> cfg.setting, by |-> v.by] /\ v.by \in Seq(Stage)
  BY DEF Made
<1>4. PICK S \in SUBSET Skippable(spec) : Passes(v.by, spec, (1..(t - 1)) \ S)
  BY <1>1 DEF Made
<1>5. n \in Nat /\ t - 1 \in Nat /\ t - 1 < n /\ spec[n] \in Stage
  BY <1>1, <1>2
<1>6. PICK by : by = Append(v.by, spec[n])
  OBVIOUS
<1>7. PICK K : K = (1..(t - 1)) \ S
  OBVIOUS
<1>8. Passes(by, spec, K \cup {n})
  BY <1>3, <1>4, <1>5, <1>6, <1>7, PassesOne
<1>9. n \notin S
  <2>1. IsWriter(spec[n])
    BY <1>1, <1>2
  <2>2. ~IsExec(spec[n])
    BY <1>5, <2>1, Kinds
  <2>3. QED  BY <1>4, <2>2 DEF Skippable
<1>10. ((1..(t - 1)) \cup {n}) \ S = K \cup {n}
  BY <1>7, <1>9
<1>11. /\ Apply(spec[n], v).src = src /\ Apply(spec[n], v).setting = cfg.setting
       /\ Apply(spec[n], v).by = by
  BY <1>3, <1>6 DEF Apply
<1>12. n \in (t..Len(spec)) \cup {Len(spec)}
  BY <1>1, <1>2
<1>13. QED  BY <1>1, <1>4, <1>8, <1>10, <1>11, <1>12 DEF IsResult

\* What has gone through a pipeline that ends in an exec is a result of it.
LEMMA ExecResult ==
    ASSUME NEW spec, Valid(spec), ~IsWriter(spec[Len(spec)]), NEW v, NEW src, NEW cfg,
           Made(v, spec, Len(spec), src, cfg)
    PROVE  IsResult(spec[Len(spec)].ext, v, spec, src, cfg)
<1>1. PICK t : t = TerminalWriterStart(spec)
  OBVIOUS
<1>2. Len(spec) \in Nat /\ Len(spec) >= 2 /\ t = Len(spec) + 1
  BY <1>1, ValidStages
<1>3. /\ v = [src |-> src, setting |-> cfg.setting, by |-> v.by] /\ v.by \in Seq(Stage)
  BY DEF Made
<1>4. PICK S \in SUBSET Skippable(spec) : Passes(v.by, spec, (1..Len(spec)) \ S)
  BY DEF Made
<1>5. ((1..(t - 1)) \cup {Len(spec)}) \ S = (1..Len(spec)) \ S
  BY <1>2
<1>6. v.src = src /\ v.setting = cfg.setting
  BY <1>3
<1>7. QED  BY <1>1, <1>4, <1>5, <1>6 DEF IsResult

-----------------------------------------------------------------------------
(* The caches.                                                             *)

\* The files that are accounted for are those that were, with what they held.
OutsKept ==
    \A f \in DOMAIN outs' : f \notin upset' =>
        f \notin upset /\ f \in DOMAIN outs /\ outs'[f] = outs[f]
ArtifactsKept ==
    \A f \in DOMAIN artifacts' : f \notin upset' =>
        f \notin upset /\ f \in DOMAIN artifacts /\ artifacts'[f] = artifacts[f]

\* A cache is as true as it was when the files it accounts for are kept.
LEMMA StillTrue ==
    ASSUME NEW c, IsTrue(c), OutsKept, ArtifactsKept
    PROVE  IsTrue(c)'
<1>1. SUFFICES ASSUME NEW k \in DOMAIN c, NEW f \in c[k].paths, f \notin upset'
               PROVE  /\ k = 0 /\ f \in DOMAIN outs' =>
                           IsResult(f[2], outs'[f], c[k].key[2], c[k].key[1], c[k].key[3])
                      /\ k # 0 /\ f \in DOMAIN artifacts' =>
                           Made(artifacts'[f], c[k].key[3].stages, k, c[k].key[1], c[k].key[3])
  BY DEF IsTrue, Tells
<1>2. Tells(k, c[k], f)
  BY DEF IsTrue
<1>3. QED  BY <1>1, <1>2 DEF Tells, OutsKept, ArtifactsKept

\* The empty cache says nothing.
LEMMA EmptyIsTrue ==
    ASSUME NEW c, c = EmptyMap
    PROVE  IsCache(c) /\ IsTrue(c) /\ IsTrue(c)'
<1>1. DOMAIN c = {}
  BY DEF EmptyMap
<1>2. QED  BY <1>1 DEF IsCache, IsTrue

\* What a key is made of.
LEMMA KeyIs ==
    ASSUME NEW src, NEW spec \in Seq(Stage), NEW k, NEW cfg
    PROVE  /\ Key(src, spec, k, cfg)[1] = src /\ Key(src, spec, k, cfg)[3] = cfg
           /\ Key(src, spec, k, cfg)[2] = SignaturePrefix(spec, k)
           /\ SignaturePrefix(spec, Len(spec)) = spec
<1>1. PICK prefix : prefix = SignaturePrefix(spec, k)
  OBVIOUS
<1>2. Key(src, spec, k, cfg) = <<src, prefix, cfg>>
  BY <1>1 DEF Key
<1>3. SubSeq(spec, 1, Len(spec)) = spec
  <2>1. PICK n : n = Len(spec)
    OBVIOUS
  <2>2. n \in Nat /\ 1 <= n + 1
    BY <2>1
  <2>3. SubSeq(spec, 1, n) = [m \in 1..n |-> spec[m]]
    BY <2>1, <2>2
  <2>4. spec = [m \in 1..n |-> spec[m]]
    BY <2>1, <2>2
  <2>5. QED  BY <2>1, <2>3, <2>4
<1>4. SignaturePrefix(spec, Len(spec)) = spec
  BY <1>3 DEF SignaturePrefix
<1>5. PICK key : key = <<src, prefix, cfg>>
  OBVIOUS
<1>6. key[1] = src /\ key[2] = prefix /\ key[3] = cfg
  BY <1>5
<1>7. QED  BY <1>1, <1>2, <1>4, <1>5, <1>6

\* The paths of an entry: outputs in a directory, or the file of a checkpoint.
LEMMA EntryPaths ==
    ASSUME NEW k, NEW e, IsEntry(k, e), NEW f \in e.paths
    PROVE  /\ k = 0 => f[1] \in Dir
           /\ k # 0 => k \in Nat \ {0} /\ f[1] = k /\ e.paths = {f}
<1>1. PICK src \in Content, cfg \in Config :
        \/ k = 0 /\ \E to \in Targets, d \in Dir :
              LET spec == Resolve(cfg, to)
              IN e = [key |-> Key(src, spec, Len(spec), cfg), paths |-> FinalOutputs(spec, d)]
        \/ /\ k \in 1..(Len(cfg.stages) - 1) /\ k < TerminalWriterStart(cfg.stages)
           /\ ~IsReader(cfg.stages[k])
           /\ \E ext \in {e2[2] : e2 \in e.paths} :
                e = [key |-> Key(src, cfg.stages, k, cfg), paths |-> {<<k, ext>>}]
  BY DEF IsEntry
<1>2. CASE k = 0
  <2>1. PICK to \in Targets, d \in Dir :
          e = [key |-> Key(src, Resolve(cfg, to), Len(Resolve(cfg, to)), cfg),
               paths |-> FinalOutputs(Resolve(cfg, to), d)]
    BY <1>1, <1>2
  <2>2. PICK spec : spec = Resolve(cfg, to)
    OBVIOUS
  <2>3. f \in FinalOutputs(spec, d)
    BY <2>1, <2>2
  <2>4. Valid(spec)
    BY <2>2, Resolved
  <2>5. f \in {<<d, spec[n].ext>> : n \in Finals(spec)}
    BY <2>3, <2>4, FinalOutputsAre
  <2>6. QED  BY <1>2, <2>5
<1>3. CASE k # 0
  <2>1. PICK ext : e = [key |-> Key(src, cfg.stages, k, cfg), paths |-> {<<k, ext>>}]
    BY <1>1, <1>3
  <2>2. e.paths = {<<k, ext>>}
    BY <2>1
  <2>3. cfg.stages \in Seq(Stage)
    BY PipelinesAreValid
  <2>4. Len(cfg.stages) \in Nat
    BY <2>3
  <2>5. k \in Nat \ {0}
    BY <1>1, <1>3, <2>4
  <2>6. f = <<k, ext>>
    BY <2>2
  <2>7. QED  BY <1>3, <2>2, <2>5, <2>6
<1>4. QED  BY <1>2, <1>3

\* The build in progress is not disturbed by what leaves it, its files and its cache alone.
LEMMA TaskStill ==
    ASSUME TaskInv, UNCHANGED <<task, command, outs, artifacts, entries>>, upset \subseteq upset'
    PROVE  TaskInv'
<1>1. CASE task = Idle
  BY <1>1 DEF TaskInv
<1>2. CASE TaskShape /\ BatchStops /\ Flows /\ Done /\ Stored /\ Served
  <2>1. TaskShape' /\ BatchStops' /\ Flows' /\ Served'
    BY <1>2 DEF TaskShape, BatchStops, Flows, Served, Clear, Cleaned
  <2>2. Done'
    BY <1>2 DEF Done, Clear, Cleaned, IsCurrent, OutputsBefore
  <2>3. Stored'
    BY <1>2 DEF Stored, Clear
  <2>4. QED  BY <2>1, <2>2, <2>3 DEF TaskInv
<1>3. QED  BY <1>1, <1>2 DEF TaskInv

-----------------------------------------------------------------------------
(* The actions that build nothing.                                         *)

\* Before the first command there is nothing to be true of.
LEMMA InitInv == Init => Inv
<1>1. SUFFICES ASSUME Init PROVE Inv
  OBVIOUS
<1>2. PICK c : c = EmptyMap
  OBVIOUS
<1>3. IsCache(c) /\ IsTrue(c)
  BY <1>2, EmptyIsTrue
<1>4. IsTrue(entries) /\ IsTrue(saved)
  BY <1>1, <1>2, <1>3 DEF Init
<1>5. TypeOK
  BY <1>1, <1>2, <1>3 DEF Init, TypeOK
<1>6. QED  BY <1>1, <1>4, <1>5 DEF Init, Inv, TaskInv

\* Nothing changes but the source, the configuration or what another process has loaded.
LEMMA AsideInv ==
    ASSUME Inv, UNCHANGED <<world, outs, artifacts, saved, entries, command, task, upset>>,
           source' \in Content, config' \in world.configs,
           \A copy \in other' : IsCache(copy)
    PROVE  Inv'
<1>1. OutsKept /\ ArtifactsKept
  BY DEF OutsKept, ArtifactsKept
<1>2. PICK e : e = entries
  OBVIOUS
<1>3. PICK s : s = saved
  OBVIOUS
<1>4. IsTrue(e)' /\ IsTrue(s)'
  <2>1. IsTrue(e) /\ IsTrue(s)
    BY <1>2, <1>3 DEF Inv
  <2>2. QED  BY <1>1, <2>1, StillTrue
<1>5. IsTrue(entries)' /\ IsTrue(saved)'
  <2>1. entries' = e /\ saved' = s
    BY <1>2, <1>3
  <2>2. QED  BY <1>4, <2>1
<1>6. TypeOK'
  BY DEF Inv, TypeOK
<1>7. TaskInv'
  BY TaskStill DEF Inv
<1>8. QED  BY <1>5, <1>6, <1>7 DEF Inv

\* A build keeps what it read when the source is edited.
LEMMA EditSourceInv ==
    ASSUME Inv, NEW c \in Content, EditSource(c)
    PROVE  Inv'
<1>1. /\ UNCHANGED <<world, config, outs, artifacts, saved, entries, command, task, other, upset>>
      /\ source' \in Content
  BY DEF EditSource, disk, aside
<1>2. QED  BY <1>1, AsideInv DEF Inv, TypeOK

\* The configuration is edited between builds.
LEMMA EditConfigInv ==
    ASSUME Inv, NEW cfg, EditConfig(cfg)
    PROVE  Inv'
<1>1. /\ UNCHANGED <<world, source, outs, artifacts, saved, entries, command, task, other, upset>>
      /\ config' \in world.configs
  BY DEF EditConfig, disk, aside
<1>2. QED  BY <1>1, AsideInv DEF Inv, TypeOK

\* What another process loads is a cache.
LEMMA OtherLoadsInv ==
    ASSUME Inv, OtherLoads
    PROVE  Inv'
<1>1. UNCHANGED <<world, source, config, outs, artifacts, saved, entries, command, task, upset>>
  BY DEF OtherLoads, disk
<1>2. \A copy \in other' : IsCache(copy)
  BY DEF OtherLoads, Inv, TypeOK
<1>3. QED  BY <1>1, <1>2, AsideInv DEF Inv, TypeOK

\* The copy of another process is true of every file but those that upset gets.
LEMMA OtherSavesInv ==
    ASSUME Inv, OtherSaves
    PROVE  Inv'
<1>1. PICK copy \in other :
        /\ saved' = copy
        /\ other' = {}
        /\ upset' = upset \cup (PathsOfDifference(saved, copy)
                                   \cap DOMAIN Override(outs, artifacts))
        /\ UNCHANGED <<world, source, config, outs, artifacts, entries, command, task>>
  BY DEF OtherSaves
<1>2. OutsKept /\ ArtifactsKept
  BY <1>1 DEF OutsKept, ArtifactsKept
<1>3. PICK e : e = entries
  OBVIOUS
<1>4. PICK s : s = saved
  OBVIOUS
<1>5. IsTrue(e)' /\ IsTrue(s)'
  <2>1. IsTrue(e) /\ IsTrue(s)
    BY <1>3, <1>4 DEF Inv
  <2>2. QED  BY <1>2, <2>1, StillTrue
<1>6. IsTrue(entries)'
  <2>1. entries' = e
    BY <1>1, <1>3
  <2>2. QED  BY <1>5, <2>1
<1>7. PICK c : c = copy
  OBVIOUS
<1>8. IsTrue(c)'
  <2>1. SUFFICES ASSUME NEW k \in DOMAIN c, NEW f \in c[k].paths, f \notin upset',
                        f \in DOMAIN outs' \/ f \in DOMAIN artifacts'
                 PROVE  Tells(k, c[k], f)'
    BY DEF IsTrue, Tells
  <2>2. f \in DOMAIN Override(outs, artifacts)
    BY <1>1, <2>1 DEF Override
  <2>3. f \notin PathsOfDifference(s, c)
    BY <1>1, <1>4, <1>7, <2>1, <2>2
  <2>4. k \in DOMAIN s /\ s[k] = c[k]
    BY <2>1, <2>3 DEF PathsOfDifference
  <2>5. Tells(k, s[k], f)'
    BY <1>5, <2>1, <2>4 DEF IsTrue
  <2>6. QED  BY <2>4, <2>5
<1>9. IsTrue(saved)'
  <2>1. saved' = c
    BY <1>1, <1>7
  <2>2. QED  BY <1>8, <2>1
<1>10. TypeOK'
  BY <1>1 DEF Inv, TypeOK
<1>11. TaskInv'
  BY <1>1, TaskStill DEF Inv
<1>12. QED  BY <1>6, <1>9, <1>10, <1>11 DEF Inv

\* What is left of the files is accounted for as it was.
LEMMA CleanInv ==
    ASSUME Inv, NEW cache, NEW dirs, Clean(cache, dirs)
    PROVE  Inv'
<1>1. /\ task = Idle /\ task' = Idle /\ UNCHANGED <<world, source, config, entries, command, other>>
      /\ saved' = EmptyMap \/ saved' = saved
      /\ artifacts' = EmptyMap \/ artifacts' = artifacts
      /\ outs' = Drop(outs, {f \in DOMAIN outs : f[1] \in dirs})
      /\ upset' = upset \cap (DOMAIN outs' \cup DOMAIN artifacts')
  BY DEF Clean, aside
<1>2. OutsKept
  BY <1>1 DEF OutsKept, Drop
<1>3. ArtifactsKept
  BY <1>1 DEF ArtifactsKept, EmptyMap
<1>4. PICK e : e = entries
  OBVIOUS
<1>5. PICK s : s = saved
  OBVIOUS
<1>6. IsTrue(e)' /\ IsTrue(s)'
  <2>1. IsTrue(e) /\ IsTrue(s)
    BY <1>4, <1>5 DEF Inv
  <2>2. QED  BY <1>2, <1>3, <2>1, StillTrue
<1>7. PICK m : m = EmptyMap
  OBVIOUS
<1>8. IsCache(m) /\ IsTrue(m)'
  BY <1>7, EmptyIsTrue
<1>9. IsTrue(entries)' /\ IsTrue(saved)'
  <2>1. entries' = e /\ (saved' = s \/ saved' = m)
    BY <1>1, <1>4, <1>5, <1>7
  <2>2. QED  BY <1>6, <1>8, <2>1
<1>10. IsCache(saved')
  <2>1. saved' = saved \/ saved' = m
    BY <1>1, <1>7
  <2>2. QED  BY <1>8, <2>1 DEF Inv, TypeOK
<1>11. TypeOK'
  BY <1>1, <1>10 DEF Inv, TypeOK
<1>12. QED  BY <1>1, <1>9, <1>11 DEF Inv, TaskInv

\* A command starts from the saved cache, with no build in progress.
LEMMA OpenCommandInv ==
    ASSUME Inv, NEW kind, OpenCommand(kind)
    PROVE  Inv'
<1>1. /\ command = "none" /\ entries' = saved
      /\ UNCHANGED <<world, source, config, outs, artifacts, saved, task, other, upset>>
  BY DEF OpenCommand, disk, aside
<1>2. task = Idle
  BY <1>1 DEF Inv, TaskInv, TaskShape
<1>3. OutsKept /\ ArtifactsKept
  BY <1>1 DEF OutsKept, ArtifactsKept
<1>4. PICK s : s = saved
  OBVIOUS
<1>5. IsTrue(s)'
  <2>1. IsTrue(s)
    BY <1>4 DEF Inv
  <2>2. QED  BY <1>3, <2>1, StillTrue
<1>6. IsTrue(entries)' /\ IsTrue(saved)'
  <2>1. entries' = s /\ saved' = s
    BY <1>1, <1>4
  <2>2. QED  BY <1>5, <2>1
<1>7. TypeOK'
  BY <1>1 DEF Inv, TypeOK
<1>8. QED  BY <1>1, <1>2, <1>6, <1>7 DEF Inv, TaskInv

\* What an interrupted build has written is not in the saved cache, or is in upset.
LEMMA InterruptInv ==
    ASSUME Inv, Interrupt
    PROVE  Inv'
<1>1. /\ entries' = EmptyMap /\ task' = Idle
      /\ UNCHANGED <<world, source, config, outs, artifacts, saved, other, upset>>
  BY DEF Interrupt, disk, aside
<1>2. OutsKept /\ ArtifactsKept
  BY <1>1 DEF OutsKept, ArtifactsKept
<1>3. PICK s : s = saved
  OBVIOUS
<1>4. PICK m : m = EmptyMap
  OBVIOUS
<1>5. IsTrue(s)' /\ IsTrue(m)' /\ IsCache(m)
  <2>1. IsTrue(s)
    BY <1>3 DEF Inv
  <2>2. QED  BY <1>2, <1>4, <2>1, StillTrue, EmptyIsTrue
<1>6. IsTrue(entries)' /\ IsTrue(saved)' /\ IsCache(entries')
  <2>1. entries' = m /\ saved' = s
    BY <1>1, <1>3, <1>4
  <2>2. QED  BY <1>5, <2>1
<1>7. TypeOK'
  BY <1>1, <1>6 DEF Inv, TypeOK
<1>8. QED  BY <1>1, <1>6, <1>7 DEF Inv, TaskInv

-----------------------------------------------------------------------------
(* A build begins.                                                         *)

\* A checkpoint that can be resumed from is of this pipeline, a declared one, and before
\* its terminal group; what it holds has gone through the stages up to it.
LEMMA CheckpointIsMade ==
    ASSUME Inv, NEW to \in Targets, NEW spec, spec = Resolve(config, to),
           NEW k \in Resumable(source, spec, config)
    PROVE  /\ k \in 1..(Len(spec) - 1) /\ k < TerminalWriterStart(spec) /\ ~IsReader(spec[k])
           /\ entries[k].paths \cap upset = {} =>
                 Made(artifacts[CHOOSE f \in entries[k].paths : TRUE], spec, k, source, config)
<1>1. /\ k \in 1..Len(spec) /\ ~IsReader(spec[k]) /\ k \in DOMAIN entries
      /\ entries[k].key = Key(source, spec, k, config)
      /\ entries[k].paths \subseteq DOMAIN artifacts
  BY DEF Resumable, Fresh
<1>2. config \in Config
  BY DEF Inv, TypeOK, Config
<1>3. Valid(spec)
  BY <1>2, Resolved
<1>4. spec \in Seq(Stage) /\ Len(spec) \in Nat /\ k \in Nat \ {0}
  BY <1>1, <1>3, ValidStages DEF Valid
<1>5. IsEntry(k, entries[k])
  BY <1>1 DEF Inv, TypeOK, IsCache
<1>6. PICK e : e = entries[k]
  OBVIOUS
<1>7. PICK src \in Content, cfg \in Config :
        /\ k \in 1..(Len(cfg.stages) - 1) /\ k < TerminalWriterStart(cfg.stages)
        /\ ~IsReader(cfg.stages[k])
        /\ \E ext \in {e2[2] : e2 \in e.paths} :
             e = [key |-> Key(src, cfg.stages, k, cfg), paths |-> {<<k, ext>>}]
  BY <1>4, <1>5, <1>6 DEF IsEntry
<1>8. PICK ext : e = [key |-> Key(src, cfg.stages, k, cfg), paths |-> {<<k, ext>>}]
  BY <1>7
<1>9. e.key = Key(src, cfg.stages, k, cfg) /\ e.paths = {<<k, ext>>}
  BY <1>8
<1>10. cfg = config /\ src = source
  <2>1. cfg.stages \in Seq(Stage)
    BY PipelinesAreValid
  <2>2. PICK a : a = Key(src, cfg.stages, k, cfg)
    OBVIOUS
  <2>3. a[1] = src /\ a[3] = cfg
    BY <2>1, <2>2, KeyIs
  <2>4. a = Key(source, spec, k, config)
    BY <1>1, <1>6, <1>9, <2>2
  <2>5. a[1] = source /\ a[3] = config
    BY <1>4, <2>4, KeyIs
  <2>6. QED  BY <2>3, <2>5
<1>11. spec = config.stages
  <2>1. config.stages # <<>>
    <3>1. k \in 1..(Len(config.stages) - 1)
      BY <1>7, <1>10
    <3>2. ASSUME config.stages = <<>> PROVE FALSE
      <4>1. Len(config.stages) = 0
        BY <3>2
      <4>2. QED  BY <3>1, <4>1
    <3>3. QED  BY <3>2
  <2>2. QED  BY <1>2, <2>1, Resolved
<1>12. k \in 1..(Len(spec) - 1) /\ k < TerminalWriterStart(spec)
  BY <1>7, <1>10, <1>11
<1>13. ASSUME entries[k].paths \cap upset = {}
       PROVE  Made(artifacts[CHOOSE f \in entries[k].paths : TRUE], spec, k, source, config)
  <2>1. PICK f : f = CHOOSE f2 \in entries[k].paths : TRUE
    OBVIOUS
  <2>2. f \in entries[k].paths
    <3>1. \E g : g \in entries[k].paths
      BY <1>6, <1>9
    <3>2. QED  BY <2>1, <3>1
  <2>3. f \notin upset /\ f \in DOMAIN artifacts
    BY <1>1, <1>13, <2>2
  <2>4. Tells(k, entries[k], f)
    BY <1>1, <2>2 DEF Inv, IsTrue
  <2>5. Made(artifacts[f], entries[k].key[3].stages, k, entries[k].key[1], entries[k].key[3])
    BY <1>4, <2>3, <2>4 DEF Tells
  <2>6. entries[k].key[1] = source /\ entries[k].key[3] = config
    BY <1>1, <1>4, KeyIs
  <2>7. QED  BY <1>11, <2>1, <2>5, <2>6
<1>14. QED  BY <1>1, <1>12, <1>13

\* Before its terminal group a build has written no output.
LEMMA NoOutputsYet ==
    ASSUME Len(task.spec) \in Nat, task.at \in Nat, task.at <= Len(task.spec),
           TerminalWriterStart(task.spec) \in Nat, task.at <= TerminalWriterStart(task.spec)
    PROVE  OutputsBefore(task.at) = {}
<1>1. {l \in Finals(task.spec) : l < task.at} = {}
  BY DEF Finals
<1>2. QED  BY <1>1 DEF OutputsBefore

\* A build starts from the source, or from what it may resume from.
LEMMA BeginInv ==
    ASSUME Inv, NEW dir \in Dir, NEW to \in Targets, NEW force \in BOOLEAN, NEW dry \in BOOLEAN,
           Begin(dir, to, force, dry)
    PROVE  Inv'
<1> DEFINE Spec0  == Resolve(config, to)
           Kept0  == IF dry THEN outs ELSE CleanStale(dir, FinalOutputs(Spec0, dir))
           Hit0   == ~force /\ Fresh(0, Key(source, Spec0, Len(Spec0), config), Kept0)
           Res0   == IF ResumeAllowed(force) THEN Resumable(source, Spec0, config) ELSE {}
           From0  == IF Res0 = {} THEN 0 ELSE Furthest(Res0)
           Start0 == IF From0 = 0 THEN Raw(source, config)
                     ELSE artifacts[CHOOSE f \in entries[From0].paths : TRUE]
           Phase0 == IF Hit0 THEN "cached" ELSE IF dry THEN "dry" ELSE "running"
           Sound0 == From0 = 0 \/ entries[From0].paths \cap upset = {}
<1>1. /\ outs' = Kept0
      /\ task' = [phase |-> Phase0, spec |-> Spec0, src |-> source, cfg |-> config, dir |-> dir,
                  force |-> force, dry |-> dry, at |-> From0 + 1,
                  cur |-> Start0, ir |-> Nothing, done |-> {}, failed |-> {},
                  sound |-> Sound0, same |-> TRUE, wrote |-> TRUE, stored |-> {}]
  BY DEF Begin
<1>2. PICK spec : spec = Spec0
  OBVIOUS
<1>3. PICK kept : kept = Kept0
  OBVIOUS
<1>4. PICK hit \in BOOLEAN : hit = Hit0
  OBVIOUS
<1>5. PICK res : res = Res0
  OBVIOUS
<1>6. PICK from : from = From0
  OBVIOUS
<1> HIDE DEF Start0
<1>7. PICK start : start = Start0
  OBVIOUS
<1>8. PICK sound \in BOOLEAN : sound = Sound0
  OBVIOUS
<1>9. kept = IF dry THEN outs ELSE CleanStale(dir, FinalOutputs(spec, dir))
  BY <1>2, <1>3
<1>10. hit => Fresh(0, Key(source, spec, Len(spec), config), kept)
  BY <1>2, <1>3, <1>4
<1>11. res = IF ResumeAllowed(force) THEN Resumable(source, spec, config) ELSE {}
  BY <1>2, <1>5
<1>12. from = IF res = {} THEN 0 ELSE Furthest(res)
  BY <1>5, <1>6
<1>13. start = IF from = 0 THEN Raw(source, config)
              ELSE artifacts[CHOOSE f \in entries[from].paths : TRUE]
  BY <1>6, <1>7 DEF Start0
<1>14. sound = (from = 0 \/ entries[from].paths \cap upset = {})
  BY <1>6, <1>8
<1>15. spec = Resolve(config, to)
  BY <1>2
<1>16. PICK phase : phase = Phase0
  OBVIOUS
<1>17. phase = IF hit THEN "cached" ELSE IF dry THEN "dry" ELSE "running"
  BY <1>4, <1>16
<1> HIDE DEF Spec0, Kept0, Hit0, Res0, From0, Start0, Phase0, Sound0
<1>18. /\ command # "none" /\ outs' = kept
      /\ task' = [phase |-> phase, spec |-> spec, src |-> source, cfg |-> config, dir |-> dir,
                  force |-> force, dry |-> dry, at |-> from + 1,
                  cur |-> start, ir |-> Nothing, done |-> {}, failed |-> {},
                  sound |-> sound, same |-> TRUE, wrote |-> TRUE, stored |-> {}]
      /\ UNCHANGED <<world, source, config, artifacts, saved, entries, command, other, upset>>
  <2>1. /\ command # "none"
        /\ UNCHANGED <<world, source, config, artifacts, saved, entries, command, other, upset>>
    BY DEF Begin, aside
  <2>2. QED  BY <1>1, <1>2, <1>3, <1>6, <1>7, <1>8, <1>16, <2>1
<1>19. /\ DOMAIN task' = Fields
      /\ task'.phase = (IF hit THEN "cached" ELSE IF dry THEN "dry" ELSE "running")
      /\ task'.spec = spec /\ task'.src = source /\ task'.cfg = config /\ task'.dir = dir
      /\ task'.force = force /\ task'.dry = dry /\ task'.at = from + 1 /\ task'.cur = start
      /\ task'.ir = Nothing /\ task'.done = {} /\ task'.failed = {} /\ task'.sound = sound
      /\ task'.same = TRUE /\ task'.wrote = TRUE /\ task'.stored = {}
  BY <1>18, <1>17 DEF Fields
<1>20. config \in Config /\ source \in Content
  BY DEF Inv, TypeOK, Config
<1>21. PICK t : t = TerminalWriterStart(spec)
  OBVIOUS
<1>22. Valid(spec) /\ Len(spec) \in Nat /\ Len(spec) >= 2 /\ t \in 2..(Len(spec) + 1)
  BY <1>15, <1>20, <1>21, Resolved, ValidStages
<1>23. from = 0 \/ (from \in Resumable(source, spec, config) /\ ResumeAllowed(force))
  <2>1. CASE res = {}
    BY <1>12, <2>1
  <2>2. CASE res # {}
    <3>1. res = Resumable(source, spec, config) /\ ResumeAllowed(force)
      BY <1>11, <2>2
    <3>2. res \subseteq 0..Len(spec)
      BY <1>22, <3>1 DEF Resumable
    <3>3. \E m \in res : \A k \in res : k <= m
      BY <1>22, <2>2, <3>2, Largest
    <3>4. Furthest(res) \in res
      BY <3>3 DEF Furthest
    <3>5. QED  BY <1>12, <2>2, <3>1, <3>4
  <2>3. QED  BY <2>1, <2>2
<1>24. from # 0 =>
         /\ from \in 1..(Len(spec) - 1) /\ from < t /\ ~IsReader(spec[from])
         /\ sound => Made(start, spec, from, source, config)
         /\ ~force /\ ~Batch
  BY <1>15, <1>13, <1>14, <1>21, <1>23, CheckpointIsMade DEF ResumeAllowed
<1>25. from = 0 => Made(start, spec, 0, source, config)
  BY <1>13, RawIsMade
<1>26. from \in 0..(Len(spec) - 1) /\ from + 1 <= t
  BY <1>22, <1>24
<1>27. TaskShape'
  <2>1. \E to2 \in Targets : spec = Resolve(config, to2)
    BY <1>15
  <2>2. force => sound
    BY <1>14, <1>24
  <2>3. from + 1 \in 1..(Len(spec) + 1)
    BY <1>22, <1>26
  <2>4. task'.phase \in {"cached", "dry", "running"} /\ (task'.phase = "running" => ~dry)
    BY <1>19
  <2>5. QED  BY <1>18, <1>19, <1>20, <2>1, <2>2, <2>3, <2>4 DEF TaskShape
<1>28. BatchStops'
  <2>1. Batch => task'.at = 1
    BY <1>19, <1>24
  <2>2. QED  BY <2>1 DEF BatchStops
<1>29. Flows'
  <2>1. ASSUME sound
        PROVE  /\ from + 1 = 1 => Made(start, spec, 0, source, config)
               /\ 1 < from + 1 =>
                    /\ ~IsReader(spec[(from + 1) - 1])
                    /\ Made(start, spec, (from + 1) - 1, source, config)
    <3>1. (from + 1) - 1 = from
      BY <1>26
    <3>2. QED  BY <1>24, <1>25, <1>26, <2>1, <3>1
  <2>2. ~(from + 1 > t)
    BY <1>22, <1>26
  <2>3. QED  BY <1>19, <1>21, <2>1, <2>2 DEF Flows, Clear
<1>30. ~dry => {f \in DOMAIN outs' : f[1] = dir} \subseteq FinalOutputs(spec, dir)
  BY <1>9, <1>18 DEF CleanStale, Drop
<1>31. Done'
  <2>1. OutputsBefore(task.at)'  = {}
    <3>1. {l \in Finals(spec) : l < from + 1} = {}
      BY <1>21, <1>22, <1>26 DEF Finals
    <3>2. QED  BY <1>19, <3>1 DEF OutputsBefore
  <2>2. task'.phase \in {"running", "built"} => Cleaned'
    BY <1>19, <1>30 DEF Cleaned
  <2>3. QED  BY <1>19, <2>1, <2>2 DEF Done
<1>32. Stored'
  BY <1>19 DEF Stored
<1>33. Served'
  <2>1. ASSUME hit
        PROVE  /\ 0 \in DOMAIN entries
               /\ entries[0].key = Key(source, spec, Len(spec), config)
               /\ entries[0].paths \subseteq DOMAIN kept
    BY <1>10, <2>1 DEF Fresh
  <2>2. QED  BY <1>18, <1>19, <1>30, <2>1 DEF Served, Cleaned
<1>34. TaskInv'
  BY <1>27, <1>28, <1>29, <1>31, <1>32, <1>33 DEF TaskInv
<1>35. OutsKept /\ ArtifactsKept
  BY <1>9, <1>18 DEF OutsKept, ArtifactsKept, CleanStale, Drop
<1>36. PICK e : e = entries
  OBVIOUS
<1>37. PICK s : s = saved
  OBVIOUS
<1>38. IsTrue(e)' /\ IsTrue(s)'
  <2>1. IsTrue(e) /\ IsTrue(s)
    BY <1>36, <1>37 DEF Inv
  <2>2. QED  BY <1>35, <2>1, StillTrue
<1>39. IsTrue(entries)' /\ IsTrue(saved)'
  <2>1. entries' = e /\ saved' = s
    BY <1>18, <1>36, <1>37
  <2>2. QED  BY <1>38, <2>1
<1>40. TypeOK'
  BY <1>18 DEF Inv, TypeOK
<1>41. QED  BY <1>34, <1>39, <1>40 DEF Inv

-----------------------------------------------------------------------------
(* The stages.                                                             *)

\* What is known of a build that is going on.
LEMMA TaskIs ==
    ASSUME Inv, task.phase # "idle"
    PROVE  /\ TaskShape /\ BatchStops /\ Flows /\ Done /\ Stored /\ Served
           /\ Valid(task.spec) /\ task.spec \in Seq(Stage)
           /\ Len(task.spec) \in Nat /\ Len(task.spec) >= 2
           /\ task.at \in 1..(Len(task.spec) + 1)
           /\ TerminalWriterStart(task.spec) \in 2..(Len(task.spec) + 1)
           /\ TerminalWriterStart(task.spec) > 2 => task.spec = task.cfg.stages
<1>1. task # Idle
  BY DEF Idle
<1>2. TaskShape /\ BatchStops /\ Flows /\ Done /\ Stored /\ Served
  BY <1>1 DEF Inv, TaskInv
<1>3. PICK to \in Targets : task.spec = Resolve(task.cfg, to)
  BY <1>2 DEF TaskShape
<1>4. PICK cfg \in Config : cfg = task.cfg
  BY <1>2 DEF TaskShape
<1>5. PICK spec : spec = task.spec
  OBVIOUS
<1>6. /\ Valid(spec)
      /\ TerminalWriterStart(spec) > 2 => spec = cfg.stages
  BY <1>3, <1>4, <1>5, Resolved
<1>7. spec \in Seq(Stage) /\ Len(spec) \in Nat /\ Len(spec) >= 2
  BY <1>6, ValidStages DEF Valid
<1>8. TerminalWriterStart(spec) \in 2..(Len(spec) + 1)
  BY <1>6, ValidStages
<1>9. QED  BY <1>2, <1>4, <1>5, <1>6, <1>7, <1>8 DEF TaskShape

\* The type of the state and the caches stay, when the caches are left alone.
LEMMA CachesStay ==
    ASSUME Inv, UNCHANGED <<world, source, config, saved, entries, other>>, OutsKept, ArtifactsKept
    PROVE  TypeOK' /\ IsTrue(entries)' /\ IsTrue(saved)'
<1>1. PICK e : e = entries
  OBVIOUS
<1>2. PICK s : s = saved
  OBVIOUS
<1>3. IsTrue(e)' /\ IsTrue(s)'
  <2>1. IsTrue(e) /\ IsTrue(s)
    BY <1>1, <1>2 DEF Inv
  <2>2. QED  BY <2>1, StillTrue
<1>4. IsTrue(entries)' /\ IsTrue(saved)'
  <2>1. entries' = e /\ saved' = s
    BY <1>1, <1>2
  <2>2. QED  BY <1>3, <2>1
<1>5. TypeOK'
  BY DEF Inv, TypeOK
<1>6. QED  BY <1>4, <1>5

\* A build that stops before its outputs, with no more than a torn one left, or after its
\* last one with nothing changed.
LEMMA StopsInv ==
    ASSUME Inv, task.phase = "running", Stop("failed"), OutsKept, upset \subseteq upset',
           UNCHANGED <<world, source, config, artifacts, saved, entries, command, other>>,
           OutputsBefore(task.at) = {} \/ (task.at = Len(task.spec) + 1 /\ outs' = outs)
    PROVE  Inv'
<1>1. TaskShape /\ Done /\ Stored
  BY TaskIs
<1>2. /\ DOMAIN task' = Fields /\ task'.phase = "failed"
      /\ task'.spec = task.spec /\ task'.src = task.src /\ task'.cfg = task.cfg
      /\ task'.dir = task.dir /\ task'.force = task.force /\ task'.dry = task.dry
      /\ task'.at = task.at /\ task'.done = task.done /\ task'.failed = task.failed
      /\ task'.sound = task.sound /\ task'.same = task.same
      /\ task'.wrote = task.wrote /\ task'.stored = task.stored
  BY <1>1 DEF Stop, TaskShape, Fields
<1>3. TaskShape'
  BY <1>1, <1>2 DEF TaskShape
<1>4. BatchStops' /\ Flows' /\ Served'
  BY <1>2 DEF BatchStops, Flows, Served
<1>5. Done'
  <2>1. OutputsBefore(task.at)' = OutputsBefore(task.at)
    BY <1>2 DEF OutputsBefore
  <2>2. task.done # {} => outs' = outs /\ \A f : IsCurrent(f)' <=> IsCurrent(f)
    BY <1>1, <1>2 DEF IsCurrent, Done
  <2>3. Clear' <=> Clear
    BY <1>2 DEF Clear
  <2>4. task.failed # {} => task.at = Len(task.spec) + 1
    BY <1>1 DEF Done
  <2>5. /\ task.done \cup task.failed = OutputsBefore(task.at)
        /\ \A f \in task.done : f \in DOMAIN outs /\ (Clear /\ f \notin task.failed => IsCurrent(f))
        /\ ~Clear => task.done \subseteq upset
    BY <1>1 DEF Done
  <2>6. QED  BY <1>2, <2>1, <2>2, <2>3, <2>4, <2>5 DEF Done
<1>6. Stored'
  BY <1>1, <1>2 DEF Stored, Clear
<1>7. ArtifactsKept
  BY DEF ArtifactsKept
<1>8. QED  BY <1>3, <1>4, <1>5, <1>6, <1>7, CachesStay DEF Inv, TaskInv

\* The outputs before the next position are those before this one, and that of a
\* terminal stage.
LEMMA OutputsNext ==
    ASSUME task.at \in 1..Len(task.spec), Len(task.spec) \in Nat, NEW n, n = task.at + 1
    PROVE  /\ task.at \notin Finals(task.spec) => OutputsBefore(n) = OutputsBefore(task.at)
           /\ task.at \in Finals(task.spec) =>
                 OutputsBefore(n) =
                     OutputsBefore(task.at) \cup {<<task.dir, task.spec[task.at].ext>>}
<1>1. PICK S : S = Finals(task.spec)
  OBVIOUS
<1>2. S \subseteq Nat /\ task.at \in Nat
  BY <1>1 DEF Finals
<1>3. CASE task.at \notin S
  <2>1. {l \in S : l < n} = {l \in S : l < task.at}
    <3>1. \A l \in S : l \in Nat /\ l # task.at
      BY <1>2, <1>3
    <3>2. \A l \in S : l < n <=> l < task.at
      BY <1>2, <3>1
    <3>3. QED  BY <3>2
  <2>2. QED  BY <1>1, <1>3, <2>1 DEF OutputsBefore
<1>4. CASE task.at \in S
  <2>1. {l \in S : l < n} = {l \in S : l < task.at} \cup {task.at}
    <3>1. \A l \in S : l < n <=> l < task.at \/ l = task.at
      BY <1>2
    <3>2. QED  BY <1>4, <3>1
  <2>2. OutputsBefore(n) = OutputsBefore(task.at) \cup {<<task.dir, task.spec[task.at].ext>>}
    BY <1>1, <2>1 DEF OutputsBefore
  <2>3. QED  BY <1>1, <1>4, <2>2
<1>5. QED  BY <1>1, <1>3, <1>4

\* The stage that is to run.
LEMMA StageIs ==
    ASSUME Inv, task.phase = "running", task.at <= Len(task.spec)
    PROVE  /\ task.at \in 1..Len(task.spec) /\ Current \in Stage
           /\ ~InTerminalGroup <=> task.at < TerminalWriterStart(task.spec)
           /\ InTerminalGroup => IsWriter(Current)
           /\ IsReader(Current) => task.at < Len(task.spec) /\ ~InTerminalGroup
           /\ IsWriter(Current) /\ ~InTerminalGroup => task.at < Len(task.spec)
           /\ task.at = 1 \/ task.at - 1 \in 1..Len(task.spec)
           /\ ~IsReader(Current) => task.at > 1
           /\ task.at > 1 /\ ~IsWriter(Current) => ~IsReader(task.spec[task.at - 1])
           /\ task.at > 1 /\ IsWriter(Current) /\ (~InTerminalGroup \/
                 task.at = TerminalWriterStart(task.spec)) =>
                    ~IsWriter(task.spec[task.at - 1])
           /\ task.at > 1 => task.spec[task.at - 1] \in Stage
           /\ task.at = 2 => IsWriter(Current)
<1>1. PICK spec : spec = task.spec
  OBVIOUS
<1>2. PICK at : at = task.at
  OBVIOUS
<1>3. PICK t : t = TerminalWriterStart(spec)
  OBVIOUS
<1>4. Valid(spec) /\ at \in 1..Len(spec) /\ Len(spec) \in Nat /\ t \in 2..(Len(spec) + 1)
  BY <1>1, <1>2, <1>3, TaskIs
<1>5. /\ \A k \in 1..Len(spec) : spec[k] \in Stage
      /\ IsReader(spec[1]) /\ IsWriter(spec[2])
      /\ \A k \in 1..Len(spec) : IsReader(spec[k]) => k < Len(spec) /\ IsWriter(spec[k + 1])
      /\ \A k \in t..Len(spec) : IsWriter(spec[k])
      /\ \A k \in 1..Len(spec) : IsWriter(spec[k]) /\ k < t =>
            k < Len(spec) /\ ~IsWriter(spec[k + 1]) /\ ~IsWriter(spec[k - 1])
      /\ ~IsWriter(spec[t - 1])
  BY <1>3, <1>4, ValidStages
<1>6. /\ InTerminalGroup <=> at >= t
      /\ Current = spec[at]
  BY <1>1, <1>2, <1>3 DEF InTerminalGroup, Current
<1>7. /\ at = 1 \/ at - 1 \in 1..Len(spec)
      /\ at > 1 => spec[at - 1] \in Stage
  BY <1>4, <1>5
<1>8. at > 1 /\ ~IsWriter(spec[at]) => ~IsReader(spec[at - 1])
  <2>1. at > 1 => at - 1 \in 1..Len(spec) /\ (at - 1) + 1 = at
    BY <1>4
  <2>2. QED  BY <1>5, <2>1
<1>9. IsReader(spec[at]) => at < Len(spec) /\ at < t
  <2>1. ~(IsReader(spec[at]) /\ IsWriter(spec[at]))
    BY <1>4, <1>5, Kinds
  <2>2. QED  BY <1>4, <1>5, <2>1
<1>10. ~IsReader(spec[at]) => at > 1
  BY <1>4, <1>5
<1>11. /\ InTerminalGroup => IsWriter(spec[at])
       /\ IsWriter(spec[at]) /\ ~InTerminalGroup => at < Len(spec) /\ ~IsWriter(spec[at - 1])
       /\ at = t => ~IsWriter(spec[at - 1])
  BY <1>4, <1>5, <1>6
<1>12. ~InTerminalGroup <=> at < t
  BY <1>4, <1>6
<1>13. at = 2 => IsWriter(spec[at])
  BY <1>5
<1>14. QED  BY <1>1, <1>2, <1>3, <1>4, <1>5, <1>6, <1>7, <1>8, <1>9, <1>10, <1>11, <1>12, <1>13

\* What a reader makes of the source, or of the file of the stage before, has gone through
\* the stages up to it.
LEMMA RunReaderInv ==
    ASSUME Inv, RunReader
    PROVE  Inv'
<1>1. /\ task.phase = "running" /\ task.at <= Len(task.spec) /\ Current.kind = "reader"
      /\ UNCHANGED <<world, source, config, outs, artifacts, saved, entries, command, other, upset>>
  BY DEF RunReader, Running, Current, disk, aside
<1>2. /\ TaskShape /\ BatchStops /\ Flows /\ Done /\ Stored
      /\ Len(task.spec) \in Nat /\ task.spec \in Seq(Stage)
      /\ TerminalWriterStart(task.spec) \in 2..(Len(task.spec) + 1)
  BY <1>1, TaskIs
<1>3. /\ task.at \in 1..Len(task.spec) /\ IsReader(Current) /\ ~IsWriter(Current)
      /\ task.at < Len(task.spec) /\ task.at < TerminalWriterStart(task.spec)
      /\ task.at > 1 => ~IsReader(task.spec[task.at - 1]) /\ task.at # 2
  <2>1. Current \in Stage
    BY <1>1, StageIs
  <2>2. IsReader(Current) /\ ~IsWriter(Current)
    BY <1>1, <2>1, Kinds
  <2>3. QED  BY <1>1, <2>2, StageIs
<1>4. PICK input : input = IF Batch \/ task.at = 1 THEN Raw(source, task.cfg) ELSE task.cur
  OBVIOUS
<1>5. PICK ir : ir = Apply(Current, input)
  OBVIOUS
<1>6. PICK same \in BOOLEAN :
        same <=> task.same /\ (Batch \/ task.at = 1 => source = task.src)
  OBVIOUS
<1>7. task.same \in BOOLEAN /\ DOMAIN task = Fields
  BY <1>2 DEF TaskShape
<1>8. task' = [task EXCEPT !.at = @ + 1, !.ir = ir, !.cur = Nothing, !.same = same]
  <2>1. same = (task.same /\ (Batch \/ task.at = 1 => source = task.src))
    BY <1>6, <1>7
  <2>2. task' = [task EXCEPT !.at = @ + 1, !.ir = Apply(Current, input), !.cur = Nothing,
                   !.same = @ /\ (Batch \/ task.at = 1 => source = task.src)]
    BY <1>4 DEF RunReader
  <2>3. QED  BY <1>5, <2>1, <2>2
<1>9. /\ DOMAIN task' = Fields /\ task'.phase = "running"
      /\ task'.spec = task.spec /\ task'.src = task.src /\ task'.cfg = task.cfg
      /\ task'.dir = task.dir /\ task'.force = task.force /\ task'.dry = task.dry
      /\ task'.at = task.at + 1 /\ task'.done = task.done /\ task'.failed = task.failed
      /\ task'.sound = task.sound /\ task'.same = same
      /\ task'.wrote = task.wrote /\ task'.stored = task.stored
      /\ task'.ir = ir /\ task'.cur = Nothing
  BY <1>1, <1>7, <1>8 DEF Fields
<1>10. TaskShape'
  <2>1. task.at + 1 \in 1..(Len(task.spec) + 1)
    BY <1>2, <1>3
  <2>2. QED  BY <1>1, <1>2, <1>9, <2>1 DEF TaskShape
<1>11. Batch => task.at = 1
  BY <1>1, <1>2, <1>3 DEF BatchStops
<1>12. BatchStops'
  <2>1. Batch => task.at + 1 = 2
    BY <1>11
  <2>2. QED  BY <1>9, <2>1 DEF BatchStops
<1>13. Clear' => Clear
  BY <1>6, <1>9 DEF Clear
<1>14. Clear' => Made(ir, task.spec, task.at, task.src, task.cfg)
  <2>1. SUFFICES ASSUME Clear' PROVE Made(ir, task.spec, task.at, task.src, task.cfg)
    OBVIOUS
  <2>2. Made(input, task.spec, task.at - 1, task.src, task.cfg)
    <3>1. CASE Batch \/ task.at = 1
      <4>1. source = task.src
        BY <1>6, <1>9, <2>1, <3>1 DEF Clear
      <4>2. task.at - 1 = 0 /\ input = Raw(source, task.cfg)
        BY <1>4, <1>11, <3>1
      <4>3. Made(Raw(source, task.cfg), task.spec, 0, source, task.cfg)
        BY RawIsMade
      <4>4. QED  BY <4>1, <4>2, <4>3
    <3>2. CASE ~(Batch \/ task.at = 1)
      <4>1. input = task.cur /\ task.at > 1
        BY <1>3, <1>4, <3>2
      <4>2. Made(task.cur, task.spec, task.at - 1, task.src, task.cfg)
        BY <1>1, <1>2, <1>3, <1>13, <2>1, <4>1 DEF Flows
      <4>3. QED  BY <4>1, <4>2
    <3>3. QED  BY <3>1, <3>2
  <2>3. QED  BY <1>2, <1>3, <1>5, <2>2, StageMakes DEF Current
<1>15. Flows'
  <2>1. (task.at + 1) - 1 = task.at /\ task.at + 1 # 1
        /\ ~(task.at + 1 > TerminalWriterStart(task.spec))
    BY <1>2, <1>3
  <2>2. IsReader(task.spec[task.at])
    BY <1>3 DEF Current
  <2>3. QED  BY <1>9, <1>14, <2>1, <2>2 DEF Flows
<1>16. OutputsBefore(task.at) = {} /\ OutputsBefore(task.at + 1) = {}
  <2>1. OutputsBefore(task.at) = {}
    BY <1>2, <1>3, NoOutputsYet
  <2>2. task.at \notin Finals(task.spec)
    BY <1>2, <1>3 DEF Finals
  <2>3. QED  BY <1>2, <1>3, <2>1, <2>2, OutputsNext
<1>17. Done'
  <2>1. task.done = {} /\ task.failed = {}
    BY <1>1, <1>2, <1>16 DEF Done
  <2>2. OutputsBefore(task.at)' = {}
    BY <1>9, <1>16 DEF OutputsBefore
  <2>3. Cleaned'
    BY <1>1, <1>2, <1>9 DEF Done, Cleaned
  <2>4. QED  BY <1>9, <2>1, <2>2, <2>3 DEF Done
<1>18. Stored'
  <2>1. \A f \in task.stored :
           /\ f[1] \in 1..(task.at - 1) /\ f \in DOMAIN artifacts /\ f[1] \in DOMAIN entries
           /\ entries[f[1]] = [key   |-> Key(task.src, task.spec, f[1], task.cfg), paths |-> {f}]
           /\ task.spec = task.cfg.stages
           /\ Clear => Made(artifacts[f], task.spec, f[1], task.src, task.cfg)
    BY <1>2 DEF Stored
  <2>2. \A f \in task.stored : f[1] \in 1..(task'.at - 1)
    <3>1. task.at \in Nat /\ task'.at - 1 = task.at
      BY <1>2, <1>3, <1>9
    <3>2. 1..(task.at - 1) \subseteq 1..task.at
      BY <3>1
    <3>3. QED  BY <2>1, <3>1, <3>2
  <2>3. ASSUME NEW f \in task'.stored
        PROVE  /\ f[1] \in 1..(task'.at - 1) /\ f \in DOMAIN artifacts' /\ f[1] \in DOMAIN entries'
               /\ entries'[f[1]] = [key   |-> Key(task'.src, task'.spec, f[1], task'.cfg),
                                    paths |-> {f}]
               /\ task'.spec = task'.cfg.stages
               /\ Clear' => Made(artifacts'[f], task'.spec, f[1], task'.src, task'.cfg)
    BY <1>1, <1>9, <1>13, <2>1, <2>2
  <2>4. QED  BY <2>3 DEF Stored
<1>19. Served'
  BY <1>9 DEF Served
<1>20. OutsKept /\ ArtifactsKept
  BY <1>1 DEF OutsKept, ArtifactsKept
<1>21. QED  BY <1>1, <1>10, <1>12, <1>15, <1>17, <1>18, <1>19, <1>20, CachesStay DEF Inv, TaskInv

\* What the writers of the terminal group write, the last stage before it has made.
LEMMA GroupInput ==
    ASSUME Inv, task.phase = "running", task.at <= Len(task.spec), InTerminalGroup,
           Clear, task.ir # Nothing
    PROVE  Made(task.ir, task.spec, TerminalWriterStart(task.spec) - 1, task.src, task.cfg)
<1>1. PICK t : t = TerminalWriterStart(task.spec)
  OBVIOUS
<1>2. Flows /\ t \in 2..(Len(task.spec) + 1) /\ Len(task.spec) \in Nat
  BY <1>1, TaskIs
<1>3. task.at \in 1..Len(task.spec) /\ task.at >= t
  BY <1>1, StageIs DEF InTerminalGroup
<1>4. CASE task.at = t
  <2>1. IsWriter(Current) /\ task.at > 1
    BY <1>2, <1>4, StageIs
  <2>2. task.spec[task.at - 1] \in Stage /\ ~IsWriter(task.spec[task.at - 1])
    BY <1>1, <1>4, <2>1, StageIs
  <2>3. IF IsReader(task.spec[task.at - 1])
        THEN Made(task.ir, task.spec, task.at - 1, task.src, task.cfg)
        ELSE task.ir = Nothing
    BY <1>1, <1>2, <1>4, <2>1 DEF Flows
  <2>4. QED  BY <1>1, <1>4, <2>3
<1>5. CASE task.at > t
  BY <1>1, <1>2, <1>5 DEF Flows
<1>6. QED  BY <1>2, <1>3, <1>4, <1>5

\* The task after a stage of the terminal group: only its position, and the file among
\* those written or those that failed.
LEMMA GroupStep ==
    ASSUME Inv, task.phase = "running", task.at <= Len(task.spec), InTerminalGroup,
           DOMAIN task' = Fields, task'.phase = "running",
           task'.spec = task.spec, task'.src = task.src, task'.cfg = task.cfg,
           task'.dir = task.dir, task'.force = task.force, task'.dry = task.dry,
           task'.at = task.at + 1, task'.ir = task.ir,
           task'.sound = task.sound, task'.same = task.same, task'.wrote = task.wrote,
           task'.stored = task.stored,
           task'.done \cup task'.failed = task.done \cup task.failed \cup {FinalFile},
           \A f \in task'.done :
              f \in DOMAIN outs' /\ (Clear /\ f \notin task'.failed => IsCurrent(f)'),
           ~Clear => task'.done \subseteq upset',
           upset \subseteq upset', DOMAIN outs' \subseteq DOMAIN outs \cup {FinalFile},
           UNCHANGED <<world, artifacts, entries, command>>
    PROVE  TaskInv'
<1>1. /\ TaskShape /\ Done /\ Stored
      /\ Len(task.spec) \in Nat
      /\ TerminalWriterStart(task.spec) \in 2..(Len(task.spec) + 1) /\ Valid(task.spec)
  BY TaskIs
<1>2. task.at \in 1..Len(task.spec) /\ task.at >= TerminalWriterStart(task.spec)
  BY StageIs DEF InTerminalGroup
<1>3. TaskShape'
  <2>1. task.at + 1 \in 1..(Len(task.spec) + 1)
    BY <1>1, <1>2
  <2>2. QED  BY <1>1, <2>1 DEF TaskShape
<1>4. /\ task'.at > TerminalWriterStart(task.spec) /\ task'.at # 1
      /\ ~(task'.at <= TerminalWriterStart(task.spec))
  BY <1>1, <1>2
<1>5. BatchStops'
  BY <1>4 DEF BatchStops
<1>6. Clear' <=> Clear
  BY DEF Clear
<1>7. Flows'
  <2>1. Clear /\ task.ir # Nothing =>
          Made(task.ir, task.spec, TerminalWriterStart(task.spec) - 1, task.src, task.cfg)
    BY GroupInput
  <2>2. QED  BY <1>4, <1>6, <2>1 DEF Flows
<1>8. Finals(task.spec) # {} /\ task.at \in Finals(task.spec)
  BY <1>2 DEF Finals
<1>9. OutputsBefore(task.at)' = OutputsBefore(task.at) \cup {FinalFile}
  <2>1. OutputsBefore(task.at + 1) = OutputsBefore(task.at) \cup {FinalFile}
    BY <1>1, <1>2, <1>8, OutputsNext DEF FinalFile, Current
  <2>2. OutputsBefore(task.at)' = OutputsBefore(task.at + 1)
    BY DEF OutputsBefore
  <2>3. QED  BY <2>1, <2>2
<1>10. Cleaned'
  <2>1. FinalFile \in FinalOutputs(task.spec, task.dir)
    BY <1>1, <1>8, FinalOutputsAre DEF FinalFile, Current
  <2>2. QED  BY <1>1, <2>1 DEF Done, Cleaned
<1>11. Done'
  <2>1. task'.done \cup task'.failed = OutputsBefore(task.at)'
    BY <1>1, <1>9 DEF Done
  <2>2. QED  BY <1>6, <1>10, <2>1 DEF Done
<1>12. Stored'
  <2>1. \A f \in task.stored :
           /\ f[1] \in 1..(task.at - 1) /\ f \in DOMAIN artifacts /\ f[1] \in DOMAIN entries
           /\ entries[f[1]] = [key   |-> Key(task.src, task.spec, f[1], task.cfg), paths |-> {f}]
           /\ task.spec = task.cfg.stages
           /\ Clear => Made(artifacts[f], task.spec, f[1], task.src, task.cfg)
    BY <1>1 DEF Stored
  <2>2. \A f \in task.stored : f[1] \in 1..(task'.at - 1)
    <3>1. task.at \in Nat /\ task'.at - 1 = task.at
      BY <1>1, <1>2
    <3>2. 1..(task.at - 1) \subseteq 1..task.at
      BY <3>1
    <3>3. QED  BY <2>1, <3>1, <3>2
  <2>3. QED  BY <1>6, <2>1, <2>2 DEF Stored
<1>13. Served'
  BY DEF Served
<1>14. QED  BY <1>3, <1>5, <1>7, <1>11, <1>12, <1>13 DEF TaskInv

\* A file that is written is accounted for only if it is as it was.
LEMMA OutputWritten ==
    ASSUME NEW f, NEW v, NEW wrote \in BOOLEAN, outs' = Put(outs, f, v),
           Unaccounted(f, outs, outs', wrote), UNCHANGED artifacts
    PROVE  /\ OutsKept /\ ArtifactsKept /\ upset \subseteq upset'
           /\ f \in DOMAIN outs' /\ outs'[f] = v /\ ((Clear /\ wrote) \/ f \in upset')
           /\ DOMAIN outs' = DOMAIN outs \cup {f}
           /\ \A g \in DOMAIN outs : g # f => outs'[g] = outs[g]
<1>1. /\ DOMAIN outs' = DOMAIN outs \cup {f} /\ outs'[f] = v
      /\ \A g \in DOMAIN outs : g # f => outs'[g] = outs[g]
  BY DEF Put
<1>2. \/ f \in DOMAIN outs /\ outs[f] = outs'[f] /\ Clear /\ wrote /\ upset' = upset
      \/ upset' = upset \cup {f}
  BY DEF Unaccounted
<1>3. OutsKept
  BY <1>1, <1>2 DEF OutsKept
<1>4. ArtifactsKept
  BY <1>2 DEF ArtifactsKept
<1>5. QED  BY <1>1, <1>2, <1>3, <1>4

\* An output is what the pipeline makes, or upset names it.
LEMMA RunTerminalWriterInv ==
    ASSUME Inv, RunTerminalWriter
    PROVE  Inv'
<1>1. /\ task.phase = "running" /\ task.at <= Len(task.spec) /\ Current.kind = "writer"
      /\ InTerminalGroup /\ task.ir # Nothing
      /\ Unaccounted(FinalFile, outs, outs', TRUE)
      /\ task' = [task EXCEPT !.at = @ + 1, !.done = @ \cup {FinalFile}]
      /\ UNCHANGED <<world, source, config, artifacts, saved, entries, command, other>>
  BY DEF RunTerminalWriter, Running, Current, disk, aside
<1>2. TaskShape /\ Done /\ Valid(task.spec) /\ Len(task.spec) \in Nat
  BY <1>1, TaskIs
<1>3. PICK v : v = Apply(Current, task.ir)
  OBVIOUS
<1>4. PICK F : F = FinalFile
  OBVIOUS
<1>5. outs' = Put(outs, F, v) /\ Unaccounted(F, outs, outs', TRUE) /\ artifacts' = artifacts
  BY <1>1, <1>3, <1>4 DEF RunTerminalWriter
<1>6. /\ OutsKept /\ ArtifactsKept /\ upset \subseteq upset'
      /\ F \in DOMAIN outs' /\ outs'[F] = v /\ (~Clear => F \in upset')
      /\ DOMAIN outs' = DOMAIN outs \cup {F}
      /\ \A g \in DOMAIN outs : g # F => outs'[g] = outs[g]
  BY <1>5, OutputWritten
<1>7. /\ DOMAIN task' = Fields /\ task'.phase = "running"
      /\ task'.spec = task.spec /\ task'.src = task.src /\ task'.cfg = task.cfg
      /\ task'.dir = task.dir /\ task'.force = task.force /\ task'.dry = task.dry
      /\ task'.at = task.at + 1 /\ task'.done = task.done \cup {F}
      /\ task'.failed = task.failed /\ task'.ir = task.ir
      /\ task'.sound = task.sound /\ task'.same = task.same
      /\ task'.wrote = task.wrote /\ task'.stored = task.stored
  <2>1. DOMAIN task = Fields
    BY <1>2 DEF TaskShape
  <2>2. task' = [task EXCEPT !.at = @ + 1, !.done = @ \cup {F}]
    BY <1>1, <1>4
  <2>3. QED  BY <1>1, <2>1, <2>2 DEF Fields
<1>8. Clear => IsResult(F[2], v, task.spec, task.src, task.cfg)
  <2>1. SUFFICES ASSUME Clear PROVE IsResult(F[2], v, task.spec, task.src, task.cfg)
    OBVIOUS
  <2>2. Made(task.ir, task.spec, TerminalWriterStart(task.spec) - 1, task.src, task.cfg)
    BY <1>1, <2>1, GroupInput
  <2>3. task.at \in 1..Len(task.spec) /\ task.at >= TerminalWriterStart(task.spec)
    BY <1>1, StageIs DEF InTerminalGroup
  <2>4. F[2] = task.spec[task.at].ext
    BY <1>4 DEF FinalFile, Current
  <2>5. IsResult(task.spec[task.at].ext, Apply(task.spec[task.at], task.ir), task.spec,
                 task.src, task.cfg)
    BY <1>2, <2>2, <2>3, WriterResult
  <2>6. v = Apply(task.spec[task.at], task.ir)
    BY <1>3 DEF Current
  <2>7. QED  BY <2>4, <2>5, <2>6
<1>9. \A f \in task'.done : f \in DOMAIN outs' /\ (Clear /\ f \notin task'.failed => IsCurrent(f)')
  <2>1. SUFFICES ASSUME NEW f \in task'.done
                 PROVE  f \in DOMAIN outs' /\ (Clear /\ f \notin task'.failed => IsCurrent(f)')
    OBVIOUS
  <2>2. CASE f = F
    BY <1>6, <1>7, <1>8, <2>2 DEF IsCurrent
  <2>3. CASE f # F
    <3>1. f \in task.done
      BY <1>7, <2>1, <2>3
    <3>2. f \in DOMAIN outs /\ (Clear /\ f \notin task.failed => IsCurrent(f))
      BY <1>1, <1>2, <3>1 DEF Done
    <3>3. QED  BY <1>6, <1>7, <2>3, <3>2 DEF IsCurrent
  <2>4. QED  BY <2>2, <2>3
<1>10. ~Clear => task'.done \subseteq upset'
  BY <1>1, <1>2, <1>6, <1>7 DEF Done
<1>11. TaskInv'
  BY <1>1, <1>4, <1>6, <1>7, <1>9, <1>10, GroupStep
<1>12. QED  BY <1>1, <1>6, <1>11, CachesStay DEF Inv

-----------------------------------------------------------------------------
(* Stages that fail.                                                       *)

\* A stage before the terminal group, or the last exec, that fails ends the build.
LEMMA EarlyStopInv ==
    ASSUME Inv, task.phase = "running", task.at <= Len(task.spec), Stop("failed"),
           ~InTerminalGroup, OutsKept, upset \subseteq upset',
           UNCHANGED <<world, source, config, artifacts, saved, entries, command, other>>
    PROVE  Inv'
<1>1. /\ task.at \in 1..Len(task.spec) /\ Len(task.spec) \in Nat
      /\ TerminalWriterStart(task.spec) \in 2..(Len(task.spec) + 1)
      /\ task.at < TerminalWriterStart(task.spec)
  BY TaskIs, StageIs
<1>2. OutputsBefore(task.at) = {}
  BY <1>1, NoOutputsYet
<1>3. QED  BY <1>2, StopsInv

\* A reader is before the terminal group.
LEMMA ReaderFailsInv ==
    ASSUME Inv, ReaderFails
    PROVE  Inv'
<1>1. /\ task.phase = "running" /\ task.at <= Len(task.spec) /\ Current.kind = "reader"
      /\ Stop("failed")
      /\ UNCHANGED <<world, source, config, outs, artifacts, saved, entries, command, other, upset>>
  BY DEF ReaderFails, Running, Current, disk, aside
<1>2. ~InTerminalGroup
  <2>1. Current \in Stage
    BY <1>1, StageIs
  <2>2. IsReader(Current)
    BY <1>1, <2>1, Kinds
  <2>3. QED  BY <1>1, <2>2, StageIs
<1>3. OutsKept
  BY <1>1 DEF OutsKept
<1>4. QED  BY <1>1, <1>2, <1>3, EarlyStopInv

\* What a stage that fails may leave is a torn output, which upset names.
LEMMA TornKept ==
    ASSUME MayTear \/ UNCHANGED <<outs, upset>>
    PROVE  /\ OutsKept /\ upset \subseteq upset'
           /\ DOMAIN outs \subseteq DOMAIN outs' /\ DOMAIN outs' \subseteq DOMAIN outs \cup {FinalFile}
           /\ \A g \in DOMAIN outs : g # FinalFile => outs'[g] = outs[g]
<1>1. CASE UNCHANGED <<outs, upset>>
  BY <1>1 DEF OutsKept
<1>2. CASE ~UNCHANGED <<outs, upset>>
  <2>1. PICK F : F = FinalFile
    OBVIOUS
  <2>2. outs' = Put(outs, F, Torn) /\ upset' = upset \cup {F}
    BY <1>2, <2>1 DEF MayTear
  <2>3. /\ DOMAIN outs' = DOMAIN outs \cup {F}
        /\ \A g \in DOMAIN outs : g # F => outs'[g] = outs[g]
    BY <2>2 DEF Put
  <2>4. QED  BY <2>1, <2>2, <2>3 DEF OutsKept
<1>3. QED  BY <1>1, <1>2

\* An exec is before the terminal group, or the last stage of all.
LEMMA ExecFailsInv ==
    ASSUME Inv, ExecFails
    PROVE  Inv'
<1>1. /\ task.phase = "running" /\ task.at <= Len(task.spec) /\ Current.kind = "exec"
      /\ Stop("failed") /\ (MayTear \/ UNCHANGED <<outs, upset>>)
      /\ UNCHANGED <<world, source, config, artifacts, saved, entries, command, other>>
  BY DEF ExecFails, Running, Current, aside
<1>2. ~InTerminalGroup
  <2>1. Current \in Stage
    BY <1>1, StageIs
  <2>2. ~IsWriter(Current)
    BY <1>1, <2>1, Kinds
  <2>3. QED  BY <1>1, <2>2, StageIs
<1>3. OutsKept /\ upset \subseteq upset'
  BY <1>1, TornKept
<1>4. QED  BY <1>1, <1>2, <1>3, EarlyStopInv

\* A failure in a fan-out is reported and the group goes on; one writer alone ends the build
\* before it has written anything.
LEMMA WriterFailsInv ==
    ASSUME Inv, WriterFails
    PROVE  Inv'
<1>1. /\ task.phase = "running" /\ task.at <= Len(task.spec)
      /\ MayTear \/ UNCHANGED <<outs, upset>>
      /\ UNCHANGED <<world, source, config, artifacts, saved, entries, command, other>>
  BY DEF WriterFails, Running, aside
<1>2. /\ TaskShape /\ Done /\ Len(task.spec) \in Nat
      /\ TerminalWriterStart(task.spec) \in 2..(Len(task.spec) + 1)
  BY <1>1, TaskIs
<1>3. /\ OutsKept /\ ArtifactsKept /\ upset \subseteq upset'
      /\ DOMAIN outs \subseteq DOMAIN outs' /\ DOMAIN outs' \subseteq DOMAIN outs \cup {FinalFile}
      /\ \A g \in DOMAIN outs : g # FinalFile => outs'[g] = outs[g]
  <2>1. ArtifactsKept
    BY <1>1, TornKept DEF ArtifactsKept
  <2>2. QED  BY <1>1, <2>1, TornKept
<1>4. CASE ~InTerminalGroup
  <2>1. Stop("failed")
    BY <1>4 DEF WriterFails
  <2>2. QED  BY <1>1, <1>3, <1>4, <2>1, EarlyStopInv
<1>5. CASE InTerminalGroup /\ ~FanOut
  <2>1. Stop("failed")
    BY <1>5 DEF WriterFails, FailTerminalWriter
  <2>2. task.at \in 1..Len(task.spec) /\ task.at = TerminalWriterStart(task.spec)
    <3>1. task.at \in 1..Len(task.spec)
      BY <1>1, StageIs
    <3>2. QED  BY <1>2, <1>5, <3>1 DEF InTerminalGroup, FanOut
  <2>3. OutputsBefore(task.at) = {}
    BY <1>2, <2>2, NoOutputsYet
  <2>4. QED  BY <1>1, <1>3, <2>1, <2>3, StopsInv
<1>6. CASE InTerminalGroup /\ FanOut
  <2>1. PICK F : F = FinalFile
    OBVIOUS
  <2>2. task' = [task EXCEPT !.at = @ + 1, !.failed = @ \cup {F}]
    BY <1>6, <2>1 DEF WriterFails, FailTerminalWriter
  <2>3. /\ DOMAIN task' = Fields /\ task'.phase = "running"
        /\ task'.spec = task.spec /\ task'.src = task.src /\ task'.cfg = task.cfg
        /\ task'.dir = task.dir /\ task'.force = task.force /\ task'.dry = task.dry
        /\ task'.at = task.at + 1 /\ task'.done = task.done
        /\ task'.failed = task.failed \cup {F} /\ task'.ir = task.ir
        /\ task'.sound = task.sound /\ task'.same = task.same
      /\ task'.wrote = task.wrote /\ task'.stored = task.stored
    <3>1. DOMAIN task = Fields
      BY <1>2 DEF TaskShape
    <3>2. QED  BY <1>1, <2>2, <3>1 DEF Fields
  <2>4. /\ \A f \in task.done : f \in DOMAIN outs /\ (Clear /\ f \notin task.failed => IsCurrent(f))
        /\ ~Clear => task.done \subseteq upset
    BY <1>1, <1>2 DEF Done
  <2>5. \A f \in task'.done : f \in DOMAIN outs' /\ (Clear /\ f \notin task'.failed => IsCurrent(f)')
    <3>1. SUFFICES ASSUME NEW f \in task'.done
                   PROVE  f \in DOMAIN outs' /\ (Clear /\ f \notin task'.failed => IsCurrent(f)')
      OBVIOUS
    <3>2. f \in DOMAIN outs /\ f \in DOMAIN outs'
      BY <1>3, <2>3, <2>4, <3>1
    <3>3. f \notin task'.failed => (IsCurrent(f)' <=> IsCurrent(f)) /\ f \notin task.failed
      BY <1>3, <2>1, <2>3, <3>2 DEF IsCurrent
    <3>4. QED  BY <2>3, <2>4, <3>1, <3>2, <3>3
  <2>6. TaskInv'
    BY <1>1, <1>3, <1>6, <2>1, <2>3, <2>4, <2>5, GroupStep
  <2>7. QED  BY <1>1, <1>3, <2>6, CachesStay DEF Inv
<1>7. QED  BY <1>4, <1>5, <1>6

-----------------------------------------------------------------------------
(* Checkpoints.                                                            *)

\* A checkpoint that is written is accounted for only if it is as it was.
LEMMA CheckpointWritten ==
    ASSUME NEW f, NEW v, artifacts' = Put(artifacts, f, v),
           NEW wrote \in BOOLEAN, Unaccounted(f, artifacts, artifacts', wrote), UNCHANGED outs
    PROVE  /\ OutsKept /\ ArtifactsKept /\ upset \subseteq upset'
           /\ f \in DOMAIN artifacts' /\ artifacts'[f] = v /\ ((Clear /\ wrote) \/ f \in upset')
           /\ DOMAIN artifacts' = DOMAIN artifacts \cup {f}
           /\ \A g \in DOMAIN artifacts : g # f => artifacts'[g] = artifacts[g]
<1>1. /\ DOMAIN artifacts' = DOMAIN artifacts \cup {f} /\ artifacts'[f] = v
      /\ \A g \in DOMAIN artifacts : g # f => artifacts'[g] = artifacts[g]
  BY DEF Put
<1>2. \/ f \in DOMAIN artifacts /\ artifacts[f] = artifacts'[f] /\ Clear /\ wrote /\ upset' = upset
      \/ upset' = upset \cup {f}
  BY DEF Unaccounted
<1>3. OutsKept
  BY <1>2 DEF OutsKept
<1>4. ArtifactsKept
  BY <1>1, <1>2 DEF ArtifactsKept
<1>5. QED  BY <1>1, <1>2, <1>3, <1>4

\* The checkpoints made earlier are where they were.
LEMMA StoredStay ==
    ASSUME Inv, task.phase = "running", task.at <= Len(task.spec), NEW ext,
           DOMAIN artifacts \subseteq DOMAIN artifacts',
           \A g \in DOMAIN artifacts : g # <<task.at, ext>> => artifacts'[g] = artifacts[g],
           DOMAIN entries \subseteq DOMAIN entries',
           \A k \in DOMAIN entries : k # task.at => entries'[k] = entries[k]
    PROVE  \A f \in task.stored :
              /\ f[1] \in 1..(task.at - 1) /\ f \in DOMAIN artifacts' /\ f[1] \in DOMAIN entries'
              /\ entries'[f[1]] = [key   |-> Key(task.src, task.spec, f[1], task.cfg),
                                   paths |-> {f}]
              /\ task.spec = task.cfg.stages
              /\ Clear => Made(artifacts'[f], task.spec, f[1], task.src, task.cfg)
<1>1. Stored /\ task.at \in Nat
  <2>1. task.at \in 1..Len(task.spec)
    BY StageIs
  <2>2. QED  BY <2>1, TaskIs
<1>2. \A f \in task.stored :
           /\ f[1] \in 1..(task.at - 1) /\ f \in DOMAIN artifacts /\ f[1] \in DOMAIN entries
           /\ entries[f[1]] = [key   |-> Key(task.src, task.spec, f[1], task.cfg), paths |-> {f}]
           /\ task.spec = task.cfg.stages
           /\ Clear => Made(artifacts[f], task.spec, f[1], task.src, task.cfg)
  BY <1>1 DEF Stored
<1>3. ASSUME NEW f \in task.stored
      PROVE  entries'[f[1]] = entries[f[1]] /\ artifacts'[f] = artifacts[f]
  <2>1. f[1] \in 1..(task.at - 1)
    BY <1>2
  <2>2. f[1] # task.at
    BY <1>1, <2>1
  <2>3. PICK h : h = <<task.at, ext>>
    OBVIOUS
  <2>4. h[1] = task.at
    BY <2>3
  <2>5. f # <<task.at, ext>>
    BY <2>2, <2>3, <2>4
  <2>6. QED  BY <1>2, <2>2, <2>5
<1>4. QED  BY <1>2, <1>3

\* The checkpoint of a batch table is written and the build crashes.
LEMMA CheckpointCrashes ==
    ASSUME Inv, task.phase = "running", task.at <= Len(task.spec), Batch,
           NEW value, NEW ext, NEW wrote \in BOOLEAN, PersistCheckpoint(value, ext, wrote),
           UNCHANGED <<world, source, config, outs, saved, command, other>>
    PROVE  Inv'
<1>1. PICK F : F = <<task.at, ext>>
  OBVIOUS
<1>2. /\ artifacts' = Put(artifacts, F, value) /\ Unaccounted(F, artifacts, artifacts', wrote)
      /\ Stop("crashed") /\ entries' = entries
  BY <1>1 DEF PersistCheckpoint
<1>3. /\ OutsKept /\ ArtifactsKept /\ upset \subseteq upset'
      /\ DOMAIN artifacts' = DOMAIN artifacts \cup {F}
      /\ \A g \in DOMAIN artifacts : g # F => artifacts'[g] = artifacts[g]
  BY <1>2, CheckpointWritten
<1>4. TaskShape
  BY TaskIs
<1>5. /\ DOMAIN task' = Fields /\ task'.phase = "crashed"
      /\ task'.spec = task.spec /\ task'.src = task.src /\ task'.cfg = task.cfg
      /\ task'.dir = task.dir /\ task'.force = task.force /\ task'.dry = task.dry
      /\ task'.at = task.at /\ task'.sound = task.sound /\ task'.same = task.same
      /\ task'.wrote = task.wrote /\ task'.stored = task.stored
  BY <1>2, <1>4 DEF Stop, TaskShape, Fields
<1>6. TaskShape'
  BY <1>4, <1>5 DEF TaskShape
<1>7. BatchStops' /\ Flows' /\ Done' /\ Served'
  BY <1>5 DEF BatchStops, Flows, Done, Served
<1>8. Stored'
  <2>1. \A f \in task.stored :
           /\ f[1] \in 1..(task.at - 1) /\ f \in DOMAIN artifacts' /\ f[1] \in DOMAIN entries'
           /\ entries'[f[1]] = [key   |-> Key(task.src, task.spec, f[1], task.cfg), paths |-> {f}]
           /\ task.spec = task.cfg.stages
           /\ Clear => Made(artifacts'[f], task.spec, f[1], task.src, task.cfg)
    BY <1>1, <1>2, <1>3, StoredStay
  <2>2. Clear' <=> Clear
    BY <1>5 DEF Clear
  <2>3. QED  BY <1>5, <2>1, <2>2 DEF Stored
<1>9. QED  BY <1>2, <1>3, <1>6, <1>7, <1>8, CachesStay DEF Inv, TaskInv

\* A checkpoint that the build goes on from holds what the stages up to it have made.
LEMMA CheckpointGoesOn ==
    ASSUME Inv, task.phase = "running", task.at <= Len(task.spec), ~Batch,
           ~InTerminalGroup, task.at < Len(task.spec), ~IsReader(Current),
           NEW value, NEW ext, NEW wrote \in BOOLEAN, PersistCheckpoint(value, ext, wrote),
           Clear /\ wrote => Made(value, task.spec, task.at, task.src, task.cfg),
           UNCHANGED <<world, source, config, outs, saved, command, other>>
    PROVE  Inv'
<1>1. PICK F : F = <<task.at, ext>>
  OBVIOUS
<1>2. PICK entry : entry = [key |-> Key(task.src, task.spec, task.at, task.cfg), paths |-> {F}]
  OBVIOUS
<1>3. /\ artifacts' = Put(artifacts, F, value) /\ Unaccounted(F, artifacts, artifacts', wrote)
      /\ entries' = Put(entries, task.at, entry)
      /\ task' = [task EXCEPT !.at = @ + 1, !.cur = value, !.ir = Nothing,
                              !.wrote = @ /\ wrote, !.stored = @ \cup {F}]
  BY <1>1, <1>2 DEF PersistCheckpoint
<1>4. /\ OutsKept /\ ArtifactsKept /\ upset \subseteq upset'
      /\ DOMAIN artifacts' = DOMAIN artifacts \cup {F} /\ artifacts'[F] = value
      /\ (Clear /\ wrote) \/ F \in upset'
      /\ \A g \in DOMAIN artifacts : g # F => artifacts'[g] = artifacts[g]
  BY <1>3, CheckpointWritten
<1>5. /\ DOMAIN entries' = DOMAIN entries \cup {task.at} /\ entries'[task.at] = entry
      /\ \A k \in DOMAIN entries : k # task.at => entries'[k] = entries[k]
  BY <1>3 DEF Put
<1>6. /\ TaskShape /\ Done
      /\ Len(task.spec) \in Nat /\ task.spec \in Seq(Stage)
      /\ TerminalWriterStart(task.spec) \in 2..(Len(task.spec) + 1)
      /\ TerminalWriterStart(task.spec) > 2 => task.spec = task.cfg.stages
  BY TaskIs
<1>7. /\ task.at \in 1..Len(task.spec) /\ task.at < TerminalWriterStart(task.spec)
      /\ task.at > 1 /\ task.at < Len(task.spec) /\ ~IsReader(task.spec[task.at])
  BY StageIs DEF Current
<1>8. task.spec = task.cfg.stages
  BY <1>6, <1>7
<1>9. /\ DOMAIN task' = Fields /\ task'.phase = "running"
      /\ task'.spec = task.spec /\ task'.src = task.src /\ task'.cfg = task.cfg
      /\ task'.dir = task.dir /\ task'.force = task.force /\ task'.dry = task.dry
      /\ task'.at = task.at + 1 /\ task'.done = task.done /\ task'.failed = task.failed
      /\ task'.sound = task.sound /\ task'.same = task.same
      /\ task'.wrote = (task.wrote /\ wrote)
      /\ task'.stored = task.stored \cup {F} /\ task'.cur = value /\ task'.ir = Nothing
  <2>1. DOMAIN task = Fields
    BY <1>6 DEF TaskShape
  <2>2. QED  BY <1>3, <2>1 DEF Fields
<1>10. Clear' <=> Clear /\ wrote
  BY <1>9 DEF Clear
<1>11. TaskShape'
  <2>1. task.at + 1 \in 1..(Len(task.spec) + 1)
    BY <1>6, <1>7
  <2>2. QED  BY <1>6, <1>9, <2>1 DEF TaskShape
<1>12. BatchStops'
  BY DEF BatchStops
<1>13. Flows'
  <2>1. /\ (task.at + 1) - 1 = task.at /\ task.at + 1 # 1
        /\ ~(task.at + 1 > TerminalWriterStart(task.spec))
    BY <1>6, <1>7
  <2>2. QED  BY <1>7, <1>9, <1>10, <2>1 DEF Flows
<1>14. Done'
  <2>1. task.at \notin Finals(task.spec)
    BY <1>6, <1>7 DEF Finals
  <2>2. OutputsBefore(task.at + 1) = OutputsBefore(task.at)
    BY <1>6, <1>7, <2>1, OutputsNext
  <2>3. OutputsBefore(task.at)' = OutputsBefore(task.at + 1)
    BY <1>9 DEF OutputsBefore
  <2>4. task'.done \cup task'.failed = OutputsBefore(task.at)'
    BY <1>6, <1>9, <2>2, <2>3 DEF Done
  <2>5. Cleaned'
    BY <1>6, <1>9 DEF Done, Cleaned
  <2>6. task.done = {}
    <3>1. OutputsBefore(task.at) = {}
      BY <1>6, <1>7, NoOutputsYet
    <3>2. QED  BY <1>6, <3>1 DEF Done
  <2>7. QED  BY <1>9, <2>4, <2>5, <2>6 DEF Done
<1>15. Stored'
  <2>1. \A f \in task.stored :
           /\ f[1] \in 1..(task.at - 1) /\ f \in DOMAIN artifacts' /\ f[1] \in DOMAIN entries'
           /\ entries'[f[1]] = [key   |-> Key(task.src, task.spec, f[1], task.cfg), paths |-> {f}]
           /\ task.spec = task.cfg.stages
           /\ Clear => Made(artifacts'[f], task.spec, f[1], task.src, task.cfg)
    BY <1>1, <1>4, <1>5, StoredStay
  <2>2. F[1] = task.at
    BY <1>1
  <2>3. /\ task'.at - 1 = task.at /\ task.at \in 1..(task'.at - 1)
        /\ 1..(task.at - 1) \subseteq 1..(task'.at - 1)
    BY <1>6, <1>7, <1>9
  <2>4. ASSUME NEW f \in task'.stored
        PROVE  /\ f[1] \in 1..(task'.at - 1) /\ f \in DOMAIN artifacts' /\ f[1] \in DOMAIN entries'
               /\ entries'[f[1]] = [key   |-> Key(task'.src, task'.spec, f[1], task'.cfg),
                                    paths |-> {f}]
               /\ task'.spec = task'.cfg.stages
               /\ Clear' => Made(artifacts'[f], task'.spec, f[1], task'.src, task'.cfg)
    <3>1. CASE f \in task.stored
      BY <1>9, <1>10, <2>1, <2>3, <3>1
    <3>2. CASE f = F
      BY <1>2, <1>4, <1>5, <1>8, <1>9, <1>10, <2>2, <2>3, <3>2
    <3>3. QED  BY <1>9, <2>4, <3>1, <3>2
  <2>5. QED  BY <2>4 DEF Stored
<1>16. Served'
  BY <1>9 DEF Served
<1>17. TaskInv'
  BY <1>11, <1>12, <1>13, <1>14, <1>15, <1>16 DEF TaskInv
<1>18. IsEntry(task.at, entry)
  <2>1. task.src \in Content /\ task.cfg \in Config
    BY <1>6 DEF TaskShape
  <2>2. /\ entry.paths = {<<task.at, ext>>}
        /\ entry = [key |-> Key(task.src, task.cfg.stages, task.at, task.cfg),
                    paths |-> {<<task.at, ext>>}]
    BY <1>1, <1>2, <1>8
  <2>3. ext \in {e2[2] : e2 \in entry.paths}
    BY <2>2
  <2>4. /\ task.at \in 1..(Len(task.cfg.stages) - 1)
        /\ task.at < TerminalWriterStart(task.cfg.stages) /\ ~IsReader(task.cfg.stages[task.at])
    BY <1>6, <1>7, <1>8
  <2>5. QED  BY <2>1, <2>2, <2>3, <2>4 DEF IsEntry
<1>19. IsCache(entries')
  <2>1. IsCache(entries)
    BY DEF Inv, TypeOK
  <2>2. QED  BY <1>5, <1>18, <2>1 DEF IsCache
<1>20. TypeOK'
  BY <1>19 DEF Inv, TypeOK
<1>21. PICK e : e = entries
  OBVIOUS
<1>22. PICK s : s = saved
  OBVIOUS
<1>23. IsTrue(e)' /\ IsTrue(s)'
  <2>1. IsTrue(e) /\ IsTrue(s)
    BY <1>21, <1>22 DEF Inv
  <2>2. QED  BY <1>4, <2>1, StillTrue
<1>24. PICK n : n = task.at
  OBVIOUS
<1>25. Tells(n, entry, F)'
  <2>1. /\ Key(task.src, task.spec, task.at, task.cfg)[1] = task.src
        /\ Key(task.src, task.spec, task.at, task.cfg)[3] = task.cfg
    BY <1>6, KeyIs
  <2>2. entry.key[1] = task.src /\ entry.key[3] = task.cfg
    BY <1>2, <2>1
  <2>3. F \notin upset' => Made(artifacts'[F], entry.key[3].stages, n, entry.key[1], entry.key[3])
    BY <1>4, <1>8, <1>24, <2>2
  <2>4. n # 0
    BY <1>7, <1>24
  <2>5. QED  BY <2>3, <2>4 DEF Tells
<1>26. PICK c : c = entries'
  OBVIOUS
<1>27. IsTrue(c)'
  <2>1. c[n] = entry /\ entry.paths = {F}
    BY <1>2, <1>5, <1>24, <1>26
  <2>2. DOMAIN c \subseteq DOMAIN e \cup {n} /\ \A k \in DOMAIN e : k # n => c[k] = e[k]
    BY <1>5, <1>21, <1>24, <1>26
  <2>3. SUFFICES ASSUME NEW k \in DOMAIN c, NEW f \in c[k].paths PROVE Tells(k, c[k], f)'
    BY DEF IsTrue
  <2>4. CASE k = n
    <3>1. c[k] = entry /\ f = F
      BY <2>1, <2>3, <2>4
    <3>2. QED  BY <1>25, <2>4, <3>1
  <2>5. CASE k # n
    <3>1. k \in DOMAIN e /\ c[k] = e[k]
      BY <2>2, <2>3, <2>5
    <3>2. Tells(k, e[k], f)'
      BY <1>23, <2>3, <3>1 DEF IsTrue
    <3>3. QED  BY <3>1, <3>2
  <2>6. QED  BY <2>4, <2>5
<1>28. IsTrue(entries)' /\ IsTrue(saved)'
  <2>1. entries' = c /\ saved' = s
    BY <1>22, <1>26
  <2>2. QED  BY <1>23, <1>27, <2>1
<1>29. QED  BY <1>17, <1>20, <1>28 DEF Inv

\* A writer followed by other stages: its file is a checkpoint.
LEMMA RunInnerWriterInv ==
    ASSUME Inv, RunInnerWriter
    PROVE  Inv'
<1>1. /\ task.phase = "running" /\ task.at <= Len(task.spec) /\ Current.kind = "writer"
      /\ ~InTerminalGroup /\ task.ir # Nothing
      /\ UNCHANGED <<world, source, config, outs, saved, command, other>>
  BY DEF RunInnerWriter, Running, Current, aside
<1>2. PICK value : value = Apply(Current, task.ir)
  OBVIOUS
<1>3. PICK ext : ext = Current.ext
  OBVIOUS
<1>4. PersistCheckpoint(value, ext, TRUE)
  BY <1>2, <1>3 DEF RunInnerWriter, PersistCheckpoint
<1>5. /\ task.at \in 1..Len(task.spec) /\ task.at < Len(task.spec) /\ task.at > 1
      /\ ~IsReader(Current) /\ ~IsWriter(task.spec[task.at - 1])
      /\ task.at < TerminalWriterStart(task.spec)
  <2>1. Current \in Stage
    BY <1>1, StageIs
  <2>2. IsWriter(Current) /\ ~IsReader(Current)
    BY <1>1, <2>1, Kinds
  <2>3. QED  BY <1>1, <2>2, StageIs
<1>6. Clear => Made(value, task.spec, task.at, task.src, task.cfg)
  <2>1. SUFFICES ASSUME Clear PROVE Made(value, task.spec, task.at, task.src, task.cfg)
    OBVIOUS
  <2>2. /\ Flows /\ task.spec \in Seq(Stage) /\ Len(task.spec) \in Nat
        /\ TerminalWriterStart(task.spec) \in 2..(Len(task.spec) + 1)
    BY <1>1, TaskIs
  <2>3. Made(task.ir, task.spec, task.at - 1, task.src, task.cfg)
    BY <1>1, <1>5, <2>1, <2>2 DEF Flows
  <2>4. QED  BY <1>2, <1>5, <2>2, <2>3, StageMakes DEF Current
<1>7. QED  BY <1>1, <1>4, <1>5, <1>6, CheckpointCrashes, CheckpointGoesOn

\* The last exec writes the output.
LEMMA LastExecInv ==
    ASSUME Inv, task.phase = "running", task.at = Len(task.spec), ~IsWriter(Current),
           NEW value, NEW wrote \in BOOLEAN, ExecTo(value, wrote),
           Clear /\ wrote => Made(value, task.spec, task.at, task.src, task.cfg),
           UNCHANGED <<world, source, config, saved, command, other>>
    PROVE  Inv'
<1>1. PICK F : F = FinalFile
  OBVIOUS
<1>2. /\ outs' = Put(outs, F, value) /\ Unaccounted(F, outs, outs', wrote)
      /\ task' = [task EXCEPT !.at = @ + 1, !.done = {F}, !.wrote = @ /\ wrote]
      /\ artifacts' = artifacts /\ entries' = entries
  BY <1>1 DEF ExecTo, IsLast
<1>3. /\ OutsKept /\ ArtifactsKept /\ upset \subseteq upset'
      /\ F \in DOMAIN outs' /\ outs'[F] = value /\ ((Clear /\ wrote) \/ F \in upset')
      /\ DOMAIN outs' = DOMAIN outs \cup {F}
      /\ \A g \in DOMAIN outs : g # F => outs'[g] = outs[g]
  BY <1>2, OutputWritten
<1>4. /\ TaskShape /\ Done /\ Stored /\ Valid(task.spec)
      /\ Len(task.spec) \in Nat /\ Len(task.spec) >= 2
      /\ TerminalWriterStart(task.spec) \in 2..(Len(task.spec) + 1)
  BY TaskIs
<1>5. task.at \in 1..Len(task.spec) /\ task.at < TerminalWriterStart(task.spec)
  <2>1. task.at <= Len(task.spec)
    BY <1>4
  <2>2. QED  BY <2>1, StageIs
<1>6. /\ DOMAIN task' = Fields /\ task'.phase = "running"
      /\ task'.spec = task.spec /\ task'.src = task.src /\ task'.cfg = task.cfg
      /\ task'.dir = task.dir /\ task'.force = task.force /\ task'.dry = task.dry
      /\ task'.at = task.at + 1 /\ task'.done = {F} /\ task'.failed = task.failed
      /\ task'.sound = task.sound /\ task'.same = task.same
      /\ task'.wrote = (task.wrote /\ wrote) /\ task'.stored = task.stored
  <2>1. DOMAIN task = Fields
    BY <1>4 DEF TaskShape
  <2>2. QED  BY <1>2, <2>1 DEF Fields
<1>7. Clear' <=> Clear /\ wrote
  BY <1>6 DEF Clear
<1>8. TaskShape'
  <2>1. task.at + 1 \in 1..(Len(task.spec) + 1)
    BY <1>4
  <2>2. QED  BY <1>4, <1>6, <2>1 DEF TaskShape
<1>9. ~(task'.at <= Len(task.spec)) /\ task'.at > Len(task.spec)
  BY <1>4, <1>6
<1>10. BatchStops' /\ Flows' /\ Served'
  BY <1>6, <1>9 DEF BatchStops, Flows, Served
<1>11. task.at \in Finals(task.spec)
  BY <1>4, <1>5 DEF Finals
<1>12. task.failed = {} /\ OutputsBefore(task.at)' = {F}
  <2>1. OutputsBefore(task.at) = {}
    BY <1>4, <1>5, NoOutputsYet
  <2>2. OutputsBefore(task.at + 1) = OutputsBefore(task.at) \cup {F}
    BY <1>1, <1>4, <1>5, <1>11, OutputsNext DEF FinalFile, Current
  <2>3. OutputsBefore(task.at)' = OutputsBefore(task.at + 1)
    BY <1>6 DEF OutputsBefore
  <2>4. task.failed = {}
    BY <1>4, <2>1 DEF Done
  <2>5. QED  BY <2>1, <2>2, <2>3, <2>4
<1>13. Cleaned'
  <2>1. F \in FinalOutputs(task.spec, task.dir)
    BY <1>1, <1>4, <1>11, FinalOutputsAre DEF FinalFile, Current
  <2>2. QED  BY <1>3, <1>4, <1>6, <2>1 DEF Done, Cleaned
<1>14. Clear /\ wrote => IsCurrent(F)'
  <2>1. SUFFICES ASSUME Clear, wrote PROVE IsCurrent(F)'
    OBVIOUS
  <2>2. Made(value, task.spec, Len(task.spec), task.src, task.cfg)
    BY <2>1
  <2>3. ~IsWriter(task.spec[Len(task.spec)])
    BY DEF Current
  <2>4. IsResult(task.spec[Len(task.spec)].ext, value, task.spec, task.src, task.cfg)
    BY <1>4, <2>2, <2>3, ExecResult
  <2>5. F[2] = task.spec[Len(task.spec)].ext
    BY <1>1 DEF FinalFile, Current
  <2>6. QED  BY <1>3, <1>6, <2>4, <2>5 DEF IsCurrent
<1>15. Done'
  <2>1. task'.done \cup task'.failed = OutputsBefore(task.at)'
    BY <1>6, <1>12
  <2>2. \A f \in task'.done : f \in DOMAIN outs' /\ (Clear' /\ f \notin task'.failed => IsCurrent(f)')
    <3>1. SUFFICES ASSUME NEW f \in task'.done PROVE f \in DOMAIN outs' /\ (Clear' /\ f \notin task'.failed => IsCurrent(f)')
      OBVIOUS
    <3>2. f = F
      BY <1>6, <3>1
    <3>3. QED  BY <1>3, <1>7, <1>14, <3>2
  <2>3. ~Clear' => task'.done \subseteq upset'
    BY <1>3, <1>6, <1>7
  <2>4. QED  BY <1>6, <1>13, <2>1, <2>2, <2>3 DEF Done
<1>16. Stored'
  <2>1. \A f \in task.stored :
           /\ f[1] \in 1..(task.at - 1) /\ f \in DOMAIN artifacts /\ f[1] \in DOMAIN entries
           /\ entries[f[1]] = [key   |-> Key(task.src, task.spec, f[1], task.cfg), paths |-> {f}]
           /\ task.spec = task.cfg.stages
           /\ Clear => Made(artifacts[f], task.spec, f[1], task.src, task.cfg)
    BY <1>4 DEF Stored
  <2>2. \A f \in task.stored : f[1] \in 1..(task'.at - 1)
    <3>1. task.at \in Nat /\ task'.at - 1 = task.at
      BY <1>4, <1>6
    <3>2. 1..(task.at - 1) \subseteq 1..task.at
      BY <3>1
    <3>3. QED  BY <2>1, <3>1, <3>2
  <2>3. QED  BY <1>2, <1>6, <1>7, <2>1, <2>2 DEF Stored
<1>17. QED  BY <1>2, <1>3, <1>8, <1>10, <1>15, <1>16, CachesStay DEF Inv, TaskInv

\* An exec: one that runs, one whose failure is allowed, or one that wrote nothing.
LEMMA ExecToInv ==
    ASSUME Inv, task.phase = "running", task.at <= Len(task.spec), Current.kind = "exec",
           NEW value, NEW wrote \in BOOLEAN, ExecTo(value, wrote),
           wrote => value = Apply(Current, task.cur) \/ (value = task.cur /\ Current.warn),
           UNCHANGED <<world, source, config, saved, command, other>>
    PROVE  Inv'
<1>1. /\ task.at \in 1..Len(task.spec) /\ task.at > 1 /\ ~InTerminalGroup
      /\ task.at < TerminalWriterStart(task.spec)
      /\ ~IsReader(task.spec[task.at - 1]) /\ ~IsReader(Current) /\ ~IsWriter(Current)
      /\ IsExec(Current)
  <2>1. Current \in Stage
    BY StageIs
  <2>2. IsExec(Current) /\ ~IsWriter(Current) /\ ~IsReader(Current)
    BY <2>1, Kinds
  <2>3. QED  BY <2>2, StageIs
<1>2. /\ Flows /\ task.spec \in Seq(Stage) /\ Len(task.spec) \in Nat
      /\ TerminalWriterStart(task.spec) \in 2..(Len(task.spec) + 1)
  BY TaskIs
<1>3. Clear /\ wrote => Made(value, task.spec, task.at, task.src, task.cfg)
  <2>1. SUFFICES ASSUME Clear, wrote PROVE Made(value, task.spec, task.at, task.src, task.cfg)
    OBVIOUS
  <2>2. Made(task.cur, task.spec, task.at - 1, task.src, task.cfg)
    BY <1>1, <1>2, <2>1 DEF Flows
  <2>3. QED  BY <1>1, <1>2, <2>1, <2>2, StageMakes DEF Current
<1>4. CASE task.at = Len(task.spec)
  BY <1>1, <1>3, <1>4, LastExecInv
<1>5. CASE task.at # Len(task.spec)
  <2>1. PICK ext : ext = "bin"
    OBVIOUS
  <2>2. PersistCheckpoint(value, ext, wrote) /\ outs' = outs
    BY <1>5, <2>1 DEF ExecTo, IsLast
  <2>3. task.at < Len(task.spec)
    BY <1>1, <1>2, <1>5
  <2>4. QED  BY <1>1, <1>3, <2>2, <2>3, CheckpointCrashes, CheckpointGoesOn
<1>6. QED  BY <1>4, <1>5

\* The ways an exec may end without ending the build.
LEMMA RunExecInv ==
    ASSUME Inv, RunExec \/ ExecWarns \/ ExecSilent
    PROVE  Inv'
<1>1. /\ task.phase = "running" /\ task.at <= Len(task.spec) /\ Current.kind = "exec"
      /\ UNCHANGED <<world, source, config, saved, command, other>>
  BY DEF RunExec, ExecWarns, ExecSilent, Running, Current, aside
<1>2. CASE RunExec
  <2>1. PICK value : value = Apply(Current, task.cur)
    OBVIOUS
  <2>2. ExecTo(value, TRUE)
    BY <1>2, <2>1 DEF RunExec, ExecTo, PersistCheckpoint
  <2>3. QED  BY <1>1, <2>1, <2>2, ExecToInv
<1>3. CASE ExecWarns
  <2>1. PICK value : value = task.cur
    OBVIOUS
  <2>2. ExecTo(value, TRUE) /\ Current.warn
    BY <1>3, <2>1 DEF ExecWarns, ExecTo, PersistCheckpoint
  <2>3. QED  BY <1>1, <2>1, <2>2, ExecToInv
<1>4. CASE ExecSilent
  <2>1. PICK value : value = AtOutputPath
    OBVIOUS
  <2>2. ExecTo(value, FALSE)
    BY <1>4, <2>1 DEF ExecSilent, ExecTo, PersistCheckpoint
  <2>3. QED  BY <1>1, <2>2, ExecToInv
<1>5. QED  BY <1>2, <1>3, <1>4

-----------------------------------------------------------------------------
(* The end of a build.                                                     *)

\* All outputs have been written, or reported.
LEMMA AllOutputs ==
    ASSUME Inv, task.phase \in {"running", "built", "failed"}, task.at = Len(task.spec) + 1
    PROVE  task.done \cup task.failed = FinalOutputs(task.spec, task.dir)
<1>1. Done /\ Valid(task.spec) /\ Len(task.spec) \in Nat
  BY TaskIs
<1>2. {l \in Finals(task.spec) : l < task.at} = Finals(task.spec)
  BY <1>1 DEF Finals
<1>3. OutputsBefore(task.at) = FinalOutputs(task.spec, task.dir)
  BY <1>1, <1>2, FinalOutputsAre DEF OutputsBefore
<1>4. QED  BY <1>1, <1>3 DEF Done

\* The entry of the table is recorded when all its outputs have been written.
LEMMA FinishInv ==
    ASSUME Inv, Finish
    PROVE  Inv'
<1>1. /\ task.phase = "running" /\ task.at > Len(task.spec)
      /\ UNCHANGED <<world, source, config, outs, artifacts, saved, command, other, upset>>
  BY DEF Finish, disk, aside
<1>2. /\ TaskShape /\ Done /\ Stored /\ Len(task.spec) \in Nat /\ task.spec \in Seq(Stage)
      /\ task.at = Len(task.spec) + 1
  BY <1>1, TaskIs
<1>3. OutsKept /\ ArtifactsKept
  BY <1>1 DEF OutsKept, ArtifactsKept
<1>4. CASE task.failed # {}
  <2>1. Stop("failed") /\ entries' = entries
    BY <1>4 DEF Finish
  <2>2. QED  BY <1>1, <1>2, <1>3, <2>1, StopsInv
<1>5. CASE task.failed = {}
  <2>1. PICK entry : entry = [key   |-> Key(task.src, task.spec, Len(task.spec), task.cfg),
                              paths |-> task.done]
    OBVIOUS
  <2>2. Stop("built") /\ entries' = Put(entries, 0, entry)
    BY <1>5, <2>1 DEF Finish
  <2>3. /\ DOMAIN entries' = DOMAIN entries \cup {0} /\ entries'[0] = entry
        /\ \A k \in DOMAIN entries : k # 0 => entries'[k] = entries[k]
    BY <2>2 DEF Put
  <2>4. task.done = FinalOutputs(task.spec, task.dir)
    BY <1>1, <1>2, <1>5, AllOutputs
  <2>5. /\ DOMAIN task' = Fields /\ task'.phase = "built"
        /\ task'.spec = task.spec /\ task'.src = task.src /\ task'.cfg = task.cfg
        /\ task'.dir = task.dir /\ task'.force = task.force /\ task'.dry = task.dry
        /\ task'.at = task.at /\ task'.done = task.done /\ task'.failed = task.failed
        /\ task'.sound = task.sound /\ task'.same = task.same
      /\ task'.wrote = task.wrote /\ task'.stored = task.stored
    BY <1>2, <2>2 DEF Stop, TaskShape, Fields
  <2>6. Clear' <=> Clear
    BY <2>5 DEF Clear
  <2>7. TaskShape'
    BY <1>1, <1>2, <2>5 DEF TaskShape
  <2>8. BatchStops' /\ Flows' /\ Served'
    BY <2>5 DEF BatchStops, Flows, Served
  <2>9. Done'
    <3>1. OutputsBefore(task.at)' = OutputsBefore(task.at)
      BY <2>5 DEF OutputsBefore
    <3>2. \A f : IsCurrent(f)' <=> IsCurrent(f)
      BY <1>1, <2>5 DEF IsCurrent
    <3>3. Cleaned'
      BY <1>1, <1>2, <2>5 DEF Done, Cleaned
    <3>4. /\ task.done \cup task.failed = OutputsBefore(task.at)
          /\ \A f \in task.done : f \in DOMAIN outs /\ (Clear /\ f \notin task.failed => IsCurrent(f))
          /\ ~Clear => task.done \subseteq upset
      BY <1>1, <1>2 DEF Done
    <3>5. /\ task'.failed = {} /\ task'.at = Len(task'.spec) + 1
          /\ 0 \in DOMAIN entries'
          /\ entries'[0] = [key   |-> Key(task'.src, task'.spec, Len(task'.spec), task'.cfg),
                            paths |-> task'.done]
      BY <1>2, <1>5, <2>1, <2>3, <2>5
    <3>6. QED  BY <1>1, <2>5, <2>6, <3>1, <3>2, <3>3, <3>4, <3>5 DEF Done
  <2>10. Stored'
    <3>1. ASSUME NEW f \in task.stored
          PROVE  f[1] \in DOMAIN entries' /\ entries'[f[1]] = entries[f[1]]
      <4>1. f[1] \in 1..(task.at - 1) /\ f[1] \in DOMAIN entries
        BY <1>2 DEF Stored
      <4>2. f[1] # 0
        BY <4>1
      <4>3. QED  BY <2>3, <4>1, <4>2
    <3>2. QED  BY <1>1, <1>2, <2>5, <2>6, <3>1 DEF Stored
  <2>11. TaskInv'
    BY <2>7, <2>8, <2>9, <2>10 DEF TaskInv
  <2>12. IsEntry(0, entry)
    <3>1. task.src \in Content /\ task.cfg \in Config /\ task.dir \in Dir
      BY <1>2 DEF TaskShape
    <3>2. PICK to \in Targets : task.spec = Resolve(task.cfg, to)
      BY <1>2 DEF TaskShape
    <3>3. entry = [key   |-> Key(task.src, Resolve(task.cfg, to), Len(Resolve(task.cfg, to)),
                                 task.cfg),
                   paths |-> FinalOutputs(Resolve(task.cfg, to), task.dir)]
      BY <2>1, <2>4, <3>2
    <3>4. QED  BY <3>1, <3>2, <3>3 DEF IsEntry
  <2>13. TypeOK'
    <3>1. IsCache(entries)
      BY DEF Inv, TypeOK
    <3>2. IsCache(entries')
      BY <2>3, <2>12, <3>1 DEF IsCache
    <3>3. QED  BY <1>1, <3>2 DEF Inv, TypeOK
  <2>14. ASSUME NEW f \in task.done
         PROVE  Tells(0, entry, f)'
    <3>1. /\ Key(task.src, task.spec, Len(task.spec), task.cfg)[1] = task.src
          /\ Key(task.src, task.spec, Len(task.spec), task.cfg)[2] = task.spec
          /\ Key(task.src, task.spec, Len(task.spec), task.cfg)[3] = task.cfg
      BY <1>2, KeyIs
    <3>2. entry.key[1] = task.src /\ entry.key[2] = task.spec /\ entry.key[3] = task.cfg
      BY <2>1, <3>1
    <3>3. f \notin upset => IsCurrent(f)
      BY <1>1, <1>2, <1>5, <2>14 DEF Done
    <3>4. f \notin upset' => IsResult(f[2], outs'[f], entry.key[2], entry.key[1], entry.key[3])
      BY <1>1, <3>2, <3>3 DEF IsCurrent
    <3>5. QED  BY <3>4 DEF Tells
  <2>15. PICK e : e = entries
    OBVIOUS
  <2>16. PICK s : s = saved
    OBVIOUS
  <2>17. IsTrue(e)' /\ IsTrue(s)'
    <3>1. IsTrue(e) /\ IsTrue(s)
      BY <2>15, <2>16 DEF Inv
    <3>2. QED  BY <1>3, <3>1, StillTrue
  <2>18. PICK c : c = entries'
    OBVIOUS
  <2>19. IsTrue(c)'
    <3>1. /\ c[0] = entry /\ entry.paths = task.done
          /\ DOMAIN c \subseteq DOMAIN e \cup {0} /\ \A k \in DOMAIN e : k # 0 => c[k] = e[k]
      BY <2>1, <2>3, <2>15, <2>18
    <3>2. SUFFICES ASSUME NEW k \in DOMAIN c, NEW f \in c[k].paths PROVE Tells(k, c[k], f)'
      BY DEF IsTrue
    <3>3. CASE k = 0
      <4>1. c[k] = entry /\ f \in task.done
        BY <3>1, <3>2, <3>3
      <4>2. QED  BY <2>14, <3>3, <4>1
    <3>4. CASE k # 0
      <4>1. k \in DOMAIN e /\ c[k] = e[k]
        BY <3>1, <3>2, <3>4
      <4>2. Tells(k, e[k], f)'
        BY <2>17, <3>2, <4>1 DEF IsTrue
      <4>3. QED  BY <4>1, <4>2
    <3>5. QED  BY <3>3, <3>4
  <2>20. IsTrue(entries)' /\ IsTrue(saved)'
    <3>1. entries' = c /\ saved' = s
      BY <1>1, <2>16, <2>18
    <3>2. QED  BY <2>17, <2>19, <3>1
  <2>21. QED  BY <2>11, <2>13, <2>20 DEF Inv
<1>6. QED  BY <1>4, <1>5

\* The saved cache accounts for the files that a clear build has recorded.
LEMMA SavesTheTruth ==
    ASSUME Inv, task.phase # "idle", UNCHANGED <<outs, artifacts>>,
           upset' = IF Clear THEN upset \ Recorded ELSE upset, NEW c, c = entries
    PROVE  IsTrue(c)'
<1>1. /\ TaskShape /\ Done /\ Stored /\ Len(task.spec) \in Nat /\ task.spec \in Seq(Stage)
      /\ task.at \in 1..(Len(task.spec) + 1) /\ IsCache(c) /\ IsTrue(c)
  BY TaskIs DEF Inv, TypeOK
<1>2. SUFFICES ASSUME NEW k \in DOMAIN c, NEW f \in c[k].paths, f \notin upset'
               PROVE  /\ k = 0 /\ f \in DOMAIN outs =>
                           IsResult(f[2], outs[f], c[k].key[2], c[k].key[1], c[k].key[3])
                      /\ k # 0 /\ f \in DOMAIN artifacts =>
                           Made(artifacts[f], c[k].key[3].stages, k, c[k].key[1], c[k].key[3])
  BY DEF IsTrue, Tells
<1>3. Tells(k, c[k], f)
  BY <1>1, <1>2 DEF IsTrue
<1>4. IsEntry(k, c[k])
  BY <1>1, <1>2 DEF IsCache
<1>5. PICK e : e = c[k]
  OBVIOUS
<1>6. /\ k = 0 => f[1] \in Dir
      /\ k # 0 => k \in Nat \ {0} /\ f[1] = k /\ e.paths = {f}
  BY <1>2, <1>4, <1>5, EntryPaths
<1>7. CASE f \notin upset
  BY <1>3, <1>7 DEF Tells
<1>8. CASE f \in upset
  <2>1. Clear /\ f \in Recorded
    BY <1>2, <1>8
  <2>2. CASE f \in task.stored
    <3>1. /\ f[1] \in 1..(task.at - 1) /\ f \in DOMAIN artifacts /\ f[1] \in DOMAIN entries
          /\ entries[f[1]] = [key   |-> Key(task.src, task.spec, f[1], task.cfg), paths |-> {f}]
          /\ task.spec = task.cfg.stages
          /\ Made(artifacts[f], task.spec, f[1], task.src, task.cfg)
      BY <1>1, <2>1, <2>2 DEF Stored
    <3>2. f[1] \in Nat
      BY <3>1
    <3>3. k # 0 /\ f[1] = k
      BY <1>6, <3>2, DirsAreNoPositions
    <3>4. e.key = Key(task.src, task.spec, k, task.cfg)
      BY <1>5, <3>1, <3>3
    <3>5. e.key[1] = task.src /\ e.key[3] = task.cfg
      BY <1>1, <3>4, KeyIs
    <3>6. QED  BY <1>5, <3>1, <3>3, <3>5
  <2>3. CASE task.phase = "built" /\ f \in task.done
    <3>1. /\ IsCurrent(f) /\ task.failed = {} /\ task.at = Len(task.spec) + 1
          /\ entries[0] = [key   |-> Key(task.src, task.spec, Len(task.spec), task.cfg),
                           paths |-> task.done]
      BY <1>1, <2>1, <2>3 DEF Done
    <3>2. f \in FinalOutputs(task.spec, task.dir)
      BY <2>3, <3>1, AllOutputs
    <3>3. f[1] = task.dir /\ task.dir \in Dir
      <4>1. Valid(task.spec)
        BY TaskIs
      <4>2. QED  BY <1>1, <3>2, <4>1, FinalOutputsAre DEF TaskShape
    <3>4. k = 0
      BY <1>6, <3>3, DirsAreNoPositions
    <3>5. e.key = Key(task.src, task.spec, Len(task.spec), task.cfg)
      BY <1>5, <3>1, <3>4
    <3>6. e.key[1] = task.src /\ e.key[2] = task.spec /\ e.key[3] = task.cfg
      BY <1>1, <3>5, KeyIs
    <3>7. QED  BY <1>5, <3>1, <3>4, <3>6 DEF IsCurrent
  <2>4. QED  BY <2>1, <2>2, <2>3 DEF Recorded
<1>9. QED  BY <1>7, <1>8

\* What the command saves is true of the files, and what it does not save is not counted on.
LEMMA CloseInv ==
    ASSUME Inv, Close
    PROVE  Inv'
<1>1. /\ task.phase # "idle" /\ task' = Idle
      /\ \/ saved' = saved /\ upset' = upset
         \/ saved' = entries /\ upset' = (IF Clear THEN upset \ Recorded ELSE upset)
      /\ entries' = entries \/ entries' = EmptyMap
      /\ UNCHANGED <<world, source, config, outs, artifacts, other>>
  BY DEF Close, aside
<1>2. PICK e : e = entries
  OBVIOUS
<1>3. PICK s : s = saved
  OBVIOUS
<1>4. PICK m : m = EmptyMap
  OBVIOUS
<1>5. IsTrue(m)' /\ IsCache(m)
  BY <1>4, EmptyIsTrue
<1>6. CASE saved' = saved /\ upset' = upset
  <2>1. OutsKept /\ ArtifactsKept
    BY <1>1, <1>6 DEF OutsKept, ArtifactsKept
  <2>2. IsTrue(e)' /\ IsTrue(s)'
    <3>1. IsTrue(e) /\ IsTrue(s)
      BY <1>2, <1>3 DEF Inv
    <3>2. QED  BY <2>1, <3>1, StillTrue
  <2>3. (entries' = e \/ entries' = m) /\ saved' = s
    BY <1>1, <1>2, <1>3, <1>4, <1>6
  <2>4. IsTrue(entries)' /\ IsTrue(saved)'
    BY <1>5, <2>2, <2>3
  <2>5. TypeOK'
    BY <1>1, <1>2, <1>3, <1>5, <2>3 DEF Inv, TypeOK
  <2>6. QED  BY <1>1, <2>4, <2>5 DEF Inv, TaskInv
<1>7. CASE saved' = entries /\ upset' = (IF Clear THEN upset \ Recorded ELSE upset)
  <2>1. IsTrue(e)'
    BY <1>1, <1>2, <1>7, SavesTheTruth
  <2>2. (entries' = e \/ entries' = m) /\ saved' = e
    BY <1>1, <1>2, <1>4, <1>7
  <2>3. IsTrue(entries)' /\ IsTrue(saved)'
    BY <1>5, <2>1, <2>2
  <2>4. TypeOK'
    BY <1>1, <1>2, <1>5, <2>2 DEF Inv, TypeOK
  <2>5. QED  BY <1>1, <2>3, <2>4 DEF Inv, TaskInv
<1>8. QED  BY <1>1, <1>6, <1>7

-----------------------------------------------------------------------------
(* The theorems.                                                           *)

\* Every step keeps the invariant.
LEMMA NextInv == Inv /\ [Next]_vars => Inv'
<1>1. SUFFICES ASSUME Inv, [Next]_vars PROVE Inv'
  OBVIOUS
<1>2. CASE UNCHANGED vars
  <2>1. /\ UNCHANGED <<world, outs, artifacts, saved, entries, command, task, upset>>
        /\ source' = source /\ config' = config /\ other' = other
    BY <1>2 DEF vars
  <2>2. QED  BY <1>1, <2>1, AsideInv DEF Inv, TypeOK
<1>3. CASE \E c \in Content : EditSource(c)
  BY <1>1, <1>3, EditSourceInv
<1>4. CASE \E cfg \in Config : EditConfig(cfg)
  BY <1>1, <1>4, EditConfigInv
<1>5. CASE \E cache \in BOOLEAN, dirs \in SUBSET Dir : Clean(cache, dirs)
  BY <1>1, <1>5, CleanInv
<1>6. CASE OtherLoads \/ OtherSaves
  BY <1>1, <1>6, OtherLoadsInv, OtherSavesInv
<1>7. CASE \E kind \in {"build", "build-all", "watch"} : OpenCommand(kind)
  BY <1>1, <1>7, OpenCommandInv
<1>8. CASE Interrupt
  BY <1>1, <1>8, InterruptInv
<1>9. CASE \E dir \in Dir, to \in Alternative \cup {NoExt}, force, dry \in BOOLEAN :
             Begin(dir, to, force, dry)
  BY <1>1, <1>9, BeginInv DEF Targets
<1>10. CASE StageStep
  <2>1. CASE RunReader \/ RunTerminalWriter \/ RunInnerWriter
    BY <1>1, <2>1, RunReaderInv, RunTerminalWriterInv, RunInnerWriterInv
  <2>2. CASE RunExec \/ ExecWarns \/ ExecSilent
    BY <1>1, <2>2, RunExecInv
  <2>3. CASE ReaderFails \/ WriterFails \/ ExecFails
    BY <1>1, <2>3, ReaderFailsInv, WriterFailsInv, ExecFailsInv
  <2>4. CASE Finish \/ Close
    BY <1>1, <2>4, FinishInv, CloseInv
  <2>5. QED  BY <1>10, <2>1, <2>2, <2>3, <2>4 DEF StageStep
<1>11. QED  BY <1>1, <1>2, <1>3, <1>4, <1>5, <1>6, <1>7, <1>8, <1>9, <1>10 DEF Next

\* What every build keeps: the entries of a cache are true of the files that upset does not
\* name, and the build in progress works on what its stages have made so far.
THEOREM InvHolds == Spec => []Inv
<1>1. Init => Inv
  BY InitInv
<1>2. Inv /\ [Next]_vars => Inv'
  BY NextInv
<1>3. QED  BY <1>1, <1>2, PTL DEF Spec

\* What a build in phase "built" has written: every output, each from the source that was
\* hashed, if it was read as hashed and the checkpoint it resumed from was accounted for.
LEMMA BuiltOutputs ==
    ASSUME Inv, task.phase = "built", Clear
    PROVE  OutputsAreCurrent
<1>1. Done
  BY TaskIs
<1>2. task.failed = {} /\ task.at = Len(task.spec) + 1 /\ \A f \in task.done : IsCurrent(f)
  BY <1>1 DEF Done
<1>3. FinalOutputs(task.spec, task.dir) = task.done
  BY <1>2, AllOutputs
<1>4. QED  BY <1>2, <1>3 DEF OutputsAreCurrent

\* For every pipeline, configuration and sequence of builds, edits, cleans, crashes and
\* saves of other processes, whatever its execs find in place of their outputs: a build that
\* ran, and whose execs wrote, leaves outputs made from the source it hashed (build in
\* core/pipeline.py).
THEOREM BuildsAreCurrent == Spec => []BuiltIsCurrent
<1>1. Inv => BuiltIsCurrent
  BY BuiltOutputs DEF BuiltIsCurrent
<1>2. QED  BY <1>1, InvHolds, PTL

\* --force repairs whatever happened to the outputs, the checkpoints, tmp and the cache, if
\* the execs of the build write.
THEOREM ForceRepairs == Spec => []ForceRecovers
<1>1. Inv => ForceRecovers
  <2>1. SUFFICES ASSUME Inv, task.phase = "built", task.force, task.same, task.wrote
                 PROVE  OutputsAreCurrent
    BY DEF ForceRecovers
  <2>2. Clear
    BY <2>1, TaskIs DEF TaskShape, Clear
  <2>3. QED  BY <2>1, <2>2, BuiltOutputs
<1>2. QED  BY <1>1, InvHolds, PTL

\* A fan-out that failed has written every output but those that its error reports.
THEOREM FanOutsComplete == Spec => []FanOutCompletes
<1>1. Inv => FanOutCompletes
  <2>1. SUFFICES ASSUME Inv, task.phase = "failed", task.failed # {}, Clear,
                        NEW f \in FinalOutputs(task.spec, task.dir) \ task.failed
                 PROVE  IsCurrent(f)
    BY DEF FanOutCompletes
  <2>2. Done
    BY <2>1, TaskIs
  <2>3. /\ task.at = Len(task.spec) + 1
        /\ \A g \in task.done : g \notin task.failed => IsCurrent(g)
    BY <2>1, <2>2 DEF Done
  <2>4. f \in task.done
    BY <2>1, <2>3, AllOutputs
  <2>5. QED  BY <2>1, <2>3, <2>4
<1>2. QED  BY <1>1, InvHolds, PTL

\* Builds go to one directory, the configured one: the entry of a table does not say which.
OneDir == \A c, d \in Dir : c = d

\* The entry that a cached build is served from is of its source, pipeline and settings, and
\* of the files that it would write.
LEMMA ServedEntry ==
    ASSUME OneDir, Inv, task.phase = "cached"
    PROVE  /\ 0 \in DOMAIN entries /\ entries[0].paths = FinalOutputs(task.spec, task.dir)
           /\ entries[0].key[1] = task.src /\ entries[0].key[2] = task.spec
           /\ entries[0].key[3] = task.cfg
           /\ entries[0].paths \subseteq DOMAIN outs
           /\ ~task.dry => Cleaned
<1>1. /\ TaskShape /\ Served /\ task.spec \in Seq(Stage)
  BY TaskIs
<1>2. /\ 0 \in DOMAIN entries
      /\ entries[0].key = Key(task.src, task.spec, Len(task.spec), task.cfg)
      /\ entries[0].paths \subseteq DOMAIN outs
      /\ ~task.dry => Cleaned
  BY <1>1 DEF Served
<1>3. entries[0].key[1] = task.src /\ entries[0].key[2] = task.spec /\ entries[0].key[3] = task.cfg
  BY <1>1, <1>2, KeyIs
<1>4. IsEntry(0, entries[0])
  BY <1>2 DEF Inv, TypeOK, IsCache
<1>5. PICK e : e = entries[0]
  OBVIOUS
<1>6. PICK src \in Content, cfg \in Config, to \in Targets, d \in Dir :
        e = [key |-> Key(src, Resolve(cfg, to), Len(Resolve(cfg, to)), cfg),
             paths |-> FinalOutputs(Resolve(cfg, to), d)]
  BY <1>4, <1>5 DEF IsEntry
<1>7. PICK spec : spec = Resolve(cfg, to)
  OBVIOUS
<1>8. e.key = Key(src, spec, Len(spec), cfg) /\ e.paths = FinalOutputs(spec, d)
  BY <1>6, <1>7
<1>9. spec = task.spec
  <2>1. spec \in Seq(Stage)
    BY <1>7, Resolved DEF Valid
  <2>2. e.key[2] = spec
    BY <1>8, <2>1, KeyIs
  <2>3. QED  BY <1>3, <1>5, <2>2
<1>10. d = task.dir
  BY <1>1 DEF OneDir, TaskShape
<1>11. QED  BY <1>2, <1>3, <1>5, <1>8, <1>9, <1>10

\* With one output directory, a build served from the cache serves the outputs of its source,
\* settings and stages, where nothing was written since that the saved cache does not know.
THEOREM CacheServesCurrent == OneDir => (Spec => []CachedIsCurrent)
<1> SUFFICES ASSUME OneDir PROVE Spec => []CachedIsCurrent
  OBVIOUS
<1>1. Inv => CachedIsCurrent
  <2>1. SUFFICES ASSUME Inv, task.phase = "cached",
                        FinalOutputs(task.spec, task.dir) \cap upset = {},
                        NEW f \in FinalOutputs(task.spec, task.dir)
                 PROVE  IsCurrent(f)
    BY DEF CachedIsCurrent, OutputsAreCurrent
  <2>2. /\ 0 \in DOMAIN entries /\ f \in entries[0].paths
        /\ entries[0].key[1] = task.src /\ entries[0].key[2] = task.spec
        /\ entries[0].key[3] = task.cfg /\ f \in DOMAIN outs
    BY <2>1, ServedEntry
  <2>3. Tells(0, entries[0], f)
    BY <2>1, <2>2 DEF Inv, IsTrue
  <2>4. f \notin upset
    BY <2>1
  <2>5. IsResult(f[2], outs[f], entries[0].key[2], entries[0].key[1], entries[0].key[3])
    BY <2>2, <2>3, <2>4 DEF Tells
  <2>6. QED  BY <2>2, <2>5 DEF IsCurrent
<1>2. QED  BY <1>1, InvHolds, PTL

\* With one output directory, a build leaves the files of its pipeline there and no other
\* of the table.
THEOREM NoStaleOutput == OneDir => (Spec => []OnlyPipelineOutputs)
<1> SUFFICES ASSUME OneDir PROVE Spec => []OnlyPipelineOutputs
  OBVIOUS
<1>1. Inv => OnlyPipelineOutputs
  <2>1. SUFFICES ASSUME Inv, task.phase \in {"built", "cached"}, ~task.dry
                 PROVE  {f \in DOMAIN outs : f[1] = task.dir} = FinalOutputs(task.spec, task.dir)
    BY DEF OnlyPipelineOutputs
  <2>2. Done /\ Valid(task.spec)
    BY <2>1, TaskIs
  <2>3. \A f \in FinalOutputs(task.spec, task.dir) : f[1] = task.dir
    BY <2>2, FinalOutputsAre
  <2>4. Cleaned /\ FinalOutputs(task.spec, task.dir) \subseteq DOMAIN outs
    <3>1. CASE task.phase = "built"
      <4>1. /\ Cleaned /\ task.failed = {} /\ task.at = Len(task.spec) + 1
            /\ task.done \subseteq DOMAIN outs
        BY <2>2, <3>1 DEF Done
      <4>2. QED  BY <2>1, <3>1, <4>1, AllOutputs
    <3>2. CASE task.phase = "cached"
      BY <2>1, <3>2, ServedEntry
    <3>3. QED  BY <2>1, <3>1, <3>2
  <2>5. QED  BY <2>3, <2>4 DEF Cleaned
<1>2. QED  BY <1>1, InvHolds, PTL

-----------------------------------------------------------------------------
(* The validation.  validate_alternation accepts exactly the pipelines     *)
(* that obey the rules it enforces, whatever the stages and the length of  *)
(* the pipeline: what PipelinesAreValid assumes of the declared ones.      *)

\* A pipeline is a sequence of stages, each of one of the three kinds.
LEMMA PipelineIsSeq ==
    ASSUME NEW s \in AnyPipeline
    PROVE  /\ Len(s) \in Nat
           /\ \A k \in 1..Len(s) : s[k].kind \in {"reader", "writer", "exec"}
<1>1. PICK n \in 0..MaxStages : s \in [1..n -> Stage]
  BY DEF AnyPipeline
<1>2. n \in Nat
  BY MaxStagesIsNat
<1>3. Len(s) = n
  BY <1>1, <1>2
<1> QED
  BY <1>1, <1>2, <1>3, StageShape

-----------------------------------------------------------------------------
(* The inductive invariant: what the loop has established of the stages    *)
(* before its position.                                                    *)

ReadersWrittenBefore(p) ==
    \A k \in 1..Len(stages) :
        k < p /\ IsReader(stages[k]) => k < Len(stages) /\ IsWriter(stages[k + 1])

FanOutLastBefore(p) ==
    \A k \in 1..(Len(stages) - 1) :
        k + 1 < p /\ IsWriter(stages[k]) /\ IsWriter(stages[k + 1]) =>
            AllWriters(stages, k, Len(stages))

FanOutDistinctBefore(p) ==
    \A j, k \in 1..Len(stages) :
        k < p /\ j < k /\ AllWriters(stages, j, k) => stages[j].name # stages[k].name

\* No group of writers is cut at p.
GroupStartsAt(p) ==
    1 < p /\ p <= Len(stages) => ~(IsWriter(stages[p - 1]) /\ IsWriter(stages[p]))

CheckedBefore(p) ==
    /\ FanOutLastBefore(p)
    /\ FanOutDistinctBefore(p)
    /\ GroupStartsAt(p)

LoopChecked ==
    /\ pc \in {"scan", "run"} => StartsWithReader(stages) /\ ReadersWrittenBefore(i)
    /\ pc = "scan" => CheckedBefore(i)
    /\ pc = "run" => CheckedBefore(runStart) /\ AllWriters(stages, runStart, i - 1)
    /\ pc = "start" => i = 1

LoopInv == LoopTypeOK /\ LoopChecked /\ VerdictIsRules

USE DEF IsReader, IsWriter, IsExec

\* Before the loop nothing has been checked.
LEMMA LoopInitInv == LoopInit => LoopInv
<1> SUFFICES ASSUME LoopInit PROVE LoopInv
  OBVIOUS
<1>1. Len(stages) \in Nat
  BY PipelineIsSeq DEF LoopInit
<1> QED
  BY <1>1 DEF LoopInit, LoopInv, LoopTypeOK, LoopChecked, VerdictIsRules

\* A rejection is right: the step has found a rule that the pipeline breaks.
LEMMA RejectInv ==
    ASSUME LoopInv, Reject, ~Enforced(stages)
    PROVE  LoopInv'
BY DEF LoopInv, Reject, LoopTypeOK, LoopChecked, VerdictIsRules, Enforced, StartsWithReader,
       ReadersAreWritten, FanOutIsLast, FanOutIsDistinct, LastExecHasExtension, AllWriters

\* The first stage has to be a reader.
LEMMA CheckStartInv == LoopInv /\ CheckStart => LoopInv'
<1> SUFFICES ASSUME LoopInv, CheckStart PROVE LoopInv'
  OBVIOUS
<1>0. Len(stages) \in Nat
  BY PipelineIsSeq DEF LoopInv, LoopTypeOK
<1>1. CASE ~StartsWithReader(stages)
  BY <1>1, RejectInv DEF CheckStart, Enforced
<1>2. CASE StartsWithReader(stages)
  <2>1. pc' = "scan" /\ stages' = stages /\ i' = 1 /\ runStart' = runStart
    BY <1>2 DEF CheckStart, LoopInv, LoopChecked
  <2>2. LoopTypeOK'
    BY <1>0, <2>1 DEF CheckStart, LoopInv, LoopTypeOK, LoopChecked
  <2>3. ReadersWrittenBefore(1)' /\ CheckedBefore(1)' /\ StartsWithReader(stages)'
    BY <1>0, <1>2, <2>1 DEF ReadersWrittenBefore, CheckedBefore, FanOutLastBefore,
                           FanOutDistinctBefore, GroupStartsAt, StartsWithReader
  <2> QED
    BY <2>1, <2>2, <2>3 DEF LoopInv, LoopChecked, VerdictIsRules
<1> QED
  BY <1>1, <1>2

\* Moving past a stage that is not a writer keeps what was established.
LEMMA AdvanceInv ==
    ASSUME LoopInv, pc = "scan", Advance, i <= Len(stages), ~IsWriter(stages[i]),
           IsReader(stages[i]) => i < Len(stages) /\ IsWriter(stages[i + 1])
    PROVE  LoopInv'
<1>0. Len(stages) \in Nat /\ i \in 1..Len(stages)
  BY PipelineIsSeq DEF LoopInv, LoopTypeOK
<1>1. stages' = stages /\ i' = i + 1 /\ runStart' = runStart /\ pc' = "scan"
  BY DEF Advance
<1>2. LoopTypeOK'
  BY <1>0, <1>1 DEF LoopInv, LoopTypeOK
<1>3. StartsWithReader(stages) /\ ReadersWrittenBefore(i) /\ CheckedBefore(i)
  BY DEF LoopInv, LoopChecked
<1>4. ReadersWrittenBefore(i + 1)
  BY <1>0, <1>3 DEF ReadersWrittenBefore
<1>5. FanOutLastBefore(i + 1)
  BY <1>0, <1>3 DEF FanOutLastBefore, CheckedBefore
<1>6. FanOutDistinctBefore(i + 1)
  BY <1>0, <1>3 DEF FanOutDistinctBefore, CheckedBefore, AllWriters
<1>7. GroupStartsAt(i + 1)
  BY <1>0 DEF GroupStartsAt
<1>8. (StartsWithReader(stages) /\ ReadersWrittenBefore(i) /\ CheckedBefore(i))'
  BY <1>1, <1>3, <1>4, <1>5, <1>6, <1>7
     DEF StartsWithReader, ReadersWrittenBefore, CheckedBefore, FanOutLastBefore,
         FanOutDistinctBefore, GroupStartsAt, AllWriters
<1> QED
  BY <1>1, <1>2, <1>8 DEF LoopInv, LoopChecked, VerdictIsRules

\* The loop passes a reader.
LEMMA ScanReaderInv == LoopInv /\ ScanReader => LoopInv'
<1> SUFFICES ASSUME LoopInv, ScanReader PROVE LoopInv'
  OBVIOUS
<1>0. Len(stages) \in Nat /\ i \in 1..Len(stages) /\ stages[i].kind = "reader"
  BY PipelineIsSeq DEF LoopInv, LoopTypeOK, ScanReader, At
<1>1. CASE i + 1 <= Len(stages) /\ IsWriter(stages[i + 1])
  BY <1>0, <1>1, AdvanceInv DEF ScanReader
<1>2. CASE ~(i + 1 <= Len(stages) /\ IsWriter(stages[i + 1]))
  <2>1. ~Enforced(stages)
    BY <1>0, <1>2 DEF Enforced, ReadersAreWritten
  <2> QED
    BY <1>2, <2>1, RejectInv DEF ScanReader
<1> QED
  BY <1>1, <1>2

\* The loop passes an exec.
LEMMA ScanExecInv == LoopInv /\ ScanExec => LoopInv'
<1> SUFFICES ASSUME LoopInv, ScanExec PROVE LoopInv'
  OBVIOUS
<1>0. i <= Len(stages) /\ stages[i].kind = "exec" /\ pc = "scan" /\ Advance
  BY DEF ScanExec, At
<1> QED
  BY <1>0, AdvanceInv

\* A group of writers begins.
LEMMA EnterWritersInv == LoopInv /\ EnterWriters => LoopInv'
<1> SUFFICES ASSUME LoopInv, EnterWriters PROVE LoopInv'
  OBVIOUS
<1>0. Len(stages) \in Nat /\ i \in 1..Len(stages)
  BY PipelineIsSeq DEF LoopInv, LoopTypeOK, EnterWriters, At
<1>1. stages' = stages /\ i' = i /\ runStart' = i /\ pc' = "run" /\ pc = "scan"
  BY DEF EnterWriters
<1>2. LoopTypeOK'
  BY <1>0, <1>1 DEF LoopInv, LoopTypeOK
<1>3. StartsWithReader(stages)' /\ ReadersWrittenBefore(i)' /\ CheckedBefore(runStart)'
  BY <1>1 DEF LoopInv, LoopChecked, StartsWithReader, ReadersWrittenBefore, CheckedBefore,
              FanOutLastBefore, FanOutDistinctBefore, GroupStartsAt, AllWriters
<1>4. AllWriters(stages, runStart, i - 1)'
  BY <1>0, <1>1 DEF AllWriters
<1> QED
  BY <1>1, <1>2, <1>3, <1>4 DEF LoopInv, LoopChecked, VerdictIsRules

\* The group goes on.
LEMMA NextWriterInv == LoopInv /\ NextWriter => LoopInv'
<1> SUFFICES ASSUME LoopInv, NextWriter PROVE LoopInv'
  OBVIOUS
<1>0. /\ Len(stages) \in Nat /\ i \in 1..Len(stages) /\ runStart \in 1..i
      /\ stages[i].kind = "writer"
  BY PipelineIsSeq DEF LoopInv, LoopTypeOK, NextWriter, At
<1>1. stages' = stages /\ i' = i + 1 /\ runStart' = runStart /\ pc' = "run" /\ pc = "run"
  BY DEF NextWriter, Advance
<1>2. LoopTypeOK'
  BY <1>0, <1>1 DEF LoopInv, LoopTypeOK
<1>3. ReadersWrittenBefore(i) /\ AllWriters(stages, runStart, i - 1)
  BY <1>1 DEF LoopInv, LoopChecked
<1>4. ReadersWrittenBefore(i + 1)
  BY <1>0, <1>3 DEF ReadersWrittenBefore
<1>5. AllWriters(stages, runStart, i)
  BY <1>0, <1>3 DEF AllWriters
<1>6. StartsWithReader(stages)' /\ CheckedBefore(runStart)'
  BY <1>1 DEF LoopInv, LoopChecked, StartsWithReader, CheckedBefore,
              FanOutLastBefore, FanOutDistinctBefore, GroupStartsAt, AllWriters
<1>7. ReadersWrittenBefore(i)' /\ AllWriters(stages, runStart, i - 1)'
  BY <1>0, <1>1, <1>4, <1>5 DEF ReadersWrittenBefore, AllWriters
<1> QED
  BY <1>1, <1>2, <1>6, <1>7 DEF LoopInv, LoopChecked, VerdictIsRules

\* The group ends, and is checked as a whole.
LEMMA LeaveWritersInv == LoopInv /\ LeaveWriters => LoopInv'
<1> SUFFICES ASSUME LoopInv, LeaveWriters PROVE LoopInv'
  OBVIOUS
<1> DEFINE TooEarly == i - runStart >= 2 /\ i - 1 # Len(stages)
<1>0. /\ Len(stages) \in Nat /\ i \in 1..(Len(stages) + 1) /\ runStart \in 1..i
      /\ i <= Len(stages) => ~IsWriter(stages[i])
  BY PipelineIsSeq DEF LoopInv, LoopTypeOK, LeaveWriters, At
<1>1. /\ StartsWithReader(stages) /\ ReadersWrittenBefore(i)
      /\ CheckedBefore(runStart) /\ AllWriters(stages, runStart, i - 1)
  BY DEF LeaveWriters, LoopInv, LoopChecked
<1>2. CASE DuplicateInRun
  <2>1. PICK j, k \in runStart..(i - 1) : j < k /\ stages[j].name = stages[k].name
    BY <1>2 DEF DuplicateInRun
  <2>2. j \in 1..Len(stages) /\ k \in 1..Len(stages) /\ AllWriters(stages, j, k)
    BY <1>0, <1>1, <2>1 DEF AllWriters
  <2>3. ~Enforced(stages)
    BY <2>1, <2>2 DEF Enforced, FanOutIsDistinct
  <2> QED
    BY <1>2, <2>3, RejectInv DEF LeaveWriters
<1>3. CASE TooEarly
  <2>1. /\ i - 2 \in 1..(Len(stages) - 1) /\ i \in (i - 2)..Len(stages)
        /\ IsWriter(stages[i - 2]) /\ IsWriter(stages[(i - 2) + 1])
        /\ ~IsWriter(stages[i])
    <3>1. /\ i \in Int /\ runStart \in Int /\ 1 <= runStart
          /\ runStart <= i - 2 /\ i <= Len(stages)
      BY <1>0, <1>3
    <3>2. /\ i - 2 \in runStart..(i - 1) /\ (i - 2) + 1 \in runStart..(i - 1)
          /\ i - 2 \in 1..(Len(stages) - 1) /\ i \in (i - 2)..Len(stages)
      BY <1>0, <3>1
    <3>3. IsWriter(stages[i - 2]) /\ IsWriter(stages[(i - 2) + 1])
      BY <1>1, <3>2 DEF AllWriters
    <3>4. QED  BY <1>0, <3>1, <3>2, <3>3
  <2>2. ~AllWriters(stages, i - 2, Len(stages))
    BY <2>1 DEF AllWriters
  <2>3. ~Enforced(stages)
    BY <2>1, <2>2 DEF Enforced, FanOutIsLast
  <2> QED
    BY <1>3, <2>3, RejectInv DEF LeaveWriters
<1>4. CASE ~DuplicateInRun /\ ~TooEarly
  <2>1. stages' = stages /\ i' = i /\ runStart' = runStart /\ pc' = "scan"
    BY <1>4 DEF LeaveWriters
  <2>2. LoopTypeOK'
    BY <1>0, <2>1 DEF LoopInv, LoopTypeOK
  <2>3. FanOutLastBefore(i)
    <3> SUFFICES ASSUME NEW k \in 1..(Len(stages) - 1), k + 1 < i,
                        IsWriter(stages[k]), IsWriter(stages[k + 1])
                 PROVE  AllWriters(stages, k, Len(stages))
      BY DEF FanOutLastBefore
    <3>1. CASE k + 1 < runStart
      BY <1>1, <3>1 DEF CheckedBefore, FanOutLastBefore
    <3>2. k + 1 # runStart
      BY <1>0, <1>1 DEF CheckedBefore, GroupStartsAt
    <3>3. CASE k + 1 > runStart
      BY <1>0, <1>1, <1>4, <3>3 DEF AllWriters
    <3> QED
      BY <1>0, <3>1, <3>2, <3>3
  <2>4. FanOutDistinctBefore(i)
    <3> SUFFICES ASSUME NEW j \in 1..Len(stages), NEW k \in 1..Len(stages),
                        k < i, j < k, AllWriters(stages, j, k)
                 PROVE  stages[j].name # stages[k].name
      BY DEF FanOutDistinctBefore
    <3>1. CASE k < runStart
      BY <1>1, <3>1 DEF CheckedBefore, FanOutDistinctBefore
    <3>2. CASE runStart <= j
      BY <1>0, <1>4, <3>2 DEF DuplicateInRun
    <3>3. ~(j < runStart /\ runStart <= k)
      BY <1>0, <1>1 DEF AllWriters, CheckedBefore, GroupStartsAt
    <3> QED
      BY <1>0, <3>1, <3>2, <3>3
  <2>5. GroupStartsAt(i)
    BY <1>0 DEF GroupStartsAt
  <2>6. (StartsWithReader(stages) /\ ReadersWrittenBefore(i) /\ CheckedBefore(i))'
    BY <1>1, <2>1, <2>3, <2>4, <2>5
       DEF StartsWithReader, ReadersWrittenBefore, CheckedBefore, FanOutLastBefore,
           FanOutDistinctBefore, GroupStartsAt, AllWriters
  <2> QED
    BY <2>1, <2>2, <2>6 DEF LoopInv, LoopChecked, VerdictIsRules
<1> QED
  BY <1>2, <1>3, <1>4

\* The check after the loop.
LEMMA CheckLastInv == LoopInv /\ CheckLast => LoopInv'
<1> SUFFICES ASSUME LoopInv, CheckLast PROVE LoopInv'
  OBVIOUS
<1>0. Len(stages) \in Nat /\ i = Len(stages) + 1
  BY PipelineIsSeq DEF LoopInv, LoopTypeOK, CheckLast
<1>1. CASE ~LastExecHasExtension(stages)
  BY <1>1, RejectInv DEF CheckLast, Enforced
<1>2. CASE LastExecHasExtension(stages)
  <2>1. stages' = stages /\ i' = i /\ runStart' = runStart /\ pc' = "accepted"
    BY <1>2 DEF CheckLast
  <2>2. StartsWithReader(stages) /\ ReadersWrittenBefore(i) /\ CheckedBefore(i)
    BY DEF CheckLast, LoopInv, LoopChecked
  <2>3. Enforced(stages)
    BY <1>0, <1>2, <2>2 DEF Enforced, ReadersAreWritten, FanOutIsLast, FanOutIsDistinct,
        ReadersWrittenBefore, CheckedBefore, FanOutLastBefore, FanOutDistinctBefore
  <2>4. LoopTypeOK' /\ Enforced(stages)'
    BY <2>1, <2>3 DEF LoopInv, LoopTypeOK, Enforced, StartsWithReader, ReadersAreWritten,
        FanOutIsLast, FanOutIsDistinct, LastExecHasExtension, AllWriters
  <2> QED
    BY <2>1, <2>4 DEF LoopInv, LoopChecked, VerdictIsRules
<1> QED
  BY <1>1, <1>2

\* Stuttering steps.
LEMMA LoopStutterInv == LoopInv /\ UNCHANGED loopVars => LoopInv'
<1> SUFFICES ASSUME LoopInv, UNCHANGED loopVars PROVE LoopInv'
  OBVIOUS
<1>1. stages' = stages /\ i' = i /\ runStart' = runStart /\ pc' = pc
  BY DEF loopVars
<1>2. LoopTypeOK'
  BY <1>1 DEF LoopInv, LoopTypeOK
<1>3. LoopChecked'
  BY <1>1 DEF LoopInv, LoopChecked, ReadersWrittenBefore, CheckedBefore,
      FanOutLastBefore, FanOutDistinctBefore, GroupStartsAt
<1>4. VerdictIsRules'
  BY <1>1 DEF LoopInv, VerdictIsRules
<1> QED
  BY <1>2, <1>3, <1>4 DEF LoopInv

\* The invariant of the loop holds of every run of the validation.
THEOREM LoopInvariant == LoopSpec => []LoopInv
<1>1. LoopInv /\ [LoopNext]_loopVars => LoopInv'
  BY CheckStartInv, ScanReaderInv, EnterWritersInv, NextWriterInv, LeaveWritersInv,
     ScanExecInv, CheckLastInv, LoopStutterInv DEF LoopNext
<1> QED
  BY LoopInitInv, <1>1, PTL DEF LoopSpec

\* The position and the verdict stay in their ranges: the loop never looks
\* past the end of the pipeline.
THEOREM LoopTypes == LoopSpec => []LoopTypeOK
<1>1. LoopInv => LoopTypeOK
  BY DEF LoopInv
<1> QED
  BY LoopInvariant, <1>1, PTL

\* The validation accepts only pipelines that obey the enforced rules and
\* rejects only pipelines that break one.
THEOREM VerdictIsCorrect == LoopSpec => []VerdictIsRules
<1>1. LoopInv => VerdictIsRules
  BY DEF LoopInv
<1> QED
  BY LoopInvariant, <1>1, PTL
=============================================================================
