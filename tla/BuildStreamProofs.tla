------------------------- MODULE BuildStreamProofs -------------------------
(***************************************************************************)
(* Theorems about BatchBuild and BuildStream, for any tables, any pool and *)
(* any interleaving of its threads.                                        *)
(***************************************************************************)
EXTENDS BuildStream, MapsProofs, FiniteSetTheorems, FunctionTheorems,
        SequenceTheorems, WellFoundedInduction, TLAPS

-----------------------------------------------------------------------------
(* What the theorems suppose of a project.                                 *)

\* A table with intermediate files shares their directory with no other: what
\* the threads do to each other otherwise is shown by a run of BatchBuild.
OwnTmpDirs ==
    \A s, t \in Table : s # t /\ TmpDir(s) = TmpDir(t) => Inner[s] = 0

\* A batch table with an intermediate stage raises at its first checkpoint.
BatchesAreDirect == \A t \in Table \cap Batch : Inner[t] = 0

-----------------------------------------------------------------------------
(* The invariant.                                                          *)

Provenance == [of : Table, src : Content, stages : Nat]
CacheKey == Table \X Nat

Idle == {Waiting} \cup
        [pc : {"ended"}, key : Content, result : {"cached"}, faulty : {FALSE}]

Build == [pc : {"running", "ended"}, key : Content, at : Nat, emitted : BOOLEAN,
          result : {"none", "errors", "raised", "built"}, faulty : BOOLEAN,
          input : Provenance \cup {Absent}]

TypeOK ==
    /\ source \in [Table -> Content]
    /\ \A d \in DOMAIN tmp : tmp[d] \in PartialMap(Nat, Provenance)
    /\ artifacts \in PartialMap(CacheKey, Provenance)
    /\ outs \in PartialMap(Table, Provenance)
    /\ saved \in PartialMap(CacheKey, Content)
    /\ entries \in PartialMap(CacheKey, Content)
    /\ command \in {"none", "running", "raising"}
    /\ queue \in Seq(Table)
    /\ job \in [Table -> Idle \cup Build]
    /\ summary \in [built : SUBSET Table, cached : SUBSET Table, errors : SUBSET Table]

QueueWaits ==
    /\ \A i \in DOMAIN queue : job[queue[i]].pc = "waiting"
    /\ \A i, j \in DOMAIN queue : queue[i] = queue[j] => i = j

\* A command has nothing on its way when it ends, and nobody edits while it runs.
InCommand ==
    /\ \A t \in Table : job[t].pc = "ended" => job[t].result # "none"
    /\ command = "none" => queue = <<>> /\ \A t \in Table : job[t].pc # "running"
    /\ command # "none" => \A t \in Table : job[t].pc # "waiting" => job[t].key = source[t]

\* A result is counted as what it is.
CountedAsIs ==
    /\ \A t \in summary.built : job[t].pc = "ended" /\ job[t].result = "built"
    /\ \A t \in summary.cached : job[t].pc = "ended" /\ job[t].result = "cached"
    /\ \A t \in summary.errors : job[t].pc = "ended" /\ job[t].result = "errors"

\* The data is what the table's own source gives after n stages.
Right(t, data, n) == t \notin unsaved => data = Data(t, job[t].key, n)

InItsDir(t, k) ==
    /\ TmpDir(t) \in DOMAIN tmp /\ k \in DOMAIN tmp[TmpDir(t)]
    /\ Right(t, tmp[TmpDir(t)][k], k)

\* A build that goes on has its directory and the input of its stage.
HasItsFiles(t) ==
    /\ job[t].at \in 1..(Inner[t] + 1)
    /\ Inner[t] > 0 => TmpDir(t) \in DOMAIN tmp
    /\ job[t].input # Absent => Right(t, job[t].input, job[t].at - 1)
    /\ job[t].input = Absent => job[t].at > 1 /\ InItsDir(t, job[t].at - 1)
    /\ job[t].emitted => job[t].at <= Inner[t] /\ InItsDir(t, job[t].at)

FilesInPlace == \A t \in Table : On(t) => HasItsFiles(t)

HasOutput(t, key) == t \in DOMAIN outs /\ outs[t] = Data(t, key, Inner[t] + 1)

OutputsMade ==
    \A t \in Table \ unsaved :
        job[t].pc # "waiting" /\ job[t].result \in {"built", "cached"} => HasOutput(t, job[t].key)

Rebuilt(t) == job[t].pc = "running" /\ job[t].result = "built"

\* The entries of the cache are true of the outputs and of the checkpoints.
TrueOfOutputs(cache, T) ==
    \A t \in T \ unsaved :
        <<t, 0>> \in DOMAIN cache => HasOutput(t, cache[<<t, 0>>])

TrueOfCheckpoints(cache) ==
    \A t \in Table \ (Batch \cup unsaved) : \A k \in 1..Inner[t] :
        <<t, k>> \in DOMAIN cache \cap DOMAIN artifacts =>
            artifacts[<<t, k>>] = Data(t, cache[<<t, k>>], k)

CachesTrue ==
    /\ command = "none" => TrueOfOutputs(saved, Table) /\ TrueOfCheckpoints(saved)
    /\ command # "none" => /\ TrueOfOutputs(entries, {t \in Table : ~Rebuilt(t)})
                           /\ TrueOfCheckpoints(entries)

\* A command that raises has changed nothing of the tables that ran no stage.
IdleUntouched ==
    command # "none" => \A t \in Table : job[t] \in Idle => \A k \in Nat :
        /\ <<t, k>> \in DOMAIN entries <=> <<t, k>> \in DOMAIN saved
        /\ <<t, k>> \in DOMAIN entries => entries[<<t, k>>] = saved[<<t, k>>]

Inv == /\ TypeOK /\ QueueWaits /\ InCommand /\ CountedAsIs
       /\ FilesInPlace /\ OutputsMade /\ CachesTrue /\ IdleUntouched

\* Failures, of builds that go on too.
FailuresOwn ==
    \A t \in Table :
        job[t].pc # "waiting" /\ job[t].result \in {"errors", "raised"} => job[t].faulty

-----------------------------------------------------------------------------
(* Lemmas about the data.                                                  *)

Less == {p \in Nat \X Nat : p[1] < p[2]}

\* A set of numbers with a bound has a largest element.
LEMMA Largest ==
    ASSUME NEW n \in Nat, NEW S \in SUBSET (0..n), S # {}
    PROVE  \E m \in S : \A k \in S : k <= m
<1> DEFINE T == {n - k : k \in S}
<1>1. IsWellFoundedOn(Less, Nat)
  <2>1. OpToRel(<, Nat) = Less
    BY DEF OpToRel, Less
  <2>2. QED  BY <2>1, NatLessThanWellFounded
<1>2. T \subseteq Nat /\ T # {}
  <2>1. \A k \in S : n - k \in Nat /\ n - k \in T
    OBVIOUS
  <2>2. QED  BY <2>1
<1>3. PICK x \in T : \A y \in T : ~(<<y, x>> \in Less)
  BY <1>1, <1>2, WFMin
<1>4. PICK m \in S : x = n - m
  OBVIOUS
<1>5. ASSUME NEW k \in S
      PROVE  k <= m
  <2>1. n - k \in T /\ n - k \in Nat /\ x \in Nat
    BY <1>2
  <2>2. ~(n - k < x)
    BY <1>3, <2>1 DEF Less
  <2>3. QED  BY <1>4, <2>2
<1>6. QED  BY <1>5

\* Data that passes a stage is data that went through one stage more.
LEMMA OneStageMore ==
    ASSUME NEW d \in Provenance
    PROVE  /\ d # Absent /\ Through(d) \in Provenance
           /\ \A t, c : \A n \in Nat : d = Data(t, c, n) => Through(d) = Data(t, c, n + 1)
<1>1. d # Absent
  BY DEF Provenance, Absent
<1>2. Through(d) \in Provenance
  BY DEF Through, Provenance
<1>3. ASSUME NEW t, NEW c, NEW n \in Nat, d = Data(t, c, n)
      PROVE  Through(d) = Data(t, c, n + 1)
  BY <1>3 DEF Through, Data
<1>4. QED  BY <1>1, <1>2, <1>3

\* Data is data: no file is taken for a missing one.
LEMMA DataType ==
    \A t \in Table, c \in Content, n \in Nat :
        Data(t, c, n) \in Provenance /\ Data(t, c, n) # Absent
BY DEF Data, Provenance, Absent

\* The fields of a build, which is no job of the other kind.
LEMMA BuildFields ==
    ASSUME NEW b \in Build
    PROVE  /\ b.pc \in {"running", "ended"} /\ b.key \in Content /\ b.at \in Nat
           /\ b.emitted \in BOOLEAN /\ b.faulty \in BOOLEAN
           /\ b.result \in {"none", "errors", "raised", "built"}
           /\ b.input \in Provenance \cup {Absent}
           /\ b \notin Idle
<1>1. /\ b.pc \in {"running", "ended"} /\ b.key \in Content /\ b.at \in Nat
      /\ b.emitted \in BOOLEAN /\ b.faulty \in BOOLEAN
      /\ b.result \in {"none", "errors", "raised", "built"}
      /\ b.input \in Provenance \cup {Absent}
  BY DEF Build
<1>2. b # Waiting
  BY <1>1 DEF Waiting
<1>3. b \notin [pc : {"ended"}, key : Content, result : {"cached"}, faulty : {FALSE}]
  BY <1>1
<1>4. QED  BY <1>1, <1>2, <1>3 DEF Idle

\* The same of a job that is none.
LEMMA IdleFields ==
    ASSUME NEW b \in Idle
    PROVE  \/ b = Waiting /\ b.pc = "waiting"
           \/ b.pc = "ended" /\ b.key \in Content /\ b.result = "cached"
<1>1. CASE b = Waiting
  BY <1>1 DEF Waiting
<1>2. CASE b \in [pc : {"ended"}, key : Content, result : {"cached"}, faulty : {FALSE}]
  BY <1>2
<1>3. QED  BY <1>1, <1>2 DEF Idle

\* The same of the job of a table, by how far it is.
LEMMA JobFields ==
    ASSUME TypeOK, NEW t \in Table
    PROVE  /\ job[t].pc \in {"waiting", "running", "ended"}
           /\ job[t].pc = "waiting" => job[t] = Waiting
           /\ job[t].pc = "running" => job[t] \in Build
           /\ job[t].pc = "ended" =>
                 /\ job[t].key \in Content
                 /\ job[t].result \in {"none", "cached", "errors", "raised", "built"}
                 /\ job[t].result # "cached" => job[t] \in Build
           /\ job[t] \in Idle => job[t].pc = "waiting" \/ job[t].result = "cached"
           /\ job[t].pc = "ended" /\ job[t].result = "cached" => job[t] \in Idle
<1>1. CASE job[t] \in Idle
  BY <1>1, IdleFields
<1>2. CASE job[t] \in Build
  BY <1>2, BuildFields
<1>3. QED  BY <1>1, <1>2 DEF TypeOK

\* What a partial map holds is of its type.
LEMMA EntryType ==
    ASSUME NEW S, NEW T, NEW f \in PartialMap(S, T), NEW k \in DOMAIN f
    PROVE  k \in S /\ f[k] \in T
BY PartialMapDef

-----------------------------------------------------------------------------
(* Frames.                                                                 *)

\* A build keeps its files while nothing is done to its directory.
LEMMA FilesStay ==
    ASSUME Inv, NEW s \in Table, On(s), job'[s] = job[s], unsaved' = unsaved,
           Inner[s] > 0 =>
               (TmpDir(s) \in DOMAIN tmp =>
                    TmpDir(s) \in DOMAIN tmp' /\ tmp'[TmpDir(s)] = tmp[TmpDir(s)])
    PROVE  HasItsFiles(s)'
<1>1. HasItsFiles(s) /\ Inner[s] \in Nat
  BY InnerIsNat DEF Inv, FilesInPlace
<1>2. CASE Inner[s] > 0
  BY <1>1, <1>2 DEF HasItsFiles, InItsDir, Right
<1>3. CASE Inner[s] = 0
  BY <1>1, <1>3 DEF HasItsFiles, InItsDir, Right
<1>4. QED  BY <1>1, <1>2, <1>3

\* A thread's step on the job of t, which leaves the entries of the others alone.
LEMMA ThreadFrame ==
    ASSUME Inv, NEW t \in Table, job[t].pc = "running",
           NEW b \in Build, b.key = job[t].key, b.pc = "ended" => b.result # "none",
           job' = [job EXCEPT ![t] = b], UNCHANGED <<source, session, queue>>,
           \A s \in Table \ {t} : \A k \in Nat :
               /\ <<s, k>> \in DOMAIN entries' <=> <<s, k>> \in DOMAIN entries
               /\ <<s, k>> \in DOMAIN entries => entries'[<<s, k>>] = entries[<<s, k>>]
    PROVE  /\ command # "none" /\ command' = command /\ unsaved' = unsaved
           /\ job' \in [Table -> Idle \cup Build]
           /\ job'[t] = b /\ \A s \in Table \ {t} : job'[s] = job[s]
           /\ QueueWaits' /\ InCommand' /\ CountedAsIs' /\ IdleUntouched'
<1>1. /\ job' \in [Table -> Idle \cup Build]
      /\ job'[t] = b /\ \A s \in Table \ {t} : job'[s] = job[s]
  BY DEF Inv, TypeOK
<1>2. command # "none" /\ command' = command /\ unsaved' = unsaved
  BY DEF Inv, InCommand, session
<1>3. b.pc \in {"running", "ended"}
  BY DEF Build
<1>4. QueueWaits'
  <2>1. \A i \in DOMAIN queue : queue[i] \in Table /\ queue[i] # t
    BY DEF Inv, QueueWaits, TypeOK
  <2>2. QED  BY <1>1, <2>1 DEF Inv, QueueWaits
<1>5. InCommand'
  BY <1>1, <1>2, <1>3 DEF Inv, InCommand
<1>6. CountedAsIs'
  <2>1. summary \in [built : SUBSET Table, cached : SUBSET Table, errors : SUBSET Table]
    BY DEF Inv, TypeOK
  <2>2. t \notin summary.built \cup summary.cached \cup summary.errors
    BY DEF Inv, CountedAsIs
  <2>3. QED  BY <1>1, <2>1, <2>2 DEF Inv, CountedAsIs, session
<1>7. IdleUntouched'
  <2> SUFFICES ASSUME NEW s \in Table, job'[s] \in Idle, NEW k \in Nat
               PROVE  /\ <<s, k>> \in DOMAIN entries' <=> <<s, k>> \in DOMAIN saved
                      /\ <<s, k>> \in DOMAIN entries' => entries'[<<s, k>>] = saved[<<s, k>>]
    BY DEF IdleUntouched, session
  <2>1. s # t
    BY <1>1, BuildFields
  <2>2. QED  BY <1>1, <1>2, <2>1 DEF Inv, IdleUntouched
<1>8. QED  BY <1>1, <1>2, <1>4, <1>5, <1>6, <1>7

\* A step that touches neither outputs nor checkpoints nor entries, and makes no
\* table one that is to have its output.
LEMMA ResultsStay ==
    ASSUME Inv, command # "none", command' # "none",
           UNCHANGED <<artifacts, outs, entries, unsaved>>,
           \A s \in Table :
               \/ job'[s] = job[s]
               \/ /\ ~Rebuilt(s)
                  /\ job'[s].pc = "waiting" \/ job'[s].result \notin {"built", "cached"}
    PROVE  OutputsMade' /\ CachesTrue'
<1>1. OutputsMade'
  BY DEF Inv, OutputsMade, HasOutput
<1>2. \A s \in Table : ~Rebuilt(s)' => ~Rebuilt(s)
  BY DEF Rebuilt
<1>3. TrueOfOutputs(entries, {s \in Table : ~Rebuilt(s)})'
  BY <1>2 DEF Inv, CachesTrue, TrueOfOutputs, HasOutput
<1>4. TrueOfCheckpoints(entries)'
  BY DEF Inv, CachesTrue, TrueOfCheckpoints
<1>5. QED  BY <1>1, <1>3, <1>4 DEF CachesTrue

-----------------------------------------------------------------------------
(* The calling thread.                                                     *)

\* Nothing has been built and nothing is on its way.
LEMMA InitInv == Init => Inv /\ FailuresOwn
<1> SUFFICES ASSUME Init PROVE Inv /\ FailuresOwn
  OBVIOUS
<1>1. TypeOK
  <2>1. \A S, T : EmptyMap \in PartialMap(S, T) /\ DOMAIN EmptyMap = {}
    BY EmptyMapType
  <2>2. job \in [Table -> Idle \cup Build]
    BY DEF Init, Idle
  <2>3. summary \in [built : SUBSET Table, cached : SUBSET Table, errors : SUBSET Table]
    BY DEF Init, NoResults
  <2>4. queue \in Seq(Table)
    BY DEF Init
  <2>5. QED  BY <2>1, <2>2, <2>3, <2>4 DEF Init, TypeOK
<1>2. \A t \in Table : job[t].pc = "waiting"
  BY DEF Init, Waiting
<1>3. DOMAIN saved = {}
  BY EmptyMapType DEF Init
<1>4. QueueWaits /\ InCommand /\ FilesInPlace /\ OutputsMade /\ IdleUntouched /\ FailuresOwn
  BY <1>2 DEF Init, QueueWaits, InCommand, FilesInPlace, OutputsMade, IdleUntouched, On,
              FailuresOwn
<1>5. CountedAsIs /\ CachesTrue
  BY <1>3 DEF Init, NoResults, CountedAsIs, CachesTrue, TrueOfOutputs, TrueOfCheckpoints
<1>6. QED  BY <1>1, <1>4, <1>5 DEF Inv

\* Between commands a source is no part of what the invariant speaks of.
LEMMA EditInv ==
    ASSUME Inv, NEW t \in Table, NEW c \in Content, EditSource(t, c)
    PROVE  Inv'
<1>1. /\ command = "none" /\ source' = [source EXCEPT ![t] = c]
      /\ UNCHANGED <<tmp, artifacts, outs, saved, entries, command, queue, job, summary, unsaved>>
  BY DEF EditSource, files
<1>2. TypeOK' /\ QueueWaits' /\ InCommand' /\ CountedAsIs' /\ IdleUntouched'
  BY <1>1 DEF Inv, TypeOK, QueueWaits, InCommand, CountedAsIs, IdleUntouched
<1>3. FilesInPlace'
  BY <1>1 DEF Inv, FilesInPlace, On, HasItsFiles, InItsDir, Right
<1>4. OutputsMade' /\ CachesTrue'
  BY <1>1 DEF Inv, OutputsMade, CachesTrue, TrueOfOutputs, TrueOfCheckpoints, HasOutput, Rebuilt
<1>5. QED  BY <1>2, <1>3, <1>4 DEF Inv

\* A command starts from the saved entries.
LEMMA StartInv ==
    ASSUME Inv, Start
    PROVE  Inv' /\ FailuresOwn'
<1>1. /\ command = "none" /\ command' = "running" /\ entries' = saved /\ queue' = Order
      /\ job' = [t \in Table |-> Waiting] /\ summary' = NoResults
      /\ UNCHANGED <<source, tmp, artifacts, outs, saved, unsaved>>
  BY DEF Start, files
<1>2. \A t \in Table : job'[t] = Waiting /\ job'[t].pc = "waiting"
  BY <1>1 DEF Waiting
<1>3. TypeOK'
  <2>1. job' \in [Table -> Idle \cup Build]
    BY <1>1 DEF Idle
  <2>2. summary' \in [built : SUBSET Table, cached : SUBSET Table, errors : SUBSET Table]
    BY <1>1 DEF NoResults
  <2>3. QED  BY <1>1, <2>1, <2>2, OrderIsDistinct DEF Inv, TypeOK
<1>4. QueueWaits'
  <2>1. \A i \in DOMAIN Order : Order[i] \in Table
    BY DEF Table
  <2>2. QED  BY <1>1, <1>2, <2>1, OrderIsDistinct DEF QueueWaits
<1>5. InCommand' /\ FilesInPlace' /\ OutputsMade' /\ IdleUntouched' /\ FailuresOwn'
  BY <1>1, <1>2 DEF InCommand, FilesInPlace, OutputsMade, IdleUntouched, On, FailuresOwn
<1>6. CountedAsIs'
  BY <1>1 DEF NoResults, CountedAsIs
<1>7. CachesTrue'
  BY <1>1, <1>2
  DEF Inv, CachesTrue, TrueOfOutputs, TrueOfCheckpoints, HasOutput, Rebuilt
<1>8. QED  BY <1>3, <1>4, <1>5, <1>6, <1>7 DEF Inv

\* A result is counted under its own name; one that is raised is not counted.
LEMMA GatherInv ==
    ASSUME Inv, NEW t \in Table, Gather(t)
    PROVE  Inv'
<1>1. /\ command = "running" /\ command' \in {"running", "raising"}
      /\ job[t].pc = "ended" /\ t \notin Counted
      /\ UNCHANGED <<source, tmp, artifacts, outs, saved, entries, queue, job, unsaved>>
  BY DEF Gather, Ended, files
<1>2. /\ job[t].result \in {"cached", "errors", "raised", "built"}
      /\ summary \in [built : SUBSET Table, cached : SUBSET Table, errors : SUBSET Table]
  BY <1>1, JobFields DEF Inv, InCommand, TypeOK
<1>3. /\ summary' \in [built : SUBSET Table, cached : SUBSET Table, errors : SUBSET Table]
      /\ CountedAsIs'
  <2>1. CASE job[t].result = "raised"
    BY <1>1, <1>2, <2>1 DEF Gather, Inv, CountedAsIs
  <2>2. CASE job[t].result # "raised"
    <3>1. summary' = [summary EXCEPT ![job[t].result] = @ \cup {t}]
      BY <2>2 DEF Gather
    <3>2. CASE job[t].result = "built"
      BY <1>1, <1>2, <3>1, <3>2 DEF Inv, CountedAsIs
    <3>3. CASE job[t].result = "cached"
      BY <1>1, <1>2, <3>1, <3>3 DEF Inv, CountedAsIs
    <3>4. CASE job[t].result = "errors"
      BY <1>1, <1>2, <3>1, <3>4 DEF Inv, CountedAsIs
    <3>5. QED  BY <1>2, <2>2, <3>2, <3>3, <3>4
  <2>3. QED  BY <2>1, <2>2
<1>4. TypeOK' /\ QueueWaits' /\ InCommand' /\ IdleUntouched'
  BY <1>1, <1>3 DEF Inv, TypeOK, QueueWaits, InCommand, IdleUntouched
<1>5. FilesInPlace'
  BY <1>1 DEF Inv, FilesInPlace, On, HasItsFiles, InItsDir, Right
<1>6. OutputsMade' /\ CachesTrue'
  BY <1>1, ResultsStay
<1>7. QED  BY <1>3, <1>4, <1>5, <1>6 DEF Inv

\* A command that ends saves its entries; one that raises leaves them as they
\* were, which is right for the tables that ran no stage.
LEMMA ReturnInv ==
    ASSUME Inv, Return
    PROVE  Inv'
<1>1. /\ command # "none" /\ command' = "none" /\ entries' = EmptyMap
      /\ UNCHANGED <<source, tmp, artifacts, outs, queue, job, summary>>
      /\ unsaved \subseteq unsaved'
  BY DEF Return, files
<1>2. \A t \in Table : job[t].pc = "ended"
  <2>1. CASE command = "running"
    <3>1. Counted = Table
      BY <2>1 DEF Return
    <3>2. QED  BY <3>1 DEF Counted, Inv, CountedAsIs
  <2>2. CASE command # "running"
    BY <2>2 DEF Return, Ended
  <2>3. QED  BY <2>1, <2>2
<1>3. saved' \in PartialMap(CacheKey, Content)
  BY DEF Return, Inv, TypeOK
<1>4. TypeOK'
  BY <1>1, <1>3, EmptyMapType DEF Inv, TypeOK
<1>5. QueueWaits' /\ CountedAsIs' /\ IdleUntouched' /\ InCommand'
  <2>1. queue = <<>>
    <3>1. \A i \in DOMAIN queue : queue[i] \in Table /\ job[queue[i]].pc = "waiting"
      BY DEF Inv, QueueWaits, TypeOK
    <3>2. queue # <<>> => 1 \in DOMAIN queue
      BY DEF Inv, TypeOK
    <3>3. QED  BY <1>2, <3>1, <3>2
  <2>2. QED
    BY <1>1, <1>2, <2>1 DEF Inv, QueueWaits, CountedAsIs, IdleUntouched, InCommand
<1>6. FilesInPlace'
  BY <1>1, <1>2 DEF FilesInPlace, On
<1>7. OutputsMade'
  BY <1>1 DEF Inv, OutputsMade, HasOutput
<1>8. \A t \in Table : ~Rebuilt(t)
  BY <1>2 DEF Rebuilt
<1>9. CASE command = "running"
  <2>1. saved' = entries /\ unsaved' = unsaved
    BY <1>9 DEF Return
  <2>2. TrueOfOutputs(entries, Table) /\ TrueOfCheckpoints(entries)
    BY <1>1, <1>8 DEF Inv, CachesTrue, TrueOfOutputs
  <2>3. CachesTrue'
    BY <1>1, <2>1, <2>2 DEF CachesTrue, TrueOfOutputs, TrueOfCheckpoints, HasOutput
  <2>4. QED  BY <1>4, <1>5, <1>6, <1>7, <2>3 DEF Inv
<1>10. CASE command # "running"
  <2>1. saved' = saved /\ unsaved' = unsaved \cup {t \in Table : job[t].result # "cached"}
    BY <1>10 DEF Return
  <2>2. ASSUME NEW t \in Table \ unsaved', NEW k \in Nat, <<t, k>> \in DOMAIN saved
        PROVE  t \notin unsaved /\ <<t, k>> \in DOMAIN entries
               /\ entries[<<t, k>>] = saved[<<t, k>>]
    <3>1. t \notin unsaved /\ job[t] \in Idle
      BY <1>2, <2>1, JobFields DEF Inv
    <3>2. QED  BY <1>1, <2>2, <3>1 DEF Inv, IdleUntouched
  <2>3. TrueOfOutputs(saved, Table)'
    <3> SUFFICES ASSUME NEW t \in Table \ unsaved', <<t, 0>> \in DOMAIN saved
                 PROVE  HasOutput(t, saved[<<t, 0>>])
      BY <1>1, <2>1 DEF TrueOfOutputs, HasOutput
    <3>1. t \notin unsaved /\ <<t, 0>> \in DOMAIN entries /\ entries[<<t, 0>>] = saved[<<t, 0>>]
      BY <2>2
    <3>2. QED  BY <1>1, <1>8, <3>1 DEF Inv, CachesTrue, TrueOfOutputs
  <2>4. TrueOfCheckpoints(saved)'
    <3> SUFFICES ASSUME NEW t \in Table \ (Batch \cup unsaved'), NEW k \in 1..Inner[t],
                        <<t, k>> \in DOMAIN saved \cap DOMAIN artifacts
                 PROVE  artifacts[<<t, k>>] = Data(t, saved[<<t, k>>], k)
      BY <1>1, <2>1 DEF TrueOfCheckpoints
    <3>1. k \in Nat
      BY InnerIsNat
    <3>2. t \notin unsaved /\ <<t, k>> \in DOMAIN entries /\ entries[<<t, k>>] = saved[<<t, k>>]
      BY <2>2, <3>1
    <3>3. QED  BY <1>1, <3>2 DEF Inv, CachesTrue, TrueOfCheckpoints
  <2>5. QED  BY <1>1, <1>4, <1>5, <1>6, <1>7, <2>3, <2>4 DEF Inv, CachesTrue
<1>11. QED  BY <1>9, <1>10

-----------------------------------------------------------------------------
(* The threads of the pool.                                                *)

\* The checkpoint to resume from is one of those that are fresh, or none.
LEMMA FurthestIsOne ==
    ASSUME NEW t \in Table
    PROVE  Furthest(t) \in Checkpoints(t) \cup {0} /\ Furthest(t) \in 0..Inner[t]
<1>1. Inner[t] \in Nat
  BY InnerIsNat
<1>2. Checkpoints(t) \cup {0} \in SUBSET (0..Inner[t]) /\ Checkpoints(t) \cup {0} # {}
  BY <1>1 DEF Checkpoints
<1>3. \E k \in Checkpoints(t) \cup {0} : \A l \in Checkpoints(t) : l <= k
  <2>1. \E k \in Checkpoints(t) \cup {0} : \A l \in Checkpoints(t) \cup {0} : l <= k
    BY <1>1, <1>2, Largest
  <2>2. QED  BY <2>1
<1>4. Furthest(t) \in Checkpoints(t) \cup {0}
  BY <1>3 DEF Furthest
<1>5. QED  BY <1>2, <1>4

\* A table that is taken is served from an entry that is true, or starts with the
\* data of its own source, and with a directory.
LEMMA TakeInv ==
    ASSUME Inv, Take
    PROVE  Inv' /\ (FailuresOwn => FailuresOwn')
<1>1. PICK t : t = Head(queue)
  OBVIOUS
<1>2. /\ t \in Table /\ job[t].pc = "waiting" /\ job[t] = Waiting
      /\ queue' = Tail(queue) /\ queue' \in Seq(Table)
      /\ \A i \in DOMAIN queue' : i + 1 \in DOMAIN queue /\ queue'[i] = queue[i + 1]
      /\ \A i \in DOMAIN queue' : queue'[i] # t
  <2>1. queue # <<>> /\ queue' = Tail(queue) /\ queue \in Seq(Table)
    BY DEF Take, Inv, TypeOK
  <2>2. 1 \in DOMAIN queue /\ t = queue[1] /\ t \in Table
    BY <1>1, <2>1
  <2>3. /\ queue' \in Seq(Table)
        /\ \A i \in DOMAIN queue' : i # 0 /\ i + 1 # 1 /\ i + 1 \in DOMAIN queue
                                    /\ queue'[i] = queue[i + 1]
    BY <2>1
  <2>4. QED
    BY <2>1, <2>2, <2>3, JobFields DEF Inv, QueueWaits
<1>3. /\ command # "none"
      /\ UNCHANGED <<source, saved, command, summary, unsaved, artifacts, outs, entries>>
  <2>1. /\ queue # <<>>
        /\ UNCHANGED <<source, saved, command, summary, unsaved, artifacts, outs, entries>>
    BY DEF Take, session
  <2>2. QED  BY <2>1 DEF Inv, InCommand
<1> DEFINE hit == IsFresh(t, 0) /\ t \in DOMAIN outs
           new == IF hit THEN FromCache(t) ELSE Started(t)
<1>4. /\ job' = [job EXCEPT ![t] = new]
      /\ tmp' = IF hit \/ TmpDir(t) \in DOMAIN tmp THEN tmp ELSE Put(tmp, TmpDir(t), EmptyMap)
  BY <1>1 DEF Take
<1>5. /\ \A d \in DOMAIN tmp : d \in DOMAIN tmp' /\ tmp'[d] = tmp[d]
      /\ ~hit => TmpDir(t) \in DOMAIN tmp'
      /\ \A d \in DOMAIN tmp' : tmp'[d] \in PartialMap(Nat, Provenance)
  <2>1. \A d \in DOMAIN tmp : tmp[d] \in PartialMap(Nat, Provenance)
    BY DEF Inv, TypeOK
  <2>2. EmptyMap \in PartialMap(Nat, Provenance)
    BY EmptyMapType
  <2>3. CASE hit \/ TmpDir(t) \in DOMAIN tmp
    BY <1>4, <2>1, <2>3
  <2>4. CASE ~(hit \/ TmpDir(t) \in DOMAIN tmp)
    <3>1. tmp' = Put(tmp, TmpDir(t), EmptyMap) /\ TmpDir(t) \notin DOMAIN tmp
      BY <1>4, <2>4
    <3>2. /\ DOMAIN tmp' = DOMAIN tmp \cup {TmpDir(t)} /\ tmp'[TmpDir(t)] = EmptyMap
          /\ \A d \in DOMAIN tmp : d # TmpDir(t) => tmp'[d] = tmp[d]
      BY <3>1 DEF Put
    <3>3. QED  BY <2>1, <2>2, <3>1, <3>2
  <2>5. QED  BY <2>3, <2>4
<1>6. /\ Furthest(t) \in Checkpoints(t) \cup {0} /\ Furthest(t) \in 0..Inner[t]
      /\ Inner[t] \in Nat /\ source[t] \in Content
  BY <1>2, FurthestIsOne, InnerIsNat DEF Inv, TypeOK
<1>7. Furthest(t) # 0 =>
          /\ t \notin Batch /\ <<t, Furthest(t)>> \in DOMAIN entries \cap DOMAIN artifacts
          /\ entries[<<t, Furthest(t)>>] = source[t] /\ Furthest(t) \in 1..Inner[t]
          /\ artifacts[<<t, Furthest(t)>>] \in Provenance
  BY <1>6, EntryType DEF Checkpoints, IsFresh, Inv, TypeOK
<1>8. ~hit =>
          /\ new \in Build /\ new.pc = "running" /\ new.key = source[t]
          /\ new.at = Furthest(t) + 1 /\ new.emitted = FALSE /\ new.result = "none"
          /\ new.input # Absent
          /\ t \notin unsaved => new.input = Data(t, source[t], Furthest(t))
  <2> SUFFICES ASSUME ~hit
               PROVE  /\ Started(t) \in Build
                      /\ Started(t).input # Absent
                      /\ t \notin unsaved => Started(t).input = Data(t, source[t], Furthest(t))
    BY DEF Started
  <2>1. CASE Furthest(t) = 0
    <3>1. Started(t).input = Data(t, source[t], 0)
      BY <2>1 DEF Started
    <3>2. Data(t, source[t], 0) \in Provenance /\ Data(t, source[t], 0) # Absent
      BY <1>2, <1>6, DataType
    <3>3. QED  BY <1>6, <2>1, <3>1, <3>2 DEF Started, Build
  <2>2. CASE Furthest(t) # 0
    <3>1. Started(t).input = artifacts[<<t, Furthest(t)>>]
      BY <2>2 DEF Started
    <3>2. artifacts[<<t, Furthest(t)>>] \in Provenance /\ artifacts[<<t, Furthest(t)>>] # Absent
      BY <1>7, <2>2, OneStageMore
    <3>3. t \notin unsaved => artifacts[<<t, Furthest(t)>>] = Data(t, source[t], Furthest(t))
      BY <1>2, <1>3, <1>7, <2>2 DEF Inv, CachesTrue, TrueOfCheckpoints
    <3>4. QED  BY <1>6, <3>1, <3>2, <3>3 DEF Started, Build
  <2>3. QED  BY <2>1, <2>2
<1>9. hit => /\ new \in Idle /\ new.pc = "ended" /\ new.key = source[t]
             /\ new.result = "cached"
  BY <1>6 DEF FromCache, Idle
<1> HIDE DEF new
<1>10. /\ job'[t] = new /\ \A s \in Table \ {t} : job'[s] = job[s]
       /\ job' \in [Table -> Idle \cup Build]
  BY <1>2, <1>4, <1>8, <1>9 DEF Inv, TypeOK
<1>11. TypeOK'
  BY <1>2, <1>3, <1>5, <1>10 DEF Inv, TypeOK
<1>12. QueueWaits'
  <2>1. \A i \in DOMAIN queue' : queue'[i] \in Table /\ job'[queue'[i]] = job[queue'[i]]
    BY <1>2, <1>10
  <2>2. \A i \in DOMAIN queue' : job[queue'[i]].pc = "waiting"
    BY <1>2 DEF Inv, QueueWaits
  <2>3. ASSUME NEW i \in DOMAIN queue', NEW j \in DOMAIN queue', queue'[i] = queue'[j]
        PROVE  i = j
    <3>1. i + 1 = j + 1
      BY <1>2, <2>3 DEF Inv, QueueWaits
    <3>2. i \in Nat /\ j \in Nat
      BY <1>2
    <3>3. QED  BY <3>1, <3>2
  <2>4. QED  BY <2>1, <2>2, <2>3 DEF QueueWaits
<1>13. InCommand' /\ (FailuresOwn => FailuresOwn')
  BY <1>3, <1>8, <1>9, <1>10 DEF Inv, InCommand, FailuresOwn
<1>14. CountedAsIs'
  BY <1>2, <1>3, <1>10, <1>11 DEF Inv, CountedAsIs, TypeOK
<1>15. FilesInPlace'
  <2> SUFFICES ASSUME NEW s \in Table, On(s)' PROVE HasItsFiles(s)'
    BY DEF FilesInPlace
  <2>1. CASE s = t
    <3>1. ~hit
      BY <1>9, <1>10, <2>1 DEF On
    <3>2. QED
      BY <1>3, <1>5, <1>6, <1>8, <1>10, <2>1, <3>1 DEF HasItsFiles, Right
  <2>2. CASE s # t
    BY <1>3, <1>5, <1>10, <2>2, FilesStay DEF On
  <2>3. QED  BY <2>1, <2>2
<1>16. OutputsMade' /\ CachesTrue'
  <2>1. OutputsMade'
    <3> SUFFICES ASSUME NEW s \in Table \ unsaved, job'[s].pc # "waiting",
                        job'[s].result \in {"built", "cached"}
                 PROVE  HasOutput(s, job'[s].key)
      BY <1>3 DEF OutputsMade, HasOutput
    <3>1. CASE s = t
      <4>1. hit /\ job'[s].key = source[t]
        BY <1>8, <1>9, <1>10, <3>1
      <4>2. <<t, 0>> \in DOMAIN entries /\ entries[<<t, 0>>] = source[t]
        BY <4>1 DEF IsFresh
      <4>3. ~Rebuilt(t)
        BY <1>2 DEF Rebuilt
      <4>4. QED
        BY <1>2, <1>3, <3>1, <4>1, <4>2, <4>3 DEF Inv, CachesTrue, TrueOfOutputs
    <3>2. CASE s # t
      BY <1>10, <3>2 DEF Inv, OutputsMade
    <3>3. QED  BY <3>1, <3>2
  <2>2. \A s \in Table : ~Rebuilt(s)' => ~Rebuilt(s)
    BY <1>2, <1>10 DEF Rebuilt
  <2>3. CachesTrue'
    BY <1>3, <2>2 DEF Inv, CachesTrue, TrueOfOutputs, TrueOfCheckpoints, HasOutput
  <2>4. QED  BY <2>1, <2>3
<1>17. IdleUntouched'
  <2>1. \A s \in Table : job'[s] \in Idle => job[s] \in Idle
    BY <1>2, <1>10 DEF Idle
  <2>2. QED  BY <1>3, <2>1 DEF Inv, IdleUntouched
<1>18. QED
  BY <1>11, <1>12, <1>13, <1>14, <1>15, <1>16, <1>17 DEF Inv

\* The stage that is to run finds its input.
LEMMA InputInPlace ==
    ASSUME Inv, NEW t \in Table, On(t)
    PROVE  /\ job[t] \in Build /\ job[t].pc = "running" /\ job[t].result = "none"
           /\ job[t].at \in 1..(Inner[t] + 1) /\ Inner[t] \in Nat
           /\ Input(t) \in Provenance /\ Input(t) # Absent
           /\ Right(t, Input(t), job[t].at - 1)
           /\ job[t].at <= Inner[t] => TmpDir(t) \in DOMAIN tmp
<1>1. /\ job[t] \in Build /\ job[t].pc = "running" /\ job[t].result = "none"
      /\ HasItsFiles(t)
  BY JobFields DEF On, Inv, FilesInPlace
<1>2. /\ job[t].at \in 1..(Inner[t] + 1) /\ Inner[t] \in Nat
      /\ job[t].at <= Inner[t] => TmpDir(t) \in DOMAIN tmp
  BY <1>1, InnerIsNat DEF HasItsFiles
<1>3. CASE job[t].input # Absent
  <2>1. Input(t) = job[t].input /\ job[t].input \in Provenance
    BY <1>1, <1>3, BuildFields DEF Input
  <2>2. QED  BY <1>1, <1>2, <1>3, <2>1 DEF HasItsFiles
<1>4. CASE job[t].input = Absent
  <2>1. InItsDir(t, job[t].at - 1)
    BY <1>1, <1>4 DEF HasItsFiles
  <2>2. Input(t) = tmp[TmpDir(t)][job[t].at - 1]
    BY <1>4, <2>1 DEF Input, InTmp, InItsDir
  <2>3. Input(t) \in Provenance
    <3>1. tmp[TmpDir(t)] \in PartialMap(Nat, Provenance)
      BY <2>1 DEF InItsDir, Inv, TypeOK
    <3>2. QED  BY <2>1, <2>2, <3>1, EntryType DEF InItsDir
  <2>4. QED
    BY <1>1, <1>2, <2>1, <2>2, <2>3, OneStageMore DEF InItsDir, Right
<1>5. QED  BY <1>1, <1>2, <1>3, <1>4

\* The file that a stage has written is there to be copied.
LEMMA EmittedInPlace ==
    ASSUME Inv, NEW t \in Table, On(t), job[t].emitted
    PROVE  /\ job[t].at \in 1..Inner[t] /\ TmpDir(t) \in DOMAIN tmp
           /\ job[t].at \in DOMAIN tmp[TmpDir(t)]
           /\ InTmp(t, job[t].at) = tmp[TmpDir(t)][job[t].at]
           /\ InTmp(t, job[t].at) \in Provenance /\ InTmp(t, job[t].at) # Absent
           /\ Right(t, InTmp(t, job[t].at), job[t].at)
<1>1. HasItsFiles(t) /\ Inner[t] \in Nat
  BY InnerIsNat DEF Inv, FilesInPlace
<1>2. job[t].at \in 1..Inner[t] /\ InItsDir(t, job[t].at)
  BY <1>1 DEF HasItsFiles
<1>3. InTmp(t, job[t].at) = tmp[TmpDir(t)][job[t].at]
  BY <1>2 DEF InTmp, InItsDir
<1>4. InTmp(t, job[t].at) \in Provenance
  <2>1. tmp[TmpDir(t)] \in PartialMap(Nat, Provenance)
    BY <1>2 DEF InItsDir, Inv, TypeOK
  <2>2. QED  BY <1>2, <1>3, <2>1, EntryType DEF InItsDir
<1>5. QED
  BY <1>2, <1>3, <1>4, OneStageMore DEF InItsDir

\* A stage writes its file into a directory that no other build needs.
LEMMA EmitInv ==
    ASSUME Inv, OwnTmpDirs, NEW t \in Table, Emit(t)
    PROVE  Inv' /\ (FailuresOwn => FailuresOwn')
<1>1. /\ job[t] \in Build /\ job[t].pc = "running" /\ job[t].result = "none"
      /\ job[t].at \in 1..Inner[t] /\ Inner[t] \in Nat
      /\ Input(t) \in Provenance /\ Input(t) # Absent
      /\ Right(t, Input(t), job[t].at - 1)
      /\ TmpDir(t) \in DOMAIN tmp
  BY InputInPlace DEF Emit
<1> DEFINE b == [job[t] EXCEPT !.emitted = TRUE]
           dir == Put(tmp[TmpDir(t)], job[t].at, Through(Input(t)))
<1>2. /\ job' = [job EXCEPT ![t] = b]
      /\ tmp' = [tmp EXCEPT ![TmpDir(t)] = dir]
      /\ UNCHANGED <<source, session, artifacts, outs, entries, queue>>
  BY <1>1 DEF Emit
<1>3. /\ b \in Build /\ b.key = job[t].key /\ b.pc = "running" /\ b.result = "none"
      /\ b.at = job[t].at /\ b.input = job[t].input /\ b.emitted = TRUE
      /\ b.faulty = job[t].faulty
  BY <1>1 DEF Build
<1> HIDE DEF b
<1>4. /\ command # "none" /\ command' = command /\ unsaved' = unsaved
      /\ job' \in [Table -> Idle \cup Build]
      /\ job'[t] = b /\ \A s \in Table \ {t} : job'[s] = job[s]
      /\ QueueWaits' /\ InCommand' /\ CountedAsIs' /\ IdleUntouched'
  BY <1>1, <1>2, <1>3, ThreadFrame
<1>5. /\ dir \in PartialMap(Nat, Provenance)
      /\ DOMAIN dir = DOMAIN tmp[TmpDir(t)] \cup {job[t].at}
      /\ dir[job[t].at] = Through(Input(t))
      /\ \A k \in DOMAIN tmp[TmpDir(t)] : k # job[t].at => dir[k] = tmp[TmpDir(t)][k]
  <2>1. tmp[TmpDir(t)] \in PartialMap(Nat, Provenance)
    BY <1>1 DEF Inv, TypeOK
  <2>2. Through(Input(t)) \in Provenance /\ job[t].at \in Nat
    BY <1>1, OneStageMore
  <2>3. dir \in PartialMap(Nat, Provenance)
    BY <2>1, <2>2, PutType
  <2>4. QED  BY <2>3 DEF Put
<1>6. /\ DOMAIN tmp' = DOMAIN tmp /\ tmp'[TmpDir(t)] = dir
      /\ \A d \in DOMAIN tmp : d # TmpDir(t) => tmp'[d] = tmp[d]
  BY <1>1, <1>2
<1>7. TypeOK'
  BY <1>2, <1>4, <1>5, <1>6 DEF Inv, TypeOK, session
<1>8. FilesInPlace'
  <2> SUFFICES ASSUME NEW s \in Table, On(s)' PROVE HasItsFiles(s)'
    BY DEF FilesInPlace
  <2>1. CASE s = t
    <3>1. HasItsFiles(t)
      BY <1>1 DEF On, Inv, FilesInPlace
    <3>2. t \notin unsaved => Through(Input(t)) = Data(t, job[t].key, job[t].at)
      <4>1. t \notin unsaved => Input(t) = Data(t, job[t].key, job[t].at - 1)
        BY <1>1 DEF Right
      <4>2. job[t].at - 1 \in Nat /\ (job[t].at - 1) + 1 = job[t].at
        BY <1>1
      <4>3. QED  BY <1>1, <4>1, <4>2, OneStageMore
    <3>3. InItsDir(t, job[t].at)'
      BY <1>1, <1>3, <1>4, <1>5, <1>6, <3>2 DEF InItsDir, Right
    <3>4. job[t].input = Absent => job[t].at > 1 /\ InItsDir(t, job[t].at - 1)'
      BY <1>1, <1>3, <1>4, <1>5, <1>6, <3>1 DEF HasItsFiles, InItsDir, Right
    <3>5. QED
      BY <1>1, <1>3, <1>4, <1>6, <2>1, <3>1, <3>3, <3>4 DEF HasItsFiles, Right
  <2>2. CASE s # t
    <3>1. Inner[s] > 0 => TmpDir(s) # TmpDir(t)
      BY <2>2, InnerIsNat DEF OwnTmpDirs
    <3>2. QED
      BY <1>4, <1>6, <2>2, <3>1, FilesStay DEF On
  <2>3. QED  BY <2>1, <2>2
<1>9. OutputsMade' /\ CachesTrue'
  <2>1. ~Rebuilt(t) /\ b.result \notin {"built", "cached"}
    BY <1>1, <1>3 DEF Rebuilt
  <2>2. QED  BY <1>2, <1>4, <2>1, ResultsStay
<1>10. FailuresOwn => FailuresOwn'
  BY <1>3, <1>4 DEF FailuresOwn
<1>11. QED  BY <1>4, <1>7, <1>8, <1>9, <1>10 DEF Inv

\* A checkpoint is copied and recorded in one step, under the key of the build.
LEMMA PersistInv ==
    ASSUME Inv, NEW t \in Table, Persist(t)
    PROVE  Inv' /\ (BatchesAreDirect /\ FailuresOwn => FailuresOwn')
<1>0. PICK n : n = job[t].at
  OBVIOUS
<1> DEFINE file == InTmp(t, n)
<1>1. /\ job[t] \in Build /\ job[t].pc = "running" /\ job[t].result = "none"
      /\ Inner[t] \in Nat /\ n \in 1..Inner[t] /\ n \in Nat \ {0}
      /\ TmpDir(t) \in DOMAIN tmp /\ n \in DOMAIN tmp[TmpDir(t)]
      /\ file = tmp[TmpDir(t)][n] /\ file \in Provenance /\ file # Absent
      /\ Right(t, file, n)
      /\ job[t].key \in Content
  <2>1. On(t) /\ job[t].emitted
    BY DEF Persist
  <2>2. job[t] \in Build /\ Inner[t] \in Nat
    BY <2>1, InputInPlace
  <2>3. QED  BY <1>0, <2>1, <2>2, InputInPlace, EmittedInPlace, BuildFields
<1>2. /\ artifacts' = Put(artifacts, <<t, n>>, file)
      /\ UNCHANGED <<source, session, tmp, outs, queue>>
  BY <1>0, <1>1 DEF Persist
<1>3. /\ artifacts' \in PartialMap(CacheKey, Provenance)
      /\ DOMAIN artifacts' = DOMAIN artifacts \cup {<<t, n>>}
      /\ artifacts'[<<t, n>>] = file
      /\ \A e \in DOMAIN artifacts : e # <<t, n>> => artifacts'[e] = artifacts[e]
  <2>1. artifacts' \in PartialMap(CacheKey, Provenance)
    BY <1>1, <1>2, PutType DEF Inv, TypeOK, CacheKey
  <2>2. QED  BY <1>2, <2>1 DEF Put
<1> HIDE DEF file
<1>4. CASE t \in Batch
  <2> DEFINE b == [job[t] EXCEPT !.result = "raised"]
  <2>1. job' = [job EXCEPT ![t] = b] /\ entries' = entries
    BY <1>4 DEF Persist, EndsAs
  <2>2. b \in Build /\ b.key = job[t].key /\ b.pc = "running" /\ b.result = "raised"
    BY <1>1 DEF Build
  <2> HIDE DEF b
  <2>3. /\ command # "none" /\ command' = command /\ unsaved' = unsaved
        /\ job' \in [Table -> Idle \cup Build]
        /\ job'[t] = b /\ \A s \in Table \ {t} : job'[s] = job[s]
        /\ QueueWaits' /\ InCommand' /\ CountedAsIs' /\ IdleUntouched'
    BY <1>1, <1>2, <2>1, <2>2, ThreadFrame
  <2>4. TypeOK'
    BY <1>2, <1>3, <2>1, <2>3 DEF Inv, TypeOK, session
  <2>5. FilesInPlace'
    <3> SUFFICES ASSUME NEW s \in Table, On(s)' PROVE HasItsFiles(s)'
      BY DEF FilesInPlace
    <3>1. s # t
      BY <2>2, <2>3 DEF On
    <3>2. QED  BY <1>2, <2>3, <3>1, FilesStay DEF On
  <2>6. OutputsMade'
    BY <1>2, <2>2, <2>3 DEF Inv, OutputsMade, HasOutput
  <2>7. CachesTrue'
    <3>1. \A s \in Table : Rebuilt(s)' <=> Rebuilt(s)
      BY <1>1, <2>2, <2>3 DEF Rebuilt
    <3>2. TrueOfOutputs(entries, {s \in Table : ~Rebuilt(s)})'
      BY <1>2, <2>1, <2>3, <3>1 DEF Inv, CachesTrue, TrueOfOutputs, HasOutput
    <3>3. TrueOfCheckpoints(entries)'
      BY <1>3, <1>4, <2>1, <2>3 DEF Inv, CachesTrue, TrueOfCheckpoints
    <3>4. QED  BY <2>3, <3>2, <3>3 DEF CachesTrue
  <2>8. ~BatchesAreDirect
    BY <1>1, <1>4 DEF BatchesAreDirect
  <2>9. QED  BY <2>3, <2>4, <2>5, <2>6, <2>7, <2>8 DEF Inv
<1>5. CASE t \notin Batch
  <2> DEFINE b == [job[t] EXCEPT !.at = n + 1, !.emitted = FALSE, !.input = Absent]
  <2>1. job' = [job EXCEPT ![t] = b] /\ entries' = Put(entries, <<t, n>>, job[t].key)
    BY <1>0, <1>1, <1>5 DEF Persist, file
  <2>2. /\ b \in Build /\ b.key = job[t].key /\ b.pc = "running" /\ b.result = "none"
        /\ b.at = n + 1 /\ b.emitted = FALSE /\ b.input = Absent
        /\ b.faulty = job[t].faulty
    <3>1. /\ b.at = n + 1 /\ b.emitted = FALSE /\ b.input = Absent
          /\ b.key = job[t].key /\ b.pc = job[t].pc /\ b.result = job[t].result
          /\ b.faulty = job[t].faulty
      BY <1>1 DEF Build
    <3>2. n + 1 \in Nat
      BY <1>1
    <3>3. b \in Build
      BY <1>1, <3>2 DEF Build
    <3>4. QED  BY <1>1, <3>1, <3>3
  <2> HIDE DEF b
  <2>3. /\ entries' \in PartialMap(CacheKey, Content)
        /\ DOMAIN entries' = DOMAIN entries \cup {<<t, n>>}
        /\ entries'[<<t, n>>] = job[t].key
        /\ \A e \in DOMAIN entries : e # <<t, n>> => entries'[e] = entries[e]
    <3>1. entries' \in PartialMap(CacheKey, Content)
      BY <1>1, <2>1, PutType DEF Inv, TypeOK, CacheKey
    <3>2. QED  BY <2>1, <3>1 DEF Put
  <2>4. /\ command # "none" /\ command' = command /\ unsaved' = unsaved
        /\ job' \in [Table -> Idle \cup Build]
        /\ job'[t] = b /\ \A s \in Table \ {t} : job'[s] = job[s]
        /\ QueueWaits' /\ InCommand' /\ CountedAsIs' /\ IdleUntouched'
    <3>1. \A s \in Table \ {t} : \A k \in Nat :
              /\ <<s, k>> \in DOMAIN entries' <=> <<s, k>> \in DOMAIN entries
              /\ <<s, k>> \in DOMAIN entries => entries'[<<s, k>>] = entries[<<s, k>>]
      BY <2>3
    <3>2. QED  BY <1>1, <1>2, <2>1, <2>2, <3>1, ThreadFrame
  <2>5. TypeOK'
    BY <1>2, <1>3, <2>3, <2>4 DEF Inv, TypeOK, session
  <2>6. FilesInPlace'
    <3> SUFFICES ASSUME NEW s \in Table, On(s)' PROVE HasItsFiles(s)'
      BY DEF FilesInPlace
    <3>1. CASE s = t
      <4>1. InItsDir(t, n)'
        BY <1>1, <1>2, <2>2, <2>4 DEF InItsDir, Right
      <4>2. job'[t].at = n + 1 /\ (n + 1) - 1 = n /\ n + 1 \in 1..(Inner[t] + 1) /\ n + 1 > 1
        BY <1>1, <2>2, <2>4
      <4>3. InItsDir(t, job[t].at - 1)'
        BY <4>1, <4>2 DEF InItsDir, Right
      <4>4. QED
        BY <1>1, <1>2, <2>2, <2>4, <3>1, <4>2, <4>3 DEF HasItsFiles
    <3>2. CASE s # t
      BY <1>2, <2>4, <3>2, FilesStay DEF On
    <3>3. QED  BY <3>1, <3>2
  <2>7. OutputsMade'
    BY <1>2, <2>2, <2>4 DEF Inv, OutputsMade, HasOutput
  <2>8. CachesTrue'
    <3>1. \A s \in Table : Rebuilt(s)' <=> Rebuilt(s)
      BY <1>1, <2>2, <2>4 DEF Rebuilt
    <3>2. TrueOfOutputs(entries, {s \in Table : ~Rebuilt(s)})'
      <4>1. \A s : <<s, 0>> # <<t, n>>
        BY <1>1
      <4>2. \A s : <<s, 0>> \in DOMAIN entries' =>
                       <<s, 0>> \in DOMAIN entries /\ entries'[<<s, 0>>] = entries[<<s, 0>>]
        BY <2>3, <4>1
      <4>3. QED
        BY <1>2, <2>4, <3>1, <4>2 DEF Inv, CachesTrue, TrueOfOutputs, HasOutput
    <3>3. TrueOfCheckpoints(entries)'
      <4> SUFFICES ASSUME NEW s \in Table \ (Batch \cup unsaved), NEW k \in 1..Inner[s],
                          <<s, k>> \in DOMAIN entries' \cap DOMAIN artifacts'
                   PROVE  artifacts'[<<s, k>>] = Data(s, entries'[<<s, k>>], k)
        BY <2>4 DEF TrueOfCheckpoints
      <4>1. CASE s = t /\ k = n
        BY <1>1, <1>3, <2>3, <4>1 DEF Right
      <4>2. CASE ~(s = t /\ k = n)
        <5>1. <<s, k>> # <<t, n>>
          BY <4>2
        <5>2. <<s, k>> \in DOMAIN entries \cap DOMAIN artifacts
          BY <1>3, <2>3, <5>1
        <5>3. QED
          BY <1>3, <2>3, <2>4, <5>1, <5>2 DEF Inv, CachesTrue, TrueOfCheckpoints
      <4>3. QED  BY <4>1, <4>2
    <3>4. QED  BY <2>4, <3>2, <3>3 DEF CachesTrue
  <2>9. FailuresOwn => FailuresOwn'
    BY <2>2, <2>4 DEF FailuresOwn
  <2>10. QED  BY <2>4, <2>5, <2>6, <2>7, <2>8, <2>9 DEF Inv
<1>6. QED  BY <1>4, <1>5

\* The last stage makes the output of the table's own source.
LEMMA LastStageInv ==
    ASSUME Inv, NEW t \in Table, LastStage(t)
    PROVE  Inv' /\ (FailuresOwn => FailuresOwn')
<1>1. /\ job[t] \in Build /\ job[t].pc = "running" /\ job[t].result = "none"
      /\ Inner[t] \in Nat /\ job[t].at = Inner[t] + 1
      /\ Input(t) \in Provenance /\ Input(t) # Absent
      /\ Right(t, Input(t), Inner[t])
  <2>1. On(t) /\ job[t].at > Inner[t]
    BY DEF LastStage
  <2>2. /\ job[t] \in Build /\ job[t].pc = "running" /\ job[t].result = "none"
        /\ Inner[t] \in Nat /\ job[t].at \in 1..(Inner[t] + 1)
        /\ Input(t) \in Provenance /\ Input(t) # Absent
        /\ Right(t, Input(t), job[t].at - 1)
    BY <2>1, InputInPlace
  <2>3. job[t].at = Inner[t] + 1 /\ job[t].at - 1 = Inner[t]
    BY <2>1, <2>2
  <2>4. QED  BY <2>2, <2>3
<1> DEFINE b == [job[t] EXCEPT !.result = "built"]
           made == Through(Input(t))
<1>2. /\ job' = [job EXCEPT ![t] = b]
      /\ outs' = Put(outs, t, made)
      /\ UNCHANGED <<source, session, tmp, artifacts, entries, queue>>
  BY <1>1 DEF LastStage, EndsAs
<1>3. b \in Build /\ b.key = job[t].key /\ b.pc = "running" /\ b.result = "built"
  BY <1>1 DEF Build
<1>4. made \in Provenance /\ (t \notin unsaved => made = Data(t, job[t].key, Inner[t] + 1))
  BY <1>1, OneStageMore DEF Right
<1> HIDE DEF b, made
<1>5. /\ command # "none" /\ command' = command /\ unsaved' = unsaved
      /\ job' \in [Table -> Idle \cup Build]
      /\ job'[t] = b /\ \A s \in Table \ {t} : job'[s] = job[s]
      /\ QueueWaits' /\ InCommand' /\ CountedAsIs' /\ IdleUntouched'
  BY <1>1, <1>2, <1>3, ThreadFrame
<1>6. /\ outs' \in PartialMap(Table, Provenance)
      /\ DOMAIN outs' = DOMAIN outs \cup {t} /\ outs'[t] = made
      /\ \A s \in DOMAIN outs : s # t => outs'[s] = outs[s]
  <2>1. outs' \in PartialMap(Table, Provenance)
    BY <1>2, <1>4, PutType DEF Inv, TypeOK
  <2>2. QED  BY <1>2, <2>1 DEF Put
<1>7. TypeOK'
  BY <1>2, <1>5, <1>6 DEF Inv, TypeOK, session
<1>8. FilesInPlace'
  <2> SUFFICES ASSUME NEW s \in Table, On(s)' PROVE HasItsFiles(s)'
    BY DEF FilesInPlace
  <2>1. s # t
    BY <1>3, <1>5 DEF On
  <2>2. QED  BY <1>2, <1>5, <2>1, FilesStay DEF On
<1>9. \A s \in Table : \A k : s # t /\ HasOutput(s, k) => HasOutput(s, k)'
  BY <1>6 DEF HasOutput
<1>10. OutputsMade'
  <2> SUFFICES ASSUME NEW s \in Table \ unsaved, job'[s].pc # "waiting",
                      job'[s].result \in {"built", "cached"}, NEW k, k = job'[s].key
               PROVE  HasOutput(s, k)'
    BY <1>5 DEF OutputsMade, HasOutput
  <2>1. CASE s = t
    BY <1>3, <1>4, <1>5, <1>6, <2>1 DEF HasOutput
  <2>2. CASE s # t
    BY <1>5, <1>9, <2>2 DEF Inv, OutputsMade
  <2>3. QED  BY <2>1, <2>2
<1>11. CachesTrue'
  <2>1. TrueOfOutputs(entries, {s \in Table : ~Rebuilt(s)})'
    <3> SUFFICES ASSUME NEW s \in Table \ unsaved, ~Rebuilt(s)', <<s, 0>> \in DOMAIN entries,
                        NEW k, k = entries[<<s, 0>>]
                 PROVE  HasOutput(s, k)'
      BY <1>2, <1>5 DEF TrueOfOutputs, HasOutput
    <3>1. s # t
      BY <1>3, <1>5 DEF Rebuilt
    <3>2. ~Rebuilt(s)
      BY <1>5, <3>1 DEF Rebuilt
    <3>3. QED  BY <1>5, <1>9, <3>1, <3>2 DEF Inv, CachesTrue, TrueOfOutputs
  <2>2. TrueOfCheckpoints(entries)'
    BY <1>2, <1>5 DEF Inv, CachesTrue, TrueOfCheckpoints
  <2>3. QED  BY <1>5, <2>1, <2>2 DEF CachesTrue
<1>12. FailuresOwn => FailuresOwn'
  BY <1>3, <1>5 DEF FailuresOwn
<1>13. QED  BY <1>5, <1>7, <1>8, <1>10, <1>11, <1>12 DEF Inv

\* A stage that fails, or a copy that does, ends the build and nothing else.
LEMMA FailsInv ==
    ASSUME Inv, NEW t \in Table, StageFails(t) \/ PersistFails(t)
    PROVE  Inv' /\ (FailuresOwn => FailuresOwn')
<1>1. /\ On(t)
      /\ UNCHANGED <<source, session, files, entries, queue>>
  BY DEF StageFails, PersistFails
<1>2. PICK r \in {"errors", "raised"} :
          job' = [job EXCEPT ![t] = [job[t] EXCEPT !.result = r, !.faulty = TRUE]]
  BY DEF StageFails, PersistFails
<1> DEFINE b == [job[t] EXCEPT !.result = r, !.faulty = TRUE]
<1>3. job[t] \in Build /\ job[t].pc = "running" /\ job[t].result = "none"
  BY <1>1, InputInPlace
<1>4. /\ b \in Build /\ b.key = job[t].key /\ b.pc = "running" /\ b.result = r
      /\ b.faulty = TRUE
  BY <1>3 DEF Build
<1> HIDE DEF b
<1>5. /\ command # "none" /\ command' = command /\ unsaved' = unsaved
      /\ job' \in [Table -> Idle \cup Build]
      /\ job'[t] = b /\ \A s \in Table \ {t} : job'[s] = job[s]
      /\ QueueWaits' /\ InCommand' /\ CountedAsIs' /\ IdleUntouched'
  <2>1. job' = [job EXCEPT ![t] = b]
    BY <1>2 DEF b
  <2>2. QED  BY <1>1, <1>3, <1>4, <2>1, ThreadFrame
<1>6. TypeOK'
  BY <1>1, <1>5 DEF Inv, TypeOK, session, files
<1>7. FilesInPlace'
  <2> SUFFICES ASSUME NEW s \in Table, On(s)' PROVE HasItsFiles(s)'
    BY DEF FilesInPlace
  <2>1. s # t
    BY <1>4, <1>5 DEF On
  <2>2. QED  BY <1>1, <1>5, <2>1, FilesStay DEF On, files
<1>8. OutputsMade' /\ CachesTrue'
  <2>1. ~Rebuilt(t)
    BY <1>3 DEF Rebuilt
  <2>2. QED  BY <1>1, <1>4, <1>5, <2>1, ResultsStay DEF files
<1>9. FailuresOwn => FailuresOwn'
  BY <1>4, <1>5 DEF FailuresOwn
<1>10. QED  BY <1>5, <1>6, <1>7, <1>8, <1>9 DEF Inv

\* A build removes its own directory, and records its entry if it was built.
LEMMA LeaveInv ==
    ASSUME Inv, OwnTmpDirs, NEW t \in Table, Leave(t)
    PROVE  Inv' /\ (FailuresOwn => FailuresOwn')
<1>1. /\ job[t] \in Build /\ job[t].pc = "running" /\ job[t].result # "none"
      /\ job[t].key \in Content
  BY JobFields, BuildFields DEF Leave, Inv
<1> DEFINE b == [job[t] EXCEPT !.pc = "ended"]
<1>2. /\ job' = [job EXCEPT ![t] = b]
      /\ tmp' = Drop(tmp, {TmpDir(t)})
      /\ entries' = IF job[t].result = "built" THEN Put(entries, <<t, 0>>, job[t].key) ELSE entries
      /\ UNCHANGED <<source, session, artifacts, outs, queue>>
  BY DEF Leave
<1>3. /\ b \in Build /\ b.key = job[t].key /\ b.pc = "ended" /\ b.result = job[t].result
      /\ b.faulty = job[t].faulty
  BY <1>1 DEF Build
<1> HIDE DEF b
<1>4. /\ entries' \in PartialMap(CacheKey, Content)
      /\ job[t].result = "built" =>
            <<t, 0>> \in DOMAIN entries' /\ entries'[<<t, 0>>] = job[t].key
      /\ job[t].result # "built" => entries' = entries
      /\ \A e : e # <<t, 0>> => (e \in DOMAIN entries' <=> e \in DOMAIN entries)
      /\ \A e \in DOMAIN entries : e # <<t, 0>> => entries'[e] = entries[e]
  <2>1. CASE job[t].result = "built"
    <3>1. entries' = Put(entries, <<t, 0>>, job[t].key)
      BY <1>2, <2>1
    <3>2. entries' \in PartialMap(CacheKey, Content)
      BY <1>1, <3>1, PutType DEF Inv, TypeOK, CacheKey
    <3>3. QED  BY <2>1, <3>1, <3>2 DEF Put
  <2>2. CASE job[t].result # "built"
    BY <1>2, <2>2 DEF Inv, TypeOK
  <2>3. QED  BY <2>1, <2>2
<1>5. /\ command # "none" /\ command' = command /\ unsaved' = unsaved
      /\ job' \in [Table -> Idle \cup Build]
      /\ job'[t] = b /\ \A s \in Table \ {t} : job'[s] = job[s]
      /\ QueueWaits' /\ InCommand' /\ CountedAsIs' /\ IdleUntouched'
  <2>1. \A s \in Table \ {t} : \A k \in Nat :
            /\ <<s, k>> \in DOMAIN entries' <=> <<s, k>> \in DOMAIN entries
            /\ <<s, k>> \in DOMAIN entries => entries'[<<s, k>>] = entries[<<s, k>>]
    BY <1>4
  <2>2. QED  BY <1>1, <1>2, <1>3, <2>1, ThreadFrame
<1>6. /\ \A d \in DOMAIN tmp' : d \in DOMAIN tmp /\ tmp'[d] = tmp[d]
      /\ \A d \in DOMAIN tmp : d # TmpDir(t) => d \in DOMAIN tmp'
  BY <1>2 DEF Drop
<1>7. TypeOK'
  BY <1>2, <1>4, <1>5, <1>6 DEF Inv, TypeOK, session
<1>8. FilesInPlace'
  <2> SUFFICES ASSUME NEW s \in Table, On(s)' PROVE HasItsFiles(s)'
    BY DEF FilesInPlace
  <2>1. s # t
    BY <1>3, <1>5 DEF On
  <2>2. Inner[s] > 0 => TmpDir(s) # TmpDir(t)
    BY <2>1, InnerIsNat DEF OwnTmpDirs
  <2>3. QED  BY <1>5, <1>6, <2>1, <2>2, FilesStay DEF On
<1>9. OutputsMade'
  <2> SUFFICES ASSUME NEW s \in Table \ unsaved, job'[s].pc # "waiting",
                      job'[s].result \in {"built", "cached"}
               PROVE  HasOutput(s, job'[s].key)
    BY <1>2, <1>5 DEF OutputsMade, HasOutput
  <2>1. /\ job'[s].key = job[s].key /\ job[s].result = job'[s].result
        /\ job[s].pc # "waiting"
    BY <1>1, <1>3, <1>5
  <2>2. QED  BY <2>1 DEF Inv, OutputsMade
<1>10. CachesTrue'
  <2>1. TrueOfOutputs(entries, {s \in Table : ~Rebuilt(s)})'
    <3> SUFFICES ASSUME NEW s \in Table \ unsaved, ~Rebuilt(s)', <<s, 0>> \in DOMAIN entries'
                 PROVE  HasOutput(s, entries'[<<s, 0>>])
      BY <1>2, <1>5 DEF TrueOfOutputs, HasOutput
    <3>1. CASE s = t /\ job[t].result = "built"
      BY <1>1, <1>4, <3>1 DEF Inv, OutputsMade
    <3>2. CASE s = t /\ job[t].result # "built"
      <4>1. ~Rebuilt(s) /\ entries' = entries
        BY <1>4, <3>2 DEF Rebuilt
      <4>2. QED  BY <1>5, <4>1 DEF Inv, CachesTrue, TrueOfOutputs
    <3>3. CASE s # t
      <4>1. ~Rebuilt(s)
        BY <1>5, <3>3 DEF Rebuilt
      <4>2. <<s, 0>> \in DOMAIN entries /\ entries'[<<s, 0>>] = entries[<<s, 0>>]
        <5>1. <<s, 0>> # <<t, 0>>
          BY <3>3
        <5>2. QED  BY <1>4, <5>1
      <4>3. QED  BY <1>5, <4>1, <4>2 DEF Inv, CachesTrue, TrueOfOutputs
    <3>4. QED  BY <3>1, <3>2, <3>3
  <2>2. TrueOfCheckpoints(entries)'
    <3> SUFFICES ASSUME NEW s \in Table \ (Batch \cup unsaved), NEW k \in 1..Inner[s],
                        <<s, k>> \in DOMAIN entries' \cap DOMAIN artifacts
                 PROVE  artifacts[<<s, k>>] = Data(s, entries'[<<s, k>>], k)
      BY <1>2, <1>5 DEF TrueOfCheckpoints
    <3>1. <<s, k>> # <<t, 0>>
      BY InnerIsNat
    <3>2. <<s, k>> \in DOMAIN entries /\ entries'[<<s, k>>] = entries[<<s, k>>]
      BY <1>4, <3>1
    <3>3. QED  BY <1>5, <3>2 DEF Inv, CachesTrue, TrueOfCheckpoints
  <2>3. QED  BY <1>5, <2>1, <2>2 DEF CachesTrue
<1>11. FailuresOwn => FailuresOwn'
  BY <1>1, <1>3, <1>5 DEF FailuresOwn
<1>12. QED  BY <1>5, <1>7, <1>8, <1>9, <1>10, <1>11 DEF Inv

-----------------------------------------------------------------------------
(* The batch build.                                                        *)

\* Every step keeps the invariant, and the failures the tables' own if no batch
\* table has an intermediate stage.
LEMMA NextInv ==
    ASSUME Inv, OwnTmpDirs, [Next]_vars
    PROVE  Inv' /\ (BatchesAreDirect /\ FailuresOwn => FailuresOwn')
<1>1. ASSUME NEW t \in Table, NEW c \in Content, EditSource(t, c)
      PROVE  Inv' /\ (FailuresOwn => FailuresOwn')
  BY <1>1, EditInv DEF EditSource, FailuresOwn
<1>2. CASE Start
  BY <1>2, StartInv
<1>3. ASSUME NEW t \in Table, Gather(t)
      PROVE  Inv' /\ (FailuresOwn => FailuresOwn')
  BY <1>3, GatherInv DEF Gather, FailuresOwn
<1>4. CASE Return
  BY <1>4, ReturnInv DEF Return, FailuresOwn
<1>5. CASE Take
  BY <1>5, TakeInv
<1>6. ASSUME NEW t \in Table, Thread(t)
      PROVE  Inv' /\ (BatchesAreDirect /\ FailuresOwn => FailuresOwn')
  BY <1>6, EmitInv, PersistInv, LastStageInv, FailsInv, LeaveInv DEF Thread
<1>7. CASE UNCHANGED vars
  <2>1. UNCHANGED <<source, tmp, artifacts, outs, saved, entries, command, queue, job, summary,
                    unsaved>>
    BY <1>7 DEF vars
  <2>2. TypeOK' /\ QueueWaits' /\ InCommand' /\ CountedAsIs' /\ IdleUntouched'
    BY <2>1 DEF Inv, TypeOK, QueueWaits, InCommand, CountedAsIs, IdleUntouched
  <2>3. FilesInPlace'
    BY <2>1 DEF Inv, FilesInPlace, On, HasItsFiles, InItsDir, Right
  <2>4. OutputsMade' /\ CachesTrue'
    BY <2>1
    DEF Inv, OutputsMade, CachesTrue, TrueOfOutputs, TrueOfCheckpoints, HasOutput, Rebuilt
  <2>5. FailuresOwn => FailuresOwn'
    BY <2>1 DEF FailuresOwn
  <2>6. QED  BY <2>2, <2>3, <2>4, <2>5 DEF Inv
<1>8. QED  BY <1>1, <1>2, <1>3, <1>4, <1>5, <1>6, <1>7 DEF Next

\* A table that run_batch_build reports as built or as cached has the output that
\* its own source gives when it is built alone, whatever the pool, the order in
\* which its threads run, the stages that fail and the commands before, provided
\* that no other table has its directory of intermediate files.
THEOREM ReportedTablesAreCurrent == OwnTmpDirs => (Spec => []ReportedIsCurrent)
<1> SUFFICES ASSUME OwnTmpDirs PROVE Spec => []ReportedIsCurrent
  OBVIOUS
<1>1. Init => Inv
  BY InitInv
<1>2. Inv /\ [Next]_vars => Inv'
  BY NextInv
<1>3. Inv => ReportedIsCurrent
  <2> SUFFICES ASSUME Inv, NEW t \in (summary.built \cup summary.cached) \ unsaved
               PROVE  HasOutput(t, job[t].key)
    BY DEF ReportedIsCurrent, HasOutput
  <2>1. t \in Table \ unsaved
    BY DEF Inv, TypeOK
  <2>2. job[t].pc # "waiting" /\ job[t].result \in {"built", "cached"}
    BY DEF Inv, CountedAsIs
  <2>3. QED  BY <2>1, <2>2 DEF Inv, OutputsMade
<1>4. QED  BY <1>1, <1>2, <1>3, PTL DEF Spec

\* What the cache file that cache.save() wrote says of a table is what its output
\* was made from, under the same proviso.
THEOREM SavedEntriesAreTrue == OwnTmpDirs => (Spec => []SavedIsTrue)
<1> SUFFICES ASSUME OwnTmpDirs PROVE Spec => []SavedIsTrue
  OBVIOUS
<1>1. Init => Inv
  BY InitInv
<1>2. Inv /\ [Next]_vars => Inv'
  BY NextInv
<1>3. Inv => SavedIsTrue
  BY DEF Inv, CachesTrue, TrueOfOutputs, HasOutput, SavedIsTrue
<1>4. QED  BY <1>1, <1>2, <1>3, PTL DEF Spec

\* The builds beside it do not make a table fail or raise (a stage's input gone
\* with another table's finally clause, a file that is no longer there to be
\* copied): only a stage or a copy of its own that failed does.
THEOREM NoTableFailsAnother == OwnTmpDirs /\ BatchesAreDirect => (Spec => []FailuresAreOwn)
<1> SUFFICES ASSUME OwnTmpDirs, BatchesAreDirect PROVE Spec => []FailuresAreOwn
  OBVIOUS
<1>1. Init => Inv /\ FailuresOwn
  BY InitInv
<1>2. Inv /\ FailuresOwn /\ [Next]_vars => Inv' /\ FailuresOwn'
  BY NextInv
<1>3. Inv /\ FailuresOwn => FailuresAreOwn
  BY DEF FailuresOwn, FailuresAreOwn, Ended
<1>4. QED  BY <1>1, <1>2, <1>3, PTL DEF Spec

-----------------------------------------------------------------------------
(* The stream.                                                             *)

\* The worker of build_all_stream runs batch builds and nothing else: what holds
\* of them holds of the stream's.
THEOREM StreamRunsBatchBuilds == StreamSpec => Spec
<1>1. StreamInit => Init
  BY DEF StreamInit
<1>2. [StreamNext]_allVars => [Next]_vars
  BY DEF StreamNext, allVars, Next, Request, FailToPrepare, StartBuild, GatherOne, EndBuild,
         Close, BuildStep, Deliver, Disconnect
<1>3. QED  BY <1>1, <1>2, PTL DEF StreamSpec, Spec

\* The part of the build that the stream depends on, which needs no proviso: who
\* waits, who runs, who has ended and how that was counted.
JobShape(t) ==
    \/ job[t].pc = "waiting"
    \/ /\ {"pc", "result"} \subseteq DOMAIN job[t]
       /\ \/ job[t].pc = "running" /\ job[t].result \in {"none", "errors", "raised", "built"}
          \/ job[t].pc = "ended" /\ job[t].result \in {"cached", "errors", "raised", "built"}

Tally ==
    /\ queue \in Seq(Table) /\ QueueWaits
    /\ DOMAIN job = Table /\ \A t \in Table : JobShape(t)
    /\ summary \in [built : SUBSET Table, cached : SUBSET Table, errors : SUBSET Table]
    /\ CountedAsIs

\* The step of a job that is not counted yet.
LEMMA TallyOfStep ==
    ASSUME Tally, NEW t \in Table, t \notin Counted,
           \A s \in Table \ {t} : job'[s] = job[s], DOMAIN job' = Table,
           JobShape(t)', job'[t].pc # "waiting", summary' = summary,
           queue' \in Seq(Table), \A i \in DOMAIN queue' : queue'[i] # t,
           \A i \in DOMAIN queue' : \E j \in DOMAIN queue : queue'[i] = queue[j],
           \A i, j \in DOMAIN queue' : queue'[i] = queue'[j] => i = j
    PROVE  Tally'
<1>1. QueueWaits'
  <2>1. \A i \in DOMAIN queue' : queue'[i] \in Table /\ job'[queue'[i]] = job[queue'[i]]
    OBVIOUS
  <2>2. QED  BY <2>1 DEF Tally, QueueWaits
<1>2. \A s \in Table : JobShape(s)'
  BY DEF Tally, JobShape
<1>3. CountedAsIs'
  BY DEF Tally, CountedAsIs, Counted
<1>4. QED  BY <1>1, <1>2, <1>3 DEF Tally

\* A step of a table's thread counts nothing and leaves the queue alone.
LEMMA ThreadTally ==
    ASSUME Tally, NEW t \in Table, Thread(t)
    PROVE  Tally' /\ UNCHANGED <<command, summary>>
<1>1. /\ job[t].pc = "running" /\ {"pc", "result"} \subseteq DOMAIN job[t]
      /\ job[t].result \in {"none", "errors", "raised", "built"}
      /\ UNCHANGED <<command, summary, queue>>
  BY DEF Thread, Emit, Persist, LastStage, StageFails, PersistFails, Leave, On, session,
         Tally, JobShape
<1>2. \E b : job' = [job EXCEPT ![t] = b] /\ {"pc", "result"} \subseteq DOMAIN b
             /\ \/ b.pc = "running" /\ b.result \in {"none", "errors", "raised", "built"}
                \/ b.pc = "ended" /\ b.result \in {"errors", "raised", "built"}
  <2>1. CASE Emit(t)
    BY <1>1, <2>1 DEF Emit, EndsAs
  <2>2. CASE Persist(t)
    BY <1>1, <2>2 DEF Persist, EndsAs
  <2>3. CASE LastStage(t)
    BY <1>1, <2>3 DEF LastStage, EndsAs
  <2>4. CASE StageFails(t) \/ PersistFails(t)
    <3>1. PICK r \in {"errors", "raised"} :
              job' = [job EXCEPT ![t] = [job[t] EXCEPT !.result = r, !.faulty = TRUE]]
      BY <2>4 DEF StageFails, PersistFails
    <3> DEFINE b == [job[t] EXCEPT !.result = r, !.faulty = TRUE]
    <3>2. /\ DOMAIN b = DOMAIN job[t]
          /\ b.pc = "running" /\ b.result \in {"errors", "raised"}
      BY <1>1
    <3>3. job' = [job EXCEPT ![t] = b]
      BY <3>1
    <3> HIDE DEF b
    <3>4. QED  BY <1>1, <3>2, <3>3
  <2>5. CASE Leave(t)
    <3> DEFINE b == [job[t] EXCEPT !.pc = "ended"]
    <3>1. job' = [job EXCEPT ![t] = b] /\ job[t].result # "none"
      BY <2>5 DEF Leave
    <3>2. DOMAIN b = DOMAIN job[t] /\ b.pc = "ended" /\ b.result = job[t].result
      BY <1>1
    <3> HIDE DEF b
    <3>3. QED  BY <1>1, <3>1, <3>2
  <2>6. QED  BY <2>1, <2>2, <2>3, <2>4, <2>5 DEF Thread
<1>3. /\ DOMAIN job' = Table /\ \A s \in Table \ {t} : job'[s] = job[s]
      /\ JobShape(t)' /\ job'[t].pc # "waiting"
  BY <1>2 DEF Tally, JobShape
<1>4. t \notin Counted
  BY <1>1 DEF Tally, CountedAsIs, Counted
<1>5. \A i \in DOMAIN queue : queue[i] # t
  BY <1>1 DEF Tally, QueueWaits
<1>6. QED
  BY <1>1, <1>3, <1>4, <1>5, TallyOfStep DEF Tally, QueueWaits

\* A thread takes the first table that waits.
LEMMA TakeTally ==
    ASSUME Tally, Take
    PROVE  Tally' /\ UNCHANGED <<command, summary>>
<1>1. PICK t : t = Head(queue)
  OBVIOUS
<1>2. /\ queue # <<>> /\ queue' = Tail(queue) /\ queue \in Seq(Table)
      /\ UNCHANGED <<command, summary>>
      /\ \E b \in {FromCache(t), Started(t)} : job' = [job EXCEPT ![t] = b]
  BY <1>1 DEF Take, session, Tally
<1>3. /\ t \in Table /\ 1 \in DOMAIN queue /\ t = queue[1]
      /\ queue' \in Seq(Table)
      /\ \A i \in DOMAIN queue' : i \in Nat \ {0} /\ i + 1 \in DOMAIN queue
                                  /\ queue'[i] = queue[i + 1]
  BY <1>1, <1>2
<1>4. job[t].pc = "waiting" /\ t \notin Counted
  BY <1>3 DEF Tally, QueueWaits, CountedAsIs, Counted
<1>5. /\ DOMAIN job' = Table /\ \A s \in Table \ {t} : job'[s] = job[s]
      /\ job'[t] = FromCache(t) \/ job'[t] = Started(t)
  BY <1>2, <1>3 DEF Tally
<1>6. JobShape(t)' /\ job'[t].pc # "waiting"
  <2>1. CASE job'[t] = FromCache(t)
    BY <2>1 DEF FromCache, JobShape
  <2>2. CASE job'[t] = Started(t)
    BY <2>2 DEF Started, JobShape
  <2>3. QED  BY <1>5, <2>1, <2>2
<1>7. ASSUME NEW i \in DOMAIN queue'
      PROVE  queue'[i] # t /\ \E j \in DOMAIN queue : queue'[i] = queue[j]
  <2>1. i + 1 # 1
    BY <1>3
  <2>2. QED  BY <1>3, <2>1 DEF Tally, QueueWaits
<1>8. ASSUME NEW i \in DOMAIN queue', NEW j \in DOMAIN queue', queue'[i] = queue'[j]
      PROVE  i = j
  <2>1. i + 1 = j + 1
    BY <1>3, <1>8 DEF Tally, QueueWaits
  <2>2. QED  BY <1>3, <2>1
<1>9. QED
  BY <1>2, <1>3, <1>4, <1>5, <1>6, <1>7, <1>8, TallyOfStep

\* The calling thread's part.
LEMMA TallyNext == Tally /\ [Next]_vars => Tally'
<1> SUFFICES ASSUME Tally, [Next]_vars PROVE Tally'
  OBVIOUS
<1>1. ASSUME UNCHANGED <<queue, job, summary>>
      PROVE  Tally'
  BY <1>1 DEF Tally, QueueWaits, JobShape, CountedAsIs
<1>2. CASE Start
  <2>1. queue' = Order /\ job' = [t \in Table |-> Waiting] /\ summary' = NoResults
    BY <1>2 DEF Start
  <2>2. \A t \in Table : job'[t].pc = "waiting"
    BY <2>1 DEF Waiting
  <2>3. QueueWaits' /\ queue' \in Seq(Table)
    BY <2>1, <2>2, OrderIsDistinct DEF QueueWaits
  <2>4. CountedAsIs' /\ summary' \in [built : SUBSET Table, cached : SUBSET Table,
                                      errors : SUBSET Table]
    BY <2>1 DEF NoResults, CountedAsIs
  <2>5. QED  BY <2>1, <2>2, <2>3, <2>4 DEF Tally, JobShape
<1>3. ASSUME NEW t \in Table, Gather(t)
      PROVE  Tally'
  <2>1. /\ UNCHANGED <<queue, job>> /\ job[t].pc = "ended"
        /\ job[t].result \in {"cached", "errors", "raised", "built"}
    BY <1>3 DEF Gather, Ended, Tally, JobShape
  <2>2. CASE job[t].result = "raised"
    BY <1>1, <1>3, <2>1, <2>2 DEF Gather
  <2>3. CASE job[t].result # "raised"
    <3>1. summary' = [summary EXCEPT ![job[t].result] = @ \cup {t}]
      BY <1>3, <2>3 DEF Gather
    <3>2. /\ summary' \in [built : SUBSET Table, cached : SUBSET Table, errors : SUBSET Table]
          /\ CountedAsIs'
      <4>1. CASE job[t].result = "built"
        BY <2>1, <3>1, <4>1 DEF Tally, CountedAsIs
      <4>2. CASE job[t].result = "cached"
        BY <2>1, <3>1, <4>2 DEF Tally, CountedAsIs
      <4>3. CASE job[t].result = "errors"
        BY <2>1, <3>1, <4>3 DEF Tally, CountedAsIs
      <4>4. QED  BY <2>1, <2>3, <4>1, <4>2, <4>3
    <3>3. QED  BY <2>1, <3>2 DEF Tally, QueueWaits, JobShape
  <2>4. QED  BY <2>2, <2>3
<1>4. CASE Take
  BY <1>4, TakeTally
<1>5. ASSUME NEW t \in Table, Thread(t)
      PROVE  Tally'
  BY <1>5, ThreadTally
<1>6. CASE (\E t \in Table, c \in Content : EditSource(t, c)) \/ Return \/ UNCHANGED vars
  BY <1>1, <1>6 DEF EditSource, Return, vars
<1>7. QED  BY <1>2, <1>3, <1>4, <1>5, <1>6 DEF Next

\* Before the first command nothing waits and nothing is counted.
LEMMA TallyInit == Init => Tally
<1> SUFFICES ASSUME Init PROVE Tally
  OBVIOUS
<1>1. \A t \in Table : job[t].pc = "waiting"
  BY DEF Init, Waiting
<1>2. /\ queue = <<>> /\ DOMAIN job = Table
      /\ summary \in [built : SUBSET Table, cached : SUBSET Table, errors : SUBSET Table]
      /\ CountedAsIs
  BY DEF Init, NoResults, CountedAsIs
<1>3. QED  BY <1>1, <1>2 DEF Tally, QueueWaits, JobShape

-----------------------------------------------------------------------------
(* What the browser is told.                                               *)

Event ==
    [event : {"done", "error"}]
    \cup [event : {"progress"}, source : Table, status : {"ok", "error"}]
    \cup [event : {"summary"}, built : Nat, cached : Nat, errors : Nat]

\* Everything the worker has said in this stream and the browser has not missed.
Log == received \o messages

IsProgress(e) == e.event = "progress"

ToldAsCounted(L) ==
    \A n \in DOMAIN L : IsProgress(L[n]) =>
        L[n].source \in Counted /\ (L[n].status = "ok" <=> L[n].source \notin summary.errors)

ToldOnce(L) ==
    \A m, n \in DOMAIN L :
        IsProgress(L[m]) /\ IsProgress(L[n]) /\ L[m].source = L[n].source => m = n

OnlyProgress(L, n) == \A m \in 1..n : IsProgress(L[m])

AllTold(L, n) ==
    \A t \in Counted : \E m \in 1..n : IsProgress(L[m]) /\ L[m].source = t

\* The n-th event ends the build: only progress before it, all of it if it is a
\* summary, which is that of the results as they are still counted.
Closes(L, n) ==
    /\ n \in DOMAIN L /\ L[n].event \in {"summary", "error"}
    /\ OnlyProgress(L, n - 1)
    /\ L[n].event = "summary" => L[n] = Summary /\ Counted = Table /\ AllTold(L, n - 1)

StreamInv ==
    /\ received \in Seq(Event) /\ messages \in Seq(Event)
    /\ worker \in {"off", "preparing", "building", "closing"}
    /\ worker # "off" => browser \in {"listening", "gone"}
    /\ command # "none" <=> worker = "building"
    /\ ToldAsCounted(Log) /\ ToldOnce(Log)
    /\ worker = "preparing" => Log = <<>>
    /\ worker = "building" => OnlyProgress(Log, Len(Log)) /\ AllTold(Log, Len(Log))
    /\ worker = "closing" => Closes(Log, Len(Log))
    /\ worker = "off" =>
          \/ browser = "away" /\ Log = <<>>
          \/ browser = "closed" /\ messages = <<>> /\ Closes(Log, Len(Log))
          \/ /\ browser \in {"listening", "gone"}
             /\ Len(Log) > 0 /\ Log[Len(Log)] = Done /\ Closes(Log, Len(Log) - 1)

\* The events of the stream by their kinds.
LEMMA EventKinds ==
    /\ Done \in Event /\ Error \in Event
    /\ Done.event = "done" /\ Error.event = "error" /\ Error # Done
    /\ \A t \in Table : Progress(t) \in Event /\ IsProgress(Progress(t)) /\ Progress(t).source = t
<1>1. /\ Done \in Event /\ Error \in Event
      /\ Done.event = "done" /\ Error.event = "error"
  BY DEF Done, Error, Event
<1>2. ASSUME NEW t \in Table
      PROVE  Progress(t) \in Event /\ IsProgress(Progress(t)) /\ Progress(t).source = t
  BY DEF Progress, Event, IsProgress
<1>3. QED  BY <1>1, <1>2

\* There are finitely many tables, so the numbers of a summary are numbers.
LEMMA TablesFinite == IsFiniteSet(Table)
<1>1. Len(Order) \in Nat /\ DOMAIN Order = 1..Len(Order)
  BY OrderIsDistinct
<1>2. [i \in 1..Len(Order) |-> Order[i]] \in Surjection(1..Len(Order), Table)
  BY <1>1 DEF Surjection, Table
<1>3. IsFiniteSet(1..Len(Order))
  BY <1>1, FS_Interval
<1>4. QED  BY <1>2, <1>3, FS_Surjection

\* A summary is an event: the tables it counts are finitely many.
LEMMA SummaryType ==
    ASSUME Tally
    PROVE  Summary \in Event /\ Summary.event = "summary"
<1>1. /\ summary.built \in SUBSET Table /\ summary.cached \in SUBSET Table
      /\ summary.errors \in SUBSET Table
  BY DEF Tally
<1>2. /\ Cardinality(summary.built) \in Nat /\ Cardinality(summary.cached) \in Nat
      /\ Cardinality(summary.errors) \in Nat
  BY <1>1, TablesFinite, FS_Subset, FS_CardinalityType
<1>3. QED  BY <1>2 DEF Summary, Event

\* What is told is appended to the log.
LEMMA LogTold ==
    ASSUME received \in Seq(Event), messages \in Seq(Event), NEW e \in Event,
           messages' = Append(messages, e), received' = received
    PROVE  /\ Log \in Seq(Event) /\ messages' \in Seq(Event) /\ Log' \in Seq(Event)
           /\ Len(Log) \in Nat /\ DOMAIN Log = 1..Len(Log)
           /\ Len(Log') = Len(Log) + 1 /\ DOMAIN Log' = 1..(Len(Log) + 1)
           /\ Log'[Len(Log) + 1] = e
           /\ \A i \in 1..Len(Log) : Log'[i] = Log[i]
<1>1. Log \in Seq(Event) /\ messages' \in Seq(Event) /\ Log' \in Seq(Event)
  BY DEF Log
<1>2. Len(Log') = Len(Log) + 1 /\ Log'[Len(Log) + 1] = e
  BY DEF Log
<1>3. \A i \in 1..Len(Log) : Log'[i] = Log[i]
  BY DEF Log
<1>4. QED  BY <1>1, <1>2, <1>3

\* An event but the sentinel moves from one part of the log to the other.
LEMMA LogDelivered ==
    ASSUME received \in Seq(Event), messages \in Seq(Event), messages # <<>>,
           messages' = Tail(messages), received' = Append(received, Head(messages))
    PROVE  /\ Log \in Seq(Event) /\ messages' \in Seq(Event) /\ received' \in Seq(Event)
           /\ Log' = Log
<1>1. /\ Log \in Seq(Event) /\ messages' \in Seq(Event) /\ received' \in Seq(Event)
      /\ Log' \in Seq(Event)
  BY DEF Log
<1>2. PICK n \in Nat, m \in Nat : n = Len(received) /\ m = Len(messages)
  OBVIOUS
<1>3. /\ m # 0 /\ Len(received') = n + 1 /\ Len(messages') = m - 1
      /\ \A i \in 1..n : received'[i] = received[i]
      /\ received'[n + 1] = messages[1]
      /\ \A i \in 1..(m - 1) : messages'[i] = messages[i + 1]
  BY <1>2
<1>4. Len(Log) = n + m /\ Len(Log') = n + m
  BY <1>2, <1>3 DEF Log
<1>5. ASSUME NEW i \in 1..(n + m) PROVE Log'[i] = Log[i]
  <2>1. CASE i \in 1..n
    <3>1. Log[i] = received[i] /\ Log'[i] = received'[i]
      BY <2>1, <1>2, <1>3 DEF Log
    <3>2. QED  BY <3>1, <2>1, <1>3
  <2>2. CASE i = n + 1
    <3>1. Log[i] = messages[1] /\ Log'[i] = received'[n + 1]
      BY <2>2, <1>2, <1>3 DEF Log
    <3>2. QED  BY <3>1, <1>3
  <2>3. CASE i \notin 1..(n + 1)
    <3>1. Log[i] = messages[i - n] /\ Log'[i] = messages'[i - (n + 1)]
      BY <2>3, <1>2, <1>3, <1>5 DEF Log
    <3>2. i - (n + 1) \in 1..(m - 1) /\ (i - (n + 1)) + 1 = i - n
      BY <2>3, <1>5
    <3>3. QED  BY <3>1, <3>2, <1>3
  <2>4. QED  BY <2>1, <2>2, <2>3
<1>6. QED  BY <1>1, <1>4, <1>5, SeqEqual

\* Before the first request nothing has been told.
LEMMA StreamInitInv == StreamInit => StreamInv
<1> SUFFICES ASSUME StreamInit PROVE StreamInv
  OBVIOUS
<1>1. /\ received = <<>> /\ messages = <<>> /\ worker = "off" /\ browser = "away"
      /\ command = "none"
  BY DEF StreamInit, Init
<1>2. Log = <<>>
  BY <1>1, ConcatEmptySeq DEF Log
<1>3. QED  BY <1>1, <1>2 DEF StreamInv, ToldAsCounted, ToldOnce

\* The steps of the build under it and of a browser that leaves tell nothing.
LEMMA StreamStays ==
    ASSUME StreamInv, UNCHANGED <<worker, messages, received, command, summary>>,
           browser' = browser \/ (browser = "listening" /\ browser' = "gone")
    PROVE  StreamInv'
<1>1. Log' = Log /\ Counted' = Counted /\ Summary' = Summary
  BY DEF Log, Counted, Summary
<1>2. /\ ToldAsCounted(Log)' /\ ToldOnce(Log)'
      /\ \A n : Closes(Log, n) => Closes(Log, n)'
      /\ OnlyProgress(Log, Len(Log)) => OnlyProgress(Log, Len(Log))'
      /\ AllTold(Log, Len(Log)) => AllTold(Log, Len(Log))'
  BY <1>1 DEF StreamInv, ToldAsCounted, ToldOnce, Closes, OnlyProgress, AllTold
<1>3. PICK n : n = Len(Log)
  OBVIOUS
<1>4. QED  BY <1>1, <1>2, <1>3 DEF StreamInv, Closes

\* A request starts an empty log.
LEMMA RequestInv == StreamInv /\ Request => StreamInv'
<1> SUFFICES ASSUME StreamInv, Request PROVE StreamInv'
  OBVIOUS
<1>1. /\ worker = "off" /\ command' = "none"
      /\ worker' = "preparing" /\ browser' = "listening"
      /\ messages' = <<>> /\ received' = <<>>
  BY DEF StreamInv, Request, vars
<1>2. Log' = <<>>
  BY <1>1, ConcatEmptySeq DEF Log
<1>3. QED  BY <1>1, <1>2 DEF StreamInv, ToldAsCounted, ToldOnce

\* Preparations that fail are told by an error, the first event and the last.
LEMMA FailToPrepareInv == StreamInv /\ FailToPrepare => StreamInv'
<1> SUFFICES ASSUME StreamInv, FailToPrepare PROVE StreamInv'
  OBVIOUS
<1>1. /\ received \in Seq(Event) /\ messages \in Seq(Event)
      /\ command = "none" /\ Log = <<>> /\ browser \in {"listening", "gone"}
      /\ messages' = Append(messages, Error) /\ worker' = "closing"
      /\ UNCHANGED <<received, browser, command>>
  BY DEF StreamInv, FailToPrepare, Tell, vars
<1>2. /\ messages' \in Seq(Event) /\ Len(Log') = 1 /\ DOMAIN Log' = 1..1 /\ Log'[1] = Error
  BY <1>1, LogTold, EventKinds
<1>3. \A n \in DOMAIN Log' : Log'[n].event = "error"
  BY <1>2, EventKinds
<1>4. ToldAsCounted(Log)' /\ ToldOnce(Log)' /\ Closes(Log, Len(Log))'
  BY <1>2, <1>3 DEF ToldAsCounted, ToldOnce, Closes, IsProgress, OnlyProgress
<1>5. QED  BY <1>1, <1>2, <1>4 DEF StreamInv

\* A build that starts has counted nothing, and nothing has been told of it.
LEMMA StartBuildInv == StreamInv /\ StartBuild => StreamInv'
<1> SUFFICES ASSUME StreamInv, StartBuild PROVE StreamInv'
  OBVIOUS
<1>1. /\ received \in Seq(Event) /\ messages \in Seq(Event)
      /\ Log = <<>> /\ browser \in {"listening", "gone"}
      /\ command' = "running" /\ summary' = NoResults /\ worker' = "building"
      /\ UNCHANGED <<received, messages, browser>>
  BY DEF StreamInv, StartBuild, Start
<1>2. Log' = <<>> /\ Counted' = {}
  BY <1>1 DEF Log, Counted, NoResults
<1>3. ToldAsCounted(Log)' /\ ToldOnce(Log)'
  BY <1>2 DEF ToldAsCounted, ToldOnce
<1>4. OnlyProgress(Log, Len(Log))' /\ AllTold(Log, Len(Log))'
  BY <1>2 DEF OnlyProgress, AllTold
<1>5. QED  BY <1>1, <1>3, <1>4 DEF StreamInv

\* on_table_result tells what was counted just before, for the table's only time; a
\* result that raises is neither counted nor told.
LEMMA GatherOneInv ==
    ASSUME Tally, StreamInv, NEW t \in Table, GatherOne(t)
    PROVE  StreamInv'
<1>1. /\ command = "running" /\ worker = "building" /\ t \notin Counted /\ job[t].pc = "ended"
      /\ received \in Seq(Event) /\ messages \in Seq(Event)
      /\ UNCHANGED <<worker, browser, received>> /\ browser \in {"listening", "gone"}
      /\ OnlyProgress(Log, Len(Log)) /\ AllTold(Log, Len(Log))
      /\ ToldAsCounted(Log) /\ ToldOnce(Log)
  BY DEF GatherOne, Gather, StreamInv, Ended
<1>2. job[t].result \in {"cached", "errors", "raised", "built"}
  BY <1>1 DEF Tally, JobShape
<1>3. CASE job[t].result = "raised"
  <2>1. command' = "raising" /\ UNCHANGED <<summary, messages>>
    BY <1>3 DEF GatherOne, Gather, TellCounted
  <2>2. Log' = Log /\ Counted' = Counted
    BY <1>1, <2>1 DEF Log, Counted
  <2>3. ToldAsCounted(Log)' /\ ToldOnce(Log)'
    BY <1>1, <2>1, <2>2 DEF ToldAsCounted, ToldOnce
  <2>4. OnlyProgress(Log, Len(Log))' /\ AllTold(Log, Len(Log))'
    BY <1>1, <2>2 DEF OnlyProgress, AllTold
  <2>5. QED  BY <1>1, <2>1, <2>3, <2>4 DEF StreamInv
<1>4. CASE job[t].result # "raised"
  <2>1. PICK e : e = Progress(t)
    OBVIOUS
  <2>2. /\ e \in Event /\ IsProgress(e) /\ e.source = t
        /\ e.status = "ok" <=> job[t].result # "errors"
    BY <2>1, EventKinds DEF Progress
  <2>3. /\ command' = "running"
        /\ summary' = [summary EXCEPT ![job[t].result] = @ \cup {t}]
        /\ messages' = Append(messages, e)
    BY <1>1, <1>4, <2>1 DEF GatherOne, Gather, TellCounted, Tell
  <2>4. /\ Counted' = Counted \cup {t}
        /\ summary'.errors = IF job[t].result = "errors" THEN summary.errors \cup {t}
                                                         ELSE summary.errors
    <3>1. CASE job[t].result = "built"
      BY <2>3, <3>1 DEF Tally, Counted
    <3>2. CASE job[t].result = "cached"
      BY <2>3, <3>2 DEF Tally, Counted
    <3>3. CASE job[t].result = "errors"
      BY <2>3, <3>3 DEF Tally, Counted
    <3>4. QED  BY <1>2, <1>4, <3>1, <3>2, <3>3
  <2>5. t \notin summary.errors
    BY <1>1 DEF Counted
  <2>6. /\ messages' \in Seq(Event)
        /\ Len(Log) \in Nat /\ DOMAIN Log = 1..Len(Log)
        /\ Len(Log') = Len(Log) + 1 /\ DOMAIN Log' = 1..(Len(Log) + 1)
        /\ Log'[Len(Log) + 1] = e
        /\ \A i \in 1..Len(Log) : Log'[i] = Log[i]
    BY <1>1, <2>2, <2>3, LogTold
  <2>7. \A i \in 1..Len(Log) : IsProgress(Log'[i]) /\ Log'[i].source \in Counted
    BY <1>1, <2>6 DEF OnlyProgress, ToldAsCounted
  <2>8. ASSUME NEW n \in DOMAIN Log'
        PROVE  /\ IsProgress(Log'[n]) /\ Log'[n].source \in Counted'
               /\ Log'[n].status = "ok" <=> Log'[n].source \notin summary'.errors
    <3>1. CASE n = Len(Log) + 1
      BY <2>2, <2>4, <2>5, <2>6, <3>1
    <3>2. CASE n \in 1..Len(Log)
      <4>1. Log'[n] = Log[n] /\ IsProgress(Log[n]) /\ Log[n].source # t
        BY <1>1, <2>6, <2>7, <3>2
      <4>2. Log[n].status = "ok" <=> Log[n].source \notin summary.errors
        BY <1>1, <2>6, <3>2, <4>1 DEF ToldAsCounted
      <4>3. QED  BY <2>4, <2>7, <3>2, <4>1, <4>2
    <3>3. QED  BY <2>6, <3>1, <3>2
  <2>9. ToldAsCounted(Log)' /\ OnlyProgress(Log, Len(Log))'
    BY <2>6, <2>8 DEF ToldAsCounted, OnlyProgress
  <2>10. ToldOnce(Log)'
    <3>1. ASSUME NEW m \in DOMAIN Log', NEW n \in DOMAIN Log', Log'[m].source = Log'[n].source
          PROVE  m = n
      <4>1. CASE m \in 1..Len(Log) /\ n \in 1..Len(Log)
        BY <1>1, <2>6, <2>7, <3>1, <4>1 DEF ToldOnce
      <4>2. CASE m = Len(Log) + 1 \/ n = Len(Log) + 1
        BY <1>1, <2>2, <2>6, <2>7, <3>1, <4>2
      <4>3. QED  BY <2>6, <4>1, <4>2
    <3>2. QED  BY <3>1 DEF ToldOnce
  <2>11. AllTold(Log, Len(Log))'
    <3>1. ASSUME NEW s \in Counted'
          PROVE  \E m \in 1..Len(Log') : IsProgress(Log'[m]) /\ Log'[m].source = s
      <4>1. CASE s = t
        BY <2>2, <2>6, <4>1
      <4>2. CASE s \in Counted
        <5>1. PICK m \in 1..Len(Log) : IsProgress(Log[m]) /\ Log[m].source = s
          BY <1>1, <4>2 DEF AllTold
        <5>2. m \in 1..Len(Log') /\ Log'[m] = Log[m]
          BY <2>6, <5>1
        <5>3. QED  BY <5>1, <5>2
      <4>3. QED  BY <2>4, <4>1, <4>2
    <3>2. QED  BY <3>1 DEF AllTold
  <2>12. QED  BY <1>1, <2>3, <2>6, <2>9, <2>10, <2>11 DEF StreamInv
<1>5. QED  BY <1>3, <1>4

\* What ends the build is no progress: the log is told as counted as it was.
LEMMA AlsoTold ==
    ASSUME StreamInv, NEW e \in Event, ~IsProgress(e),
           messages' = Append(messages, e), UNCHANGED <<received, summary>>
    PROVE  ToldAsCounted(Log)' /\ ToldOnce(Log)'
<1>1. /\ Len(Log) \in Nat /\ DOMAIN Log = 1..Len(Log)
      /\ DOMAIN Log' = 1..(Len(Log) + 1) /\ Log'[Len(Log) + 1] = e
      /\ \A i \in 1..Len(Log) : Log'[i] = Log[i]
  BY LogTold DEF StreamInv
<1>2. \A n \in DOMAIN Log' : IsProgress(Log'[n]) => n \in DOMAIN Log /\ Log'[n] = Log[n]
  BY <1>1
<1>3. Counted' = Counted
  BY DEF Counted
<1>4. QED  BY <1>2, <1>3 DEF StreamInv, ToldAsCounted, ToldOnce

\* The verdict is a summary only when every table is counted, hence told.
LEMMA EndBuildInv == Tally /\ StreamInv /\ EndBuild => StreamInv'
<1> SUFFICES ASSUME Tally, StreamInv, EndBuild PROVE StreamInv'
  OBVIOUS
<1>1. /\ command # "none" /\ command' = "none" /\ worker = "building" /\ worker' = "closing"
      /\ received \in Seq(Event) /\ messages \in Seq(Event) /\ browser \in {"listening", "gone"}
      /\ UNCHANGED <<received, browser, summary>>
      /\ OnlyProgress(Log, Len(Log)) /\ AllTold(Log, Len(Log))
  BY DEF EndBuild, Return, StreamInv
<1>2. PICK e : e = Verdict
  OBVIOUS
<1>3. /\ e \in Event /\ e.event \in {"summary", "error"}
      /\ messages' = Append(messages, e)
      /\ e.event = "summary" => e = Summary /\ Counted = Table
  BY <1>2, SummaryType, EventKinds DEF EndBuild, Tell, Return, Verdict
<1>4. /\ messages' \in Seq(Event)
      /\ Len(Log) \in Nat /\ DOMAIN Log = 1..Len(Log)
      /\ Len(Log') = Len(Log) + 1 /\ DOMAIN Log' = 1..(Len(Log) + 1)
      /\ Log'[Len(Log) + 1] = e
      /\ \A i \in 1..Len(Log) : Log'[i] = Log[i]
  BY <1>1, <1>3, LogTold
<1>5. ToldAsCounted(Log)' /\ ToldOnce(Log)'
  BY <1>1, <1>3, AlsoTold DEF IsProgress
<1>6. Counted' = Counted /\ Summary' = Summary
  BY <1>1 DEF Counted, Summary
<1>7. OnlyProgress(Log', Len(Log)) /\ (AllTold(Log, Len(Log)) => AllTold(Log', Len(Log)))
  BY <1>1, <1>4 DEF OnlyProgress, AllTold
<1>8. Closes(Log, Len(Log))'
  <2>1. PICK n : n = Len(Log)
    OBVIOUS
  <2>2. \A s \in Counted' : \E m \in 1..n : IsProgress(Log'[m]) /\ Log'[m].source = s
    BY <1>1, <1>6, <1>7, <2>1 DEF AllTold
  <2>3. Len(Log') = n + 1 /\ (n + 1) - 1 = n /\ Log'[n + 1] = e /\ n + 1 \in DOMAIN Log'
    BY <1>4, <2>1
  <2>4. \A m \in 1..n : IsProgress(Log'[m])
    BY <1>7, <2>1 DEF OnlyProgress
  <2>5. QED  BY <1>3, <1>6, <2>2, <2>3, <2>4 DEF Closes, OnlyProgress, AllTold
<1>9. QED  BY <1>1, <1>4, <1>5, <1>8 DEF StreamInv

\* The sentinel comes after the verdict.
LEMMA CloseInv == StreamInv /\ Close => StreamInv'
<1> SUFFICES ASSUME StreamInv, Close PROVE StreamInv'
  OBVIOUS
<1>1. /\ worker' = "off" /\ command' = "none" /\ browser \in {"listening", "gone"}
      /\ received \in Seq(Event) /\ messages \in Seq(Event)
      /\ UNCHANGED <<received, browser, summary>>
      /\ messages' = Append(messages, Done) /\ Closes(Log, Len(Log))
  BY DEF Close, Tell, StreamInv, vars
<1>2. PICK n : n = Len(Log)
  OBVIOUS
<1>3. /\ messages' \in Seq(Event)
      /\ n \in Nat /\ DOMAIN Log = 1..n
      /\ Len(Log') = n + 1 /\ DOMAIN Log' = 1..(n + 1)
      /\ Log'[n + 1] = Done
      /\ \A i \in 1..n : Log'[i] = Log[i]
  BY <1>1, <1>2, LogTold, EventKinds
<1>4. ToldAsCounted(Log)' /\ ToldOnce(Log)'
  BY <1>1, EventKinds, AlsoTold DEF IsProgress
<1>5. Counted' = Counted /\ Summary' = Summary
  BY <1>1 DEF Counted, Summary
<1>6. n \in 1..n /\ \A m \in 1..(n - 1) : m \in 1..n
  BY <1>1, <1>2, <1>3 DEF Closes
<1>7. /\ \A m \in 1..(n - 1) : IsProgress(Log'[m])
      /\ Log'[n].event \in {"summary", "error"}
      /\ Log'[n].event = "summary" => Log'[n] = Summary' /\ Counted' = Table
      /\ Log'[n].event = "summary" =>
            \A s \in Counted' : \E m \in 1..(n - 1) : IsProgress(Log'[m]) /\ Log'[m].source = s
  BY <1>1, <1>2, <1>3, <1>5, <1>6 DEF Closes, OnlyProgress, AllTold
<1>8. Closes(Log, n)' /\ Len(Log') - 1 = n /\ n \in DOMAIN Log'
  BY <1>3, <1>6, <1>7 DEF Closes, OnlyProgress, AllTold
<1>9. QED  BY <1>1, <1>3, <1>4, <1>8 DEF StreamInv

\* The last message is the sentinel, and it is taken only when it is all there is.
LEMMA LastIsDone ==
    ASSUME StreamInv, browser = "listening", messages # <<>>, Head(messages) = Done
    PROVE  /\ worker = "off" /\ Len(messages) = 1
           /\ Len(Log) = Len(received) + 1 /\ Closes(Log, Len(received))
           /\ \A i \in 1..Len(received) : Log[i] = received[i]
<1>1. /\ received \in Seq(Event) /\ messages \in Seq(Event)
      /\ Len(received) \in Nat /\ Len(messages) \in Nat \ {0}
  BY DEF StreamInv
<1>2. PICK n : n = Len(received) + 1
  OBVIOUS
<1>3. /\ Len(Log) = Len(received) + Len(messages) /\ n \in 1..Len(Log) /\ Log[n] = Done
      /\ \A i \in 1..Len(received) : Log[i] = received[i]
  BY <1>1, <1>2 DEF Log
<1>4. Log[n].event = "done" /\ ~IsProgress(Log[n])
  BY <1>3, EventKinds DEF IsProgress
<1>5. ASSUME NEW m \in Nat, Closes(Log, m)
      PROVE  n > m
  BY <1>1, <1>3, <1>4, <1>5 DEF Closes, OnlyProgress
<1>6. worker = "off"
  <2>1. worker # "preparing"
    BY <1>1, <1>3 DEF StreamInv
  <2>2. worker # "building"
    BY <1>3, <1>4 DEF StreamInv, OnlyProgress
  <2>3. worker # "closing"
    BY <1>1, <1>3, <1>5 DEF StreamInv
  <2>4. QED  BY <2>1, <2>2, <2>3 DEF StreamInv
<1>7. Closes(Log, Len(Log) - 1) /\ Len(Log) > 0
  BY <1>6 DEF StreamInv
<1>8. n > Len(Log) - 1
  BY <1>1, <1>3, <1>5, <1>7
<1>9. Len(messages) = 1 /\ Len(Log) = Len(received) + 1 /\ Len(Log) - 1 = Len(received)
  <2>1. PICK a \in Nat, b \in Nat \ {0} : a = Len(received) /\ b = Len(messages)
    BY <1>1
  <2>2. Len(Log) = a + b /\ a + 1 > (a + b) - 1
    BY <1>2, <1>3, <1>8, <2>1
  <2>3. b = 1
    BY <2>2
  <2>4. QED  BY <2>1, <2>2, <2>3
<1>10. QED  BY <1>3, <1>6, <1>7, <1>9

\* What the browser takes leaves the log as it is, but for the sentinel.
LEMMA DeliverInv == StreamInv /\ Deliver => StreamInv'
<1> SUFFICES ASSUME StreamInv, Deliver PROVE StreamInv'
  OBVIOUS
<1>1. /\ browser = "listening" /\ messages # <<>> /\ messages' = Tail(messages)
      /\ UNCHANGED <<worker, command, summary>>
      /\ received \in Seq(Event) /\ messages \in Seq(Event)
  BY DEF Deliver, StreamInv, vars
<1>2. Counted' = Counted /\ Summary' = Summary
  BY <1>1 DEF Counted, Summary
<1>3. CASE Head(messages) = Done
  <2>1. /\ worker = "off" /\ Len(messages) = 1 /\ Len(Log) = Len(received) + 1
        /\ Closes(Log, Len(received))
        /\ \A i \in 1..Len(received) : Log[i] = received[i]
    BY <1>1, <1>3, LastIsDone
  <2>2. /\ browser' = "closed" /\ received' = received /\ messages' = <<>>
    <3>1. Tail(messages) = <<>>
      BY <1>1, <2>1, EmptySeq
    <3>2. QED  BY <1>1, <1>3, <3>1 DEF Deliver
  <2>3. Log' = received
    BY <1>1, <2>2, ConcatEmptySeq DEF Log
  <2>4. PICK n : n = Len(received)
    OBVIOUS
  <2>5. /\ n \in Nat /\ DOMAIN Log' = 1..n /\ Len(Log') = n
        /\ DOMAIN Log = 1..(n + 1)
        /\ \A i \in 1..n : Log'[i] = Log[i]
    <3>1. Log \in Seq(Event)
      BY <1>1 DEF Log
    <3>2. QED  BY <1>1, <2>1, <2>3, <2>4, <3>1
  <2>6. ToldAsCounted(Log)' /\ ToldOnce(Log)'
    <3>1. \A i \in DOMAIN Log' : i \in DOMAIN Log /\ Log'[i] = Log[i]
      BY <2>5
    <3>2. summary' = summary /\ ToldAsCounted(Log) /\ ToldOnce(Log)
      BY <1>1 DEF StreamInv
    <3>3. ToldAsCounted(Log)'
      BY <1>2, <3>1, <3>2 DEF ToldAsCounted
    <3>4. ToldOnce(Log)'
      BY <3>1, <3>2 DEF ToldOnce
    <3>5. QED  BY <3>3, <3>4
  <2>7. Closes(Log, n)
    BY <2>1, <2>4
  <2>8. n \in 1..n /\ \A m \in 1..(n - 1) : m \in 1..n
    BY <2>5, <2>7 DEF Closes, OnlyProgress
  <2>9. Closes(Log, n)'
    BY <1>2, <2>5, <2>7, <2>8 DEF Closes, OnlyProgress, AllTold
  <2>10. QED  BY <1>1, <2>1, <2>2, <2>5, <2>6, <2>9 DEF StreamInv
<1>4. CASE Head(messages) # Done
  <2>1. received' = Append(received, Head(messages)) /\ browser' = browser
    BY <1>4 DEF Deliver
  <2>2. Log' = Log /\ messages' \in Seq(Event) /\ received' \in Seq(Event)
    BY <1>1, <2>1, LogDelivered
  <2>3. /\ ToldAsCounted(Log)' /\ ToldOnce(Log)'
        /\ \A n : Closes(Log, n) => Closes(Log, n)'
        /\ OnlyProgress(Log, Len(Log)) => OnlyProgress(Log, Len(Log))'
        /\ AllTold(Log, Len(Log)) => AllTold(Log, Len(Log))'
    BY <1>1, <1>2, <2>2 DEF StreamInv, ToldAsCounted, ToldOnce, Closes, OnlyProgress, AllTold
  <2>4. PICK n : n = Len(Log)
    OBVIOUS
  <2>5. QED  BY <1>1, <2>1, <2>2, <2>3, <2>4 DEF StreamInv, Closes
<1>5. QED  BY <1>3, <1>4

\* Every step of the worker, the pool, the response and the browser.
LEMMA StreamNextInv == Tally /\ StreamInv /\ [StreamNext]_allVars => StreamInv'
<1> SUFFICES ASSUME Tally, StreamInv, [StreamNext]_allVars PROVE StreamInv'
  OBVIOUS
<1>1. ASSUME NEW t \in Table, NEW c \in Content, EditSource(t, c), UNCHANGED stream
      PROVE  StreamInv'
  BY <1>1, StreamStays DEF EditSource, stream
<1>2. CASE Request
  BY <1>2, RequestInv
<1>3. CASE FailToPrepare
  BY <1>3, FailToPrepareInv
<1>4. CASE StartBuild
  BY <1>4, StartBuildInv
<1>5. ASSUME NEW t \in Table, GatherOne(t)
      PROVE  StreamInv'
  BY <1>5, GatherOneInv
<1>6. CASE EndBuild
  BY <1>6, EndBuildInv
<1>7. CASE Close
  BY <1>7, CloseInv
<1>8. CASE BuildStep
  BY <1>8, ThreadTally, TakeTally, StreamStays DEF BuildStep, stream
<1>9. CASE Deliver
  BY <1>9, DeliverInv
<1>10. CASE Disconnect
  BY <1>10, StreamStays DEF Disconnect, vars
<1>11. CASE UNCHANGED allVars
  BY <1>11, StreamStays DEF allVars, vars, stream
<1>12. QED
  BY <1>1, <1>2, <1>3, <1>4, <1>5, <1>6, <1>7, <1>8, <1>9, <1>10, <1>11 DEF StreamNext

\* A set that is numbered one to one has as many elements as numbers.
LEMMA SameNumber ==
    ASSUME NEW S, NEW T, IsFiniteSet(T), NEW f \in [S -> T],
           \A a, b \in S : f[a] = f[b] => a = b, \A t \in T : \E s \in S : f[s] = t
    PROVE  Cardinality(S) = Cardinality(T)
<1>1. f \in Bijection(S, T)
  BY Fun_IsBij
<1>2. ExistsBijection(T, S)
  BY <1>1, Fun_ExistsBij, Fun_ExistsBijSymmetric
<1>3. QED  BY <1>2, FS_Bijection

\* A stream that ended has the whole log received; a table is told once, so that there
\* are as many progress events as tables.
LEMMA StreamInvTellsAll == Tally /\ StreamInv => StreamTellsAll
<1> SUFFICES ASSUME Tally, StreamInv PROVE StreamTellsAll
  OBVIOUS
<1>1. /\ received \in Seq(Event) /\ messages \in Seq(Event)
      /\ ToldAsCounted(Log) /\ ToldOnce(Log)
  BY DEF StreamInv
<1>2. DOMAIN received \subseteq DOMAIN Log /\ \A k \in DOMAIN received : Log[k] = received[k]
  BY <1>1 DEF Log
<1>3. \A k \in Told("progress") :
          /\ received[k].source \in Counted
          /\ received[k].status = "ok" <=> received[k].source \notin summary.errors
  BY <1>1, <1>2 DEF Told, ToldAsCounted, IsProgress
<1>4. ASSUME browser = "closed"
      PROVE  LET last == received[Len(received)]
             IN /\ received # <<>>
                /\ Told("summary") \cup Told("error") = {Len(received)}
                /\ \A j, k \in Told("progress") : received[j].source = received[k].source => j = k
                /\ last.event = "summary" =>
                      /\ Cardinality(Told("progress")) = Cardinality(Table)
                      /\ Cardinality(ToldStatus("ok")) = last.built + last.cached
                      /\ Cardinality(ToldStatus("error")) = last.errors
  <2>1. messages = <<>> /\ Closes(Log, Len(Log))
    BY <1>4 DEF StreamInv
  <2>2. Log = received
    BY <1>1, <2>1, ConcatEmptySeq DEF Log
  <2>3. PICK n : n = Len(received)
    OBVIOUS
  <2>4. n \in DOMAIN received /\ DOMAIN received = 1..n /\ n \in Nat
    BY <1>1, <2>1, <2>2, <2>3 DEF Closes
  <2>5. /\ received[n].event \in {"summary", "error"}
        /\ \A m \in 1..(n - 1) : received[m].event = "progress"
        /\ received[n].event = "summary" =>
              /\ received[n] = Summary /\ Counted = Table
              /\ \A t \in Table : \E m \in 1..(n - 1) : received[m].source = t
    BY <2>1, <2>2, <2>3 DEF Closes, OnlyProgress, AllTold, IsProgress
  <2>6. \A m \in 1..n : m = n \/ m \in 1..(n - 1)
    BY <2>4
  <2>7. Told("summary") \cup Told("error") = {n} /\ Told("progress") = 1..(n - 1)
    BY <2>4, <2>5, <2>6 DEF Told
  <2>8. \A j, k \in Told("progress") : received[j].source = received[k].source => j = k
    BY <1>1, <2>2 DEF Told, ToldOnce, IsProgress
  <2>9. ASSUME received[n].event = "summary"
        PROVE  /\ Cardinality(Told("progress")) = Cardinality(Table)
               /\ Cardinality(ToldStatus("ok")) = received[n].built + received[n].cached
               /\ Cardinality(ToldStatus("error")) = received[n].errors
    <3>1. /\ received[n] = Summary /\ Counted = Table
          /\ \A t \in Table : \E m \in Told("progress") : received[m].source = t
      BY <2>5, <2>7, <2>9
    <3>2. \A k \in Told("progress") :
              received[k].source \in Table /\ received[k].status \in {"ok", "error"}
      <4>1. ASSUME NEW k \in Told("progress")
            PROVE  received[k].source \in Table /\ received[k].status \in {"ok", "error"}
        <5>1. received[k] \in Event /\ received[k].event = "progress"
          BY <1>1, <4>1 DEF Told
        <5>2. QED  BY <5>1 DEF Event
      <4>2. QED  BY <4>1
    <3>3. /\ IsFiniteSet(summary.built) /\ IsFiniteSet(summary.cached)
          /\ IsFiniteSet(summary.errors) /\ IsFiniteSet(Table)
      BY TablesFinite, FS_Subset DEF Tally
    <3>4. /\ summary.built \cap summary.cached = {}
          /\ summary.errors \cap (summary.built \cup summary.cached) = {}
      BY DEF Tally, CountedAsIs
    <3>5. Cardinality(Told("progress")) = Cardinality(Table)
      <4> DEFINE f == [k \in Told("progress") |-> received[k].source]
      <4>1. f \in [Told("progress") -> Table]
        BY <3>2
      <4>2. /\ \A a, b \in Told("progress") : f[a] = f[b] => a = b
            /\ \A t \in Table : \E s \in Told("progress") : f[s] = t
        BY <2>8, <3>1
      <4> HIDE DEF f
      <4>3. QED  BY <3>3, <4>1, <4>2, SameNumber
    <3>6. Cardinality(ToldStatus("error")) = Cardinality(summary.errors)
      <4> DEFINE S == ToldStatus("error")
                 f == [k \in S |-> received[k].source]
      <4>1. \A k \in S : k \in Told("progress") /\ received[k].source \in summary.errors
        BY <1>3 DEF ToldStatus
      <4>2. f \in [S -> summary.errors]
        BY <4>1
      <4>3. \A a, b \in S : f[a] = f[b] => a = b
        BY <2>8, <4>1
      <4>4. ASSUME NEW t \in summary.errors
            PROVE  \E s \in S : f[s] = t
        <5>1. PICK m \in Told("progress") : received[m].source = t
          BY <3>1 DEF Tally
        <5>2. m \in S
          BY <1>3, <3>2, <5>1 DEF ToldStatus
        <5>3. QED  BY <5>1, <5>2
      <4> HIDE DEF f, S
      <4>5. Cardinality(S) = Cardinality(summary.errors)
        BY <3>3, <4>2, <4>3, <4>4, SameNumber
      <4>6. QED  BY <4>5 DEF S
    <3>7. Cardinality(ToldStatus("ok")) = Cardinality(summary.built \cup summary.cached)
      <4> DEFINE S == ToldStatus("ok")
                 T == summary.built \cup summary.cached
                 f == [k \in S |-> received[k].source]
      <4>1. \A k \in S : k \in Told("progress") /\ received[k].source \in T
        BY <1>3 DEF ToldStatus, Counted
      <4>2. f \in [S -> T]
        BY <4>1
      <4>3. \A a, b \in S : f[a] = f[b] => a = b
        BY <2>8, <4>1
      <4>4. ASSUME NEW t \in T
            PROVE  \E s \in S : f[s] = t
        <5>1. PICK m \in Told("progress") : received[m].source = t
          BY <3>1 DEF Tally
        <5>2. m \in S
          BY <1>3, <3>4, <5>1 DEF ToldStatus
        <5>3. QED  BY <5>1, <5>2
      <4>5. IsFiniteSet(T)
        BY <3>3, FS_Union
      <4> HIDE DEF f, S, T
      <4>6. Cardinality(S) = Cardinality(T)
        BY <4>2, <4>3, <4>4, <4>5, SameNumber
      <4>7. QED  BY <4>6 DEF S, T
    <3>8. Cardinality(summary.built \cup summary.cached)
              = Cardinality(summary.built) + Cardinality(summary.cached)
      <4>1. /\ Cardinality(summary.built) \in Nat /\ Cardinality(summary.cached) \in Nat
            /\ Cardinality(summary.built \cap summary.cached) = 0
        BY <3>3, <3>4, FS_CardinalityType, FS_EmptySet
      <4>2. Cardinality(summary.built \cup summary.cached)
                = Cardinality(summary.built) + Cardinality(summary.cached)
                  - Cardinality(summary.built \cap summary.cached)
        BY <3>3, FS_Union
      <4>3. QED  BY <4>1, <4>2
    <3>9. QED  BY <3>1, <3>5, <3>6, <3>7, <3>8 DEF Summary
  <2>10. QED  BY <2>3, <2>4, <2>7, <2>8, <2>9
<1>5. QED  BY <1>3, <1>4 DEF StreamTellsAll

\* Theorem: whatever the threads, the response and the browser interleave, the
\* browser is told of no table before it is counted nor otherwise than it was; and
\* a stream that ended has told every table once before a summary that adds up.
THEOREM StreamIsComplete == StreamSpec => []StreamTellsAll
<1>1. StreamInit => Tally /\ StreamInv
  BY TallyInit, StreamInitInv DEF StreamInit
<1>2. StreamSpec => Spec
  BY StreamRunsBatchBuilds
<1>3. (Tally /\ StreamInv) /\ [Next]_vars /\ [StreamNext]_allVars => (Tally /\ StreamInv)'
  BY TallyNext, StreamNextInv
<1>4. Tally /\ StreamInv => StreamTellsAll
  BY StreamInvTellsAll
<1>5. QED  BY <1>1, <1>2, <1>3, <1>4, PTL DEF StreamSpec, Spec
=============================================================================
