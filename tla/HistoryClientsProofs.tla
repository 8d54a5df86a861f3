------------------------ MODULE HistoryClientsProofs ------------------------
(***************************************************************************)
(* Theorems about HistoryClients, for any tables, any number of clients    *)
(* and any contents: commits, restores, golden edits and cleans whose      *)
(* single file operations interleave, and that die between any two.        *)
(***************************************************************************)
EXTENDS HistoryClients, MapsProofs, FiniteSetTheorems, WellFoundedInduction,
        SequenceTheorems, TLAPS

-----------------------------------------------------------------------------
(* Induction, and sequences put together.                                  *)

\* Induction over the naturals with a set for the property: the finite
\* subsets of Nat have no infinite descent.
LEMMA SetInduction ==
    ASSUME NEW S \in SUBSET Nat, 0 \in S, \A n \in S : n + 1 \in S
    PROVE  \A n \in Nat : n \in S
<1> DEFINE Others == {1..n : n \in Nat \ S}
<1> SUFFICES ASSUME Nat \ S # {} PROVE FALSE
  OBVIOUS
<1>1. Others \subseteq FiniteSubsetsOf(Nat) /\ Others # {}
  <2>1. \A n \in Nat : 1..n \in SUBSET Nat /\ IsFiniteSet(1..n)
    BY FS_Interval
  <2>2. QED  BY <2>1 DEF FiniteSubsetsOf
<1>2. PICK x \in Others : \A y \in Others : ~(<<y, x>> \in StrictSubsetOrdering(Nat))
  BY <1>1, WFMin, FS_StrictSubsetOrderingWellFounded
<1>3. PICK n \in Nat \ S : x = 1..n
  BY <1>2
<1>4. n # 0 /\ n - 1 \in Nat \ S
  OBVIOUS
<1>5. 1..(n - 1) \in Others
  BY <1>4
<1>6. <<1..(n - 1), 1..n>> \in StrictSubsetOrdering(Nat)
  <2>1. 1..(n - 1) \subseteq 1..n /\ n \in 1..n /\ n \notin 1..(n - 1)
    BY <1>4
  <2>2. QED  BY <2>1, <1>4 DEF StrictSubsetOrdering
<1>7. QED  BY <1>2, <1>3, <1>5, <1>6

\* The first n steps of FlattenSeq.
Flat(f, n, ss) ==
    /\ f = [k \in 1..n |-> IF k = 1 THEN ss[k] ELSE f[k - 1] \o ss[k]]

\* There is a function with the recursion of FlattenSeq.
LEMMA FlatExists ==
    ASSUME NEW ss
    PROVE  \A n \in Nat : \E f : Flat(f, n, ss)
<1> DEFINE T == {n \in Nat : \E f : Flat(f, n, ss)}
<1>1. 0 \in T
  <2>1. Flat([k \in 1..0 |-> 0], 0, ss)
    BY DEF Flat
  <2>2. QED  BY <2>1
<1>2. ASSUME NEW n \in T PROVE n + 1 \in T
  <2>1. PICK f : Flat(f, n, ss)
    BY <1>2
  <2>2. PICK next : next = IF n + 1 = 1 THEN ss[1] ELSE f[n] \o ss[n + 1]
    OBVIOUS
  <2>3. PICK g : g = [k \in 1..(n + 1) |-> IF k = n + 1 THEN next ELSE f[k]]
    OBVIOUS
  <2>4. \A k \in 1..n : g[k] = f[k]
    BY <2>3
  <2>5. ASSUME NEW k \in 1..(n + 1) PROVE g[k] = IF k = 1 THEN ss[k] ELSE g[k - 1] \o ss[k]
    <3>1. CASE k = n + 1
      <4>1. g[k] = next
        BY <2>3, <3>1
      <4>2. k # 1 => k - 1 \in 1..n
        BY <3>1
      <4>3. k # 1 => g[k - 1] = f[n]
        BY <4>2, <2>4, <3>1
      <4>4. QED  BY <4>1, <4>3, <2>2, <3>1
    <3>2. CASE k # n + 1
      <4>1. k \in 1..n
        BY <3>2
      <4>2. f[k] = IF k = 1 THEN ss[k] ELSE f[k - 1] \o ss[k]
        BY <2>1, <4>1 DEF Flat
      <4>3. k # 1 => k - 1 \in 1..n
        BY <4>1
      <4>4. QED  BY <4>1, <4>2, <4>3, <2>4
    <3>3. QED  BY <3>1, <3>2
  <2>6. Flat(g, n + 1, ss)
    BY <2>3, <2>5 DEF Flat
  <2>7. QED  BY <2>6
<1> HIDE DEF T
<1>3. T \in SUBSET Nat
  BY DEF T
<1>4. \A n \in Nat : n \in T
  BY <1>1, <1>2, <1>3, SetInduction
<1>5. QED  BY <1>4 DEF T

\* Each element of s is in relation R to the next.
Chain(s, R) == \A i \in 2..Len(s) : <<s[i - 1], s[i]>> \in R

\* Each element of s is in relation Q to every later one.
Ordered(s, Q) == \A i, j \in DOMAIN s : i < j => <<s[i], s[j]>> \in Q

\* What the first n of the sequences ss are when they are put together.
Together(s, ss, n, R, Q) ==
    /\ Chain(s, R) /\ Ordered(s, Q)
    /\ s # <<>> => \E k \in 1..n : ss[k] # <<>> /\ s[1] = ss[k][1]
    /\ s # <<>> => \E k \in 1..n : ss[k] # <<>> /\ s[Len(s)] = ss[k][Len(ss[k])]
    /\ \A i \in DOMAIN s : \E k \in 1..n : s[i] \in ToSet(ss[k])
    /\ \A k \in 1..n : ToSet(ss[k]) \subseteq ToSet(s)

\* Where an element of the second part of a sequence put together is in that part.
LEMMA PastTheJoin ==
    ASSUME NEW l \in Nat, NEW m \in Nat, NEW i \in 2..(l + m), i > l + 1
    PROVE  /\ i - l \in 2..m /\ (i - 1) - l = (i - l) - 1 /\ i - 1 \in 1..(l + m)
           /\ i - 1 \notin 1..l /\ i \notin 1..l /\ i \in 1..(l + m)
OBVIOUS

\* The parts ss can be put together to a chain of R that is ordered by Q.
AreJoinable(ss, S, R, Q) ==
    /\ ss \in Seq(Seq(S))
    /\ \A k \in DOMAIN ss : Chain(ss[k], R) /\ Ordered(ss[k], Q)
    /\ \A j, k \in DOMAIN ss : j # k =>
           \A x \in ToSet(ss[j]), y \in ToSet(ss[k]) : <<x, y>> \in Q
    /\ \A j, k \in DOMAIN ss : ss[j] # <<>> /\ ss[k] # <<>> =>
           <<ss[j][Len(ss[j])], ss[k][1]>> \in R

\* One more sequence of a joinable family can be put behind the first n.
LEMMA JoinTogether ==
    ASSUME NEW S, NEW R, NEW Q, NEW ss, AreJoinable(ss, S, R, Q),
           NEW n \in Nat, n + 1 \in DOMAIN ss, NEW s \in Seq(S), Together(s, ss, n, R, Q)
    PROVE  Together(s \o ss[n + 1], ss, n + 1, R, Q)
<1>1. PICK t \in Seq(S) : t = ss[n + 1]
  BY DEF AreJoinable
<1>2. PICK u : u = s \o t
  OBVIOUS
<1>3. PICK l \in Nat, m \in Nat : l = Len(s) /\ m = Len(t)
  OBVIOUS
<1>4. /\ Len(u) = l + m /\ u \in Seq(S)
      /\ DOMAIN u = 1..(l + m) /\ DOMAIN s = 1..l /\ DOMAIN t = 1..m
      /\ \A i \in 1..l : u[i] = s[i]
      /\ \A i \in 1..m : u[l + i] = t[i]
  BY <1>2, <1>3
<1>5. \A i \in 1..(l + m) : i \in 1..l \/ (i - l \in 1..m /\ u[i] = t[i - l])
  <2>1. ASSUME NEW i \in 1..(l + m), i \notin 1..l PROVE i - l \in 1..m /\ l + (i - l) = i
    BY <2>1
  <2>2. QED  BY <2>1, <1>4
<1>6. /\ Chain(t, R) /\ Ordered(t, Q) /\ n + 1 \in 1..Len(ss) /\ DOMAIN ss = 1..Len(ss)
  BY <1>1 DEF AreJoinable
<1>7. ASSUME NEW i \in 2..Len(u) PROVE <<u[i - 1], u[i]>> \in R
  <2>1. CASE i \in 1..l
    <3>1. i - 1 \in 1..l /\ i \in 2..Len(s)
      BY <2>1, <1>7, <1>3
    <3>2. QED  BY <3>1, <2>1, <1>4 DEF Together, Chain
  <2>2. CASE i = l + 1
    <3>1. u[i] = t[1] /\ t # <<>>
      <4>1. 1 \in 1..m
        BY <2>2, <1>7, <1>4
      <4>2. QED  BY <4>1, <1>4, <1>3, <2>2
    <3>2. u[i - 1] = s[l] /\ s # <<>>
      <4>1. l \in 1..l
        BY <2>2, <1>7
      <4>2. QED  BY <4>1, <1>4, <1>3, <2>2
    <3>3. PICK k \in 1..n : ss[k] # <<>> /\ s[l] = ss[k][Len(ss[k])]
      BY <3>2, <1>3 DEF Together
    <3>4. k \in DOMAIN ss
      BY <1>6
    <3>5. QED  BY <3>1, <3>2, <3>3, <3>4, <1>1 DEF AreJoinable
  <2>3. CASE i > l + 1
    <3>1. i - l \in 2..Len(t) /\ (i - 1) - l = (i - l) - 1 /\ i - 1 \in 1..(l + m)
          /\ i - 1 \notin 1..l /\ i \notin 1..l /\ i \in 1..(l + m)
      <4>1. i \in 2..(l + m) /\ Len(t) = m
        BY <1>3, <1>4, <1>7
      <4>2. QED  BY <2>3, <4>1, PastTheJoin
    <3>2. u[i] = t[i - l] /\ u[i - 1] = t[(i - l) - 1]
      BY <3>1, <1>5
    <3>3. QED  BY <3>1, <3>2, <1>6 DEF Chain
  <2>4. QED  BY <2>1, <2>2, <2>3, <1>7, <1>4
<1>8. \A i \in DOMAIN u : \/ i \in 1..l /\ \E k \in 1..n : u[i] \in ToSet(ss[k])
                          \/ i \notin 1..l /\ i - l \in 1..m /\ u[i] = t[i - l]
  BY <1>4, <1>5 DEF Together
<1>9. \A j \in 1..m : t[j] \in ToSet(t)
  BY <1>4 DEF ToSet
<1>11. u # <<>> => \E k \in 1..(n + 1) : ss[k] # <<>> /\ u[1] = ss[k][1]
  <2>1. CASE l = 0
    <3>1. u = t /\ n + 1 \in 1..(n + 1)
      BY <2>1, <1>2, <1>3
    <3>2. QED  BY <3>1, <1>1
  <2>2. CASE l # 0
    <3>1. 1 \in 1..l /\ s # <<>> /\ 1..n \subseteq 1..(n + 1)
      BY <2>2, <1>3
    <3>2. u[1] = s[1]
      BY <3>1, <1>4
    <3>3. QED  BY <3>1, <3>2 DEF Together
  <2>3. QED  BY <2>1, <2>2
<1>12. u # <<>> => \E k \in 1..(n + 1) : ss[k] # <<>> /\ u[Len(u)] = ss[k][Len(ss[k])]
  <2>1. CASE m = 0
    <3>1. u = s /\ 1..n \subseteq 1..(n + 1)
      BY <2>1, <1>2, <1>3
    <3>2. QED  BY <3>1 DEF Together
  <2>2. CASE m # 0
    <3>1. u[l + m] = t[m] /\ t # <<>>
      <4>1. m \in 1..m
        BY <2>2
      <4>2. u[l + m] = t[m]
        <5>1. \A i \in 1..m : u[l + i] = t[i]
          BY <1>4
        <5>2. QED  BY <4>1, <5>1
      <4>3. t # <<>>
        BY <1>3, <2>2
      <4>4. QED  BY <4>2, <4>3
    <3>2. QED  BY <3>1, <1>1, <1>3, <1>4
  <2>3. QED  BY <2>1, <2>2
<1>13. \A i \in DOMAIN u : \E k \in 1..(n + 1) : u[i] \in ToSet(ss[k])
  <2>1. 1..n \subseteq 1..(n + 1) /\ n + 1 \in 1..(n + 1)
    OBVIOUS
  <2>2. QED  BY <2>1, <1>1, <1>8, <1>9
<1>14. ASSUME NEW i \in DOMAIN u, NEW j \in DOMAIN u, i < j PROVE <<u[i], u[j]>> \in Q
  <2>1. CASE i \in 1..l /\ j \in 1..l
    BY <2>1, <1>4, <1>14 DEF Together, Ordered
  <2>2. CASE i \notin 1..l /\ j \notin 1..l
    <3>1. u[i] = t[i - l] /\ u[j] = t[j - l] /\ i - l \in 1..m /\ j - l \in 1..m
      BY <2>2, <1>8
    <3>2. i - l < j - l
      BY <1>14, <1>4
    <3>3. QED  BY <3>1, <3>2, <1>4, <1>6 DEF Ordered
  <2>3. CASE i \in 1..l /\ j \notin 1..l
    <3>1. PICK k \in 1..n : u[i] \in ToSet(ss[k])
      BY <2>3, <1>8
    <3>2. u[j] \in ToSet(ss[n + 1])
      BY <2>3, <1>1, <1>8, <1>9
    <3>3. k \in DOMAIN ss /\ n + 1 \in DOMAIN ss /\ k # n + 1
      BY <1>6
    <3>4. QED  BY <3>1, <3>2, <3>3 DEF AreJoinable
  <2>4. i \notin 1..l => j \notin 1..l
    BY <1>4, <1>14
  <2>5. QED  BY <2>1, <2>2, <2>3, <2>4
<1>15. ToSet(s) \subseteq ToSet(u) /\ ToSet(t) \subseteq ToSet(u)
  <2>1. \A i \in 1..l : i \in DOMAIN u
    BY <1>4
  <2>2. \A i \in 1..m : l + i \in DOMAIN u
    BY <1>4
  <2>3. \A i \in DOMAIN s : s[i] \in ToSet(u)
    BY <1>4, <2>1 DEF ToSet
  <2>4. \A i \in DOMAIN t : t[i] \in ToSet(u)
    BY <1>4, <2>2 DEF ToSet
  <2>5. QED  BY <2>3, <2>4 DEF ToSet
<1>16. ASSUME NEW k \in 1..(n + 1) PROVE ToSet(ss[k]) \subseteq ToSet(u)
  <2>1. k \in 1..n \/ k = n + 1
    OBVIOUS
  <2>2. k \in 1..n => ToSet(ss[k]) \subseteq ToSet(s)
    BY DEF Together
  <2>3. QED  BY <2>1, <2>2, <1>1, <1>15
<1>17. QED
  BY <1>1, <1>2, <1>7, <1>11, <1>12, <1>13, <1>14, <1>16 DEF Together, Chain, Ordered

\* What FlattenSeq makes of a joinable family: a chain of R, ordered by Q,
\* of its elements, which begins as one of its sequences does.
LEMMA FlattenIs ==
    ASSUME NEW S, NEW R, NEW Q, NEW ss, AreJoinable(ss, S, R, Q)
    PROVE  /\ FlattenSeq(ss) \in Seq(S)
           /\ Chain(FlattenSeq(ss), R) /\ Ordered(FlattenSeq(ss), Q)
           /\ FlattenSeq(ss) # <<>> =>
                 \E k \in DOMAIN ss : ss[k] # <<>> /\ FlattenSeq(ss)[1] = ss[k][1]
           /\ \A i \in DOMAIN FlattenSeq(ss) : \E k \in DOMAIN ss :
                  FlattenSeq(ss)[i] \in ToSet(ss[k])
           /\ \A k \in DOMAIN ss : ToSet(ss[k]) \subseteq ToSet(FlattenSeq(ss))
<1> DEFINE h == CHOOSE h : h = [i \in 1..Len(ss) |->
                                  IF i = 1 THEN ss[i] ELSE h[i - 1] \o ss[i]]
<1> DEFINE T == {n \in Nat : n \in 1..Len(ss) => h[n] \in Seq(S) /\ Together(h[n], ss, n, R, Q)}
<1>1. ss \in Seq(Seq(S)) /\ Len(ss) \in Nat /\ DOMAIN ss = 1..Len(ss)
  BY DEF AreJoinable
<1>2. h = [i \in 1..Len(ss) |-> IF i = 1 THEN ss[i] ELSE h[i - 1] \o ss[i]]
  <2>1. \E f : Flat(f, Len(ss), ss)
    <3> HIDE DEF h
    <3>1. QED  BY <1>1, FlatExists
  <2>2. QED  BY <2>1 DEF Flat
<1>3. Len(ss) # 0 => FlattenSeq(ss) = h[Len(ss)]
  BY DEF FlattenSeq
<1>4. Len(ss) = 0 => FlattenSeq(ss) = ss /\ ss = <<>>
  BY <1>1 DEF FlattenSeq
<1> HIDE DEF h
<1>5. \A i \in 1..Len(ss) : h[i] = IF i = 1 THEN ss[i] ELSE h[i - 1] \o ss[i]
  <2> HIDE DEF T
  <2>1. QED  BY <1>2
<1>6. 0 \in T
  BY <1>1
<1>7. ASSUME NEW n \in T PROVE n + 1 \in T
  <2>1. SUFFICES ASSUME n + 1 \in 1..Len(ss)
                 PROVE  h[n + 1] \in Seq(S) /\ Together(h[n + 1], ss, n + 1, R, Q)
    OBVIOUS
  <2>2. n \in Nat /\ (n + 1) - 1 = n /\ ss[n + 1] \in Seq(S) /\ n + 1 \in DOMAIN ss
    BY <2>1, <1>1
  <2>3. CASE n = 0
    <3>1. Together(<<>>, ss, n, R, Q)
      <4> HIDE DEF T
      <4>1. \A k \in 1..n : ToSet(ss[k]) \subseteq ToSet(<<>>)
        BY <2>3
      <4>2. QED  BY <4>1 DEF Together, Chain, Ordered
    <3>2. Together(<<>> \o ss[n + 1], ss, n + 1, R, Q)
      <4> HIDE DEF T
      <4>1. <<>> \in Seq(S)
        OBVIOUS
      <4>2. QED  BY <2>2, <3>1, <4>1, JoinTogether
    <3>3. h[n + 1] = ss[n + 1] /\ <<>> \o ss[n + 1] = ss[n + 1]
      BY <2>1, <2>2, <2>3, <1>5
    <3>4. QED  BY <3>2, <3>3, <2>2
  <2>4. CASE n # 0
    <3>1. h[n] \in Seq(S) /\ Together(h[n], ss, n, R, Q)
      BY <2>1, <2>4
    <3>2. h[n + 1] = h[n] \o ss[n + 1]
      <4>1. h[n + 1] = IF n + 1 = 1 THEN ss[n + 1] ELSE h[(n + 1) - 1] \o ss[n + 1]
        BY <2>1, <1>5
      <4>2. n + 1 # 1
        BY <2>2, <2>4
      <4>3. h[n + 1] = h[(n + 1) - 1] \o ss[n + 1]
        BY <4>1, <4>2
      <4> HIDE DEF T
      <4>4. QED  BY <4>3, <2>2
    <3>3. Together(h[n] \o ss[n + 1], ss, n + 1, R, Q)
      <4> HIDE DEF T
      <4>1. QED  BY <2>2, <3>1, JoinTogether
    <3>4. QED  BY <3>1, <3>2, <3>3, <2>2
  <2>5. QED  BY <2>3, <2>4
<1>8. \A n \in Nat : n \in T
  <2>1. T \in SUBSET Nat
    OBVIOUS
  <2> HIDE DEF T
  <2>2. QED  BY <1>6, <1>7, <2>1, SetInduction
<1>9. Len(ss) # 0 => h[Len(ss)] \in Seq(S) /\ Together(h[Len(ss)], ss, Len(ss), R, Q)
  BY <1>8, <1>1
<1>10. CASE Len(ss) = 0
  <2>1. FlattenSeq(ss) = <<>>
    BY <1>4, <1>10
  <2>2. DOMAIN ss = {}
    BY <1>1, <1>10
  <2>3. QED  BY <2>1, <2>2 DEF Chain, Ordered
<1>11. CASE Len(ss) # 0
  <2> HIDE DEF T
  <2>1. PICK u : u = FlattenSeq(ss)
    OBVIOUS
  <2>2. u \in Seq(S) /\ Together(u, ss, Len(ss), R, Q)
    BY <1>3, <1>9, <1>11, <2>1
  <2>3. /\ Chain(u, R) /\ Ordered(u, Q)
        /\ u # <<>> => \E k \in DOMAIN ss : ss[k] # <<>> /\ u[1] = ss[k][1]
        /\ \A i \in DOMAIN u : \E k \in DOMAIN ss : u[i] \in ToSet(ss[k])
        /\ \A k \in DOMAIN ss : ToSet(ss[k]) \subseteq ToSet(u)
    BY <1>1, <2>2 DEF Together
  <2>4. QED  BY <2>1, <2>2, <2>3
<1>12. QED  BY <1>10, <1>11

-----------------------------------------------------------------------------
(* The invariant.                                                          *)

\* The calls that write a file, and the others.
Writing == {"open", "fill"}
Planned == {"load", "store", "record", "fetch", "unlink", "put", "del", "report"}

\* The object store has a blob for d.
Has(d) == disk[Blob(d)] # Absent

\* The snapshots that t can have: of contents the object store has.
Kept(t) ==
    {s \in [id : Nat, blobs : PartialMap({"source", "output"}, Data)] :
        /\ "source" \in DOMAIN s.blobs /\ DOMAIN s.blobs \subseteq Kinds(t)
        /\ \A k \in DOMAIN s.blobs : Has(s.blobs[k])}

\* What may be written where.
IsWrite(x) ==
    \/ x[2] \in Pointers
    \/ x[1] = "fill" /\ \E t \in Table : x[2] = Manifest(t) /\ x[3] \in Seq(Kept(t))
    \/ \E d \in Data : x[2] = Blob(d) /\ x[3] = d
    \/ \E t \in Table : \E k \in Kinds(t) : x[2] = Work(k, t) /\ x[3] \in Data

\* The calls requests are made of.
IsCall(x) ==
    /\ x[1] \in Writing \cup Planned
    /\ x[1] \in Writing => IsWrite(x)
    /\ x[1] \in Planned \ {"put", "del"} => x[2] \in Table
    /\ x[1] \in {"put", "del"} => x[2] \in Pointers /\ x[3] \in Table
    /\ x[1] = "store" => x[3] \in Kinds(x[2])
    /\ x[1] = "fetch" => x[4] \in Kept(x[2]) /\ x[3] \in DOMAIN x[4].blobs
    /\ x[1] = "unlink" => x[2] \in Built
    /\ x[1] = "record" => x[3] \subseteq Pointers
    /\ x[1] = "report" => x[3] \subseteq Pointers /\ (x[4] # "clear" => x[5] \in Kept(x[2]))

\* The call writes a blob.
OnBlob(x) == x[1] \in Writing /\ \E d \in Data : x[2] = Blob(d)
\* The call stores the k of t.
Stores(x, t, k) == x[1] = "store" /\ x[2] = t /\ x[3] = k

\* What may come next in a request: a commit reads the log, stores the source
\* and the output, and records the snapshot, with nothing between but the writing
\* of a blob it stores.
Follows(x, y) ==
    /\ x[1] = "load" => Stores(y, x[2], "source")
    /\ x[1] = "store" =>
          IF x[3] = "source" /\ x[2] \in Built THEN Stores(y, x[2], "output")
          ELSE y[1] = "record" /\ y[2] = x[2]
    /\ OnBlob(x) => y[1] = "record" \/ (y[1] = "store" /\ y[3] = "output")
    /\ y[1] \in {"store", "record"} => x[1] \in {"load", "store"} \/ OnBlob(x)

\* What is left of a request: only its first call may be half done.
IsRequest(s) ==
    /\ s \in Seq(ToSet(s))
    /\ \A i \in DOMAIN s : IsCall(s[i]) /\ (i # 1 => s[i][1] \in Planned)
    /\ \A i \in DOMAIN s : i # 1 => Follows(s[i - 1], s[i])

\* y is the next call of s that is planned.
IsNext(s, y) ==
    \/ s # <<>> /\ s[1] = y /\ y[1] \in Planned
    \/ Len(s) > 1 /\ s[1][1] \in Writing /\ s[2] = y

\* What c remembers when the next call y of its commit stores or records.
MemIs(c, y) ==
    /\ mem[c].log \in Seq(Kept(y[2]))
    /\ mem[c].blobs \in PartialMap(Kinds(y[2]), Data)
    /\ Stores(y, y[2], "source") => DOMAIN mem[c].blobs = {}
    /\ ~Stores(y, y[2], "source") => "source" \in DOMAIN mem[c].blobs
    /\ \A k \in DOMAIN mem[c].blobs :
          LET d == mem[c].blobs[k] IN
          Has(d) \/ (todo[c] # <<>> /\ todo[c][1] = <<"open", Blob(d), d>>)

\* The files: manifests name blobs that are there, and a blob is whole unless it
\* is being written or its writer died.
DiskIs ==
    /\ disk = [f \in File |-> disk[f]]
    /\ \A t \in Table : disk[Manifest(t)] \in {Absent, Torn} \cup Seq(Kept(t))
    /\ \A d \in Data : \/ disk[Blob(d)] \in {Absent, d}
                       \/ disk[Blob(d)] = Torn /\ (Filling(Blob(d)) \/ Blob(d) \in disturbed)
    /\ \A d \in Data : Filling(Blob(d)) => Has(d)
    /\ \A t \in Table : /\ disk[Work("source", t)] \in Data
                        /\ t \in Built => disk[Work("output", t)] \in Data \cup {Absent}

\* The requests of the clients and what they remember.
RequestsAre ==
    /\ todo = [c \in Client |-> todo[c]]
    /\ mem = [c \in Client |-> [log |-> mem[c].log, blobs |-> mem[c].blobs]]
    /\ \A c \in Client : IsRequest(todo[c])
    /\ \A c \in Client : \A y \in ToSet(todo[c]) :
          IsNext(todo[c], y) /\ y[1] \in {"store", "record"} => MemIs(c, y)

\* A request commits a table at most once: after its record of a table it
\* neither reads nor records that table again.
InTurn(s) ==
    \A i, j \in DOMAIN s :
        i < j /\ s[i][1] = "record" /\ s[j][1] \in {"load", "record"} => s[i][2] # s[j][2]

\* The call reports a commit.
ReportsCommit(x) == x[1] = "report" /\ x[4] = "commit"

\* Request s has read the manifest of t and will save it.
Commits(s, t) ==
    /\ \E x \in ToSet(s) : x[1] = "record" /\ x[2] = t
    /\ \A x \in ToSet(s) : ~(x[1] = "load" /\ x[2] = t)

\* Request s has truncated the manifest of t and not written it yet.
Saves(s, t) == s # <<>> /\ s[1][1] = "fill" /\ s[1][2] = Manifest(t)

\* The snapshots of t that s will report.
Told(s, t) == {x[5] : x \in {y \in ToSet(s) : ReportsCommit(y) /\ y[2] = t}}

\* The snapshots of t that are reported, or will be unless the client dies.
Reported(t) == told.log[t] \cup UNION {Told(todo[c], t) : c \in Client}

\* The log of an undisturbed manifest: one client at most has read it to commit,
\* and what that client read is what the manifest says.
LogIs(t) ==
    /\ \A c, d \in Client :
          /\ Commits(todo[c], t) \/ Saves(todo[c], t)
          /\ Commits(todo[d], t) \/ Saves(todo[d], t)
          => c = d
    /\ \A c \in Client : Commits(todo[c], t) =>
          ~Saves(todo[c], t) /\ Readable(t) /\ mem[c].log = ReadLog(t)
    /\ \A c \in Client : Saves(todo[c], t) =>
          disk[Manifest(t)] = Torn /\ Reported(t) \subseteq ToSet(todo[c][1][3])
    /\ (\A c \in Client : ~Saves(todo[c], t)) =>
          Readable(t) /\ Reported(t) \subseteq ToSet(ReadLog(t))

\* The logs of the undisturbed manifests.
LogsAre ==
    /\ \A c \in Client : InTurn(todo[c])
    /\ told.log = [t \in Table |-> told.log[t]]
    /\ \A t \in Table : Manifest(t) \notin disturbed => LogIs(t)

-----------------------------------------------------------------------------
(* Files and calls.                                                        *)

\* No two files of different use, table or content have the same name.
LEMMA Names ==
    /\ \A d \in Data : Blob(d) \notin Pointers /\ Blob(d) \notin AllWorkFiles
    /\ \A d \in Data, t \in Table : Blob(d) # Manifest(t)
    /\ \A d, e \in Data : Blob(d) = Blob(e) => d = e
    /\ \A t \in Table : Manifest(t) \notin Pointers /\ Manifest(t) \notin AllWorkFiles
    /\ \A t, u \in Table : Manifest(t) = Manifest(u) => t = u
    /\ AllWorkFiles \cap Pointers = {}
    /\ \A t \in Table : \A k \in Kinds(t) : Work(k, t) \in AllWorkFiles
    /\ \A k, l, t, u : Work(k, t) = Work(l, u) => k = l /\ t = u
<1>1. \A f \in AllWorkFiles : f[1] \in {"source", "output"} /\ Len(f) = 2
  BY DEF AllWorkFiles, WorkFiles, Work, Kinds
<1>2. \A f \in Pointers : Len(f) = 1
  BY DEF Pointers, HeadFile, GoldenFile
<1>3. \A d : Blob(d)[1] = "blob" /\ Len(Blob(d)) = 2 /\ Blob(d)[2] = d
  BY DEF Blob
<1>4. \A t : Manifest(t)[1] = "manifest" /\ Len(Manifest(t)) = 2 /\ Manifest(t)[2] = t
  BY DEF Manifest
<1>5. \A t \in Table : \A k \in Kinds(t) : Work(k, t) \in AllWorkFiles
  BY DEF AllWorkFiles, WorkFiles
<1>6. \A k, t : Work(k, t)[1] = k /\ Work(k, t)[2] = t
  BY DEF Work
<1>7. QED  BY <1>1, <1>2, <1>3, <1>4, <1>5, <1>6

\* The files of the model.
LEMMA Files ==
    /\ \A d \in Data : Blob(d) \in File
    /\ \A t \in Table : Manifest(t) \in File
    /\ Pointers \subseteq File /\ AllWorkFiles \subseteq File
BY DEF File

\* Every table has a source, a built one also an output.
LEMMA TableKinds == \A t \in Table : /\ Kinds(t) \subseteq {"source", "output"}
                                     /\ "source" \in Kinds(t)
                                     /\ "output" \in Kinds(t) <=> t \in Built
BY DEF Kinds

\* Absent is no content of a blob.
LEMMA DataIs == Absent \notin Data /\ Torn \in Data /\ Absent # Torn
BY MarksAreNoContent DEF Data

\* While no blob goes, no snapshot that could be recorded becomes one that cannot.
LEMMA KeptStays ==
    ASSUME \A d \in Data : disk[Blob(d)] # Absent => disk'[Blob(d)] # Absent
    PROVE  \A t \in Table : Kept(t) \subseteq Kept(t)' /\ Seq(Kept(t)) \subseteq Seq(Kept(t)')
<1>1. ASSUME NEW t \in Table, NEW s \in Kept(t) PROVE s \in Kept(t)'
  <2>1. s.blobs \in PartialMap({"source", "output"}, Data)
    BY DEF Kept
  <2>2. \A k \in DOMAIN s.blobs : s.blobs[k] \in Data
    BY <2>1, PartialMapDef
  <2>3. QED  BY <2>2 DEF Kept, Has
<1>2. QED  BY <1>1

\* While no blob goes, a call stays a call.
LEMMA CallStays ==
    ASSUME \A d \in Data : disk[Blob(d)] # Absent => disk'[Blob(d)] # Absent,
           NEW x, IsCall(x)
    PROVE  IsCall(x)'
<1>1. \A t \in Table : Kept(t) \subseteq Kept(t)' /\ Seq(Kept(t)) \subseteq Seq(Kept(t)')
  BY KeptStays
<1>2. x[1] \in Writing => IsWrite(x)'
  <2>1. SUFFICES ASSUME x[1] \in Writing PROVE IsWrite(x)'
    OBVIOUS
  <2>2. IsWrite(x)
    BY <2>1 DEF IsCall
  <2>3. QED  BY <2>2, <1>1 DEF IsWrite
<1>3. QED  BY <1>1, <1>2 DEF IsCall, Planned

\* While no blob goes, a request stays a request.
LEMMA RequestStays ==
    ASSUME \A d \in Data : disk[Blob(d)] # Absent => disk'[Blob(d)] # Absent,
           NEW s, IsRequest(s)
    PROVE  IsRequest(s)'
<1>1. \A i \in DOMAIN s : IsCall(s[i])'
  BY CallStays DEF IsRequest
<1>2. QED  BY <1>1 DEF IsRequest

\* The first call of s gives way to the calls of a, which are l; those of s are m.
IsContinued(n, a, s, l, m) ==
    /\ l \in Nat /\ m \in Nat \ {0}
    /\ n \in Seq(ToSet(n)) /\ Len(n) = l + m - 1
    /\ DOMAIN n = 1..(l + m - 1) /\ DOMAIN s = 1..m /\ DOMAIN a = 1..l
    /\ \A i \in 1..l : n[i] = a[i]
    /\ \A i \in 2..m : n[l + i - 1] = s[i]
    /\ \A i \in 1..(l + m - 1) : i \notin 1..l =>
          i - l + 1 \in 2..m /\ n[i] = s[i - l + 1]
    /\ ToSet(n) \subseteq ToSet(a) \cup ToSet(s)

\* Where the elements of a request are after its first call gave way to a.
LEMMA Continued ==
    ASSUME NEW s, NEW a, s \in Seq(ToSet(s)), s # <<>>, a \in Seq(ToSet(a))
    PROVE  IsContinued(a \o Tail(s), a, s, Len(a), Len(s))
<1>12. PICK n, l, m : n = a \o Tail(s) /\ l = Len(a) /\ m = Len(s)
  OBVIOUS
<1>11. PICK S : S = ToSet(a) \cup ToSet(s)
  OBVIOUS
<1>1. l \in Nat /\ m \in Nat \ {0} /\ s \in Seq(S) /\ a \in Seq(S)
  <2>1. s \in Seq(S) /\ a \in Seq(S)
    BY <1>11
  <2>2. QED  BY <1>12, <2>1, EmptySeq
<1>2. PICK r : r = Tail(s)
  OBVIOUS
<1>3. r \in Seq(S) /\ Len(r) = m - 1 /\ \A i \in 1..(m - 1) : r[i] = s[i + 1]
  BY <1>1, <1>2, <1>12, HeadTailProperties
<1>4. /\ n \in Seq(S) /\ Len(n) = l + m - 1
      /\ \A i \in 1..l : n[i] = a[i]
      /\ \A i \in 1..(m - 1) : n[l + i] = r[i]
  BY <1>1, <1>2, <1>3, <1>12, ConcatProperties
<1>5. \A i \in 2..m : n[l + i - 1] = s[i]
  <2>1. ASSUME NEW i \in 2..m PROVE n[l + i - 1] = s[i]
    <3>1. i - 1 \in 1..(m - 1) /\ l + (i - 1) = l + i - 1 /\ (i - 1) + 1 = i
      BY <1>1
    <3>2. QED  BY <3>1, <1>3, <1>4
  <2>2. QED  BY <2>1
<1>6. \A i \in 1..(l + m - 1) : i \notin 1..l => i - l + 1 \in 2..m /\ n[i] = s[i - l + 1]
  <2>1. ASSUME NEW i \in 1..(l + m - 1), i \notin 1..l
        PROVE  i - l + 1 \in 2..m /\ l + (i - l + 1) - 1 = i
    BY <1>1, <2>1
  <2>2. QED  BY <2>1, <1>5
<1>7. DOMAIN n = 1..(l + m - 1) /\ DOMAIN s = 1..m /\ DOMAIN a = 1..l
  BY <1>1, <1>4, <1>12
<1>8. n \in Seq(ToSet(n))
  <2>1. \A i \in DOMAIN n : n[i] \in ToSet(n)
    BY DEF ToSet
  <2>2. n \in [1..(l + m - 1) -> ToSet(n)]
    BY <1>4, <2>1
  <2>3. l + m - 1 \in Nat
    BY <1>1
  <2>4. QED  BY <2>2, <2>3, SeqDef
<1>9. ToSet(n) \subseteq S
  <2>1. \A i \in DOMAIN n : n[i] \in S
    BY <1>4
  <2>2. QED  BY <2>1 DEF ToSet
<1>10. QED  BY <1>1, <1>11, <1>12, <1>4, <1>5, <1>6, <1>7, <1>8, <1>9 DEF IsContinued

\* A request whose first call gives way to a request that fits is a request.
LEMMA ContinuedRequest ==
    ASSUME NEW s, NEW a, NEW n, IsRequest(s), s # <<>>, IsRequest(a), n = a \o Tail(s),
           a # <<>> /\ Len(s) > 1 => Follows(a[Len(a)], s[2])
    PROVE  IsRequest(n)
<1>1. s \in Seq(ToSet(s)) /\ a \in Seq(ToSet(a))
  BY DEF IsRequest
<1>2. PICK l, m : l = Len(a) /\ m = Len(s)
  OBVIOUS
<1>3. /\ l \in Nat /\ m \in Nat \ {0}
      /\ n \in Seq(ToSet(n)) /\ Len(n) = l + m - 1
      /\ DOMAIN n = 1..(l + m - 1) /\ DOMAIN s = 1..m /\ DOMAIN a = 1..l
      /\ \A i \in 1..l : n[i] = a[i]
      /\ \A i \in 1..(l + m - 1) : i \notin 1..l => i - l + 1 \in 2..m /\ n[i] = s[i - l + 1]
  BY <1>1, <1>2, Continued DEF IsContinued
<1>4. \A i \in 1..l : IsCall(a[i]) /\ (i # 1 => a[i][1] \in Planned /\ Follows(a[i - 1], a[i]))
  BY <1>3 DEF IsRequest
<1>5. \A i \in 2..m : IsCall(s[i]) /\ s[i][1] \in Planned /\ Follows(s[i - 1], s[i])
  <2>1. SUFFICES ASSUME NEW i \in 2..m
                 PROVE  IsCall(s[i]) /\ s[i][1] \in Planned /\ Follows(s[i - 1], s[i])
    OBVIOUS
  <2>2. i \in DOMAIN s /\ i # 1
    BY <1>3
  <2>3. QED  BY <2>2 DEF IsRequest
<1>6. ASSUME NEW i \in 1..(l + m - 1)
      PROVE  IsCall(n[i]) /\ (i # 1 => n[i][1] \in Planned /\ Follows(n[i - 1], n[i]))
  <2>1. CASE i \in 1..l
    <3>1. i # 1 => i - 1 \in 1..l
      BY <1>3, <2>1
    <3>2. QED  BY <2>1, <3>1, <1>3, <1>4
  <2>2. CASE i \notin 1..l
    <3>1. PICK j \in 2..m : j = i - l + 1 /\ n[i] = s[j]
      BY <2>2, <1>3
    <3>2. IsCall(n[i]) /\ n[i][1] \in Planned
      BY <3>1, <1>5
    <3>3. CASE i - 1 \in 1..l
      <4>1. i - 1 = l /\ j = 2 /\ l \in 1..l
        BY <1>3, <3>1, <3>3, <2>2
      <4>2. n[i - 1] = a[l]
        BY <4>1, <1>3
      <4>3. a # <<>> /\ Len(s) > 1
        BY <4>1, <1>2
      <4>4. Follows(a[l], s[2])
        BY <4>3, <1>2
      <4>5. QED  BY <3>1, <3>2, <4>1, <4>2, <4>4
    <3>4. CASE i - 1 \notin 1..l /\ i # 1
      <4>1. i - 1 \in 1..(l + m - 1) /\ (i - 1) - l + 1 = j - 1
        BY <1>3, <3>1, <3>4
      <4>2. n[i - 1] = s[j - 1]
        BY <4>1, <3>4, <1>3
      <4>3. QED  BY <3>1, <3>2, <4>2, <1>5
    <3>5. QED  BY <3>2, <3>3, <3>4
  <2>3. QED  BY <2>1, <2>2
<1>7. QED  BY <1>3, <1>6 DEF IsRequest

\* A client that has nothing to do.
LEMMA NoRequest == IsRequest(<<>>)
BY DEF IsRequest, ToSet

\* One call is a request.
LEMMA OneCall ==
    ASSUME NEW x, IsCall(x)
    PROVE  IsRequest(<<x>>)
BY DEF IsRequest, ToSet

-----------------------------------------------------------------------------
(* What a step of one client keeps.                                        *)

\* Request s is filling file f.
Fills(s, f) == \E i \in DOMAIN s : s[i][1] = "fill" /\ s[i][2] = f

\* Who fills a file now did it before, or has just opened it.
LEMMA FillingStep ==
    ASSUME RequestsAre, NEW c \in Client, NEW n, todo' = [todo EXCEPT ![c] = n], NEW f
    PROVE  /\ Filling(f)' => Filling(f) \/ Fills(n, f)
           /\ Fills(n, f) => Filling(f)'
           /\ Filling(f) => Filling(f)' \/ (Is(c, "fill") /\ todo[c][1][2] = f)
<1>1. /\ todo'[c] = n
      /\ \A d \in Client \ {c} : todo'[d] = todo[d]
  BY DEF RequestsAre
<1>2. Filling(f) <=> \E d \in Client : Fills(todo[d], f)
  BY DEF Filling, Pending, Fills, ToSet
<1>3. Filling(f)' <=> \E d \in Client : Fills(todo'[d], f)
  BY DEF Filling, Pending, Fills, ToSet
<1>4. Fills(todo[c], f) => Is(c, "fill") /\ todo[c][1][2] = f
  <2>1. SUFFICES ASSUME NEW i \in DOMAIN todo[c], todo[c][i][1] = "fill", todo[c][i][2] = f
                 PROVE  Is(c, "fill") /\ todo[c][1][2] = f
    BY DEF Fills
  <2>2. IsRequest(todo[c])
    BY DEF RequestsAre
  <2>3. i = 1
    BY <2>1, <2>2 DEF IsRequest, Planned
  <2>4. todo[c] # <<>>
    BY <2>1
  <2>5. QED  BY <2>1, <2>3, <2>4 DEF Is, Idle
<1>5. QED  BY <1>1, <1>2, <1>3, <1>4

\* A blob that a step of c leaves alone or opens is absent, whole or being written.
LEMMA BlobStep ==
    ASSUME DiskIs, RequestsAre, NEW c \in Client, NEW n, todo' = [todo EXCEPT ![c] = n],
           NEW d \in Data,
           \/ disk'[Blob(d)] = disk[Blob(d)] /\ ~Fills(n, Blob(d))
           \/ disk'[Blob(d)] = Torn /\ Fills(n, Blob(d)),
           Is(c, "fill") /\ todo[c][1][2] = Blob(d) => Blob(d) \in disturbed',
           Blob(d) \in disturbed => Blob(d) \in disturbed'
    PROVE  /\ \/ disk'[Blob(d)] \in {Absent, d}
              \/ disk'[Blob(d)] = Torn /\ (Filling(Blob(d))' \/ Blob(d) \in disturbed')
           /\ Filling(Blob(d))' => disk'[Blob(d)] # Absent
<1>1. /\ Filling(Blob(d))' => Filling(Blob(d)) \/ Fills(n, Blob(d))
      /\ Fills(n, Blob(d)) => Filling(Blob(d))'
      /\ Filling(Blob(d)) => Filling(Blob(d))' \/ (Is(c, "fill") /\ todo[c][1][2] = Blob(d))
  BY FillingStep
<1>2. /\ \/ disk[Blob(d)] \in {Absent, d}
         \/ disk[Blob(d)] = Torn /\ (Filling(Blob(d)) \/ Blob(d) \in disturbed)
      /\ Filling(Blob(d)) => disk[Blob(d)] # Absent
  BY DEF DiskIs, Has
<1>3. QED  BY <1>1, <1>2, DataIs

\* The conjuncts of DiskIs in the next state, one file at a time.
LEMMA DiskStep ==
    ASSUME disk' = [f \in File |-> disk'[f]],
           \A t \in Table : disk'[Manifest(t)] \in {Absent, Torn} \cup Seq(Kept(t)'),
           \A d \in Data :
              /\ \/ disk'[Blob(d)] \in {Absent, d}
                 \/ disk'[Blob(d)] = Torn /\ (Filling(Blob(d))' \/ Blob(d) \in disturbed')
              /\ Filling(Blob(d))' => disk'[Blob(d)] # Absent,
           \A t \in Table : /\ disk'[Work("source", t)] \in Data
                            /\ t \in Built => disk'[Work("output", t)] \in Data \cup {Absent}
    PROVE  DiskIs'
BY DEF DiskIs, Has

\* What c remembers stays true while no blob goes and c does not step.
LEMMA MemStays ==
    ASSUME \A d \in Data : disk[Blob(d)] # Absent => disk'[Blob(d)] # Absent,
           NEW c, NEW y, y[2] \in Table, MemIs(c, y), mem'[c] = mem[c], todo'[c] = todo[c]
    PROVE  MemIs(c, y)'
<1>1. Seq(Kept(y[2])) \subseteq Seq(Kept(y[2])')
  BY KeptStays
<1>2. \A k \in DOMAIN mem[c].blobs : mem[c].blobs[k] \in Data
  BY PartialMapDef DEF MemIs
<1>3. QED  BY <1>1, <1>2 DEF MemIs, Has

\* RequestsAre in the next state, from the one client that steps.
LEMMA RequestsStep ==
    ASSUME RequestsAre, NEW c \in Client, NEW n, todo' = [todo EXCEPT ![c] = n],
           \A d \in Data : disk[Blob(d)] # Absent => disk'[Blob(d)] # Absent,
           IsRequest(n),
           mem' = [d \in Client |-> mem'[d]], \A d \in Client \ {c} : mem'[d] = mem[d],
           mem'[c] = [log |-> mem'[c].log, blobs |-> mem'[c].blobs],
           \A y \in ToSet(n) : IsNext(n, y) /\ y[1] \in {"store", "record"} => MemIs(c, y)'
    PROVE  RequestsAre'
<1>1. /\ todo' = [d \in Client |-> todo'[d]] /\ todo'[c] = n
      /\ \A d \in Client \ {c} : todo'[d] = todo[d]
  BY DEF RequestsAre
<1>2. mem' = [d \in Client |-> [log |-> mem'[d].log, blobs |-> mem'[d].blobs]]
  <2>1. \A d \in Client : mem'[d] = [log |-> mem'[d].log, blobs |-> mem'[d].blobs]
    BY DEF RequestsAre
  <2>2. QED  BY <2>1
<1>3. ASSUME NEW d \in Client PROVE IsRequest(todo[d])'
  <2>1. PICK s : s = todo'[d]
    OBVIOUS
  <2>2. IsRequest(s)
    BY <1>1, <2>1 DEF RequestsAre
  <2>3. IsRequest(s)'
    BY <2>2, RequestStays
  <2>4. QED  BY <2>1, <2>3
<1>4. ASSUME NEW d \in Client, NEW y \in ToSet(todo'[d]),
             IsNext(todo'[d], y), y[1] \in {"store", "record"}
      PROVE  MemIs(d, y)'
  <2>1. CASE d = c
    BY <2>1, <1>1, <1>4
  <2>2. CASE d # c
    <3>1. mem'[d] = mem[d] /\ todo'[d] = todo[d]
      BY <2>2, <1>1
    <3>2. MemIs(d, y)
      BY <3>1, <1>4 DEF RequestsAre
    <3>3. PICK i \in DOMAIN todo[d] : todo[d][i] = y
      BY <3>1, <1>4 DEF ToSet
    <3>4. IsCall(y)
      BY <3>3 DEF RequestsAre, IsRequest
    <3>5. y[2] \in Table
      BY <3>4, <1>4 DEF IsCall, Planned
    <3>6. QED  BY <3>1, <3>2, <3>5, MemStays
  <2>3. QED  BY <2>1, <2>2
<1>5. QED  BY <1>1, <1>2, <1>3, <1>4 DEF RequestsAre

\* After a call the next is what followed it, unless it puts more before than a write.
LEMMA NextAfter ==
    ASSUME NEW s, IsRequest(s), s # <<>>, NEW a, a \in Seq(ToSet(a)),
           Len(a) = 0 \/ (Len(a) = 1 /\ a[1][1] \in Writing),
           NEW y, IsNext(a \o Tail(s), y)
    PROVE  /\ Len(s) > 1 /\ y = s[2] /\ Follows(s[1], y) /\ y[1] \in Planned /\ IsCall(y)
           /\ s[1][1] \in Writing => IsNext(s, y)
           /\ y \in ToSet(s)
<1>1. PICK n, l, m : n = a \o Tail(s) /\ l = Len(a) /\ m = Len(s)
  OBVIOUS
<1>2. s \in Seq(ToSet(s))
  BY DEF IsRequest
<1>3. /\ l \in Nat /\ m \in Nat \ {0}
      /\ n \in Seq(ToSet(n)) /\ Len(n) = l + m - 1
      /\ DOMAIN n = 1..(l + m - 1) /\ DOMAIN s = 1..m
      /\ \A i \in 1..l : n[i] = a[i]
      /\ \A i \in 2..m : n[l + i - 1] = s[i]
  BY <1>1, <1>2, Continued DEF IsContinued
<1>4. Writing \cap Planned = {}
  BY DEF Writing, Planned
<1>5. ASSUME m > 1
      PROVE  /\ s[2][1] \in Planned /\ Follows(s[1], s[2]) /\ IsCall(s[2])
             /\ n[l + 1] = s[2] /\ s[2] \in ToSet(s)
  <2>1. 2 \in DOMAIN s /\ 2 \in 2..m /\ l + 2 - 1 = l + 1
    BY <1>3, <1>5
  <2>5. \A i \in DOMAIN s : i # 1 =>
           s[i][1] \in Planned /\ Follows(s[i - 1], s[i]) /\ IsCall(s[i])
    BY DEF IsRequest
  <2>6. s[2][1] \in Planned /\ Follows(s[2 - 1], s[2]) /\ IsCall(s[2])
    BY <2>1, <2>5
  <2>7. 2 - 1 = 1
    OBVIOUS
  <2>2. s[2][1] \in Planned /\ Follows(s[1], s[2]) /\ IsCall(s[2])
    BY <2>6, <2>7
  <2>3. n[l + 1] = s[2]
    BY <2>1, <1>3
  <2>4. QED  BY <2>1, <2>2, <2>3 DEF ToSet
<1>6. CASE l = 0
  <2>1. n # <<>>
    BY <1>1 DEF IsNext
  <2>2. m > 1
    BY <2>1, <1>3, <1>6
  <2>3. n[1] = s[2] /\ n[1][1] \in Planned
    <3>1. l + 1 = 1
      BY <1>6
    <3>2. QED  BY <2>2, <1>5, <3>1
  <2>4. y = s[2]
    BY <2>3, <1>1, <1>4 DEF IsNext
  <2>5. QED  BY <2>2, <2>4, <1>1, <1>5 DEF IsNext
<1>7. CASE l = 1 /\ a[1][1] \in Writing
  <2>1. n[1] = a[1]
    BY <1>3, <1>7
  <2>2. Len(n) > 1 /\ n[2] = y
    BY <2>1, <1>1, <1>4, <1>7 DEF IsNext
  <2>3. m > 1
    BY <2>2, <1>3, <1>7
  <2>4. QED  BY <2>2, <2>3, <1>1, <1>5, <1>7 DEF IsNext
<1>8. QED  BY <1>1, <1>6, <1>7

-----------------------------------------------------------------------------
(* The steps.                                                              *)

\* The first call of a client that has one.
LEMMA First ==
    ASSUME RequestsAre, NEW c \in Client, todo[c] # <<>>
    PROVE  /\ IsRequest(todo[c]) /\ IsCall(todo[c][1]) /\ todo[c][1] \in ToSet(todo[c])
           /\ todo[c] \in Seq(ToSet(todo[c]))
           /\ todo[c][1][1] \in Planned => IsNext(todo[c], todo[c][1])
<1>1. IsRequest(todo[c])
  BY DEF RequestsAre
<1>2. todo[c] \in Seq(ToSet(todo[c])) /\ \A i \in DOMAIN todo[c] : IsCall(todo[c][i])
  BY <1>1 DEF IsRequest
<1>3. 1 \in DOMAIN todo[c]
  BY <1>2
<1>4. QED  BY <1>1, <1>2, <1>3 DEF ToSet, IsNext

\* A client that goes on with a is writing only what a writes.
LEMMA FillsAfter ==
    ASSUME NEW s, IsRequest(s), s # <<>>, NEW a, a \in Seq(ToSet(a)), NEW f
    PROVE  Fills(a \o Tail(s), f) => Fills(a, f)
<1>1. PICK n, l, m : n = a \o Tail(s) /\ l = Len(a) /\ m = Len(s)
  OBVIOUS
<1>2. s \in Seq(ToSet(s))
  BY DEF IsRequest
<1>3. /\ l \in Nat /\ m \in Nat \ {0}
      /\ DOMAIN n = 1..(l + m - 1) /\ DOMAIN s = 1..m /\ DOMAIN a = 1..l
      /\ \A i \in 1..l : n[i] = a[i]
      /\ \A i \in 1..(l + m - 1) : i \notin 1..l => i - l + 1 \in 2..m /\ n[i] = s[i - l + 1]
  BY <1>1, <1>2, Continued DEF IsContinued
<1>4. ASSUME NEW i \in DOMAIN n, i \notin 1..l PROVE n[i][1] # "fill"
  <2>1. PICK j \in 2..m : n[i] = s[j]
    BY <1>3, <1>4
  <2>2. j \in DOMAIN s /\ j # 1
    BY <1>3
  <2>3. s[j][1] \in Planned
    BY <2>2 DEF IsRequest
  <2>4. QED  BY <2>1, <2>3 DEF Planned
<1>5. \A i \in DOMAIN n : n[i][1] = "fill" => i \in DOMAIN a /\ a[i] = n[i]
  BY <1>3, <1>4
<1>6. QED  BY <1>1, <1>5 DEF Fills

\* A step that leaves the disk alone keeps DiskIs.
LEMMA DiskKept ==
    ASSUME DiskIs, RequestsAre, NEW c \in Client, NEW n, todo' = [todo EXCEPT ![c] = n],
           disk' = disk, \A d \in Data : ~Fills(n, Blob(d)),
           \A d \in Data : Is(c, "fill") /\ todo[c][1][2] = Blob(d) => Blob(d) \in disturbed',
           \A d \in Data : Blob(d) \in disturbed => Blob(d) \in disturbed'
    PROVE  DiskIs'
<1>1. \A d \in Data :
              /\ \/ disk'[Blob(d)] \in {Absent, d}
                 \/ disk'[Blob(d)] = Torn /\ (Filling(Blob(d))' \/ Blob(d) \in disturbed')
              /\ Filling(Blob(d))' => disk'[Blob(d)] # Absent
  BY BlobStep
<1>2. \A t \in Table : disk'[Manifest(t)] \in {Absent, Torn} \cup Seq(Kept(t)')
  <2>1. \A t \in Table : Seq(Kept(t)) \subseteq Seq(Kept(t)')
    BY KeptStays
  <2>2. QED  BY <2>1 DEF DiskIs
<1>3. QED  BY <1>1, <1>2, DiskStep DEF DiskIs

\* Nothing but what follows a call that stores is next to store or to record.
LEMMA PlainNext ==
    ASSUME NEW s, IsRequest(s), s # <<>>, Len(s) > 1 => s[2][1] \notin {"store", "record"},
           NEW a, a \in Seq(ToSet(a)), \A y \in ToSet(a) : y[1] \notin {"store", "record"}
    PROVE  \A y \in ToSet(a \o Tail(s)) : y[1] \in {"store", "record"} => ~IsNext(a \o Tail(s), y)
<1>1. PICK n, l, m : n = a \o Tail(s) /\ l = Len(a) /\ m = Len(s)
  OBVIOUS
<1>2. s \in Seq(ToSet(s))
  BY DEF IsRequest
<1>3. /\ l \in Nat /\ m \in Nat \ {0} /\ n \in Seq(ToSet(n))
      /\ Len(n) = l + m - 1 /\ DOMAIN n = 1..(l + m - 1) /\ DOMAIN s = 1..m /\ DOMAIN a = 1..l
      /\ \A i \in 1..l : n[i] = a[i]
      /\ \A i \in 1..(l + m - 1) : i \notin 1..l => i - l + 1 \in 2..m /\ n[i] = s[i - l + 1]
  BY <1>1, <1>2, Continued DEF IsContinued
<1>4. \A i \in 1..l : a[i] \in ToSet(a)
  BY <1>3 DEF ToSet
<1>5. SUFFICES ASSUME NEW y, y[1] \in {"store", "record"}, IsNext(n, y) PROVE FALSE
  BY <1>1
<1>6. ASSUME NEW i \in 1..(l + m - 1), i \in {1, 2}, n[i] = y PROVE i = 2 /\ l = 0
  <2>1. i \notin 1..l
    BY <1>3, <1>4, <1>5, <1>6
  <2>2. i - l + 1 \in 2..m /\ n[i] = s[i - l + 1]
    BY <1>3, <2>1, <1>6
  <2>3. Len(s) > 1
    BY <1>1, <1>3, <2>2
  <2>4. i - l + 1 # 2
    BY <2>2, <2>3, <1>5, <1>6
  <2>5. QED  BY <1>3, <1>6, <2>2, <2>4
<1>7. n # <<>> /\ Len(n) >= 1
  <2>1. n # <<>>
    BY <1>5 DEF IsNext
  <2>2. QED  BY <2>1, <1>3
<1>8. 1 \in 1..(l + m - 1)
  BY <1>3, <1>7
<1>9. Len(n) > 1 /\ n[1][1] \in Writing /\ n[2] = y
  BY <1>5, <1>6, <1>8 DEF IsNext
<1>10. 2 \in 1..(l + m - 1)
  BY <1>9, <1>3
<1>11. l = 0
  BY <1>6, <1>9, <1>10
<1>12. n[1] = s[2] /\ 2 \in DOMAIN s
  <2>1. 1 \notin 1..l /\ 1 - l + 1 = 2 /\ 2 \in 1..m
    BY <1>3, <1>10, <1>11
  <2>2. QED  BY <1>3, <1>8, <2>1
<1>13. s[2][1] \in Planned
  BY <1>12 DEF IsRequest
<1>14. QED  BY <1>9, <1>12, <1>13 DEF Writing, Planned

\* A request that neither reads nor stores goes on with a, or as it is.
LEMMA PlainStep ==
    ASSUME RequestsAre, NEW c \in Client, todo[c] # <<>>,
           todo[c][1][1] \notin {"load", "store"}, ~OnBlob(todo[c][1]),
           NEW a, todo' = [todo EXCEPT ![c] = a \o Tail(todo[c])],
           IsRequest(a), a # <<>> => ~OnBlob(a[Len(a)]) /\ a[Len(a)][1] \notin {"load", "store"},
           \A y \in ToSet(a) : y[1] \notin {"store", "record"},
           \A d \in Data : disk[Blob(d)] # Absent => disk'[Blob(d)] # Absent,
           mem' = [d \in Client |-> IF d = c THEN mem'[c] ELSE mem[d]],
           mem'[c] = [log |-> mem'[c].log, blobs |-> mem'[c].blobs]
    PROVE  RequestsAre'
<1> DEFINE s == todo[c]
           n == a \o Tail(s)
<1>1. IsRequest(s) /\ s \in Seq(ToSet(s)) /\ a \in Seq(ToSet(a))
  BY First DEF IsRequest
<1>2. Len(s) > 1 => s[2][1] \notin {"store", "record"}
  <2>1. SUFFICES ASSUME Len(s) > 1 PROVE s[2][1] \notin {"store", "record"}
    OBVIOUS
  <2>2. 2 \in DOMAIN s /\ 2 # 1
    BY <2>1, <1>1
  <2>3. Follows(s[2 - 1], s[2])
    BY <2>2, <1>1 DEF IsRequest
  <2>4. 2 - 1 = 1
    OBVIOUS
  <2>5. QED  BY <2>3, <2>4 DEF Follows
<1>3. a # <<>> /\ Len(s) > 1 => Follows(a[Len(a)], s[2])
  BY <1>2 DEF Follows
<1>4. IsRequest(n)
  BY <1>1, <1>3, ContinuedRequest
<1>5. \A y \in ToSet(n) : y[1] \in {"store", "record"} => ~IsNext(n, y)
  BY <1>1, <1>2, PlainNext
<1>6. mem' = [d \in Client |-> mem'[d]] /\ \A d \in Client \ {c} : mem'[d] = mem[d]
  OBVIOUS
<1>7. todo' = [todo EXCEPT ![c] = n]
  OBVIOUS
<1> HIDE DEF n, s
<1>8. QED  BY <1>4, <1>5, <1>6, <1>7, RequestsStep

\* Requests of one call and of none.
LEMMA Single ==
    ASSUME NEW w
    PROVE  /\ <<w>> # <<>> /\ Len(<<w>>) = 1 /\ <<w>>[1] = w /\ ToSet(<<w>>) = {w}
           /\ \A f : Fills(<<w>>, f) <=> w[1] = "fill" /\ w[2] = f
           /\ \A f : ~Fills(<<>>, f)
           /\ ToSet(<<>>) = {}
BY DEF ToSet, Fills

\* The memory of a client is a log and blobs.
LEMMA MemFunction ==
    ASSUME RequestsAre, NEW c \in Client
    PROVE  /\ mem = [d \in Client |-> mem[d]]
           /\ mem[c] = [log |-> mem[c].log, blobs |-> mem[c].blobs]
<1>1. PICK g : g = [d \in Client |-> [log |-> mem[d].log, blobs |-> mem[d].blobs]]
  OBVIOUS
<1>2. g = mem
  BY <1>1 DEF RequestsAre
<1>3. g = [d \in Client |-> g[d]] /\ g[c] = [log |-> mem[c].log, blobs |-> mem[c].blobs]
  BY <1>1
<1>4. QED  BY <1>2, <1>3

\* A step that changes no memory.
LEMMA SameMem ==
    ASSUME RequestsAre, NEW c \in Client, mem' = mem
    PROVE  /\ mem' = [d \in Client |-> IF d = c THEN mem'[c] ELSE mem[d]]
           /\ mem'[c] = [log |-> mem'[c].log, blobs |-> mem'[c].blobs]
BY MemFunction

\* A plain call gives way to nothing or to one call that opens no blob.
LEMMA PlainCall ==
    ASSUME DiskIs, RequestsAre, NEW c \in Client, todo[c] # <<>>,
           todo[c][1][1] \in Planned \ {"load", "store"},
           NEW a, todo' = [todo EXCEPT ![c] = a \o Tail(todo[c])],
           \/ a = <<>>
           \/ \E w : a = <<w>> /\ IsCall(w) /\ w[1] = "open" /\ ~OnBlob(w),
           mem' = mem, disk' = disk,
           \A d \in Data : Blob(d) \in disturbed => Blob(d) \in disturbed'
    PROVE  DiskIs' /\ RequestsAre'
<1>1. /\ IsRequest(a) /\ a \in Seq(ToSet(a)) /\ \A f : ~Fills(a, f)
      /\ a # <<>> => ~OnBlob(a[Len(a)]) /\ a[Len(a)][1] \notin {"load", "store"}
      /\ \A y \in ToSet(a) : y[1] \notin {"store", "record"}
  <2>1. CASE a = <<>>
    BY <2>1, NoRequest, Single DEF IsRequest
  <2>2. CASE \E w : a = <<w>> /\ IsCall(w) /\ w[1] = "open" /\ ~OnBlob(w)
    <3>1. PICK w : a = <<w>> /\ IsCall(w) /\ w[1] = "open" /\ ~OnBlob(w)
      BY <2>2
    <3>2. /\ a # <<>> /\ a[Len(a)] = w /\ ToSet(a) = {w}
          /\ \A f : Fills(a, f) <=> w[1] = "fill" /\ w[2] = f
      BY <3>1, Single
    <3>3. IsRequest(a)
      BY <3>1, OneCall
    <3>4. QED  BY <3>1, <3>2, <3>3 DEF IsRequest
  <2>3. QED  BY <2>1, <2>2
<1>4. \A f : ~Fills(a \o Tail(todo[c]), f)
  BY <1>1, First, FillsAfter
<1>5. /\ todo[c][1][1] \notin {"load", "store", "fill"} /\ ~OnBlob(todo[c][1])
      /\ ~Is(c, "fill")
  BY DEF Planned, Writing, OnBlob, Is
<1>6. DiskIs'
  BY <1>4, <1>5, DiskKept
<1>7. \A d \in Data : disk[Blob(d)] # Absent => disk'[Blob(d)] # Absent
  OBVIOUS
<1>8. QED  BY <1>1, <1>5, <1>6, <1>7, PlainStep, SameMem

\* _edit_pointer: read the pointer file, then write it.
LEMMA EditPointerStep ==
    ASSUME DiskIs, RequestsAre, NEW c \in Client, EditPointer(c)
    PROVE  DiskIs' /\ RequestsAre'
<1>1. todo[c] # <<>> /\ todo[c][1][1] \in {"put", "del"}
  BY DEF EditPointer, Is, Idle
<1>2. IsCall(todo[c][1])
  BY <1>1, First
<1>3. todo[c][1][2] \in Pointers /\ todo[c][1][1] \in Planned \ {"load", "store"}
  BY <1>1, <1>2 DEF IsCall, Planned
<1>4. \A v : LET w == <<"open", todo[c][1][2], v>> IN
          IsCall(w) /\ w[1] = "open" /\ ~OnBlob(w)
  BY <1>3, Names DEF IsCall, IsWrite, Writing, Planned, OnBlob
<1>5. PICK a : /\ todo' = [todo EXCEPT ![c] = a \o Tail(todo[c])]
               /\ a = <<>> \/ \E v : a = << <<"open", todo[c][1][2], v>> >>
  BY DEF EditPointer, Continue
<1>6. QED  BY <1>1, <1>3, <1>4, <1>5, PlainCall DEF EditPointer

\* The answer to the client.
LEMMA ReportStep ==
    ASSUME DiskIs, RequestsAre, NEW c \in Client, Report(c)
    PROVE  DiskIs' /\ RequestsAre'
<1>1. todo[c] # <<>> /\ todo[c][1][1] = "report"
  BY DEF Report, Is, Idle
<1>2. todo' = [todo EXCEPT ![c] = <<>> \o Tail(todo[c])]
  BY DEF Report, Continue
<1>3. QED  BY <1>1, <1>2, PlainCall DEF Report, Planned

\* A request is cut short.
LEMMA AbortStep ==
    ASSUME DiskIs, RequestsAre, NEW c \in Client, Abort(c)
    PROVE  DiskIs' /\ RequestsAre'
<1>1. todo' = [todo EXCEPT ![c] = <<>>] /\ disk' = disk
  BY DEF Abort
<1>2. \A d \in Data : Is(c, "fill") /\ todo[c][1][2] = Blob(d) => Blob(d) \in disturbed'
  <2>1. SUFFICES ASSUME NEW d \in Data, Is(c, "fill"), todo[c][1][2] = Blob(d)
                 PROVE  Blob(d) \in disturbed'
    OBVIOUS
  <2>2. todo[c][1] \in Pending(c, {"fill"})
    BY <2>1, First DEF Pending, Is, Idle
  <2>3. Blob(d) \in {x[2] : x \in Pending(c, {"fill"})} \ Pointers
    BY <2>1, <2>2, Names
  <2>4. QED  BY <2>3 DEF Abort
<1>3. DiskIs'
  <2>1. \A d \in Data : ~Fills(<<>>, Blob(d))
    BY Single
  <2>2. \A d \in Data : Blob(d) \in disturbed => Blob(d) \in disturbed'
    BY DEF Abort
  <2>3. QED  BY <1>1, <1>2, <2>1, <2>2, DiskKept
<1>4. IsRequest(<<>>) /\ \A y : ~IsNext(<<>>, y)
  BY NoRequest DEF IsNext
<1>5. /\ mem' = [d \in Client |-> mem'[d]] /\ \A d \in Client \ {c} : mem'[d] = mem[d]
      /\ mem'[c] = [log |-> mem'[c].log, blobs |-> mem'[c].blobs]
  <2>1. mem = [d \in Client |-> mem[d]]
    BY MemFunction
  <2>2. PICK g : g = [d \in Client |-> IF d = c THEN NothingRead ELSE mem[d]]
    OBVIOUS
  <2>3. mem' = g
    BY <2>1, <2>2 DEF Abort
  <2>4. /\ g = [d \in Client |-> g[d]] /\ \A d \in Client \ {c} : g[d] = mem[d]
        /\ g[c] = [log |-> g[c].log, blobs |-> g[c].blobs]
    BY <2>2 DEF NothingRead
  <2>5. QED  BY <2>3, <2>4
<1>6. QED  BY <1>1, <1>3, <1>4, <1>5, RequestsStep

\* _read_blob in restore, then the write of the work file.
LEMMA FetchStep ==
    ASSUME DiskIs, RequestsAre, NEW c \in Client, Fetch(c)
    PROVE  DiskIs' /\ RequestsAre'
<1>1. todo[c] # <<>> /\ todo[c][1][1] = "fetch"
  BY DEF Fetch, Is, Idle
<1>2. PICK x : x = todo[c][1]
  OBVIOUS
<1>3. IsCall(x) /\ x[1] = "fetch"
  BY <1>1, <1>2, First
<1>4. /\ x[2] \in Table /\ x[3] \in DOMAIN x[4].blobs /\ DOMAIN x[4].blobs \subseteq Kinds(x[2])
      /\ x[4].blobs \in PartialMap({"source", "output"}, Data)
  BY <1>3 DEF IsCall, Planned, Kept
<1>5. x[4].blobs[x[3]] \in Data
  BY <1>4, PartialMapDef
<1>6. PICK d : d = disk[Blob(x[4].blobs[x[3]])]
  OBVIOUS
<1>7. CASE d = Absent
  BY <1>2, <1>6, <1>7, AbortStep DEF Fetch
<1>8. CASE d # Absent
  <2>1. d \in Data
    BY <1>5, <1>6, <1>8, DataIs DEF DiskIs
  <2>2. PICK w : w = <<"open", Work(x[3], x[2]), d>>
    OBVIOUS
  <2>3. /\ todo' = [todo EXCEPT ![c] = <<w>> \o Tail(todo[c])]
        /\ disk' = disk /\ mem' = mem /\ \A f : f \in disturbed => f \in disturbed'
    BY <1>2, <1>6, <1>8, <2>2 DEF Fetch, Continue
  <2>4. w[1] = "open" /\ w[2] = Work(x[3], x[2]) /\ w[3] \in Data /\ x[3] \in Kinds(x[2])
    BY <1>4, <2>1, <2>2
  <2>5. IsCall(w)
    BY <1>4, <2>4 DEF IsCall, IsWrite, Writing, Planned
  <2>6. ~OnBlob(w)
    BY <1>4, <2>4, Names DEF OnBlob
  <2>7. todo[c][1][1] \in Planned \ {"load", "store"}
    BY <1>1 DEF Planned
  <2>8. QED  BY <1>1, <2>3, <2>4, <2>5, <2>6, <2>7, PlainCall
<1>9. QED  BY <1>7, <1>8

\* One file that is no blob is written.
LEMMA OtherFile ==
    ASSUME DiskIs, RequestsAre, NEW c \in Client, NEW n, todo' = [todo EXCEPT ![c] = n],
           NEW f \in File, NEW v, disk' = [disk EXCEPT ![f] = v],
           \A d \in Data : f # Blob(d) /\ ~Fills(n, Blob(d)),
           \A d \in Data : ~(Is(c, "fill") /\ todo[c][1][2] = Blob(d)),
           \A d \in Data : Blob(d) \in disturbed => Blob(d) \in disturbed',
           \A t \in Table : f = Manifest(t) => v \in {Absent, Torn} \cup Seq(Kept(t)),
           \A t \in Table : f = Work("source", t) => v \in Data,
           \A t \in Built : f = Work("output", t) => v \in Data \cup {Absent}
    PROVE  DiskIs' /\ \A d \in Data : disk[Blob(d)] # Absent => disk'[Blob(d)] # Absent
<1>1. disk' = [g \in File |-> IF g = f THEN v ELSE disk[g]]
  <2>1. disk = [g \in File |-> disk[g]]
    BY DEF DiskIs
  <2>2. QED  BY <2>1
<1>2. disk' = [g \in File |-> disk'[g]] /\ \A g \in File : disk'[g] = IF g = f THEN v ELSE disk[g]
  <2>1. PICK h : h = [g \in File |-> IF g = f THEN v ELSE disk[g]]
    OBVIOUS
  <2>2. h = [g \in File |-> h[g]] /\ \A g \in File : h[g] = IF g = f THEN v ELSE disk[g]
    BY <2>1
  <2>3. QED  BY <1>1, <2>1, <2>2
<1>3. \A d \in Data : disk'[Blob(d)] = disk[Blob(d)]
  BY <1>2, Files
<1>4. \A d \in Data :
              /\ \/ disk'[Blob(d)] \in {Absent, d}
                 \/ disk'[Blob(d)] = Torn /\ (Filling(Blob(d))' \/ Blob(d) \in disturbed')
              /\ Filling(Blob(d))' => disk'[Blob(d)] # Absent
  BY <1>3, BlobStep
<1>5. \A t \in Table : disk'[Manifest(t)] \in {Absent, Torn} \cup Seq(Kept(t)')
  <2>1. \A t \in Table : Seq(Kept(t)) \subseteq Seq(Kept(t)')
    BY <1>3, KeptStays
  <2>2. \A t \in Table : disk'[Manifest(t)] \in {Absent, Torn} \cup Seq(Kept(t))
    BY <1>2, Files DEF DiskIs
  <2>3. QED  BY <2>1, <2>2
<1>6. \A t \in Table : /\ disk'[Work("source", t)] \in Data
                       /\ t \in Built => disk'[Work("output", t)] \in Data \cup {Absent}
  <2>1. SUFFICES ASSUME NEW t \in Table
                 PROVE  /\ disk'[Work("source", t)] \in Data
                        /\ t \in Built => disk'[Work("output", t)] \in Data \cup {Absent}
    OBVIOUS
  <2>2. Work("source", t) \in File /\ (t \in Built => Work("output", t) \in File)
    BY Names, Files, TableKinds
  <2>3. QED  BY <2>2, <1>2 DEF DiskIs
<1>7. QED  BY <1>2, <1>3, <1>4, <1>5, <1>6, DiskStep

\* The unlink of an output that the restored snapshot does not have.
LEMMA UnlinkStep ==
    ASSUME DiskIs, RequestsAre, NEW c \in Client, Unlink(c)
    PROVE  DiskIs' /\ RequestsAre'
<1>1. todo[c] # <<>> /\ todo[c][1][1] = "unlink"
  BY DEF Unlink, Is, Idle
<1>2. PICK t : t = todo[c][1][2]
  OBVIOUS
<1>3. t \in Built /\ t \in Table
  BY <1>1, <1>2, First DEF IsCall, Planned
<1>4. PICK f : f = Work("output", t)
  OBVIOUS
<1>5. /\ disk' = [disk EXCEPT ![f] = Absent]
      /\ todo' = [todo EXCEPT ![c] = <<>> \o Tail(todo[c])]
      /\ \A g : g \in disturbed => g \in disturbed'
      /\ mem' = mem
  BY <1>2, <1>4 DEF Unlink, Continue
<1>6. f \in AllWorkFiles /\ f \in File
  BY <1>3, <1>4, Names, Files, TableKinds
<1>7. \A d \in Data : f # Blob(d)
  BY <1>6, Names
<1>8. \A u \in Table : f # Manifest(u) /\ f # Work("source", u)
  BY <1>4, <1>6, Names
<1>9. \A g : ~Fills(<<>> \o Tail(todo[c]), g)
  <2>1. IsRequest(todo[c]) /\ <<>> \in Seq(ToSet(<<>>))
    BY <1>1, First
  <2>2. QED  BY <2>1, <1>1, FillsAfter, Single
<1>10. ~Is(c, "fill")
  BY <1>1 DEF Is
<1>11. DiskIs' /\ \A d \in Data : disk[Blob(d)] # Absent => disk'[Blob(d)] # Absent
  BY <1>5, <1>6, <1>7, <1>8, <1>9, <1>10, OtherFile
<1>12. todo[c][1][1] \notin {"load", "store"} /\ ~OnBlob(todo[c][1])
  BY <1>1 DEF OnBlob, Writing
<1>13. QED  BY <1>1, <1>5, <1>11, <1>12, PlainStep, SameMem, NoRequest, Single

\* _load_log at the start of a commit of a table.
LEMMA LoadStep ==
    ASSUME DiskIs, RequestsAre, NEW c \in Client, Load(c)
    PROVE  DiskIs' /\ RequestsAre'
<1>1. todo[c] # <<>> /\ todo[c][1][1] = "load"
  BY DEF Load, Is, Idle
<1>2. PICK s, n : s = todo[c] /\ n = <<>> \o Tail(s)
  OBVIOUS
<1>3. IsRequest(s) /\ IsCall(s[1]) /\ s # <<>>
  BY <1>1, <1>2, First
<1>4. PICK t : t = s[1][2]
  OBVIOUS
<1>5. t \in Table
  BY <1>1, <1>2, <1>3, <1>4 DEF IsCall, Planned
<1>6. CASE ~Readable(t)
  BY <1>2, <1>4, <1>6, AbortStep DEF Load
<1>7. CASE Readable(t)
  <2>1. /\ todo' = [todo EXCEPT ![c] = n] /\ disk' = disk
        /\ mem' = [mem EXCEPT ![c] = [log |-> ReadLog(t), blobs |-> EmptyMap]]
        /\ \A f : f \in disturbed => f \in disturbed'
    BY <1>2, <1>4, <1>7 DEF Load, Continue
  <2>2. <<>> \in Seq(ToSet(<<>>)) /\ Len(<<>>) = 0
    OBVIOUS
  <2>3. \A f : ~Fills(n, f)
    BY <1>2, <1>3, <2>2, FillsAfter, Single
  <2>4. ~Is(c, "fill")
    BY <1>1 DEF Is
  <2>5. DiskIs'
    BY <2>1, <2>3, <2>4, DiskKept
  <2>6. IsRequest(n)
    BY <1>2, <1>3, NoRequest, ContinuedRequest
  <2>7. /\ mem' = [d \in Client |-> mem'[d]] /\ \A d \in Client \ {c} : mem'[d] = mem[d]
        /\ mem'[c] = [log |-> mem'[c].log, blobs |-> mem'[c].blobs]
        /\ mem'[c].log = ReadLog(t) /\ mem'[c].blobs = EmptyMap
    <3>1. mem = [d \in Client |-> mem[d]]
      BY MemFunction
    <3>2. PICK m : m = [log |-> ReadLog(t), blobs |-> EmptyMap]
      OBVIOUS
    <3>3. PICK g : g = [d \in Client |-> IF d = c THEN m ELSE mem[d]]
      OBVIOUS
    <3>4. mem' = g
      BY <2>1, <3>1, <3>2, <3>3
    <3>5. /\ g = [d \in Client |-> g[d]] /\ \A d \in Client \ {c} : g[d] = mem[d] /\ g[c] = m
      BY <3>3
    <3>6. m = [log |-> m.log, blobs |-> m.blobs] /\ m.log = ReadLog(t) /\ m.blobs = EmptyMap
      BY <3>2
    <3>7. g[c] = m
      BY <3>3
    <3>8. QED  BY <3>4, <3>5, <3>6, <3>7
  <2>8. ReadLog(t) \in Seq(Kept(t))
    BY <1>5, <1>7 DEF DiskIs, ReadLog, Readable
  <2>9. ASSUME NEW y \in ToSet(n), IsNext(n, y) PROVE MemIs(c, y)'
    <3>1. Len(s) > 1 /\ y = s[2] /\ Follows(s[1], y)
      BY <1>2, <1>3, <2>2, <2>9, NextAfter
    <3>2. Stores(y, t, "source") /\ y[2] = t
      BY <1>1, <1>2, <1>4, <3>1 DEF Follows, Stores
    <3>3. Kept(t) \subseteq Kept(t)' /\ Seq(Kept(t)) \subseteq Seq(Kept(t)')
      BY <1>5, <2>1, KeptStays
    <3>4. mem'[c].log \in Seq(Kept(y[2])')
      BY <2>7, <2>8, <3>2, <3>3
    <3>5. DOMAIN EmptyMap = {} /\ EmptyMap \in PartialMap(Kinds(t), Data)
      BY EmptyMapType
    <3>6. QED  BY <3>2, <3>4, <3>5, <2>7 DEF MemIs
  <2>10. QED  BY <2>1, <2>5, <2>6, <2>7, <2>9, RequestsStep
<1>8. QED  BY <1>6, <1>7

\* _store_blob: an absent blob is opened for writing, a present one is left.
LEMMA StoreStep ==
    ASSUME DiskIs, RequestsAre, NEW c \in Client, Store(c)
    PROVE  DiskIs' /\ RequestsAre'
<1>1. todo[c] # <<>> /\ todo[c][1][1] = "store"
  BY DEF Store, Is, Idle
<1>2. PICK s : s = todo[c]
  OBVIOUS
<1>3. IsRequest(s) /\ IsCall(s[1]) /\ s # <<>> /\ s[1] \in ToSet(s) /\ IsNext(s, s[1])
  BY <1>1, <1>2, First DEF Planned
<1>4. PICK t, k : t = s[1][2] /\ k = s[1][3]
  OBVIOUS
<1>5. t \in Table /\ k \in Kinds(t)
  BY <1>1, <1>2, <1>3, <1>4 DEF IsCall, Planned
<1>6. PICK d : d = disk[Work(k, t)]
  OBVIOUS
<1>7. d \in Data \cup {Absent} /\ (k = "source" => d \in Data)
  BY <1>5, <1>6, TableKinds DEF DiskIs
<1>8. PICK w : w = <<"open", Blob(d), d>>
  OBVIOUS
<1>9. PICK a : a = IF d # Absent /\ disk[Blob(d)] = Absent THEN <<w>> ELSE <<>>
  OBVIOUS
<1>10. PICK n : n = a \o Tail(s)
  OBVIOUS
<1>11. /\ todo' = [todo EXCEPT ![c] = n] /\ disk' = disk /\ disturbed' = disturbed
       /\ mem' = IF d = Absent THEN mem ELSE [mem EXCEPT ![c].blobs = Put(mem[c].blobs, k, d)]
  BY <1>2, <1>4, <1>6, <1>8, <1>9, <1>10 DEF Store, DoFirst
<1>12. a # <<>> => a = <<w>> /\ d \in Data /\ IsCall(w) /\ OnBlob(w)
  <2>1. SUFFICES ASSUME a # <<>> PROVE a = <<w>> /\ d \in Data /\ IsCall(w) /\ OnBlob(w)
    OBVIOUS
  <2>2. a = <<w>> /\ d \in Data
    BY <2>1, <1>7, <1>9
  <2>3. w[1] = "open" /\ w[2] = Blob(d) /\ w[3] = d
    BY <1>8
  <2>4. QED  BY <2>2, <2>3 DEF IsCall, IsWrite, OnBlob, Writing, Planned
<1>13. IsRequest(a) /\ a \in Seq(ToSet(a)) /\ (\A f : ~Fills(a, f))
       /\ (Len(a) = 0 \/ (Len(a) = 1 /\ a[1][1] \in Writing))
  <2>1. CASE a = <<>>
    BY <2>1, NoRequest, Single DEF IsRequest
  <2>2. CASE a # <<>>
    <3>1. a = <<w>> /\ IsRequest(a) /\ w[1] = "open"
      BY <2>2, <1>8, <1>12, OneCall
    <3>2. QED  BY <3>1, Single DEF IsRequest, Writing
  <2>3. QED  BY <2>1, <2>2
<1>14. DiskIs'
  <2>1. \A f : ~Fills(n, f)
    BY <1>3, <1>10, <1>13, FillsAfter
  <2>2. ~Is(c, "fill")
    BY <1>1 DEF Is
  <2>3. QED  BY <1>11, <2>1, <2>2, DiskKept
<1>15. ASSUME NEW y, Follows(s[1], y)
       PROVE  /\ y[2] = t /\ ~Stores(y, t, "source")
              /\ y[1] = "record" \/ (y[1] = "store" /\ y[3] = "output")
  BY <1>1, <1>2, <1>4, <1>15 DEF Follows, Stores
<1>16. IsRequest(n)
  <2>1. a # <<>> /\ Len(s) > 1 => Follows(a[Len(a)], s[2])
    <3>1. SUFFICES ASSUME a # <<>>, Len(s) > 1 PROVE Follows(a[Len(a)], s[2])
      OBVIOUS
    <3>2. a[Len(a)] = w /\ w[1] = "open" /\ OnBlob(w)
      BY <3>1, <1>8, <1>12, Single
    <3>3. Follows(s[1], s[2])
      <4>1. 2 \in DOMAIN s /\ 2 # 1
        BY <3>1, <1>3 DEF IsRequest
      <4>2. Follows(s[2 - 1], s[2])
        BY <4>1, <1>3 DEF IsRequest
      <4>3. 2 - 1 = 1
        OBVIOUS
      <4>4. QED  BY <4>2, <4>3
    <3>4. s[2][1] = "record" \/ (s[2][1] = "store" /\ s[2][3] = "output")
      BY <3>3, <1>15
    <3>5. QED  BY <3>2, <3>4 DEF Follows
  <2>2. QED  BY <2>1, <1>3, <1>10, <1>13, ContinuedRequest
<1>17. MemIs(c, s[1])
  BY <1>1, <1>2, <1>3 DEF RequestsAre
<1>18. PICK b : b = IF d = Absent THEN mem[c].blobs ELSE Put(mem[c].blobs, k, d)
  OBVIOUS
<1>19. /\ mem' = [e \in Client |-> mem'[e]] /\ \A e \in Client \ {c} : mem'[e] = mem[e]
       /\ mem'[c] = [log |-> mem'[c].log, blobs |-> mem'[c].blobs]
       /\ mem'[c].log = mem[c].log /\ mem'[c].blobs = b
  <2>1. PICK m : m = [log |-> mem[c].log, blobs |-> b]
    OBVIOUS
  <2>2. mem = [e \in Client |-> mem[e]] /\ mem[c] = [log |-> mem[c].log, blobs |-> mem[c].blobs]
    BY MemFunction
  <2>3. PICK g : g = [e \in Client |-> IF e = c THEN m ELSE mem[e]]
    OBVIOUS
  <2>4. mem' = g
    <3>1. CASE d = Absent
      <4>1. mem' = mem /\ m = mem[c]
        BY <3>1, <1>11, <1>18, <2>1, <2>2
      <4>2. QED  BY <4>1, <2>2, <2>3
    <3>2. CASE d # Absent
      <4>1. mem' = [mem EXCEPT ![c].blobs = b]
        BY <3>2, <1>11, <1>18
      <4>2. [mem[c] EXCEPT !.blobs = b] = m
        BY <2>1, <2>2
      <4>3. mem' = [mem EXCEPT ![c] = m]
        BY <4>1, <4>2
      <4>4. QED  BY <4>3, <2>2, <2>3
    <3>3. QED  BY <3>1, <3>2
  <2>5. /\ g = [e \in Client |-> g[e]] /\ (\A e \in Client \ {c} : g[e] = mem[e]) /\ g[c] = m
    BY <2>3
  <2>6. m = [log |-> m.log, blobs |-> m.blobs] /\ m.log = mem[c].log /\ m.blobs = b
    BY <2>1
  <2>7. QED  BY <2>4, <2>5, <2>6
<1>20. /\ b \in PartialMap(Kinds(t), Data) /\ "source" \in DOMAIN b
       /\ \A l \in DOMAIN b : \/ l \in DOMAIN mem[c].blobs /\ b[l] = mem[c].blobs[l]
                              \/ d # Absent /\ b[l] = d
  <2>1. mem[c].blobs \in PartialMap(Kinds(t), Data)
    BY <1>4, <1>17 DEF MemIs
  <2>2. k # "source" => "source" \in DOMAIN mem[c].blobs
    BY <1>4, <1>17 DEF MemIs, Stores
  <2>3. CASE d = Absent
    BY <2>1, <2>2, <2>3, <1>7, <1>18, DataIs
  <2>4. CASE d # Absent
    <3>1. d \in Data /\ b = Put(mem[c].blobs, k, d)
      BY <2>4, <1>7, <1>18
    <3>2. b \in PartialMap(Kinds(t), Data)
      BY <2>1, <3>1, <1>5, PutType
    <3>3. DOMAIN b = DOMAIN mem[c].blobs \cup {k}
          /\ \A l \in DOMAIN b : b[l] = IF l = k THEN d ELSE mem[c].blobs[l]
      BY <3>1 DEF Put
    <3>4. QED  BY <2>2, <2>4, <3>2, <3>3
  <2>5. QED  BY <2>3, <2>4
<1>21. ASSUME NEW l \in DOMAIN mem[c].blobs PROVE Has(mem[c].blobs[l])
  <2>1. todo[c][1][1] # "open"
    BY <1>1
  <2>2. QED  BY <2>1, <1>17 DEF MemIs
<1>22. ASSUME NEW y \in ToSet(n), IsNext(n, y) PROVE MemIs(c, y)'
  <2>1. y = s[2] /\ Follows(s[1], y)
    BY <1>3, <1>10, <1>13, <1>22, NextAfter
  <2>2. y[2] = t /\ ~Stores(y, t, "source")
    BY <2>1, <1>15
  <2>3. Seq(Kept(t)) \subseteq Seq(Kept(t)')
    BY <1>5, <1>11, KeptStays
  <2>4. mem'[c].log \in Seq(Kept(t)')
    BY <2>3, <1>4, <1>17, <1>19 DEF MemIs
  <2>5. ASSUME NEW l \in DOMAIN b
        PROVE  \/ disk'[Blob(b[l])] # Absent
               \/ todo'[c] # <<>> /\ todo'[c][1] = <<"open", Blob(b[l]), b[l]>>
    <3>1. CASE l \in DOMAIN mem[c].blobs /\ b[l] = mem[c].blobs[l]
      BY <3>1, <1>11, <1>21 DEF Has
    <3>2. CASE d # Absent /\ b[l] = d
      <4>1. CASE disk[Blob(d)] # Absent
        BY <3>2, <4>1, <1>11
      <4>2. CASE disk[Blob(d)] = Absent
        <5>1. a = <<w>>
          BY <3>2, <4>2, <1>9
        <5>2. n # <<>> /\ n[1] = w
          <6>1. s \in Seq(ToSet(s))
            BY <1>3 DEF IsRequest
          <6>2. IsContinued(n, a, s, Len(a), Len(s))
            BY <6>1, <1>3, <1>10, <1>13, Continued
          <6>3. Len(a) = 1 /\ a[1] = w
            BY <5>1, Single
          <6>4. n[1] = w /\ Len(n) = 1 + Len(s) - 1 /\ Len(s) \in Nat \ {0}
            BY <6>2, <6>3 DEF IsContinued
          <6>5. n # <<>>
            BY <6>4
          <6>6. QED  BY <6>4, <6>5
        <5>3. todo'[c] = n
          BY <1>11 DEF RequestsAre
        <5>4. QED  BY <5>2, <5>3, <3>2, <1>8
      <4>3. QED  BY <4>1, <4>2
    <3>3. QED  BY <3>1, <3>2, <1>20
  <2>6. QED  BY <2>2, <2>4, <2>5, <1>19, <1>20 DEF MemIs, Has
<1>23. \A e \in Data : disk[Blob(e)] # Absent => disk'[Blob(e)] # Absent
  BY <1>11
<1>24. QED  BY <1>11, <1>14, <1>16, <1>19, <1>22, <1>23, RequestsStep

\* A call that has to do with no commit before its record.
IsPlain(x) == x[1] \notin {"load", "store", "record"} /\ ~OnBlob(x)

\* Anything may follow a plain call but a store or a record.
LEMMA PlainFollows ==
    ASSUME NEW x, NEW y, x[1] \notin {"load", "store"}, ~OnBlob(x), y[1] \notin {"store", "record"}
    PROVE  Follows(x, y)
BY DEF Follows

\* Plain calls in any order are a request.
LEMMA PlainRequest ==
    ASSUME NEW a, a \in Seq(ToSet(a)),
           \A i \in DOMAIN a : IsCall(a[i]) /\ IsPlain(a[i]) /\ (i # 1 => a[i][1] \in Planned)
    PROVE  IsRequest(a)
<1>1. ASSUME NEW i \in DOMAIN a, i # 1 PROVE Follows(a[i - 1], a[i])
  <2>1. i - 1 \in DOMAIN a
    BY <1>1
  <2>2. QED  BY <2>1, PlainFollows DEF IsPlain
<1>2. QED  BY <1>1 DEF IsRequest

\* A write goes on: its file is opened, then filled.
LEMMA WriteStep ==
    ASSUME DiskIs, RequestsAre, NEW c \in Client, todo[c] # <<>>, todo[c][1][1] \in Writing,
           NEW a, todo' = [todo EXCEPT ![c] = a \o Tail(todo[c])],
           \/ a = <<>>
           \/ \E w : a = <<w>> /\ IsCall(w) /\ w[1] = "fill" /\ w[2] = todo[c][1][2],
           mem' = mem,
           \A d \in Data : disk[Blob(d)] # Absent => disk'[Blob(d)] # Absent,
           \A d \in Data : todo[c][1][2] = Blob(d) => disk'[Blob(d)] # Absent
    PROVE  RequestsAre'
<1>1. PICK s, n : s = todo[c] /\ n = a \o Tail(s)
  OBVIOUS
<1>2. IsRequest(s) /\ s # <<>> /\ s[1][1] \in Writing
  BY <1>1, First
<1>3. /\ IsRequest(a) /\ a \in Seq(ToSet(a))
      /\ Len(a) = 0 \/ (Len(a) = 1 /\ a[1][1] \in Writing)
      /\ a # <<>> => a[Len(a)][1] = "fill" /\ a[Len(a)][2] = s[1][2]
  <2>1. CASE a = <<>>
    BY <2>1, NoRequest DEF IsRequest
  <2>2. CASE \E w : a = <<w>> /\ IsCall(w) /\ w[1] = "fill" /\ w[2] = todo[c][1][2]
    <3>1. PICK w : a = <<w>> /\ IsCall(w) /\ w[1] = "fill" /\ w[2] = s[1][2]
      BY <1>1, <2>2
    <3>2. QED  BY <3>1, OneCall, Single DEF IsRequest, Writing
  <2>3. QED  BY <2>1, <2>2
<1>4. a # <<>> /\ Len(s) > 1 => Follows(a[Len(a)], s[2])
  <2>1. SUFFICES ASSUME a # <<>>, Len(s) > 1 PROVE Follows(a[Len(a)], s[2])
    OBVIOUS
  <2>2. Follows(s[1], s[2])
    <3>1. 2 \in DOMAIN s /\ 2 # 1
      BY <2>1, <1>2 DEF IsRequest
    <3>2. Follows(s[2 - 1], s[2])
      BY <3>1, <1>2 DEF IsRequest
    <3>3. 2 - 1 = 1
      OBVIOUS
    <3>4. QED  BY <3>2, <3>3
  <2>3. OnBlob(a[Len(a)]) <=> OnBlob(s[1])
    BY <2>1, <1>2, <1>3 DEF OnBlob, Writing
  <2>4. QED  BY <2>1, <2>2, <2>3, <1>2, <1>3 DEF Follows, Writing
<1>5. IsRequest(n)
  BY <1>1, <1>2, <1>3, <1>4, ContinuedRequest
<1>6. ASSUME NEW y \in ToSet(n), IsNext(n, y), y[1] \in {"store", "record"} PROVE MemIs(c, y)'
  <2>1. IsNext(s, y) /\ y \in ToSet(s) /\ IsCall(y)
    BY <1>1, <1>2, <1>3, <1>6, NextAfter
  <2>2. MemIs(c, y) /\ y[2] \in Table
    BY <2>1, <1>1, <1>6 DEF RequestsAre, IsCall, Planned
  <2>3. Seq(Kept(y[2])) \subseteq Seq(Kept(y[2])')
    BY <2>2, KeptStays
  <2>4. ASSUME NEW k \in DOMAIN mem[c].blobs PROVE disk'[Blob(mem[c].blobs[k])] # Absent
    <3>1. mem[c].blobs[k] \in Data
      BY <2>2, PartialMapDef DEF MemIs
    <3>2. CASE Has(mem[c].blobs[k])
      BY <3>1, <3>2 DEF Has
    <3>3. CASE todo[c][1] = <<"open", Blob(mem[c].blobs[k]), mem[c].blobs[k]>>
      BY <3>1, <3>3
    <3>4. QED  BY <3>2, <3>3, <2>2 DEF MemIs
  <2>5. QED  BY <2>2, <2>3, <2>4 DEF MemIs, Has
<1>7. /\ mem' = [d \in Client |-> mem'[d]] /\ \A d \in Client \ {c} : mem'[d] = mem[d]
      /\ mem'[c] = [log |-> mem'[c].log, blobs |-> mem'[c].blobs]
  BY MemFunction
<1>8. todo' = [todo EXCEPT ![c] = n]
  BY <1>1
<1>9. QED  BY <1>5, <1>6, <1>7, <1>8, RequestsStep

\* What a write writes where.
LEMMA Written ==
    ASSUME NEW x, IsWrite(x)
    PROVE  /\ x[2] \in File
           /\ \A d \in Data : x[2] = Blob(d) => x[3] = d
           /\ \A t \in Table : x[2] = Manifest(t) => x[1] = "fill" /\ x[3] \in Seq(Kept(t))
           /\ \A k, t : x[2] = Work(k, t) /\ k \in {"source", "output"} => x[3] \in Data
<1>1. \A d \in Data : x[2] = Blob(d) => x[3] = d
  BY Names DEF IsWrite
<1>2. \A t \in Table : x[2] = Manifest(t) => x[1] = "fill" /\ x[3] \in Seq(Kept(t))
  BY Names DEF IsWrite
<1>3. x[2] \in File
  BY Names, Files DEF IsWrite
<1>4. ASSUME NEW k, NEW t, x[2] = Work(k, t), k \in {"source", "output"} PROVE x[3] \in Data
  <2>1. /\ x[2][1] = k /\ Len(x[2]) = 2
    BY <1>4 DEF Work
  <2>2. \A p \in Pointers : Len(p) = 1
    BY DEF Pointers, HeadFile, GoldenFile
  <2>3. (\A u : Manifest(u)[1] = "manifest") /\ (\A d : Blob(d)[1] = "blob")
    BY DEF Manifest, Blob
  <2>4. QED  BY <2>1, <2>2, <2>3, <1>4 DEF IsWrite
<1>5. QED  BY <1>1, <1>2, <1>3, <1>4

\* open("wb") truncates a file.
LEMMA OpenStep ==
    ASSUME DiskIs, RequestsAre, NEW c \in Client, Open(c)
    PROVE  DiskIs' /\ RequestsAre'
<1>1. todo[c] # <<>> /\ todo[c][1][1] = "open"
  BY DEF Open, Is, Idle
<1>2. PICK x : x = todo[c][1]
  OBVIOUS
<1>3. IsCall(x) /\ x[1] = "open" /\ IsRequest(todo[c])
  BY <1>1, <1>2, First
<1>4. IsWrite(x)
  BY <1>3 DEF IsCall, Writing
<1>5. PICK w : w = <<"fill", x[2], x[3]>>
  OBVIOUS
<1>6. w[1] = "fill" /\ w[2] = x[2] /\ w[3] = x[3]
  BY <1>5
<1>7. IsCall(w)
  BY <1>3, <1>4, <1>6 DEF IsCall, IsWrite, Writing, Planned
<1>8. PICK n : n = <<w>> \o Tail(todo[c])
  OBVIOUS
<1>9. /\ todo' = [todo EXCEPT ![c] = n] /\ disk' = [disk EXCEPT ![x[2]] = Torn] /\ mem' = mem
      /\ \A f : f \in disturbed => f \in disturbed'
  BY <1>2, <1>5, <1>8 DEF Open, Continue
<1>10. ~Is(c, "fill")
  BY <1>1 DEF Is
<1>11. \A f : Fills(n, f) <=> f = x[2]
  <2>1. \A f : Fills(n, f) => f = x[2]
    <3>1. <<w>> \in Seq(ToSet(<<w>>))
      BY <1>7, OneCall DEF IsRequest
    <3>2. \A f : Fills(n, f) => Fills(<<w>>, f)
      BY <1>1, <1>3, <1>8, <3>1, FillsAfter
    <3>3. QED  BY <3>2, <1>6, Single
  <2>2. Fills(n, x[2])
    <3>1. todo[c] \in Seq(ToSet(todo[c])) /\ <<w>> \in Seq(ToSet(<<w>>))
      BY <1>3, <1>7, OneCall DEF IsRequest
    <3>2. IsContinued(n, <<w>>, todo[c], Len(<<w>>), Len(todo[c]))
      BY <3>1, <1>1, <1>8, Continued
    <3>3. PICK m \in Nat \ {0} : DOMAIN n = 1..(1 + m - 1) /\ n[1] = w
      BY <3>2, Single DEF IsContinued
    <3>4. 1 \in DOMAIN n
      BY <3>3
    <3>5. QED  BY <3>3, <3>4, <1>6 DEF Fills
  <2>3. QED  BY <2>1, <2>2
<1>12. /\ disk' = [f \in File |-> disk'[f]]
       /\ \A f \in File : disk'[f] = IF f = x[2] THEN Torn ELSE disk[f]
  <2>1. disk = [f \in File |-> disk[f]]
    BY DEF DiskIs
  <2>2. PICK g : g = [f \in File |-> IF f = x[2] THEN Torn ELSE disk[f]]
    OBVIOUS
  <2>3. disk' = g
    BY <1>9, <2>1, <2>2
  <2>4. g = [f \in File |-> g[f]] /\ \A f \in File : g[f] = IF f = x[2] THEN Torn ELSE disk[f]
    BY <2>2
  <2>5. QED  BY <2>3, <2>4
<1>13. DiskIs'
  <2>1. CASE \E d \in Data : x[2] = Blob(d)
    <3>1. \A d \in Data : \/ disk'[Blob(d)] = disk[Blob(d)] /\ ~Fills(n, Blob(d))
                          \/ disk'[Blob(d)] = Torn /\ Fills(n, Blob(d))
      BY <1>11, <1>12, Files
    <3>2. \A d \in Data :
              /\ \/ disk'[Blob(d)] \in {Absent, d}
                 \/ disk'[Blob(d)] = Torn /\ (Filling(Blob(d))' \/ Blob(d) \in disturbed')
              /\ Filling(Blob(d))' => disk'[Blob(d)] # Absent
      BY <3>1, <1>9, <1>10, BlobStep
    <3>3. \A f \in File : (\A d \in Data : f # Blob(d)) => disk'[f] = disk[f]
      BY <2>1, <1>12
    <3>4. \A d \in Data : disk[Blob(d)] # Absent => disk'[Blob(d)] # Absent
      BY <1>12, Files, DataIs
    <3>5. \A t \in Table : disk'[Manifest(t)] \in {Absent, Torn} \cup Seq(Kept(t)')
      <4>1. \A t \in Table : Seq(Kept(t)) \subseteq Seq(Kept(t)')
        BY <3>4, KeptStays
      <4>2. \A t \in Table : disk'[Manifest(t)] \in {Absent, Torn} \cup Seq(Kept(t))
        BY <3>3, Files, Names DEF DiskIs
      <4>3. QED  BY <4>1, <4>2
    <3>6. \A f \in AllWorkFiles : disk'[f] = disk[f]
      BY <3>3, Files, Names
    <3>7. \A t \in Table : /\ disk'[Work("source", t)] \in Data
                           /\ t \in Built => disk'[Work("output", t)] \in Data \cup {Absent}
      BY <3>6, Names, TableKinds DEF DiskIs
    <3>8. QED  BY <3>2, <3>5, <3>7, <1>12, DiskStep
  <2>2. CASE \A d \in Data : x[2] # Blob(d)
    <3>1. x[2] \in File /\ \A d \in Data : ~Fills(n, Blob(d))
      BY <2>2, <1>4, <1>11, Written
    <3>2. QED  BY <2>2, <3>1, <1>9, <1>10, OtherFile, DataIs
  <2>3. QED  BY <2>1, <2>2
<1>14. \A d \in Data : disk[Blob(d)] # Absent => disk'[Blob(d)] # Absent
  BY <1>12, Files, DataIs
<1>15. \A d \in Data : todo[c][1][2] = Blob(d) => disk'[Blob(d)] # Absent
  BY <1>2, <1>12, Files, DataIs
<1>16. todo[c][1][1] \in Writing
  BY <1>1 DEF Writing
<1>17. \E v : <<w>> = <<v>> /\ IsCall(v) /\ v[1] = "fill" /\ v[2] = todo[c][1][2]
  BY <1>2, <1>6, <1>7
<1>18. QED  BY <1>1, <1>8, <1>9, <1>13, <1>14, <1>15, <1>16, <1>17, WriteStep

\* A sequence with one more element.
LEMMA Appended ==
    ASSUME NEW S, NEW p \in Seq(S), NEW r \in S
    PROVE  /\ p \o <<r>> \in Seq(S) /\ Len(p \o <<r>>) = Len(p) + 1
           /\ (p \o <<r>>)[Len(p \o <<r>>)] = r
           /\ \A i \in 1..Len(p) : (p \o <<r>>)[i] = p[i]
<1>1. PICK z, a : z = <<r>> /\ a = p \o z
  OBVIOUS
<1>2. z \in Seq(S) /\ Len(z) = 1 /\ z[1] = r /\ Len(p) \in Nat
  BY <1>1
<1>3. a \in Seq(S) /\ Len(a) = Len(p) + 1 /\ \A i \in 1..Len(p) : a[i] = p[i]
  BY <1>1, <1>2
<1>4. a[Len(p) + 1] = r
  BY <1>1, <1>2
<1>5. QED  BY <1>1, <1>3, <1>4

\* A sequence is one of its own elements.
LEMMA InOwnElements ==
    ASSUME NEW S, NEW s \in Seq(S)
    PROVE  s \in Seq(ToSet(s))
<1>1. Len(s) \in Nat /\ DOMAIN s = 1..Len(s) /\ s = [i \in 1..Len(s) |-> s[i]]
  OBVIOUS
<1>2. \A i \in 1..Len(s) : s[i] \in ToSet(s)
  BY <1>1 DEF ToSet
<1>3. s \in [1..Len(s) -> ToSet(s)]
  BY <1>1, <1>2
<1>4. QED  BY <1>1, <1>3, SeqDef

\* The contents reach a file that is open.
LEMMA FillStep ==
    ASSUME DiskIs, RequestsAre, NEW c \in Client, Fill(c)
    PROVE  DiskIs' /\ RequestsAre'
<1>1. todo[c] # <<>> /\ todo[c][1][1] = "fill" /\ Is(c, "fill")
  BY DEF Fill, Is, Idle
<1>2. PICK x : x = todo[c][1]
  OBVIOUS
<1>3. IsCall(x) /\ x[1] = "fill" /\ IsRequest(todo[c]) /\ x \in ToSet(todo[c])
  BY <1>1, <1>2, First
<1>4. IsWrite(x)
  BY <1>3 DEF IsCall, Writing
<1>5. PICK v \in {x[3]} \cup (IF disk[x[2]] \in {Torn, x[3]} THEN {} ELSE {Torn}) :
          disk' = [disk EXCEPT ![x[2]] = v]
  BY <1>2 DEF Fill
<1>6. PICK n : n = <<>> \o Tail(todo[c])
  OBVIOUS
<1>7. todo' = [todo EXCEPT ![c] = n] /\ mem' = mem /\ disturbed' = disturbed
  BY <1>6 DEF Fill, Continue
<1>8. \A f : ~Fills(n, f)
  <2>1. <<>> \in Seq(ToSet(<<>>))
    OBVIOUS
  <2>2. QED  BY <2>1, <1>1, <1>3, <1>6, FillsAfter, Single
<1>9. /\ disk' = [f \in File |-> disk'[f]]
      /\ \A f \in File : disk'[f] = IF f = x[2] THEN v ELSE disk[f]
  <2>1. disk = [f \in File |-> disk[f]]
    BY DEF DiskIs
  <2>2. PICK g : g = [f \in File |-> IF f = x[2] THEN v ELSE disk[f]]
    OBVIOUS
  <2>3. disk' = g
    BY <1>5, <2>1, <2>2
  <2>4. g = [f \in File |-> g[f]] /\ \A f \in File : g[f] = IF f = x[2] THEN v ELSE disk[f]
    BY <2>2
  <2>5. QED  BY <2>3, <2>4
<1>10. ASSUME NEW d \in Data, x[2] = Blob(d) PROVE disk'[Blob(d)] = d
  <2>1. x[3] = d
    BY <1>4, <1>10, Written
  <2>2. Filling(Blob(d))
    BY <1>3, <1>10 DEF Filling, Pending
  <2>3. disk[Blob(d)] \in {Torn, x[3]}
    BY <2>1, <2>2 DEF DiskIs, Has
  <2>4. v = d
    BY <1>5, <1>10, <2>1, <2>3
  <2>5. QED  BY <2>4, <1>9, <1>10, Files
<1>11. \A d \in Data : disk[Blob(d)] # Absent => disk'[Blob(d)] # Absent
  BY <1>9, <1>10, Files, DataIs
<1>12. DiskIs'
  <2>1. CASE \E d \in Data : x[2] = Blob(d)
    <3>1. \A d \in Data :
              /\ \/ disk'[Blob(d)] \in {Absent, d}
                 \/ disk'[Blob(d)] = Torn /\ (Filling(Blob(d))' \/ Blob(d) \in disturbed')
              /\ Filling(Blob(d))' => disk'[Blob(d)] # Absent
      <4>1. SUFFICES ASSUME NEW d \in Data
                     PROVE  /\ \/ disk'[Blob(d)] \in {Absent, d}
                               \/ disk'[Blob(d)] = Torn
                                  /\ (Filling(Blob(d))' \/ Blob(d) \in disturbed')
                            /\ Filling(Blob(d))' => disk'[Blob(d)] # Absent
        OBVIOUS
      <4>2. CASE x[2] = Blob(d)
        BY <4>2, <1>10, DataIs
      <4>3. CASE x[2] # Blob(d)
        <5>1. disk'[Blob(d)] = disk[Blob(d)] /\ ~Fills(n, Blob(d))
          BY <4>3, <1>8, <1>9, Files
        <5>2. QED  BY <4>3, <5>1, <1>2, <1>7, BlobStep
      <4>4. QED  BY <4>2, <4>3
    <3>2. \A f \in File : (\A d \in Data : f # Blob(d)) => disk'[f] = disk[f]
      BY <2>1, <1>9
    <3>3. \A t \in Table : disk'[Manifest(t)] \in {Absent, Torn} \cup Seq(Kept(t)')
      <4>1. \A t \in Table : Seq(Kept(t)) \subseteq Seq(Kept(t)')
        BY <1>11, KeptStays
      <4>2. \A t \in Table : disk'[Manifest(t)] \in {Absent, Torn} \cup Seq(Kept(t))
        BY <3>2, Files, Names DEF DiskIs
      <4>3. QED  BY <4>1, <4>2
    <3>4. \A f \in AllWorkFiles : disk'[f] = disk[f]
      BY <3>2, Files, Names
    <3>5. \A t \in Table : /\ disk'[Work("source", t)] \in Data
                           /\ t \in Built => disk'[Work("output", t)] \in Data \cup {Absent}
      BY <3>4, Names, TableKinds DEF DiskIs
    <3>6. QED  BY <3>1, <3>3, <3>5, <1>9, DiskStep
  <2>2. CASE \A d \in Data : x[2] # Blob(d)
    <3>1. /\ x[2] \in File
          /\ \A t \in Table : x[2] = Manifest(t) => x[3] \in Seq(Kept(t))
          /\ \A t \in Table : x[2] = Work("source", t) => x[3] \in Data
          /\ \A t \in Table : x[2] = Work("output", t) => x[3] \in Data
      BY <1>4, Written
    <3>2. v \in {x[3], Torn}
      BY <1>5
    <3>3. /\ \A t \in Table : x[2] = Manifest(t) => v \in {Absent, Torn} \cup Seq(Kept(t))
          /\ \A t \in Table : x[2] = Work("source", t) => v \in Data
          /\ \A t \in Built : x[2] = Work("output", t) => v \in Data \cup {Absent}
      BY <3>1, <3>2, DataIs, BuiltAreTables DEF Table
    <3>4. QED  BY <2>2, <3>1, <3>3, <1>2, <1>5, <1>7, <1>8, OtherFile
  <2>3. QED  BY <2>1, <2>2
<1>13. \A d \in Data : todo[c][1][2] = Blob(d) => disk'[Blob(d)] # Absent
  BY <1>2, <1>10, DataIs
<1>14. todo[c][1][1] \in Writing
  BY <1>1 DEF Writing
<1>15. QED  BY <1>1, <1>6, <1>7, <1>11, <1>12, <1>13, <1>14, WriteStep

\* The snapshot a commit records names contents that are stored.
LEMMA RecordedIsKept ==
    ASSUME RequestsAre, NEW c \in Client, todo[c] # <<>>, todo[c][1][1] = "record"
    PROVE  LET t == todo[c][1][2]
               s == [id |-> NextId(mem[c].log), blobs |-> mem[c].blobs]
           IN s \in Kept(t) /\ Extended(mem[c].log, s) \in Seq(Kept(t))
<1>1. PICK t, x : t = todo[c][1][2] /\ x = todo[c][1]
  OBVIOUS
<1>2. IsCall(x) /\ x[1] = "record" /\ x \in ToSet(todo[c]) /\ IsNext(todo[c], x)
  BY <1>1, First DEF Planned
<1>3. t \in Table
  BY <1>1, <1>2 DEF IsCall, Planned
<1>4. MemIs(c, x)
  BY <1>2 DEF RequestsAre
<1>5. /\ mem[c].log \in Seq(Kept(t)) /\ mem[c].blobs \in PartialMap(Kinds(t), Data)
      /\ "source" \in DOMAIN mem[c].blobs
      /\ \A k \in DOMAIN mem[c].blobs : Has(mem[c].blobs[k])
  BY <1>1, <1>2, <1>4 DEF MemIs, Stores
<1>6. NextId(mem[c].log) \in Nat
  <2>1. PICK log : log = mem[c].log
    OBVIOUS
  <2>2. CASE log = <<>>
    BY <2>1, <2>2 DEF NextId
  <2>3. CASE log # <<>>
    <3>1. Len(log) \in DOMAIN log /\ log \in Seq(Kept(t))
      BY <2>1, <2>3, <1>5
    <3>2. log[Len(log)] \in Kept(t)
      BY <3>1
    <3>3. log[Len(log)].id \in Nat
      BY <3>2 DEF Kept
    <3>4. QED  BY <2>1, <2>3, <3>3 DEF NextId, Last
  <2>4. QED  BY <2>2, <2>3
<1>7. PICK s : s = [id |-> NextId(mem[c].log), blobs |-> mem[c].blobs]
  OBVIOUS
<1>8. /\ mem[c].blobs \in PartialMap({"source", "output"}, Data)
      /\ DOMAIN mem[c].blobs \subseteq Kinds(t)
  BY <1>3, <1>5, TableKinds, PartialMapDef
<1>9. s \in Kept(t)
  BY <1>5, <1>6, <1>7, <1>8 DEF Kept
<1>10. QED  BY <1>1, <1>5, <1>7, <1>9 DEF Extended

\* The calls that save a manifest and set the pointers.
IsSaving(a, f, d, g, r, ps) ==
    a = <<f, d>> \o (IF GoldenFile \in ps THEN <<g>> ELSE <<>>) \o <<r>>

\* The calls of a record, one after the other.
LEMMA SavingIs ==
    ASSUME NEW f, NEW d, NEW g, NEW r, NEW ps, NEW a, IsSaving(a, f, d, g, r, ps)
    PROVE  /\ a \in Seq(ToSet(a)) /\ a # <<>> /\ a[1] = f /\ a[Len(a)] = r /\ r \in ToSet(a)
           /\ ToSet(a) \subseteq {f, d, g, r}
           /\ \A i \in DOMAIN a : a[i] \in {f, d, g, r} /\ (i # 1 => a[i] \in {d, g, r})
           /\ \A i \in DOMAIN a : i # Len(a) => a[i] \in {f, d, g}
           /\ {f, d} \subseteq ToSet(a)
           /\ GoldenFile \in ps => g \in ToSet(a)
           /\ GoldenFile \notin ps => ToSet(a) \subseteq {f, d, r}
<1>1. PICK S : S = {f, d, g, r}
  OBVIOUS
<1>2. PICK m, p : m = (IF GoldenFile \in ps THEN <<g>> ELSE <<>>) /\ p = <<f, d>> \o m
  OBVIOUS
<1>3. m \in Seq(S) /\ Len(m) \in {0, 1} /\ \A i \in 1..Len(m) : m[i] = g
  <2>1. CASE m = <<g>>
    BY <1>1, <2>1
  <2>2. CASE m = <<>>
    BY <1>1, <2>2
  <2>3. QED  BY <1>2, <2>1, <2>2
<1>4. PICK e : e = <<f, d>>
  OBVIOUS
<1>5. e \in Seq(S) /\ Len(e) = 2 /\ e[1] = f /\ e[2] = d
  BY <1>1, <1>4
<1>6. p \in Seq(S) /\ Len(p) \in {2, 3} /\ p[1] = f
      /\ \A i \in 1..Len(p) : i # 1 => p[i] \in {d, g}
  BY <1>2, <1>3, <1>4, <1>5
<1>18. p[2] = d /\ (GoldenFile \in ps => Len(p) = 3 /\ p[3] = g)
       /\ (GoldenFile \notin ps => \A i \in 1..Len(p) : p[i] \in {f, d})
  <2>1. p[2] = d
    BY <1>2, <1>3, <1>4, <1>5
  <2>2. CASE GoldenFile \in ps
    <3>1. m = <<g>>
      BY <1>2, <2>2
    <3>2. Len(p) = 3 /\ p[3] = g
      BY <1>2, <1>4, <3>1
    <3>3. QED  BY <2>1, <2>2, <3>2
  <2>3. CASE GoldenFile \notin ps
    <3>1. m = <<>>
      BY <1>2, <2>3
    <3>2. p = e
      BY <1>2, <1>4, <1>5, <3>1, ConcatEmptySeq
    <3>3. \A i \in 1..Len(p) : i = 1 \/ i = 2
      BY <3>2, <1>5
    <3>4. QED  BY <2>1, <2>3, <3>3, <1>6
  <2>4. QED  BY <2>2, <2>3
<1>7. PICK z : z = <<r>>
  OBVIOUS
<1>9. a = p \o z
  BY <1>2, <1>7 DEF IsSaving
<1>10. /\ a \in Seq(S) /\ Len(a) = Len(p) + 1 /\ a[Len(a)] = r
        /\ \A i \in 1..Len(p) : a[i] = p[i]
  BY <1>1, <1>6, <1>7, <1>9, Appended
<1>11. \A i \in DOMAIN a : a[i] \in S /\ (i # 1 => a[i] \in {d, g, r})
  BY <1>6, <1>10
<1>12. a # <<>>
  BY <1>6, <1>10
<1>13. ToSet(a) \subseteq S
  BY <1>11 DEF ToSet
<1>14. a \in Seq(ToSet(a))
  BY <1>10, InOwnElements
<1>15. a[1] = f
  BY <1>6, <1>10
<1>16. r \in ToSet(a)
  <2>1. Len(a) \in DOMAIN a
    BY <1>6, <1>10
  <2>2. QED  BY <2>1, <1>10 DEF ToSet
<1>19. \A i \in DOMAIN a : i # Len(a) => i \in 1..Len(p)
  BY <1>6, <1>10
<1>20. \A i \in DOMAIN a : i # Len(a) => a[i] \in {f, d, g}
  BY <1>6, <1>10, <1>19
<1>21. {f, d} \subseteq ToSet(a) /\ (GoldenFile \in ps => g \in ToSet(a))
  <2>1. 1 \in DOMAIN a /\ 2 \in DOMAIN a /\ 1 \in 1..Len(p) /\ 2 \in 1..Len(p)
    BY <1>6, <1>10
  <2>2. GoldenFile \in ps => 3 \in DOMAIN a /\ 3 \in 1..Len(p)
    BY <1>6, <1>10, <1>18
  <2>3. a[1] = f /\ a[2] = d /\ (GoldenFile \in ps => a[3] = g)
    BY <1>6, <1>10, <1>18, <2>1, <2>2
  <2>4. QED  BY <2>1, <2>2, <2>3 DEF ToSet
<1>22. GoldenFile \notin ps => ToSet(a) \subseteq {f, d, r}
  <2>1. GoldenFile \notin ps => \A i \in DOMAIN a : a[i] \in {f, d, r}
    BY <1>10, <1>18, <1>19
  <2>2. QED  BY <2>1 DEF ToSet
<1>17. QED  BY <1>1, <1>10, <1>11, <1>12, <1>13, <1>14, <1>15, <1>16, <1>20, <1>21, <1>22

\* commit appends the snapshot to the log it read and saves the log.
LEMMA RecordStep ==
    ASSUME DiskIs, RequestsAre, NEW c \in Client, Record(c)
    PROVE  DiskIs' /\ RequestsAre'
<1>1. todo[c] # <<>> /\ todo[c][1][1] = "record"
  BY DEF Record, Is, Idle
<1>2. PICK t, ps, s : /\ t = todo[c][1][2] /\ ps = todo[c][1][3]
                      /\ s = [id |-> NextId(mem[c].log), blobs |-> mem[c].blobs]
  OBVIOUS
<1>3. t \in Table /\ ps \subseteq Pointers
  BY <1>1, <1>2, First DEF IsCall, Planned
<1>4. s \in Kept(t) /\ Extended(mem[c].log, s) \in Seq(Kept(t))
  BY <1>1, <1>2, RecordedIsKept
<1>5. PICK f, d, g, r : /\ f = <<"fill", Manifest(t), Extended(mem[c].log, s)>>
                        /\ d = <<"del", HeadFile, t>> /\ g = <<"put", GoldenFile, t, s.id>>
                        /\ r = <<"report", t, ps, "commit", s>>
  OBVIOUS
<1>6. PICK a : a = <<f, d>> \o (IF GoldenFile \in ps THEN <<g>> ELSE <<>>) \o <<r>>
  OBVIOUS
<1>7. /\ disk' = [disk EXCEPT ![Manifest(t)] = Torn]
      /\ todo' = [todo EXCEPT ![c] = a \o Tail(todo[c])]
      /\ mem' = [mem EXCEPT ![c] = NothingRead] /\ disturbed' = disturbed
  BY <1>2, <1>5, <1>6 DEF Record, Continue
<1>9. /\ f[1] = "fill" /\ f[2] = Manifest(t) /\ f[3] \in Seq(Kept(t))
      /\ d[1] = "del" /\ d[2] = HeadFile /\ d[3] = t
      /\ g[1] = "put" /\ g[2] = GoldenFile /\ g[3] = t
      /\ r[1] = "report" /\ r[2] = t /\ r[3] = ps /\ r[4] = "commit" /\ r[5] = s
  BY <1>4, <1>5
<1>10. /\ IsCall(f) /\ IsCall(d) /\ IsCall(g) /\ IsCall(r)
       /\ IsPlain(f) /\ IsPlain(d) /\ IsPlain(g) /\ IsPlain(r)
       /\ d[1] \in Planned /\ g[1] \in Planned /\ r[1] \in Planned
  <2>1. IsCall(f) /\ IsPlain(f)
    BY <1>3, <1>9, Names DEF IsCall, IsWrite, IsPlain, OnBlob, Writing, Planned
  <2>2. IsCall(d) /\ IsPlain(d) /\ IsCall(g) /\ IsPlain(g) /\ d[1] \in Planned /\ g[1] \in Planned
    BY <1>3, <1>9 DEF IsCall, IsPlain, OnBlob, Writing, Planned, Pointers
  <2>3. IsCall(r) /\ IsPlain(r) /\ r[1] \in Planned
    BY <1>3, <1>4, <1>9 DEF IsCall, IsPlain, OnBlob, Writing, Planned
  <2>4. QED  BY <2>1, <2>2, <2>3
<1>11. /\ a \in Seq(ToSet(a)) /\ a # <<>> /\ a[Len(a)] = r
       /\ ToSet(a) \subseteq {f, d, g, r}
       /\ \A i \in DOMAIN a : a[i] \in {f, d, g, r} /\ (i # 1 => a[i] \in {d, g, r})
  <2>1. IsSaving(a, f, d, g, r, ps)
    BY <1>6 DEF IsSaving
  <2>2. QED  BY <2>1, SavingIs
<1>12. IsRequest(a)
  BY <1>10, <1>11, PlainRequest
<1>13. \A e \in Data : ~Fills(a \o Tail(todo[c]), Blob(e))
  <2>1. \A e \in Data : ~Fills(a, Blob(e))
    BY <1>3, <1>9, <1>11, Names DEF Fills
  <2>2. QED  BY <2>1, <1>1, <1>11, First, FillsAfter
<1>14. Manifest(t) \in File /\ \A e \in Data : Manifest(t) # Blob(e)
  BY <1>3, Files, Names
<1>15. ~Is(c, "fill")
  BY <1>1 DEF Is
<1>16. \A u \in Table : /\ Manifest(t) # Work("source", u)
                        /\ u \in Built => Manifest(t) # Work("output", u)
  BY <1>3, Names, TableKinds
<1>17. DiskIs' /\ \A e \in Data : disk[Blob(e)] # Absent => disk'[Blob(e)] # Absent
  BY <1>7, <1>13, <1>14, <1>15, <1>16, OtherFile, BuiltAreTables DEF Table
<1>18. /\ mem' = [e \in Client |-> IF e = c THEN mem'[c] ELSE mem[e]]
       /\ mem'[c] = [log |-> mem'[c].log, blobs |-> mem'[c].blobs]
  <2>1. mem = [e \in Client |-> mem[e]]
    BY MemFunction
  <2>2. PICK h : h = [e \in Client |-> IF e = c THEN NothingRead ELSE mem[e]]
    OBVIOUS
  <2>3. mem' = h
    BY <1>7, <2>1, <2>2
  <2>4. h[c] = NothingRead /\ h = [e \in Client |-> IF e = c THEN h[c] ELSE mem[e]]
    BY <2>2
  <2>5. NothingRead = [log |-> NothingRead.log, blobs |-> NothingRead.blobs]
    BY DEF NothingRead
  <2>6. QED  BY <2>3, <2>4, <2>5
<1>19. todo[c][1][1] \notin {"load", "store"} /\ ~OnBlob(todo[c][1])
  BY <1>1 DEF OnBlob, Writing
<1>20. ~OnBlob(a[Len(a)]) /\ a[Len(a)][1] \notin {"load", "store"}
  BY <1>10, <1>11 DEF IsPlain
<1>21. \A y \in ToSet(a) : y[1] \notin {"store", "record"}
  BY <1>10, <1>11 DEF IsPlain
<1>22. QED  BY <1>1, <1>7, <1>12, <1>17, <1>18, <1>19, <1>20, <1>21, PlainStep

\* What a request is when it begins.
IsStart(calls) ==
    /\ IsRequest(calls) /\ InTurn(calls)
    /\ calls # <<>> => calls[1][1] \in Planned \ {"store", "record"}
    /\ \A i \in DOMAIN calls : ~ReportsCommit(calls[i])

\* The step is that a request of c begins.
Starts(c) ==
    \E sets, calls :
        /\ IsStart(calls) /\ Begin(c, sets, calls)
        /\ \A f \in disturbed \ AllWorkFiles : f \in disturbed'

\* An idle client gets a request.
LEMMA StartStep ==
    ASSUME DiskIs, RequestsAre, NEW c \in Client, Starts(c)
    PROVE  DiskIs' /\ RequestsAre'
<1>1. PICK sets, calls : /\ IsStart(calls) /\ Begin(c, sets, calls)
                         /\ \A f \in disturbed \ AllWorkFiles : f \in disturbed'
  BY DEF Starts
<1>2. /\ IsRequest(calls) /\ (calls # <<>> => calls[1][1] \in Planned \ {"store", "record"})
      /\ todo[c] = <<>> /\ todo' = [todo EXCEPT ![c] = calls] /\ disk' = disk /\ mem' = mem
  BY <1>1 DEF IsStart, Begin, Idle
<1>3. \A d \in Data : Blob(d) \in disturbed => Blob(d) \in disturbed'
  BY <1>1, Names
<1>4. \A i \in DOMAIN calls : calls[i][1] \in Planned
  <2>1. ASSUME NEW i \in DOMAIN calls, i = 1 PROVE calls[i][1] \in Planned
    <3>1. calls # <<>>
      BY <2>1
    <3>2. QED  BY <2>1, <3>1, <1>2
  <2>2. QED  BY <2>1, <1>2 DEF IsRequest
<1>5. \A f : ~Fills(calls, f)
  BY <1>4 DEF Fills, Planned
<1>6. ~Is(c, "fill")
  BY <1>2 DEF Is, Idle
<1>7. DiskIs'
  BY <1>2, <1>3, <1>5, <1>6, DiskKept
<1>8. \A y : IsNext(calls, y) => y[1] \notin {"store", "record"}
  <2>1. SUFFICES ASSUME NEW y, IsNext(calls, y) PROVE y[1] \notin {"store", "record"}
    OBVIOUS
  <2>2. calls # <<>>
    BY <2>1 DEF IsNext
  <2>3. calls[1][1] \in Planned \ {"store", "record"}
    BY <1>2, <2>2
  <2>4. QED  BY <2>1, <2>3 DEF IsNext, Planned, Writing
<1>9. /\ mem' = [d \in Client |-> mem'[d]] /\ \A d \in Client \ {c} : mem'[d] = mem[d]
      /\ mem'[c] = [log |-> mem'[c].log, blobs |-> mem'[c].blobs]
  BY <1>2, MemFunction
<1>10. \A d \in Data : disk[Blob(d)] # Absent => disk'[Blob(d)] # Absent
  BY <1>2
<1>11. QED  BY <1>2, <1>7, <1>8, <1>9, <1>10, RequestsStep

\* A call of a request that is no commit.
IsOther(x) == IsCall(x) /\ IsPlain(x) /\ x[1] \in Planned /\ ~ReportsCommit(x)

\* Plain calls are a request an idle client may get.
LEMMA PlainStart ==
    ASSUME NEW S, \A x \in S : IsOther(x), NEW calls \in Seq(S)
    PROVE  IsStart(calls)
<1>1. calls \in Seq(ToSet(calls))
  BY InOwnElements
<1>2. \A i \in DOMAIN calls : IsOther(calls[i])
  OBVIOUS
<1>3. IsRequest(calls)
  BY <1>1, <1>2, PlainRequest DEF IsOther
<1>4. InTurn(calls)
  BY <1>2 DEF InTurn, IsOther, IsPlain
<1>5. calls # <<>> => 1 \in DOMAIN calls
  OBVIOUS
<1>6. QED  BY <1>2, <1>3, <1>4, <1>5 DEF IsStart, IsOther, IsPlain

\* A snapshot of a readable log names blobs that are there.
LEMMA PickedIsKept ==
    ASSUME DiskIs, NEW t \in Table, Readable(t), NEW i, i \in Ids(ReadLog(t))
    PROVE  GetSnapshot(ReadLog(t), i) \in Kept(t)
<1>1. ReadLog(t) \in Seq(Kept(t))
  BY DEF DiskIs, ReadLog, Readable
<1>2. ToSet(ReadLog(t)) \subseteq Kept(t)
  BY <1>1 DEF ToSet
<1>3. \E s \in ToSet(ReadLog(t)) : s.id = i
  BY DEF Ids
<1>4. QED  BY <1>2, <1>3 DEF GetSnapshot

\* restore begins.
LEMMA RestoreStarts ==
    ASSUME DiskIs, NEW c \in Client, NEW t \in Table, NEW i, BeginRestore(c, t, i)
    PROVE  Starts(c)
<1>1. PICK s : s = GetSnapshot(ReadLog(t), i)
  OBVIOUS
<1>2. s \in Kept(t)
  BY <1>1, PickedIsKept DEF BeginRestore
<1>3. PICK f, g, u, p, r : /\ f = <<"fetch", t, "source", s>> /\ g = <<"fetch", t, "output", s>>
                           /\ u = <<"unlink", t>> /\ p = <<"put", HeadFile, t, s.id>>
                           /\ r = <<"report", t, {HeadFile}, "restore", s>>
  OBVIOUS
<1>4. PICK S : S = {f, p, r} \cup (IF "output" \in DOMAIN s.blobs THEN {g}
                                   ELSE IF t \in Built THEN {u} ELSE {})
  OBVIOUS
<1>5. \A x \in S : IsOther(x)
  <2>1. "source" \in DOMAIN s.blobs
    BY <1>2 DEF Kept
  <2>2. f[1] = "fetch" /\ f[2] = t /\ f[3] = "source" /\ f[4] = s
    BY <1>3
  <2>3. IsOther(f)
    BY <1>2, <2>1, <2>2 DEF IsOther, ReportsCommit, IsCall, IsPlain, OnBlob, Writing, Planned
  <2>4. g[1] = "fetch" /\ g[2] = t /\ g[3] = "output" /\ g[4] = s
    BY <1>3
  <2>5. "output" \in DOMAIN s.blobs => IsOther(g)
    BY <1>2, <2>4 DEF IsOther, ReportsCommit, IsCall, IsPlain, OnBlob, Writing, Planned
  <2>6. u[1] = "unlink" /\ u[2] = t
    BY <1>3
  <2>7. t \in Built => IsOther(u)
    BY <2>6 DEF IsOther, ReportsCommit, IsCall, IsPlain, OnBlob, Writing, Planned
  <2>8. p[1] = "put" /\ p[2] = HeadFile /\ p[3] = t
    BY <1>3
  <2>9. IsOther(p)
    BY <2>8 DEF IsOther, ReportsCommit, IsCall, IsPlain, OnBlob, Writing, Planned, Pointers
  <2>10. r[1] = "report" /\ r[2] = t /\ r[3] = {HeadFile} /\ r[4] = "restore" /\ r[5] = s
    BY <1>3
  <2>11. IsOther(r)
    BY <1>2, <2>10 DEF IsOther, ReportsCommit, IsCall, IsPlain, OnBlob, Writing, Planned, Pointers
  <2>12. QED  BY <1>4, <2>3, <2>5, <2>7, <2>9, <2>11
<1>6. RestoreCalls(t, s) \in Seq(S)
  <2>1. <<f>> \in Seq(S) /\ <<p, r>> \in Seq(S)
    BY <1>4
  <2>2. PICK m : m = (IF "output" \in DOMAIN s.blobs THEN <<g>>
                      ELSE IF t \in Built THEN <<u>> ELSE <<>>)
    OBVIOUS
  <2>3. m \in Seq(S)
    <3>1. CASE "output" \in DOMAIN s.blobs
      BY <1>4, <2>2, <3>1
    <3>2. CASE "output" \notin DOMAIN s.blobs /\ t \in Built
      BY <1>4, <2>2, <3>2
    <3>3. CASE "output" \notin DOMAIN s.blobs /\ t \notin Built
      BY <2>2, <3>3
    <3>4. QED  BY <3>1, <3>2, <3>3
  <2>4. RestoreCalls(t, s) = <<f>> \o m \o <<p, r>>
    BY <1>3, <2>2 DEF RestoreCalls
  <2>5. PICK x, z : x = <<f>> /\ z = <<p, r>>
    OBVIOUS
  <2>6. x \o m \in Seq(S) /\ z \in Seq(S)
    BY <2>1, <2>3, <2>5
  <2>7. (x \o m) \o z \in Seq(S)
    BY <2>6
  <2>8. QED  BY <2>4, <2>5, <2>7
<1>7. Begin(c, {<<HeadFile, t>>}, RestoreCalls(t, s))
  BY <1>1 DEF BeginRestore
<1>8. \A h \in disturbed \ AllWorkFiles : h \in disturbed'
  <2>1. WorkFiles(t) \subseteq AllWorkFiles
    BY DEF AllWorkFiles
  <2>2. QED  BY <2>1 DEF BeginRestore
<1>9. QED  BY <1>5, <1>6, <1>7, <1>8, PlainStart DEF Starts

\* set_golden begins.
LEMMA SetGoldenStarts ==
    ASSUME DiskIs, NEW c \in Client, NEW t \in Table, NEW i, BeginSetGolden(c, t, i)
    PROVE  Starts(c)
<1>1. PICK s : s = GetSnapshot(ReadLog(t), i)
  OBVIOUS
<1>2. s \in Kept(t)
  BY <1>1, PickedIsKept DEF BeginSetGolden
<1>3. PICK p, r : /\ p = <<"put", GoldenFile, t, i>>
                  /\ r = <<"report", t, {GoldenFile}, "set", s>>
  OBVIOUS
<1>4. p[1] = "put" /\ p[2] = GoldenFile /\ p[3] = t
      /\ r[1] = "report" /\ r[2] = t /\ r[3] = {GoldenFile} /\ r[4] = "set" /\ r[5] = s
  BY <1>3
<1>5. \A x \in {p, r} : IsOther(x)
  BY <1>2, <1>4 DEF IsOther, ReportsCommit, IsCall, IsPlain, OnBlob, Writing, Planned, Pointers
<1>6. <<p, r>> \in Seq({p, r})
  OBVIOUS
<1>7. Begin(c, {<<GoldenFile, t>>}, <<p, r>>) /\ disturbed' = disturbed
  BY <1>1, <1>3 DEF BeginSetGolden
<1>8. QED  BY <1>5, <1>6, <1>7, PlainStart DEF Starts

\* The calls of clear_golden are plain.
LEMMA ClearIsPlain ==
    ASSUME NEW t \in Table, NEW x \in ToSet(ClearCalls(t))
    PROVE  IsOther(x) /\ ClearCalls(t) \in Seq(ToSet(ClearCalls(t)))
<1>1. PICK d, r : d = <<"del", GoldenFile, t>> /\ r = <<"report", t, {GoldenFile}, "clear">>
  OBVIOUS
<1>2. d[1] = "del" /\ d[2] = GoldenFile /\ d[3] = t
      /\ r[1] = "report" /\ r[2] = t /\ r[3] = {GoldenFile} /\ r[4] = "clear"
  BY <1>1
<1>3. ClearCalls(t) = <<d, r>>
  BY <1>1 DEF ClearCalls
<1>4. x \in {d, r} /\ ClearCalls(t) \in Seq(ToSet(ClearCalls(t)))
  BY <1>3, InOwnElements DEF ToSet
<1>5. QED  BY <1>2, <1>4 DEF IsOther, ReportsCommit, IsCall, IsPlain, OnBlob, Writing, Planned,
                                  Pointers

\* clear_golden begins.
LEMMA ClearGoldenStarts ==
    ASSUME NEW c \in Client, NEW t \in Table, BeginClearGolden(c, t)
    PROVE  Starts(c)
<1>1. ClearCalls(t) \in Seq(ToSet(ClearCalls(t)))
  <2>1. ClearCalls(t) \in Seq({ClearCalls(t)[1], ClearCalls(t)[2]})
    BY DEF ClearCalls
  <2>2. QED  BY <2>1, InOwnElements
<1>2. QED  BY <1>1, ClearIsPlain, PlainStart DEF BeginClearGolden, Starts

\* In calls, tables have chains of S that can follow each other in any order.
AreChains(calls, S, R, Q) ==
    /\ \A t \in DOMAIN calls : calls[t] \in Seq(S) /\ Chain(calls[t], R) /\ Ordered(calls[t], Q)
    /\ \A t, u \in DOMAIN calls : t # u =>
           \A x \in ToSet(calls[t]), y \in ToSet(calls[u]) : <<x, y>> \in Q
    /\ \A t, u \in DOMAIN calls : calls[t] # <<>> /\ calls[u] # <<>> =>
           <<calls[t][Len(calls[t])], calls[u][1]>> \in R

\* The calls for several tables, one table after the other.
LEMMA InOrderIs ==
    ASSUME NEW S, NEW R, NEW Q, NEW calls, AreChains(calls, S, R, Q)
    PROVE  /\ InOrder(calls) \in Seq(S)
           /\ Chain(InOrder(calls), R) /\ Ordered(InOrder(calls), Q)
           /\ InOrder(calls) # <<>> =>
                 \E t \in DOMAIN calls : calls[t] # <<>> /\ InOrder(calls)[1] = calls[t][1]
           /\ \A x \in ToSet(InOrder(calls)) : \E t \in DOMAIN calls : x \in ToSet(calls[t])
           /\ \A t \in DOMAIN calls \cap Table : ToSet(calls[t]) \subseteq ToSet(InOrder(calls))
<1>1. PICK ss : ss = [k \in DOMAIN TableOrder |->
                        IF TableOrder[k] \in DOMAIN calls THEN calls[TableOrder[k]] ELSE <<>>]
  OBVIOUS
<1>2. InOrder(calls) = FlattenSeq(ss)
  BY <1>1 DEF InOrder
<1>3. DOMAIN ss = DOMAIN TableOrder
      /\ \A k \in DOMAIN ss : \/ ss[k] = <<>>
                              \/ TableOrder[k] \in DOMAIN calls /\ ss[k] = calls[TableOrder[k]]
  BY <1>1
<1>4. Chain(<<>>, R) /\ Ordered(<<>>, Q) /\ <<>> \in Seq(S)
  BY DEF Chain, Ordered
<1>5. \A k \in DOMAIN ss : ss[k] \in Seq(S) /\ Chain(ss[k], R) /\ Ordered(ss[k], Q)
  BY <1>3, <1>4 DEF AreChains
<1>6. ss \in Seq(Seq(S))
  <2>1. Len(TableOrder) \in Nat /\ DOMAIN TableOrder = 1..Len(TableOrder)
    BY OrderIsDistinct
  <2>2. ss \in [1..Len(TableOrder) -> Seq(S)]
    BY <1>1, <1>3, <1>5, <2>1
  <2>3. QED  BY <2>1, <2>2, SeqDef
<1>7. \A j, k \in DOMAIN ss : ss[j] # <<>> /\ ss[k] # <<>> =>
          <<ss[j][Len(ss[j])], ss[k][1]>> \in R
  BY <1>3 DEF AreChains
<1>8. \A j, k \in DOMAIN ss : j # k =>
          \A x \in ToSet(ss[j]), y \in ToSet(ss[k]) : <<x, y>> \in Q
  <2>1. SUFFICES ASSUME NEW j \in DOMAIN ss, NEW k \in DOMAIN ss, j # k,
                        NEW x \in ToSet(ss[j]), NEW y \in ToSet(ss[k])
                 PROVE  <<x, y>> \in Q
    OBVIOUS
  <2>2. ss[j] # <<>> /\ ss[k] # <<>>
    BY DEF ToSet
  <2>3. TableOrder[j] # TableOrder[k]
    BY <1>3, <2>1, OrderIsDistinct
  <2>4. QED  BY <1>3, <2>2, <2>3 DEF AreChains
<1>9. /\ FlattenSeq(ss) \in Seq(S)
      /\ Chain(FlattenSeq(ss), R) /\ Ordered(FlattenSeq(ss), Q)
      /\ FlattenSeq(ss) # <<>> =>
            \E k \in DOMAIN ss : ss[k] # <<>> /\ FlattenSeq(ss)[1] = ss[k][1]
      /\ \A i \in DOMAIN FlattenSeq(ss) : \E k \in DOMAIN ss :
            FlattenSeq(ss)[i] \in ToSet(ss[k])
      /\ \A k \in DOMAIN ss : ToSet(ss[k]) \subseteq ToSet(FlattenSeq(ss))
  <2>1. AreJoinable(ss, S, R, Q)
    BY <1>5, <1>6, <1>7, <1>8 DEF AreJoinable
  <2>2. QED  BY <2>1, FlattenIs
<1>10. \A x \in ToSet(FlattenSeq(ss)) : \E t \in DOMAIN calls : x \in ToSet(calls[t])
  <2>1. SUFFICES ASSUME NEW i \in DOMAIN FlattenSeq(ss)
                 PROVE  \E t \in DOMAIN calls : FlattenSeq(ss)[i] \in ToSet(calls[t])
    BY DEF ToSet
  <2>2. PICK k \in DOMAIN ss : FlattenSeq(ss)[i] \in ToSet(ss[k])
    BY <1>9
  <2>3. ss[k] # <<>>
    BY <2>2 DEF ToSet
  <2>4. QED  BY <1>3, <2>2, <2>3
<1>11. \A t \in DOMAIN calls \cap Table : ToSet(calls[t]) \subseteq ToSet(FlattenSeq(ss))
  <2>1. SUFFICES ASSUME NEW t \in DOMAIN calls, t \in Table
                 PROVE  ToSet(calls[t]) \subseteq ToSet(FlattenSeq(ss))
    OBVIOUS
  <2>2. PICK k \in DOMAIN TableOrder : TableOrder[k] = t
    BY <2>1 DEF Table, ToSet
  <2>3. k \in DOMAIN ss /\ ss[k] = calls[t]
    BY <1>1, <2>2
  <2>4. QED  BY <1>9, <2>3
<1>12. QED  BY <1>2, <1>3, <1>9, <1>10, <1>11

\* discard_changes begins, table by table.
LEMMA CleanStarts ==
    ASSUME NEW c \in Client, BeginClean(c)
    PROVE  Starts(c)
<1>1. PICK there, calls : /\ there = Table \cap DOMAIN ReadMap(GoldenFile)
                          /\ calls = [t \in there |-> ClearCalls(t)]
  OBVIOUS
<1>2. PICK S : S = UNION {ToSet(ClearCalls(t)) : t \in there}
  OBVIOUS
<1>3. \A x \in S : IsOther(x)
  BY <1>1, <1>2, ClearIsPlain
<1>4. /\ DOMAIN calls = there
      /\ \A t \in there : calls[t] \in Seq(S) /\ calls[t] # <<>>
  <2>1. SUFFICES ASSUME NEW t \in there PROVE ClearCalls(t) \in Seq(S) /\ ClearCalls(t) # <<>>
    BY <1>1
  <2>2. PICK q, d, r : q = ClearCalls(t) /\ d = <<"del", GoldenFile, t>>
                       /\ r = <<"report", t, {GoldenFile}, "clear">>
    OBVIOUS
  <2>3. q = <<d, r>>
    BY <2>2 DEF ClearCalls
  <2>4. ToSet(q) \subseteq S
    BY <1>2, <2>2
  <2>5. d \in S /\ r \in S
    BY <2>3, <2>4 DEF ToSet
  <2>6. QED  BY <2>2, <2>3, <2>5
<1>5. AreChains(calls, S, S \X S, S \X S)
  <2>1. \A t \in there : \A i \in DOMAIN calls[t] : calls[t][i] \in S
    BY <1>4
  <2>2. \A t \in there : Chain(calls[t], S \X S) /\ Ordered(calls[t], S \X S)
    <3>1. SUFFICES ASSUME NEW t \in there
                   PROVE  Chain(calls[t], S \X S) /\ Ordered(calls[t], S \X S)
      OBVIOUS
    <3>2. \A i \in 2..Len(calls[t]) : i \in DOMAIN calls[t] /\ i - 1 \in DOMAIN calls[t]
      BY <1>4
    <3>3. QED  BY <2>1, <3>2 DEF Chain, Ordered
  <2>3. \A t \in there : /\ ToSet(calls[t]) \subseteq S
                         /\ calls[t][1] \in S /\ calls[t][Len(calls[t])] \in S
    <3>1. SUFFICES ASSUME NEW t \in there
                   PROVE  /\ ToSet(calls[t]) \subseteq S
                          /\ calls[t][1] \in S /\ calls[t][Len(calls[t])] \in S
      OBVIOUS
    <3>2. 1 \in DOMAIN calls[t] /\ Len(calls[t]) \in DOMAIN calls[t]
      BY <1>4
    <3>3. QED  BY <2>1, <3>2 DEF ToSet
  <2>4. QED  BY <1>4, <2>2, <2>3 DEF AreChains
<1>6. InOrder(calls) \in Seq(S)
  BY <1>5, InOrderIs
<1>7. Begin(c, {GoldenFile} \X there, InOrder(calls)) /\ disturbed' = disturbed
  BY <1>1 DEF BeginClean
<1>8. QED  BY <1>3, <1>6, <1>7, PlainStart DEF Starts

\* The calls of a commit of t.
IsCommitCall(x, t) ==
    /\ IsCall(x) /\ x[1] \in {"load", "store", "record"} /\ x[1] \in Planned /\ ~ReportsCommit(x)
    /\ x[2] = t

\* Load, store, record: each call of a commit is followed as it should be.
LEMMA CommitCallsAre ==
    ASSUME NEW t \in Table, NEW ps \in SUBSET Pointers
    PROVE  LET q == CommitCalls(t, ps) IN
           /\ q \in Seq(ToSet(q)) /\ q # <<>>
           /\ q[1] = <<"load", t>> /\ q[Len(q)] = <<"record", t, ps>>
           /\ \A i \in DOMAIN q : IsCommitCall(q[i], t) /\ (q[i][1] = "record" => i = Len(q))
           /\ \A i \in 2..Len(q) : Follows(q[i - 1], q[i])
<1>1. PICK l, s, o, r : /\ l = <<"load", t>> /\ s = <<"store", t, "source">>
                        /\ o = <<"store", t, "output">> /\ r = <<"record", t, ps>>
  OBVIOUS
<1>2. /\ l[1] = "load" /\ l[2] = t /\ s[1] = "store" /\ s[2] = t /\ s[3] = "source"
      /\ o[1] = "store" /\ o[2] = t /\ o[3] = "output" /\ r[1] = "record" /\ r[2] = t /\ r[3] = ps
  BY <1>1
<1>3. /\ IsCommitCall(l, t) /\ IsCommitCall(s, t) /\ IsCommitCall(r, t)
      /\ t \in Built => IsCommitCall(o, t)
  BY <1>2, TableKinds DEF IsCommitCall, ReportsCommit, IsCall, Planned, Writing
<1>4. PICK q : q = CommitCalls(t, ps)
  OBVIOUS
<1>5. PICK x, S : x = <<l, s>> /\ S = {l, s, o, r}
  OBVIOUS
<1>6. x \in Seq(S) /\ Len(x) = 2 /\ x[1] = l /\ x[2] = s
  BY <1>5
<1>7. PICK m : m = IF t \in Built THEN <<o>> ELSE <<>>
  OBVIOUS
<1>8. q = (x \o m) \o <<r>>
  BY <1>1, <1>4, <1>5, <1>7 DEF CommitCalls
<1>9. CASE t \in Built
  <2>1. m = <<o>>
    BY <1>7, <1>9
  <2>2. x \o m \in Seq(S) /\ Len(x \o m) = 3
        /\ (x \o m)[1] = l /\ (x \o m)[2] = s /\ (x \o m)[3] = o
    <3>1. 1 \in 1..Len(x) /\ 2 \in 1..Len(x)
      BY <1>6
    <3>2. x \o m \in Seq(S) /\ Len(x \o m) = Len(x) + 1 /\ (x \o m)[Len(x \o m)] = o
          /\ \A i \in 1..Len(x) : (x \o m)[i] = x[i]
      BY <1>5, <1>6, <2>1, Appended
    <3>3. QED  BY <3>1, <3>2, <1>6
  <2>3. q \in Seq(S) /\ Len(q) = 4 /\ q[4] = r /\ \A i \in 1..3 : q[i] = (x \o m)[i]
    BY <1>5, <1>8, <2>2, Appended
  <2>4. q \in Seq(S) /\ Len(q) = 4 /\ q[1] = l /\ q[2] = s /\ q[3] = o /\ q[4] = r
    BY <2>2, <2>3
  <2>5. Follows(l, s) /\ Follows(s, o) /\ Follows(o, r)
    BY <1>2, <1>9 DEF Follows, Stores, OnBlob, Writing
  <2>6. \A i \in 2..Len(q) : Follows(q[i - 1], q[i])
    BY <2>4, <2>5
  <2>7. \A i \in DOMAIN q : IsCommitCall(q[i], t) /\ (q[i][1] = "record" => i = Len(q))
    BY <1>2, <1>3, <1>9, <2>4
  <2>8. QED  BY <1>1, <1>4, <2>4, <2>6, <2>7, InOwnElements
<1>10. CASE t \notin Built
  <2>1. m = <<>>
    BY <1>7, <1>10
  <2>2. x \o m = x
    BY <1>6, <2>1
  <2>3. q \in Seq(S) /\ Len(q) = 3 /\ q[3] = r /\ \A i \in 1..2 : q[i] = x[i]
    <3>1. q = x \o <<r>>
      BY <1>8, <2>2
    <3>5. r \in S
      BY <1>5
    <3>6. x \in Seq(S)
      BY <1>6
    <3>2. /\ x \o <<r>> \in Seq(S) /\ Len(x \o <<r>>) = Len(x) + 1
          /\ (x \o <<r>>)[Len(x \o <<r>>)] = r
          /\ \A i \in 1..Len(x) : (x \o <<r>>)[i] = x[i]
      BY <3>5, <3>6, Appended
    <3>3. q \in Seq(S) /\ Len(q) = Len(x) + 1 /\ q[Len(q)] = r
          /\ \A i \in 1..Len(x) : q[i] = x[i]
      BY <3>1, <3>2
    <3>4. QED  BY <3>3, <1>6
  <2>4. q \in Seq(S) /\ Len(q) = 3 /\ q[1] = l /\ q[2] = s /\ q[3] = r
    BY <1>6, <2>3
  <2>5. Follows(l, s) /\ Follows(s, r)
    BY <1>2, <1>10 DEF Follows, Stores, OnBlob, Writing
  <2>6. \A i \in 2..Len(q) : Follows(q[i - 1], q[i])
    BY <2>4, <2>5
  <2>7. \A i \in DOMAIN q : IsCommitCall(q[i], t) /\ (q[i][1] = "record" => i = Len(q))
    BY <1>2, <1>3, <2>4
  <2>8. QED  BY <1>1, <1>4, <2>4, <2>6, <2>7, InOwnElements
<1>11. QED  BY <1>9, <1>10

\* Calls that may come in this order: no table is committed again.
MayFollow(x, y) == x[1] = "record" /\ y[1] \in {"load", "record"} => x[2] # y[2]

\* A commit of one or of several tables begins.
LEMMA CommitStarts ==
    ASSUME NEW c \in Client, NEW only \in SUBSET Table,
           NEW ps \in SUBSET Pointers, BeginCommit(c, only, ps)
    PROVE  Starts(c)
<1>1. PICK dirty, calls : /\ dirty = {t \in only : IsDirty(t)}
                          /\ calls = [t \in dirty |-> CommitCalls(t, ps)]
  OBVIOUS
<1>2. /\ DOMAIN calls = dirty /\ dirty \subseteq Table
      /\ \A t \in dirty : calls[t] = CommitCalls(t, ps)
  BY <1>1
<1>3. PICK S, R, Q : /\ S = UNION {ToSet(CommitCalls(t, ps)) : t \in dirty}
                     /\ R = {p \in S \X S : Follows(p[1], p[2])}
                     /\ Q = {p \in S \X S : MayFollow(p[1], p[2])}
  OBVIOUS
<1>4. \A t \in dirty : \A x \in ToSet(calls[t]) : IsCommitCall(x, t)
  <2>1. SUFFICES ASSUME NEW t \in dirty, NEW x \in ToSet(calls[t])
                 PROVE  IsCommitCall(x, t)
    OBVIOUS
  <2>2. PICK q : q = CommitCalls(t, ps)
    OBVIOUS
  <2>3. \A i \in DOMAIN q : IsCommitCall(q[i], t)
    BY <1>2, <2>2, CommitCallsAre
  <2>4. QED  BY <1>2, <2>2, <2>3 DEF ToSet
<1>5. ASSUME NEW t \in dirty
      PROVE  /\ calls[t] \in Seq(S) /\ calls[t] # <<>>
             /\ Chain(calls[t], R) /\ Ordered(calls[t], Q) /\ ToSet(calls[t]) \subseteq S
             /\ calls[t][1] = <<"load", t>> /\ calls[t][1] \in S
             /\ calls[t][Len(calls[t])] = <<"record", t, ps>> /\ calls[t][Len(calls[t])] \in S
  <2>1. PICK q : q = CommitCalls(t, ps)
    OBVIOUS
  <2>2. /\ q \in Seq(ToSet(q)) /\ q # <<>>
        /\ q[1] = <<"load", t>> /\ q[Len(q)] = <<"record", t, ps>>
        /\ \A i \in 2..Len(q) : Follows(q[i - 1], q[i])
        /\ \A i \in DOMAIN q : q[i][1] = "record" => i = Len(q)
    BY <1>2, <2>1, CommitCallsAre
  <2>3. ToSet(q) \subseteq S
    BY <1>3, <2>1
  <2>4. q \in Seq(S) /\ \A i \in DOMAIN q : q[i] \in S
    BY <2>2, <2>3
  <2>5. Chain(q, R)
    <3>1. SUFFICES ASSUME NEW i \in 2..Len(q) PROVE <<q[i - 1], q[i]>> \in R
      BY DEF Chain
    <3>2. i \in DOMAIN q /\ i - 1 \in DOMAIN q
      BY <2>2
    <3>3. QED  BY <3>2, <2>2, <2>4, <1>3
  <2>6. 1 \in DOMAIN q /\ Len(q) \in DOMAIN q
    BY <2>2
  <2>7. Ordered(q, Q)
    <3>1. SUFFICES ASSUME NEW i \in DOMAIN q, NEW j \in DOMAIN q, i < j PROVE <<q[i], q[j]>> \in Q
      BY DEF Ordered
    <3>2. i # Len(q)
      BY <2>2, <3>1
    <3>3. MayFollow(q[i], q[j])
      BY <2>2, <3>2 DEF MayFollow
    <3>4. QED  BY <1>3, <2>4, <3>3
  <2>8. QED  BY <1>2, <2>1, <2>2, <2>3, <2>4, <2>5, <2>6, <2>7
<1>6. \A t, u \in dirty : <<calls[t][Len(calls[t])], calls[u][1]>> \in R
  <2>1. SUFFICES ASSUME NEW t \in dirty, NEW u \in dirty
                 PROVE  Follows(calls[t][Len(calls[t])], calls[u][1])
    BY <1>3, <1>5
  <2>2. PICK x, y : x = calls[t][Len(calls[t])] /\ y = calls[u][1]
    OBVIOUS
  <2>3. x[1] = "record" /\ y[1] = "load"
    BY <1>5, <2>2
  <2>4. QED  BY <2>2, <2>3 DEF Follows, OnBlob, Writing
<1>7. \A t, u \in dirty : t # u =>
          \A x \in ToSet(calls[t]), y \in ToSet(calls[u]) : <<x, y>> \in Q
  <2>1. SUFFICES ASSUME NEW t \in dirty, NEW u \in dirty, t # u,
                        NEW x \in ToSet(calls[t]), NEW y \in ToSet(calls[u])
                 PROVE  <<x, y>> \in Q
    OBVIOUS
  <2>2. x[2] = t /\ y[2] = u
    BY <1>4 DEF IsCommitCall
  <2>3. MayFollow(x, y) /\ x \in S /\ y \in S
    BY <1>5, <2>1, <2>2 DEF MayFollow
  <2>4. QED  BY <1>3, <2>3
<1>8. PICK q : q = InOrder(calls)
  OBVIOUS
<1>9. /\ q \in Seq(S) /\ Chain(q, R) /\ Ordered(q, Q)
      /\ q # <<>> => \E t \in dirty : q[1] = <<"load", t>>
  <2>1. AreChains(calls, S, R, Q)
    BY <1>2, <1>5, <1>6, <1>7 DEF AreChains
  <2>2. /\ InOrder(calls) \in Seq(S)
        /\ Chain(InOrder(calls), R) /\ Ordered(InOrder(calls), Q)
        /\ InOrder(calls) # <<>> =>
              \E t \in DOMAIN calls : calls[t] # <<>> /\ InOrder(calls)[1] = calls[t][1]
    BY <2>1, InOrderIs
  <2>3. QED  BY <2>2, <1>2, <1>5, <1>8
<1>10. \A i \in DOMAIN q : IsCall(q[i]) /\ q[i][1] \in Planned /\ ~ReportsCommit(q[i])
  <2>1. \A x \in S : \E t \in dirty : x \in ToSet(calls[t])
    BY <1>2, <1>3
  <2>2. \A i \in DOMAIN q : q[i] \in S
    BY <1>9
  <2>3. QED  BY <1>4, <2>1, <2>2 DEF IsCommitCall
<1>11. IsRequest(q)
  <2>1. ASSUME NEW i \in DOMAIN q, i # 1 PROVE Follows(q[i - 1], q[i])
    <3>1. i \in 2..Len(q)
      BY <1>9, <2>1
    <3>2. PICK p : p = <<q[i - 1], q[i]>>
      OBVIOUS
    <3>3. p \in R
      BY <1>9, <3>1, <3>2 DEF Chain
    <3>4. QED  BY <1>3, <3>2, <3>3
  <2>2. q \in Seq(ToSet(q))
    BY <1>9, InOwnElements
  <2>3. QED  BY <1>10, <2>1, <2>2 DEF IsRequest
<1>12. InTurn(q)
  <2>1. SUFFICES ASSUME NEW i \in DOMAIN q, NEW j \in DOMAIN q, i < j PROVE MayFollow(q[i], q[j])
    BY DEF InTurn, MayFollow
  <2>2. PICK p : p = <<q[i], q[j]>>
    OBVIOUS
  <2>3. p \in Q
    BY <1>9, <2>1, <2>2 DEF Ordered
  <2>4. QED  BY <1>3, <2>2, <2>3
<1>13. q # <<>> => q[1][1] \in Planned \ {"store", "record"}
  BY <1>9 DEF Planned
<1>14. IsStart(q)
  BY <1>10, <1>11, <1>12, <1>13 DEF IsStart
<1>15. Begin(c, ps \X dirty, q) /\ disturbed' = disturbed
  BY <1>1, <1>8 DEF BeginCommit
<1>16. QED  BY <1>14, <1>15 DEF Starts

\* A client dies between two calls.
LEMMA DieStep ==
    ASSUME DiskIs, RequestsAre, NEW c \in Client, Die(c)
    PROVE  DiskIs' /\ RequestsAre'
BY AbortStep DEF Die

-----------------------------------------------------------------------------
(* What is recorded reads back.                                            *)

\* The logs a store starts with name the blobs it starts with.
LEMMA PastIsKept ==
    ASSUME Init
    PROVE  /\ \A t \in Table : PastLog(t) \in Seq(Kept(t))
           /\ \A d \in Data : disk[Blob(d)] \in {Absent, d}
<1>1. PICK head, golden, work : disk = StoreFiles(head, golden, work)
  BY DEF Init
<1>2. \A d \in Data : disk[Blob(d)] = IF d \in Stored THEN d ELSE Absent
  <2>1. \A d \in Data : Blob(d)[1] = "blob" /\ Blob(d)[2] = d
    BY DEF Blob
  <2>2. \A d \in Data : Blob(d) \in File /\ Blob(d) \notin Pointers \cup AllWorkFiles
    BY Files, Names
  <2>3. QED  BY <1>1, <2>1, <2>2 DEF StoreFiles, Pointers
<1>3. ASSUME NEW t \in Table, NEW i \in DOMAIN Past[t]
      PROVE  [id |-> i, blobs |-> Past[t][i]] \in Kept(t)
  <2>1. PICK b, s : b = Past[t][i] /\ s = [id |-> i, blobs |-> Past[t][i]]
    OBVIOUS
  <2>2. /\ Past[t] \in Seq(PartialMap({"source", "output"}, Content))
        /\ "source" \in DOMAIN b /\ ("output" \in DOMAIN b => t \in Built)
    BY <2>1, PastIsRecorded DEF Table
  <2>3. b \in PartialMap({"source", "output"}, Content) /\ i \in Nat
    BY <2>1, <2>2
  <2>4. b \in PartialMap({"source", "output"}, Data)
    BY <2>3, PartialMapDef DEF Data
  <2>5. DOMAIN b \subseteq Kinds(t)
    BY <2>2, <2>3, TableKinds, PartialMapDef
  <2>6. ASSUME NEW k \in DOMAIN b PROVE Has(b[k])
    <3>1. b[k] \in Data
      BY <2>4, PartialMapDef
    <3>2. b[k] \in Stored
      BY <2>1 DEF Stored, ValuesOf
    <3>3. QED  BY <3>1, <3>2, <1>2, DataIs DEF Has
  <2>7. QED  BY <2>1, <2>2, <2>3, <2>4, <2>5, <2>6 DEF Kept
<1>4. ASSUME NEW t \in Table PROVE PastLog(t) \in Seq(Kept(t))
  <2>1. PICK n \in Nat : DOMAIN Past[t] = 1..n
    <3>1. Past[t] \in Seq(PartialMap({"source", "output"}, Content))
      BY PastIsRecorded DEF Table
    <3>2. QED  BY <3>1
  <2>2. PastLog(t) \in [1..n -> Kept(t)]
    BY <1>3, <2>1 DEF PastLog
  <2>3. QED  BY <2>1, <2>2, SeqDef
<1>5. QED  BY <1>2, <1>4

\* The initial states.
LEMMA InitIs ==
    ASSUME Init
    PROVE  DiskIs /\ RequestsAre
<1>1. PICK work \in [AllWorkFiles -> Content \cup {Absent}] :
          /\ \A t \in Table : work[Work("source", t)] # Absent
          /\ \E head, golden : disk = StoreFiles(head, golden, work)
  BY DEF Init
<1>11. PICK head, golden : disk = StoreFiles(head, golden, work)
  BY <1>1
<1>2. todo = [c \in Client |-> <<>>] /\ mem = [c \in Client |-> NothingRead]
  BY DEF Init
<1>3. disk = [f \in File |-> disk[f]]
  <2>1. StoreFiles(head, golden, work) = [f \in File |-> StoreFiles(head, golden, work)[f]]
    BY DEF StoreFiles
  <2>2. QED  BY <1>11, <2>1
<1>4. \A t \in Table : disk[Manifest(t)] = PastLog(t)
  <2>1. \A t \in Table : Manifest(t)[1] = "manifest" /\ Manifest(t)[2] = t
    BY DEF Manifest
  <2>2. \A t \in Table : Manifest(t) \in File /\ Manifest(t) \notin Pointers \cup AllWorkFiles
    BY Files, Names
  <2>3. QED  BY <1>11, <2>1, <2>2 DEF StoreFiles, Pointers
<1>5. \A f \in AllWorkFiles : disk[f] = work[f] /\ disk[f] \in Data \cup {Absent}
  <2>1. \A f \in AllWorkFiles : f \in File /\ f \notin Pointers
    BY Files, Names
  <2>2. QED  BY <1>1, <1>11, <2>1 DEF StoreFiles, Pointers, Data
<1>6. \A t \in Table : /\ disk[Work("source", t)] \in Data
                       /\ t \in Built => disk[Work("output", t)] \in Data \cup {Absent}
  BY <1>1, <1>5, Names, TableKinds
<1>7. \A f : ~Filling(f)
  BY <1>2 DEF Filling, Pending, ToSet
<1>8. DiskIs
  BY <1>3, <1>4, <1>6, <1>7, PastIsKept DEF DiskIs
<1>9. RequestsAre
  <2>1. \A c \in Client : IsRequest(todo[c]) /\ ToSet(todo[c]) = {}
    BY <1>2, NoRequest, Single
  <2>2. todo = [c \in Client |-> todo[c]]
    BY <1>2
  <2>3. mem = [c \in Client |-> [log |-> mem[c].log, blobs |-> mem[c].blobs]]
    <3>1. NothingRead = [log |-> NothingRead.log, blobs |-> NothingRead.blobs]
      BY DEF NothingRead
    <3>2. QED  BY <3>1, <1>2
  <2>4. QED  BY <2>1, <2>2, <2>3 DEF RequestsAre
<1>10. QED  BY <1>8, <1>9

\* Stuttering steps.
LEMMA NothingHappens ==
    ASSUME DiskIs, RequestsAre, UNCHANGED vars
    PROVE  DiskIs' /\ RequestsAre'
<1>1. disk' = disk /\ todo' = todo /\ mem' = mem /\ disturbed' = disturbed
  BY DEF vars
<1>2. \A f : Filling(f)' <=> Filling(f)
  BY <1>1 DEF Filling, Pending
<1>3. \A d \in Data : disk[Blob(d)] # Absent => disk'[Blob(d)] # Absent
  BY <1>1
<1>4. \A t \in Table : Seq(Kept(t)) \subseteq Seq(Kept(t)')
  BY <1>3, KeptStays
<1>5. DiskIs'
  <2>1. disk' = [f \in File |-> disk'[f]]
    BY <1>1 DEF DiskIs
  <2>2. \A t \in Table : disk'[Manifest(t)] \in {Absent, Torn} \cup Seq(Kept(t)')
    BY <1>1, <1>4 DEF DiskIs
  <2>3. \A d \in Data :
              /\ \/ disk'[Blob(d)] \in {Absent, d}
                 \/ disk'[Blob(d)] = Torn /\ (Filling(Blob(d))' \/ Blob(d) \in disturbed')
              /\ Filling(Blob(d))' => disk'[Blob(d)] # Absent
    BY <1>1, <1>2 DEF DiskIs, Has
  <2>4. \A t \in Table : /\ disk'[Work("source", t)] \in Data
                         /\ t \in Built => disk'[Work("output", t)] \in Data \cup {Absent}
    BY <1>1 DEF DiskIs
  <2>5. QED  BY <2>1, <2>2, <2>3, <2>4, DiskStep
<1>6. CASE Client = {}
  BY <1>1, <1>5, <1>6 DEF RequestsAre
<1>7. ASSUME NEW c \in Client PROVE RequestsAre'
  <2>1. IsRequest(todo[c]) /\ todo = [d \in Client |-> todo[d]]
    BY DEF RequestsAre
  <2>2. todo' = [todo EXCEPT ![c] = todo[c]]
    BY <1>1, <2>1
  <2>3. /\ mem' = [d \in Client |-> mem'[d]] /\ \A d \in Client \ {c} : mem'[d] = mem[d]
        /\ mem'[c] = [log |-> mem'[c].log, blobs |-> mem'[c].blobs]
    BY <1>1, MemFunction
  <2>4. ASSUME NEW y \in ToSet(todo[c]), IsNext(todo[c], y), y[1] \in {"store", "record"}
        PROVE  MemIs(c, y)'
    <3>1. MemIs(c, y) /\ IsCall(y)
      BY <2>4 DEF RequestsAre, IsRequest, ToSet
    <3>2. y[2] \in Table
      BY <3>1, <2>4 DEF IsCall, Planned
    <3>3. mem'[c] = mem[c] /\ todo'[c] = todo[c]
      BY <1>1
    <3>4. QED  BY <1>3, <3>1, <3>2, <3>3, MemStays
  <2>5. QED  BY <1>3, <2>1, <2>2, <2>3, <2>4, RequestsStep
<1>8. QED  BY <1>5, <1>6, <1>7

\* Every step keeps what the disk and the requests are.
LEMMA NextKeeps ==
    ASSUME DiskIs, RequestsAre, [Next]_vars
    PROVE  DiskIs' /\ RequestsAre'
<1>1. CASE \E c \in Client, only \in SUBSET Table, ps \in {{HeadFile}, Pointers} :
               BeginCommit(c, only, ps)
  <2>1. {HeadFile} \in SUBSET Pointers /\ Pointers \in SUBSET Pointers
    BY DEF Pointers
  <2>2. QED  BY <1>1, <2>1, CommitStarts, StartStep
<1>2. CASE \E c \in Client, t \in Table, i \in Id : BeginRestore(c, t, i)
  BY <1>2, RestoreStarts, StartStep
<1>3. CASE \E c \in Client, t \in Table, i \in Id : BeginSetGolden(c, t, i)
  BY <1>3, SetGoldenStarts, StartStep
<1>4. CASE \E c \in Client, t \in Table : BeginClearGolden(c, t)
  BY <1>4, ClearGoldenStarts, StartStep
<1>5. CASE \E c \in Client : BeginClean(c)
  BY <1>5, CleanStarts, StartStep
<1>6. CASE \E c \in Client : Load(c) \/ Store(c) \/ Record(c)
  BY <1>6, LoadStep, StoreStep, RecordStep
<1>7. CASE \E c \in Client : Fetch(c) \/ Unlink(c)
  BY <1>7, FetchStep, UnlinkStep
<1>8. CASE \E c \in Client : EditPointer(c) \/ Open(c) \/ Fill(c) \/ Report(c)
  BY <1>8, EditPointerStep, OpenStep, FillStep, ReportStep
<1>9. CASE \E c \in Client : Die(c)
  BY <1>9, DieStep
<1>10. CASE UNCHANGED vars
  BY <1>10, NothingHappens
<1>11. QED  BY <1>1, <1>2, <1>3, <1>4, <1>5, <1>6, <1>7, <1>8, <1>9, <1>10 DEF Next

\* The invariant gives the property.
LEMMA RecordedAreThere ==
    ASSUME DiskIs
    PROVE  RecordedVersionsReadBack
<1>1. SUFFICES ASSUME NEW t \in Table, Readable(t),
                      NEW s \in ToSet(ReadLog(t)), NEW k \in DOMAIN s.blobs
               PROVE  \/ disk[Blob(s.blobs[k])] = s.blobs[k]
                      \/ /\ disk[Blob(s.blobs[k])] = Torn
                         /\ Filling(Blob(s.blobs[k])) \/ Blob(s.blobs[k]) \in disturbed
  BY DEF RecordedVersionsReadBack
<1>2. ReadLog(t) \in Seq(Kept(t))
  BY <1>1 DEF DiskIs, ReadLog, Readable
<1>3. s \in Kept(t)
  BY <1>2 DEF ToSet
<1>4. Has(s.blobs[k]) /\ s.blobs \in PartialMap({"source", "output"}, Data)
  BY <1>3 DEF Kept
<1>5. s.blobs[k] \in Data
  BY <1>4, PartialMapDef
<1>6. QED  BY <1>4, <1>5 DEF DiskIs, Has

\* Every content that a recorded snapshot names can be read back, whichever
\* clients commit, restore, clean and die in between (HistoryStore.commit stores
\* the blobs before it saves the manifest, and _store_blob skips a blob that is
\* there): it is whole, or being written now, or its writer died writing it.
THEOREM RecordedReadBack == Spec => []RecordedVersionsReadBack
<1>1. Init => DiskIs /\ RequestsAre
  BY InitIs
<1>2. DiskIs /\ RequestsAre /\ [Next]_vars => (DiskIs /\ RequestsAre)'
  BY NextKeeps
<1>3. DiskIs => RecordedVersionsReadBack
  BY RecordedAreThere
<1>4. QED  BY <1>1, <1>2, <1>3, PTL DEF Spec

-----------------------------------------------------------------------------
(* What is reported stays.                                                 *)

\* A request that will record has read before, or has just come to it.
LEMMA ReadBefore ==
    ASSUME NEW s, IsRequest(s), NEW i \in DOMAIN s, NEW t, s[i][1] = "record", s[i][2] = t
    PROVE  \/ \E j \in DOMAIN s : s[j][1] = "load" /\ s[j][2] = t
           \/ s[1][1] \in {"store", "record"} /\ s[1][2] = t
           \/ OnBlob(s[1])
<1>1. PICK m \in Nat : DOMAIN s = 1..m
  <2>1. s \in Seq(ToSet(s))
    BY DEF IsRequest
  <2>2. QED  BY <2>1
<1>2. ASSUME NEW j \in DOMAIN s, j # 1
      PROVE  /\ j - 1 \in DOMAIN s /\ Follows(s[j - 1], s[j])
             /\ OnBlob(s[j - 1]) => j - 1 = 1
  <2>1. j - 1 \in DOMAIN s
    BY <1>1, <1>2
  <2>2. j - 1 # 1 => s[j - 1][1] \in Planned
    BY <2>1 DEF IsRequest
  <2>3. QED  BY <1>2, <2>1, <2>2 DEF IsRequest, OnBlob, Writing, Planned
<1>3. ASSUME NEW j \in DOMAIN s, j # 1, s[j][1] \in {"store", "record"}, s[j][2] = t
      PROVE  \/ \E k \in DOMAIN s : s[k][1] = "load" /\ s[k][2] = t
             \/ OnBlob(s[1])
             \/ /\ s[j - 1][1] = "store" /\ s[j - 1][2] = t /\ j - 1 \in DOMAIN s
                /\ s[j][1] = "store" => s[j][3] = "output" /\ s[j - 1][3] = "source"
  BY <1>2, <1>3 DEF Follows, Stores
<1>4. CASE i = 1
  BY <1>4
<1>5. CASE i # 1
  <2>1. SUFFICES ASSUME ~OnBlob(s[1]), \A k \in DOMAIN s : ~(s[k][1] = "load" /\ s[k][2] = t)
                 PROVE  s[1][1] \in {"store", "record"} /\ s[1][2] = t
    OBVIOUS
  <2>2. PICK j \in DOMAIN s : j = i - 1 /\ s[j][1] = "store" /\ s[j][2] = t
    BY <1>3, <1>5, <2>1
  <2>3. CASE j = 1
    BY <2>2, <2>3
  <2>4. CASE j # 1
    <3>1. PICK k \in DOMAIN s : k = j - 1 /\ s[k][1] = "store" /\ s[k][2] = t /\ s[k][3] = "source"
      BY <1>3, <2>1, <2>2, <2>4
    <3>2. k = 1
      <4>1. SUFFICES ASSUME k # 1 PROVE FALSE
        OBVIOUS
      <4>2. s[k][3] = "output"
        BY <1>3, <2>1, <3>1, <4>1
      <4>3. QED  BY <3>1, <4>2
    <3>3. QED  BY <3>1, <3>2
  <2>5. QED  BY <2>3, <2>4
<1>6. QED  BY <1>4, <1>5

\* A request without a load and a record of t ahead does not commit t.
LEMMA CommitsBefore ==
    ASSUME NEW s, IsRequest(s), NEW t, Commits(s, t)
    PROVE  \/ s[1][1] \in {"store", "record"} /\ s[1][2] = t
           \/ OnBlob(s[1])
<1>1. PICK i \in DOMAIN s : s[i][1] = "record" /\ s[i][2] = t
  BY DEF Commits, ToSet
<1>2. \A j \in DOMAIN s : ~(s[j][1] = "load" /\ s[j][2] = t)
  BY DEF Commits, ToSet
<1>3. QED  BY <1>1, <1>2, ReadBefore

\* The calls a that a request goes on with, none of which reads or saves a log.
LEMMA OnwardIs ==
    ASSUME NEW s, IsRequest(s), s # <<>>, NEW a, a \in Seq(ToSet(a)),
           \A x \in ToSet(a) : x[1] \notin {"load", "record"}
    PROVE  LET n == a \o Tail(s) IN
           /\ InTurn(s) => InTurn(n)
           /\ \A t : Commits(n, t) => Commits(s, t) \/ (s[1][1] = "load" /\ s[1][2] = t)
           /\ \A t : Commits(n, t) /\ s[1][1] = "record" /\ s[1][2] = t => ~InTurn(s)
           /\ \A t : Told(n, t) \subseteq Told(s, t) \cup Told(a, t)
           /\ \A t : Saves(n, t) => Saves(a, t)
<1>1. PICK n, l, m : n = a \o Tail(s) /\ l = Len(a) /\ m = Len(s)
  OBVIOUS
<1>2. s \in Seq(ToSet(s))
  BY DEF IsRequest
<1>3. /\ l \in Nat /\ m \in Nat \ {0}
      /\ n \in Seq(ToSet(n)) /\ Len(n) = l + m - 1
      /\ DOMAIN n = 1..(l + m - 1) /\ DOMAIN s = 1..m /\ DOMAIN a = 1..l
      /\ \A i \in 1..l : n[i] = a[i]
      /\ \A i \in 2..m : n[l + i - 1] = s[i]
      /\ \A i \in 1..(l + m - 1) : i \notin 1..l => i - l + 1 \in 2..m /\ n[i] = s[i - l + 1]
  BY <1>1, <1>2, Continued DEF IsContinued
<1>4. \A i \in 1..l : a[i] \in ToSet(a) /\ n[i][1] \notin {"load", "record"}
  BY <1>3 DEF ToSet
<1>5. \A i \in 2..m : l + i - 1 \in 1..(l + m - 1)
  BY <1>3
<1>6. InTurn(s) => InTurn(n)
  <2>1. SUFFICES ASSUME InTurn(s), NEW i \in DOMAIN n, NEW j \in DOMAIN n, i < j,
                        n[i][1] = "record", n[j][1] \in {"load", "record"}
                 PROVE  n[i][2] # n[j][2]
    BY DEF InTurn
  <2>2. i \notin 1..l /\ j \notin 1..l
    BY <1>3, <1>4, <2>1
  <2>6. i \in 1..(l + m - 1) /\ j \in 1..(l + m - 1)
    BY <1>3
  <2>7. i - l + 1 \in 2..m /\ n[i] = s[i - l + 1] /\ j - l + 1 \in 2..m /\ n[j] = s[j - l + 1]
    BY <1>3, <2>2, <2>6
  <2>3. PICK p \in 2..m, q \in 2..m : p = i - l + 1 /\ q = j - l + 1 /\ n[i] = s[p] /\ n[j] = s[q]
    BY <2>7
  <2>8. l \in Int /\ i \in Int /\ j \in Int
    BY <1>3, <2>6
  <2>9. p < q
    BY <2>1, <2>3, <2>8
  <2>4. p \in DOMAIN s /\ q \in DOMAIN s /\ p < q
    BY <1>3, <2>9
  <2>5. QED  BY <2>1, <2>3, <2>4 DEF InTurn
<1>7. \A x \in ToSet(n) : x \in ToSet(a) \/ \E i \in 2..m : x = s[i]
  <2>1. SUFFICES ASSUME NEW i \in DOMAIN n PROVE n[i] \in ToSet(a) \/ \E j \in 2..m : n[i] = s[j]
    BY DEF ToSet
  <2>2. QED  BY <1>3, <1>4
<1>8. \A i \in 2..m : s[i] \in ToSet(n) /\ s[i] \in ToSet(s)
  <2>1. SUFFICES ASSUME NEW i \in 2..m PROVE s[i] \in ToSet(n) /\ s[i] \in ToSet(s)
    OBVIOUS
  <2>2. l + i - 1 \in DOMAIN n /\ n[l + i - 1] = s[i] /\ i \in DOMAIN s
    BY <1>3, <1>5
  <2>3. QED  BY <2>2 DEF ToSet
<1>9. ASSUME NEW t, Commits(n, t)
      PROVE  /\ \E i \in 2..m : s[i][1] = "record" /\ s[i][2] = t
             /\ \A i \in 2..m : ~(s[i][1] = "load" /\ s[i][2] = t)
  BY <1>7, <1>8, <1>9 DEF Commits
<1>10. ASSUME NEW t, Commits(n, t) PROVE Commits(s, t) \/ (s[1][1] = "load" /\ s[1][2] = t)
  <2>1. \A x \in ToSet(s) : x = s[1] \/ \E i \in 2..m : x = s[i]
    <3>1. \A i \in DOMAIN s : i = 1 \/ i \in 2..m
      BY <1>3
    <3>2. QED  BY <3>1 DEF ToSet
  <2>2. \E x \in ToSet(s) : x[1] = "record" /\ x[2] = t
    BY <1>8, <1>9, <1>10
  <2>3. QED  BY <2>1, <2>2, <1>9, <1>10 DEF Commits
<1>11. ASSUME NEW t, Commits(n, t), s[1][1] = "record", s[1][2] = t PROVE ~InTurn(s)
  <2>1. PICK i \in 2..m : s[i][1] = "record" /\ s[i][2] = t
    BY <1>9, <1>11
  <2>2. 1 \in DOMAIN s /\ i \in DOMAIN s /\ 1 < i
    BY <1>3
  <2>3. QED  BY <1>11, <2>1, <2>2 DEF InTurn
<1>12. ASSUME NEW t PROVE Told(n, t) \subseteq Told(s, t) \cup Told(a, t)
  BY <1>7, <1>8 DEF Told
<1>13. ASSUME NEW t, Saves(n, t) PROVE Saves(a, t)
  <2>1. n # <<>> /\ n[1][1] = "fill" /\ n[1][2] = Manifest(t)
    BY <1>13 DEF Saves
  <2>2. 1 \in DOMAIN n
    BY <1>3, <2>1
  <2>3. 1 \in 1..l
    <3>1. SUFFICES ASSUME 1 \notin 1..l PROVE FALSE
      OBVIOUS
    <3>2. PICK i \in 2..m : n[1] = s[i]
      BY <1>3, <2>2, <3>1
    <3>3. i \in DOMAIN s /\ i # 1
      BY <1>3
    <3>4. s[i][1] \in Planned
      BY <3>3 DEF IsRequest
    <3>5. QED  BY <2>1, <3>2, <3>4 DEF Planned
  <2>4. n[1] = a[1] /\ a # <<>>
    BY <1>3, <2>3
  <2>5. QED  BY <2>1, <2>4 DEF Saves
<1>14. QED  BY <1>1, <1>6, <1>10, <1>11, <1>12, <1>13

\* What is reported or to be reported grows by what c is given to report.
LEMMA ReportedStep ==
    ASSUME RequestsAre, NEW c \in Client, NEW n, todo' = [todo EXCEPT ![c] = n],
           NEW t, NEW X,
           told'.log[t] \subseteq told.log[t] \cup Told(todo[c], t),
           Told(n, t) \subseteq Told(todo[c], t) \cup X
    PROVE  Reported(t)' \subseteq Reported(t) \cup X
<1>1. todo'[c] = n /\ \A d \in Client \ {c} : todo'[d] = todo[d]
  BY DEF RequestsAre
<1>2. \A d \in Client : Told(todo'[d], t) \subseteq Reported(t) \cup X
  <2>1. Told(todo[c], t) \subseteq Reported(t)
    BY DEF Reported
  <2>2. \A d \in Client \ {c} : Told(todo'[d], t) \subseteq Reported(t)
    BY <1>1 DEF Reported
  <2>3. QED  BY <1>1, <2>1, <2>2
<1>3. told'.log[t] \subseteq Reported(t)
  BY DEF Reported
<1>4. Reported(t)' = told'.log[t] \cup UNION {Told(todo'[d], t) : d \in Client}
  BY DEF Reported, Told
<1>5. QED  BY <1>2, <1>3, <1>4

\* c goes on with n, which has nothing to do with the log of t.
IsQuiet(c, n, t) ==
    /\ disk'[Manifest(t)] = disk[Manifest(t)]
    /\ ~Saves(todo[c], t) /\ ~Saves(n, t)
    /\ Commits(n, t) => Commits(todo[c], t) /\ mem'[c].log = mem[c].log
    /\ \A d \in Client \ {c} : mem'[d] = mem[d]
    /\ told'.log[t] \subseteq told.log[t] \cup Told(todo[c], t)
    /\ Told(n, t) \subseteq Told(todo[c], t)

\* A step that leaves the log of t alone keeps what is known of it.
LEMMA QuietStep ==
    ASSUME RequestsAre, NEW c \in Client, NEW n, todo' = [todo EXCEPT ![c] = n],
           NEW t \in Table, IsQuiet(c, n, t), LogIs(t)
    PROVE  LogIs(t)'
<1>1. todo'[c] = n /\ \A d \in Client \ {c} : todo'[d] = todo[d]
  BY DEF RequestsAre
<1>2. \A d \in Client : /\ Commits(todo'[d], t) => Commits(todo[d], t) /\ mem'[d].log = mem[d].log
                        /\ Saves(todo'[d], t) <=> Saves(todo[d], t)
                        /\ Saves(todo[d], t) => todo'[d] = todo[d]
  BY <1>1 DEF IsQuiet
<1>3. Reported(t)' \subseteq Reported(t)
  <2>1. Reported(t)' \subseteq Reported(t) \cup {}
    BY ReportedStep DEF IsQuiet
  <2>2. QED  BY <2>1
<1>4. /\ ReadLog(t)' = ReadLog(t) /\ Readable(t)' = Readable(t)
      /\ disk'[Manifest(t)] = disk[Manifest(t)]
  BY DEF IsQuiet, ReadLog, Readable
<1>5. QED  BY <1>2, <1>3, <1>4 DEF LogIs, Commits, Saves

\* LogsAre in the next state, from the one client that steps and table by table.
LEMMA LogsStep ==
    ASSUME RequestsAre, LogsAre, NEW c \in Client, NEW n, todo' = [todo EXCEPT ![c] = n],
           InTurn(n), told'.log = [t \in Table |-> told'.log[t]],
           \A t \in Table : Manifest(t) \in disturbed => Manifest(t) \in disturbed',
           \A t \in Table : Manifest(t) \notin disturbed' /\ LogIs(t) => LogIs(t)'
    PROVE  LogsAre'
<1>1. todo'[c] = n /\ \A d \in Client \ {c} : todo'[d] = todo[d]
  BY DEF RequestsAre
<1>2. \A d \in Client : InTurn(todo'[d])
  BY <1>1 DEF LogsAre
<1>3. \A t \in Table : Manifest(t) \notin disturbed' => LogIs(t)'
  BY DEF LogsAre
<1>4. \A d \in Client : InTurn(todo[d])'
  BY <1>2 DEF InTurn
<1>5. QED  BY <1>3, <1>4 DEF LogsAre

\* Requests of one call and of none.
LEMMA Short ==
    /\ <<>> \in Seq(ToSet(<<>>)) /\ ToSet(<<>>) = {}
    /\ \A w : <<w>> \in Seq(ToSet(<<w>>)) /\ ToSet(<<w>>) = {w}
<1>1. <<>> \in Seq(ToSet(<<>>))
  OBVIOUS
<1>2. ASSUME NEW w PROVE <<w>> \in Seq(ToSet(<<w>>))
  <2>1. ToSet(<<w>>) = {w}
    BY Single
  <2>2. QED  BY <2>1
<1>3. QED  BY <1>1, <1>2, Single

\* A request that begins has read nothing.
LEMMA StartLogs ==
    ASSUME RequestsAre, LogsAre, NEW c \in Client, Starts(c)
    PROVE  LogsAre'
<1>1. PICK sets, calls : /\ IsStart(calls) /\ Begin(c, sets, calls)
                         /\ \A f \in disturbed \ AllWorkFiles : f \in disturbed'
  BY DEF Starts
<1>2. /\ todo[c] = <<>> /\ todo' = [todo EXCEPT ![c] = calls]
      /\ disk' = disk /\ mem' = mem /\ told' = told
  BY <1>1 DEF Begin, Idle
<1>3. /\ IsRequest(calls) /\ InTurn(calls)
      /\ calls # <<>> => calls[1][1] \in Planned \ {"store", "record"}
      /\ \A i \in DOMAIN calls : ~ReportsCommit(calls[i])
  BY <1>1 DEF IsStart
<1>4. \A t : ~Commits(calls, t)
  <2>1. SUFFICES ASSUME NEW t, Commits(calls, t) PROVE FALSE
    OBVIOUS
  <2>2. calls # <<>>
    BY <2>1 DEF Commits, ToSet
  <2>3. QED  BY <1>3, <2>1, <2>2, CommitsBefore DEF OnBlob, Writing, Planned
<1>5. \A t : ~Saves(calls, t) /\ ~Saves(<<>>, t)
  BY <1>3 DEF Saves, Planned
<1>6. \A t : Told(calls, t) = {}
  BY <1>3 DEF Told, ToSet
<1>7. \A t \in Table : IsQuiet(c, calls, t)
  BY <1>2, <1>4, <1>5, <1>6 DEF IsQuiet
<1>8. \A t \in Table : LogIs(t) => LogIs(t)'
  BY <1>2, <1>7, QuietStep
<1>9. \A t \in Table : Manifest(t) \in disturbed => Manifest(t) \in disturbed'
  BY <1>1, Names
<1>10. told'.log = [t \in Table |-> told'.log[t]]
  BY <1>2 DEF LogsAre
<1>11. QED  BY <1>2, <1>3, <1>8, <1>9, <1>10, LogsStep

\* A call that leaves the log of t alone, and so do the calls put in its place.
LEMMA QuietCall ==
    ASSUME RequestsAre, NEW c \in Client, todo[c] # <<>>,
           NEW a, a \in Seq(ToSet(a)), \A x \in ToSet(a) : x[1] \notin {"load", "record"},
           NEW t, ~(todo[c][1][1] = "load" /\ todo[c][1][2] = t),
           disk'[Manifest(t)] = disk[Manifest(t)],
           ~Saves(todo[c], t), ~Saves(a, t), Told(a, t) = {},
           \A d \in Client \ {c} : mem'[d] = mem[d],
           Commits(todo[c], t) => mem'[c].log = mem[c].log,
           told'.log[t] \subseteq told.log[t] \cup Told(todo[c], t)
    PROVE  IsQuiet(c, a \o Tail(todo[c]), t)
<1>1. PICK s, n : s = todo[c] /\ n = a \o Tail(s)
  OBVIOUS
<1>2. IsRequest(s)
  BY <1>1, First
<1>3. /\ Commits(n, t) => Commits(s, t) \/ (s[1][1] = "load" /\ s[1][2] = t)
      /\ Told(n, t) \subseteq Told(s, t) \cup Told(a, t)
      /\ Saves(n, t) => Saves(a, t)
  BY <1>1, <1>2, OnwardIs
<1>4. QED  BY <1>1, <1>3 DEF IsQuiet

\* A call that leaves all the logs alone.
LEMMA PlainLogs ==
    ASSUME RequestsAre, LogsAre, NEW c \in Client, todo[c] # <<>>,
           todo[c][1][1] \notin {"load", "record"},
           NEW a, a \in Seq(ToSet(a)), todo' = [todo EXCEPT ![c] = a \o Tail(todo[c])],
           \A x \in ToSet(a) : x[1] \notin {"load", "record", "report"},
           \A t \in Table : ~Saves(a, t) /\ ~Saves(todo[c], t),
           \A t \in Table : disk'[Manifest(t)] = disk[Manifest(t)],
           \A d \in Client \ {c} : mem'[d] = mem[d], mem'[c].log = mem[c].log,
           told'.log = [t \in Table |-> told'.log[t]],
           \A t \in Table : told'.log[t] \subseteq told.log[t] \cup Told(todo[c], t),
           \A t \in Table : Manifest(t) \in disturbed => Manifest(t) \in disturbed'
    PROVE  LogsAre'
<1>1. \A t \in Table : Told(a, t) = {}
  BY DEF Told, ReportsCommit
<1>2. \A x \in ToSet(a) : x[1] \notin {"load", "record"}
  OBVIOUS
<1>3. \A t \in Table : IsQuiet(c, a \o Tail(todo[c]), t)
  BY <1>1, <1>2, QuietCall
<1>4. \A t \in Table : LogIs(t) => LogIs(t)'
  BY <1>3, QuietStep
<1>5. InTurn(a \o Tail(todo[c]))
  <2>1. IsRequest(todo[c]) /\ InTurn(todo[c])
    BY First DEF LogsAre
  <2>2. QED  BY <2>1, <1>2, OnwardIs
<1>6. QED  BY <1>4, <1>5, LogsStep

\* Pointer files are no manifests.
LEMMA EditPointerLogs ==
    ASSUME RequestsAre, LogsAre, NEW c \in Client, EditPointer(c)
    PROVE  LogsAre'
<1>1. todo[c] # <<>> /\ todo[c][1][1] \in {"put", "del"}
  BY DEF EditPointer, Is, Idle
<1>2. PICK a : /\ todo' = [todo EXCEPT ![c] = a \o Tail(todo[c])]
               /\ a = <<>> \/ \E v : a = << <<"open", todo[c][1][2], v>> >>
  BY DEF EditPointer, Continue
<1>3. a \in Seq(ToSet(a)) /\ \A x \in ToSet(a) : x[1] = "open"
  <2>1. CASE a = <<>>
    BY <2>1, Short
  <2>2. CASE \E v : a = << <<"open", todo[c][1][2], v>> >>
    <3>1. PICK w : a = <<w>> /\ w[1] = "open"
      BY <2>2
    <3>2. QED  BY <3>1, Short
  <2>3. QED  BY <1>2, <2>1, <2>2
<1>4. \A t : ~Saves(a, t) /\ ~Saves(todo[c], t)
  <2>1. a # <<>> => a[1] \in ToSet(a)
    BY <1>3 DEF ToSet
  <2>2. QED  BY <1>1, <1>3, <2>1 DEF Saves
<1>5. disk' = disk /\ mem' = mem /\ told' = told /\ disturbed' = disturbed
  BY DEF EditPointer
<1>6. told'.log = [t \in Table |-> told'.log[t]]
  BY <1>5 DEF LogsAre
<1>7. QED  BY <1>1, <1>2, <1>3, <1>4, <1>5, <1>6, PlainLogs

\* _store_blob leaves the manifests alone.
LEMMA StoreLogs ==
    ASSUME RequestsAre, LogsAre, NEW c \in Client, Store(c)
    PROVE  LogsAre'
<1>1. todo[c] # <<>> /\ todo[c][1][1] = "store"
  BY DEF Store, Is, Idle
<1>2. PICK k, d : k = todo[c][1][3] /\ d = disk[Work(k, todo[c][1][2])]
  OBVIOUS
<1>3. PICK a : /\ todo' = [todo EXCEPT ![c] = a \o Tail(todo[c])]
               /\ a = <<>> \/ a = << <<"open", Blob(d), d>> >>
  BY <1>2 DEF Store, DoFirst
<1>4. a \in Seq(ToSet(a)) /\ \A x \in ToSet(a) : x[1] = "open"
  <2>1. CASE a = <<>>
    BY <2>1, Short
  <2>2. CASE a = << <<"open", Blob(d), d>> >>
    <3>1. PICK w : a = <<w>> /\ w[1] = "open"
      BY <2>2
    <3>2. QED  BY <3>1, Short
  <2>3. QED  BY <1>3, <2>1, <2>2
<1>5. \A t : ~Saves(a, t) /\ ~Saves(todo[c], t)
  <2>1. a # <<>> => a[1] \in ToSet(a)
    BY <1>4 DEF ToSet
  <2>2. QED  BY <1>1, <1>4, <2>1 DEF Saves
<1>6. disk' = disk /\ told' = told /\ disturbed' = disturbed
  BY DEF Store
<1>7. mem'[c].log = mem[c].log /\ \A e \in Client \ {c} : mem'[e] = mem[e]
  <2>1. mem' = mem \/ mem' = [mem EXCEPT ![c].blobs = Put(mem[c].blobs, k, d)]
    BY <1>2 DEF Store
  <2>2. PICK b : b = Put(mem[c].blobs, k, d)
    OBVIOUS
  <2>3. mem = [e \in Client |-> mem[e]] /\ mem[c] = [log |-> mem[c].log, blobs |-> mem[c].blobs]
    BY MemFunction
  <2>4. PICK m : m = [mem[c] EXCEPT !.blobs = b]
    OBVIOUS
  <2>5. m.log = mem[c].log
    <3>1. m = [log |-> mem[c].log, blobs |-> b]
      BY <2>3, <2>4
    <3>2. QED  BY <3>1
  <2>6. mem' = mem \/ mem' = [mem EXCEPT ![c] = m]
    BY <2>1, <2>2, <2>4
  <2>7. QED  BY <2>3, <2>5, <2>6
<1>8. told'.log = [t \in Table |-> told'.log[t]]
  BY <1>6 DEF LogsAre
<1>9. QED  BY <1>1, <1>3, <1>4, <1>5, <1>6, <1>7, <1>8, PlainLogs

\* A manifest is truncated by Record, never opened by itself.
LEMMA OpenLogs ==
    ASSUME DiskIs, RequestsAre, LogsAre, NEW c \in Client, Open(c)
    PROVE  LogsAre'
<1>1. todo[c] # <<>> /\ todo[c][1][1] = "open"
  BY DEF Open, Is, Idle
<1>2. PICK x, w : x = todo[c][1] /\ w = <<"fill", x[2], x[3]>>
  OBVIOUS
<1>3. w[1] = "fill" /\ w[2] = x[2]
  BY <1>2
<1>4. IsWrite(x)
  BY <1>1, <1>2, First DEF IsCall, Writing
<1>5. \A t \in Table : x[2] # Manifest(t)
  BY <1>1, <1>2, <1>4, Written
<1>6. /\ todo' = [todo EXCEPT ![c] = <<w>> \o Tail(todo[c])]
      /\ disk' = [disk EXCEPT ![x[2]] = Torn]
      /\ mem' = mem /\ told' = told /\ \A f : f \in disturbed => f \in disturbed'
  BY <1>2 DEF Open, Continue
<1>7. \A t \in Table : ~Saves(<<w>>, t) /\ ~Saves(todo[c], t)
  BY <1>1, <1>3, <1>5, Single DEF Saves
<1>8. \A t \in Table : disk'[Manifest(t)] = disk[Manifest(t)]
  BY <1>5, <1>6, Files DEF DiskIs
<1>9. <<w>> \in Seq(ToSet(<<w>>)) /\ \A y \in ToSet(<<w>>) : y[1] = "fill"
  BY <1>3, Short
<1>10. told'.log = [t \in Table |-> told'.log[t]]
  BY <1>6 DEF LogsAre
<1>11. QED  BY <1>1, <1>6, <1>7, <1>8, <1>9, <1>10, PlainLogs

\* An output that is removed is no manifest.
LEMMA UnlinkLogs ==
    ASSUME DiskIs, RequestsAre, LogsAre, NEW c \in Client, Unlink(c)
    PROVE  LogsAre'
<1>1. todo[c] # <<>> /\ todo[c][1][1] = "unlink"
  BY DEF Unlink, Is, Idle
<1>2. PICK t, f : t = todo[c][1][2] /\ f = Work("output", t)
  OBVIOUS
<1>3. t \in Built /\ t \in Table
  BY <1>1, <1>2, First DEF IsCall, Planned
<1>4. \A u \in Table : f # Manifest(u)
  BY <1>2, <1>3, Names, TableKinds
<1>5. /\ todo' = [todo EXCEPT ![c] = <<>> \o Tail(todo[c])]
      /\ disk' = [disk EXCEPT ![f] = Absent]
      /\ mem' = mem /\ told' = told /\ \A g : g \in disturbed => g \in disturbed'
  BY <1>2 DEF Unlink, Continue
<1>6. \A u : ~Saves(<<>>, u) /\ ~Saves(todo[c], u)
  BY <1>1 DEF Saves
<1>7. \A u \in Table : disk'[Manifest(u)] = disk[Manifest(u)]
  BY <1>4, <1>5, Files DEF DiskIs
<1>8. <<>> \in Seq(ToSet(<<>>)) /\ ToSet(<<>>) = {}
  BY Short
<1>9. told'.log = [u \in Table |-> told'.log[u]]
  BY <1>5 DEF LogsAre
<1>10. QED  BY <1>1, <1>5, <1>6, <1>7, <1>8, <1>9, PlainLogs

\* A report that was to be made is made.
LEMMA ReportLogs ==
    ASSUME RequestsAre, LogsAre, NEW c \in Client, Report(c)
    PROVE  LogsAre'
<1>1. todo[c] # <<>> /\ todo[c][1][1] = "report"
  BY DEF Report, Is, Idle
<1>2. PICK x, t : x = todo[c][1] /\ t = x[2]
  OBVIOUS
<1>3. /\ todo' = [todo EXCEPT ![c] = <<>> \o Tail(todo[c])]
      /\ disk' = disk /\ mem' = mem /\ disturbed' = disturbed
      /\ told'.log = IF x[4] = "commit" THEN [told.log EXCEPT ![t] = told.log[t] \cup {x[5]}]
                     ELSE told.log
  BY <1>2 DEF Report, Continue
<1>4. \A u : ~Saves(<<>>, u) /\ ~Saves(todo[c], u)
  BY <1>1 DEF Saves
<1>5. <<>> \in Seq(ToSet(<<>>)) /\ ToSet(<<>>) = {}
  BY Short
<1>6. told.log = [u \in Table |-> told.log[u]]
  BY DEF LogsAre
<1>7. told'.log = [u \in Table |-> told'.log[u]]
  <2>1. PICK g : g = told.log
    OBVIOUS
  <2>2. PICK h : h = [g EXCEPT ![t] = g[t] \cup {x[5]}]
    OBVIOUS
  <2>3. h = [u \in Table |-> h[u]] /\ g = [u \in Table |-> g[u]]
    BY <1>6, <2>1, <2>2
  <2>4. QED  BY <1>3, <2>1, <2>2, <2>3
<1>8. \A u \in Table : told'.log[u] \subseteq told.log[u] \cup Told(todo[c], u)
  <2>1. CASE x[4] = "commit"
    <3>1. x[5] \in Told(todo[c], t)
      <4>1. x \in ToSet(todo[c]) /\ ReportsCommit(x)
        BY <1>1, <1>2, <2>1, First DEF ReportsCommit
      <4>2. QED  BY <1>2, <4>1 DEF Told
    <3>2. \A u \in Table : told'.log[u] = IF u = t THEN told.log[u] \cup {x[5]} ELSE told.log[u]
      BY <1>3, <1>6, <2>1
    <3>3. QED  BY <3>1, <3>2
  <2>2. CASE x[4] # "commit"
    BY <1>3, <2>2
  <2>3. QED  BY <2>1, <2>2
<1>9. QED  BY <1>1, <1>3, <1>4, <1>5, <1>7, <1>8, PlainLogs

\* Nothing is left of a request cut short, and a manifest it was writing is disturbed.
LEMMA AbortLogs ==
    ASSUME RequestsAre, LogsAre, NEW c \in Client, Abort(c)
    PROVE  LogsAre'
<1>1. /\ todo' = [todo EXCEPT ![c] = <<>>] /\ disk' = disk /\ told' = told
      /\ mem' = [mem EXCEPT ![c] = NothingRead]
      /\ \A f : f \in disturbed => f \in disturbed'
  BY DEF Abort
<1>2. \A d \in Client \ {c} : mem'[d] = mem[d]
  BY <1>1, MemFunction
<1>3. \A t : ~Commits(<<>>, t) /\ ~Saves(<<>>, t) /\ Told(<<>>, t) = {}
  BY Single DEF Commits, Saves, Told
<1>4. ASSUME NEW t \in Table, Saves(todo[c], t) PROVE Manifest(t) \in disturbed'
  <2>1. todo[c] # <<>> /\ todo[c][1][1] = "fill" /\ todo[c][1][2] = Manifest(t)
    BY <1>4 DEF Saves
  <2>2. todo[c][1] \in Pending(c, {"fill"})
    BY <2>1, First DEF Pending
  <2>3. Manifest(t) \in {x[2] : x \in Pending(c, {"fill"})} \ Pointers
    BY <2>1, <2>2, Names
  <2>4. QED  BY <2>3 DEF Abort
<1>5. ASSUME NEW t \in Table, Manifest(t) \notin disturbed', LogIs(t) PROVE LogIs(t)'
  <2>1. IsQuiet(c, <<>>, t)
    BY <1>1, <1>2, <1>3, <1>4, <1>5 DEF IsQuiet
  <2>2. QED  BY <2>1, <1>1, <1>5, QuietStep
<1>6. InTurn(<<>>)
  BY DEF InTurn
<1>7. told'.log = [t \in Table |-> told'.log[t]]
  BY <1>1 DEF LogsAre
<1>8. QED  BY <1>1, <1>5, <1>6, <1>7, LogsStep

\* A work file that is restored is no manifest.
LEMMA FetchLogs ==
    ASSUME RequestsAre, LogsAre, NEW c \in Client, Fetch(c)
    PROVE  LogsAre'
<1>1. todo[c] # <<>> /\ todo[c][1][1] = "fetch"
  BY DEF Fetch, Is, Idle
<1>2. PICK x, d : x = todo[c][1] /\ d = disk[Blob(x[4].blobs[x[3]])]
  OBVIOUS
<1>3. CASE d = Absent
  BY <1>2, <1>3, AbortLogs DEF Fetch
<1>4. CASE d # Absent
  <2>1. PICK w : w = <<"open", Work(x[3], x[2]), d>>
    OBVIOUS
  <2>2. /\ todo' = [todo EXCEPT ![c] = <<w>> \o Tail(todo[c])]
        /\ disk' = disk /\ mem' = mem /\ told' = told /\ \A f : f \in disturbed => f \in disturbed'
    BY <1>2, <1>4, <2>1 DEF Fetch, Continue
  <2>3. w[1] = "open"
    BY <2>1
  <2>4. \A t : ~Saves(<<w>>, t) /\ ~Saves(todo[c], t)
    BY <1>1, <2>3, Single DEF Saves
  <2>5. <<w>> \in Seq(ToSet(<<w>>)) /\ \A y \in ToSet(<<w>>) : y[1] = "open"
    BY <2>3, Short
  <2>6. told'.log = [t \in Table |-> told'.log[t]]
    BY <2>2 DEF LogsAre
  <2>7. QED  BY <1>1, <2>2, <2>4, <2>5, <2>6, PlainLogs
<1>5. QED  BY <1>3, <1>4

\* A commit reads the log: nobody else is about to write it, or it is disturbed.
LEMMA LoadLogs ==
    ASSUME DiskIs, RequestsAre, LogsAre, NEW c \in Client, Load(c)
    PROVE  LogsAre'
<1>1. todo[c] # <<>> /\ todo[c][1][1] = "load"
  BY DEF Load, Is, Idle
<1>2. PICK s, n, t : s = todo[c] /\ n = <<>> \o Tail(s) /\ t = s[1][2]
  OBVIOUS
<1>3. CASE ~Readable(t)
  BY <1>2, <1>3, AbortLogs DEF Load
<1>4. CASE Readable(t)
  <2>1. /\ todo' = [todo EXCEPT ![c] = n] /\ disk' = disk /\ told' = told
        /\ mem' = [mem EXCEPT ![c] = [log |-> ReadLog(t), blobs |-> EmptyMap]]
        /\ disturbed' = IF Overlaps(c, Manifest(t)) THEN disturbed \cup {Manifest(t)} ELSE disturbed
    BY <1>2, <1>4 DEF Load, Continue
  <2>2. mem'[c].log = ReadLog(t) /\ \A d \in Client \ {c} : mem'[d] = mem[d]
    <3>1. PICK m : m = [log |-> ReadLog(t), blobs |-> EmptyMap]
      OBVIOUS
    <3>2. m.log = ReadLog(t) /\ mem' = [mem EXCEPT ![c] = m] /\ mem = [d \in Client |-> mem[d]]
      BY <2>1, <3>1, MemFunction
    <3>3. QED  BY <3>2
  <2>3. IsRequest(s) /\ InTurn(s) /\ s # <<>> /\ s[1][1] = "load"
    BY <1>1, <1>2, First DEF LogsAre
  <2>4. /\ InTurn(n) /\ \A u : ~Saves(n, u)
        /\ \A u : Told(n, u) \subseteq Told(s, u)
    <3>1. /\ InTurn(s) => InTurn(n)
          /\ \A u : Told(n, u) \subseteq Told(s, u) \cup Told(<<>>, u)
          /\ \A u : Saves(n, u) => Saves(<<>>, u)
      BY <1>2, <2>3, Short, OnwardIs
    <3>2. \A u : Told(<<>>, u) = {} /\ ~Saves(<<>>, u)
      BY Short DEF Told, Saves
    <3>3. QED  BY <2>3, <3>1, <3>2
  <2>5. \A u : ~Saves(s, u) /\ ~Commits(s, u)
    BY <2>3, CommitsBefore DEF Saves, OnBlob, Writing
  <2>6. told'.log = [u \in Table |-> told'.log[u]]
    BY <2>1 DEF LogsAre
  <2>7. ASSUME NEW u \in Table, u # t, LogIs(u) PROVE LogIs(u)'
    <3>1. IsQuiet(c, <<>> \o Tail(todo[c]), u)
      BY <1>1, <1>2, <2>1, <2>2, <2>5, <2>7, Short, QuietCall DEF Saves, Told
    <3>2. QED  BY <3>1, <1>2, <2>1, <2>7, QuietStep
  <2>8. ASSUME t \in Table, Manifest(t) \notin disturbed', LogIs(t) PROVE LogIs(t)'
    <3>1. ~Overlaps(c, Manifest(t))
      BY <2>1, <2>8
    <3>2. ASSUME NEW d \in Client \ {c} PROVE ~Commits(todo[d], t) /\ ~Saves(todo[d], t)
      <4>1. Manifest(t) \notin Using(d)
        BY <3>1 DEF Overlaps
      <4>2. ~Saves(todo[d], t)
        <5>1. SUFFICES ASSUME Saves(todo[d], t) PROVE Manifest(t) \in Using(d)
          BY <4>1
        <5>2. todo[d][1] \in Pending(d, {"open", "fill"})
          BY <5>1, First DEF Saves, Pending
        <5>3. QED  BY <5>1, <5>2 DEF Saves, Using
      <4>3. ~Commits(todo[d], t)
        <5>1. SUFFICES ASSUME Commits(todo[d], t) PROVE Manifest(t) \in Using(d)
          BY <4>1
        <5>2. PICK y \in ToSet(todo[d]) : y[1] = "record" /\ y[2] = t
          BY <5>1 DEF Commits
        <5>3. <<"load", t>> \notin Pending(d, {"load"})
          <6>1. PICK z : z = <<"load", t>>
            OBVIOUS
          <6>2. z[1] = "load" /\ z[2] = t
            BY <6>1
          <6>3. QED  BY <5>1, <6>1, <6>2 DEF Commits, Pending
        <5>4. y \in {z \in Pending(d, {"record"}) : <<"load", z[2]>> \notin Pending(d, {"load"})}
          BY <5>2, <5>3 DEF Pending
        <5>5. QED  BY <5>2, <5>4 DEF Using
      <4>4. QED  BY <4>2, <4>3
    <3>3. todo'[c] = n /\ \A d \in Client \ {c} : todo'[d] = todo[d]
      BY <2>1 DEF RequestsAre
    <3>4. \A d \in Client : ~Saves(todo[d], t) /\ ~Saves(todo'[d], t)
      BY <1>2, <2>4, <2>5, <3>2, <3>3
    <3>5. \A d \in Client \ {c} : ~Commits(todo'[d], t)
      BY <3>2, <3>3
    <3>6. ReadLog(t)' = ReadLog(t) /\ Readable(t)' = Readable(t)
      BY <2>1 DEF ReadLog, Readable
    <3>7. Reported(t)' \subseteq Reported(t)
      <4>1. Reported(t)' \subseteq Reported(t) \cup {}
        BY <1>2, <2>1, <2>4, ReportedStep
      <4>2. QED  BY <4>1
    <3>8. Readable(t) /\ Reported(t) \subseteq ToSet(ReadLog(t))
      BY <2>8, <3>4 DEF LogIs
    <3>9. QED  BY <2>2, <3>4, <3>5, <3>6, <3>7, <3>8 DEF LogIs, Commits, Saves
  <2>9. \A u \in Table : Manifest(u) \notin disturbed' /\ LogIs(u) => LogIs(u)'
    BY <2>7, <2>8
  <2>10. \A u \in Table : Manifest(u) \in disturbed => Manifest(u) \in disturbed'
    BY <2>1
  <2>11. QED  BY <2>1, <2>4, <2>6, <2>9, <2>10, LogsStep
<1>5. QED  BY <1>3, <1>4

\* A commit truncates the manifest, to write what it has read and one more.
LEMMA RecordLogs ==
    ASSUME DiskIs, RequestsAre, LogsAre, NEW c \in Client, Record(c)
    PROVE  LogsAre'
<1>1. todo[c] # <<>> /\ todo[c][1][1] = "record"
  BY DEF Record, Is, Idle
<1>2. PICK t, ps, s, log : /\ t = todo[c][1][2] /\ ps = todo[c][1][3] /\ log = mem[c].log
                           /\ s = [id |-> NextId(mem[c].log), blobs |-> mem[c].blobs]
  OBVIOUS
<1>3. t \in Table
  BY <1>1, <1>2, First DEF IsCall, Planned
<1>4. PICK f, d, g, r : /\ f = <<"fill", Manifest(t), Extended(log, s)>>
                        /\ d = <<"del", HeadFile, t>> /\ g = <<"put", GoldenFile, t, s.id>>
                        /\ r = <<"report", t, ps, "commit", s>>
  OBVIOUS
<1>5. /\ f[1] = "fill" /\ f[2] = Manifest(t) /\ f[3] = Extended(log, s)
      /\ d[1] = "del" /\ g[1] = "put"
      /\ r[1] = "report" /\ r[2] = t /\ r[4] = "commit" /\ r[5] = s
  BY <1>4
<1>6. PICK a : a = <<f, d>> \o (IF GoldenFile \in ps THEN <<g>> ELSE <<>>) \o <<r>>
  OBVIOUS
<1>7. PICK n : n = a \o Tail(todo[c])
  OBVIOUS
<1>8. /\ disk' = [disk EXCEPT ![Manifest(t)] = Torn]
      /\ todo' = [todo EXCEPT ![c] = n]
      /\ mem' = [mem EXCEPT ![c] = NothingRead] /\ disturbed' = disturbed /\ told' = told
  BY <1>2, <1>4, <1>6, <1>7 DEF Record, Continue
<1>9. /\ a \in Seq(ToSet(a)) /\ a # <<>> /\ a[1] = f
      /\ ToSet(a) \subseteq {f, d, g, r}
  <2>1. IsSaving(a, f, d, g, r, ps)
    BY <1>6 DEF IsSaving
  <2>2. QED  BY <2>1, SavingIs
<1>10. /\ \A x \in ToSet(a) : x[1] \notin {"load", "record"}
       /\ \A u : Told(a, u) \subseteq IF u = t THEN {s} ELSE {}
       /\ \A u \in Table : u # t => ~Saves(a, u)
  <2>1. \A x \in ToSet(a) : x[1] \notin {"load", "record"}
    BY <1>5, <1>9
  <2>2. \A x \in ToSet(a) : ReportsCommit(x) => x[2] = t /\ x[5] = s
    BY <1>5, <1>9 DEF ReportsCommit
  <2>3. \A u : Told(a, u) \subseteq IF u = t THEN {s} ELSE {}
    BY <2>2 DEF Told
  <2>4. \A u \in Table : u # t => ~Saves(a, u)
    BY <1>3, <1>5, <1>9, Names DEF Saves
  <2>5. QED  BY <2>1, <2>3, <2>4
<1>11. /\ IsRequest(todo[c]) /\ InTurn(todo[c]) /\ todo[c][1] \in ToSet(todo[c])
       /\ todo[c] \in Seq(ToSet(todo[c]))
  BY <1>1, First DEF LogsAre
<1>12. /\ InTurn(n) /\ ~Commits(n, t)
       /\ \A u : Told(n, u) \subseteq Told(todo[c], u) \cup Told(a, u)
  <2>1. /\ InTurn(todo[c]) => InTurn(n)
        /\ \A u : Commits(n, u) /\ todo[c][1][1] = "record" /\ todo[c][1][2] = u => ~InTurn(todo[c])
        /\ \A u : Told(n, u) \subseteq Told(todo[c], u) \cup Told(a, u)
    BY <1>1, <1>7, <1>9, <1>10, <1>11, OnwardIs
  <2>2. QED  BY <1>1, <1>2, <1>11, <2>1
<1>13. \A e \in Client \ {c} : mem'[e] = mem[e]
  BY <1>8, MemFunction
<1>14. \A u \in Table : disk'[Manifest(u)] = IF u = t THEN Torn ELSE disk[Manifest(u)]
  BY <1>3, <1>8, Files, Names DEF DiskIs
<1>15. ASSUME NEW u \in Table, u # t, LogIs(u) PROVE LogIs(u)'
  <2>1. ~Commits(todo[c], u)
    BY <1>1, <1>2, <1>11, <1>15, CommitsBefore DEF OnBlob, Writing
  <2>2. ~Saves(todo[c], u) /\ Told(a, u) = {}
    BY <1>1, <1>10, <1>15 DEF Saves
  <2>3. IsQuiet(c, a \o Tail(todo[c]), u)
    BY <1>1, <1>8, <1>9, <1>10, <1>13, <1>14, <1>15, <2>1, <2>2, QuietCall
  <2>4. QED  BY <2>3, <1>7, <1>8, <1>15, QuietStep
<1>16. ASSUME LogIs(t) PROVE LogIs(t)'
  <2>1. Commits(todo[c], t)
    <3>1. \A i \in DOMAIN todo[c] : i # 1 => 1 < i /\ 1 \in DOMAIN todo[c]
      BY <1>1, <1>11
    <3>2. \A i \in DOMAIN todo[c] : ~(todo[c][i][1] = "load" /\ todo[c][i][2] = t)
      BY <1>1, <1>2, <1>11, <3>1 DEF InTurn
    <3>3. QED  BY <1>1, <1>2, <1>11, <3>2 DEF Commits, ToSet
  <2>2. /\ \A e \in Client : ~Saves(todo[e], t)
        /\ \A e \in Client \ {c} : ~Commits(todo[e], t)
        /\ log = ReadLog(t)
    BY <1>2, <1>16, <2>1 DEF LogIs
  <2>3. Reported(t) \subseteq ToSet(log)
    BY <1>16, <2>2 DEF LogIs
  <2>4. todo'[c] = n /\ \A e \in Client \ {c} : todo'[e] = todo[e]
    BY <1>8 DEF RequestsAre
  <2>5. n[1] = f
    <3>1. IsContinued(n, a, todo[c], Len(a), Len(todo[c]))
      BY <1>1, <1>7, <1>9, <1>11, Continued
    <3>2. 1 \in 1..Len(a)
      BY <1>9
    <3>3. QED  BY <3>1, <3>2, <1>9 DEF IsContinued
  <2>6. \A e \in Client : ~Commits(todo'[e], t)
    BY <1>12, <2>2, <2>4
  <2>7. \A e \in Client \ {c} : ~Saves(todo'[e], t)
    BY <2>2, <2>4
  <2>8. Saves(todo'[c], t)
    <3>1. n # <<>>
      <4>1. IsContinued(n, a, todo[c], Len(a), Len(todo[c]))
        BY <1>1, <1>7, <1>9, <1>11, Continued
      <4>2. Len(a) # 0 /\ Len(a) \in Nat
        BY <1>9
      <4>3. Len(n) # 0
        BY <4>1, <4>2 DEF IsContinued
      <4>4. QED  BY <4>3
    <3>2. QED  BY <1>5, <2>4, <2>5, <3>1 DEF Saves
  <2>9. Reported(t)' \subseteq ToSet(Extended(log, s))
    <3>1. Reported(t)' \subseteq Reported(t) \cup {s}
      <4>1. told'.log[t] \subseteq told.log[t] \cup Told(todo[c], t)
        BY <1>8
      <4>2. Told(n, t) \subseteq Told(todo[c], t) \cup {s}
        BY <1>10, <1>12
      <4>3. QED  BY <1>8, <4>1, <4>2, ReportedStep
    <3>2. ToSet(log) \cup {s} \subseteq ToSet(Extended(log, s))
      <4>1. log \in Seq(Kept(t)) /\ s \in Kept(t)
        <5>1. Extended(mem[c].log, s) \in Seq(Kept(t)) /\ s \in Kept(t)
          BY <1>1, <1>2, RecordedIsKept
        <5>2. MemIs(c, todo[c][1])
          BY <1>1, <1>11, First DEF RequestsAre, Planned
        <5>3. QED  BY <1>2, <5>1, <5>2 DEF MemIs
      <4>2. PICK e : e = log \o <<s>>
        OBVIOUS
      <4>3. /\ e \in Seq(Kept(t)) /\ Len(e) = Len(log) + 1 /\ e[Len(e)] = s
            /\ \A i \in 1..Len(log) : e[i] = log[i]
        BY <4>1, <4>2, Appended
      <4>4. \A x \in ToSet(log) : x \in ToSet(e)
        <5>1. SUFFICES ASSUME NEW i \in DOMAIN log PROVE log[i] \in ToSet(e)
          BY DEF ToSet
        <5>2. i \in 1..Len(log) /\ i \in DOMAIN e
          BY <4>1, <4>3
        <5>3. e[i] = log[i]
          BY <4>3, <5>2
        <5>4. QED  BY <5>2, <5>3 DEF ToSet
      <4>5. s \in ToSet(e)
        <5>1. Len(e) \in DOMAIN e
          BY <4>1, <4>3
        <5>2. QED  BY <4>3, <5>1 DEF ToSet
      <4>6. e = Extended(log, s)
        BY <4>1, <4>2 DEF Extended
      <4>7. QED  BY <4>4, <4>5, <4>6
    <3>3. QED  BY <2>3, <3>1, <3>2
  <2>10. disk'[Manifest(t)] = Torn /\ todo'[c][1][3] = Extended(log, s)
    BY <1>3, <1>5, <1>14, <2>4, <2>5
  <2>11. QED  BY <2>6, <2>7, <2>8, <2>9, <2>10 DEF LogIs, Commits, Saves
<1>17. \A u \in Table : LogIs(u) => LogIs(u)'
  BY <1>15, <1>16
<1>18. told'.log = [u \in Table |-> told'.log[u]]
  BY <1>8 DEF LogsAre
<1>19. QED  BY <1>8, <1>12, <1>17, <1>18, LogsStep

\* A log is neither a missing nor a truncated file.
LEMMA KeptAreLogs == \A t \in Table : Seq(Kept(t)) \cap {Absent, Torn} = {}
<1>1. PICK T : T = [id : Nat, blobs : PartialMap({"source", "output"}, Content \cup {Torn})]
  OBVIOUS
<1>2. \A t \in Table : Kept(t) \subseteq T
  BY <1>1 DEF Kept, Data
<1>3. \A t \in Table : Seq(Kept(t)) \subseteq Seq(T)
  BY <1>2
<1>4. {Absent, Torn} \cap Seq(T) = {}
  BY <1>1, MarksAreNoContent
<1>5. QED  BY <1>3, <1>4

\* The manifest is written: what it takes the place of nobody has written since.
LEMMA FillLogs ==
    ASSUME DiskIs, RequestsAre, LogsAre, NEW c \in Client, Fill(c)
    PROVE  LogsAre'
<1>1. todo[c] # <<>> /\ todo[c][1][1] = "fill"
  BY DEF Fill, Is, Idle
<1>2. PICK x, n : x = todo[c][1] /\ n = <<>> \o Tail(todo[c])
  OBVIOUS
<1>3. PICK v \in {x[3]} \cup (IF disk[x[2]] \in {Torn, x[3]} THEN {} ELSE {Torn}) :
          disk' = [disk EXCEPT ![x[2]] = v]
  BY <1>2 DEF Fill
<1>4. /\ todo' = [todo EXCEPT ![c] = n]
      /\ mem' = mem /\ told' = told /\ disturbed' = disturbed
  BY <1>2 DEF Fill, Continue
<1>5. IsWrite(x) /\ IsRequest(todo[c]) /\ InTurn(todo[c])
  BY <1>1, <1>2, First DEF IsCall, Writing, LogsAre
<1>6. x[2] \in File /\ \A t \in Table : x[2] = Manifest(t) => x[3] \in Seq(Kept(t))
  BY <1>5, Written
<1>7. /\ InTurn(n) /\ \A t : ~Saves(n, t)
      /\ \A t : Told(n, t) \subseteq Told(todo[c], t)
      /\ \A t : Commits(n, t) => Commits(todo[c], t)
  <2>1. /\ InTurn(todo[c]) => InTurn(n)
        /\ \A t : Told(n, t) \subseteq Told(todo[c], t) \cup Told(<<>>, t)
        /\ \A t : Saves(n, t) => Saves(<<>>, t)
        /\ \A t : Commits(n, t) =>
              Commits(todo[c], t) \/ (todo[c][1][1] = "load" /\ todo[c][1][2] = t)
    BY <1>1, <1>2, <1>5, Short, OnwardIs
  <2>2. \A t : Told(<<>>, t) = {} /\ ~Saves(<<>>, t)
    BY Short DEF Told, Saves
  <2>3. QED  BY <1>1, <1>5, <2>1, <2>2
<1>8. \A t \in Table : disk'[Manifest(t)] = IF x[2] = Manifest(t) THEN v ELSE disk[Manifest(t)]
  BY <1>3, Files DEF DiskIs
<1>9. ASSUME NEW t \in Table, x[2] # Manifest(t), LogIs(t) PROVE LogIs(t)'
  <2>1. ~Saves(todo[c], t) /\ disk'[Manifest(t)] = disk[Manifest(t)]
    BY <1>2, <1>8, <1>9 DEF Saves
  <2>2. IsQuiet(c, n, t)
    BY <1>4, <1>7, <2>1 DEF IsQuiet
  <2>3. QED  BY <1>4, <1>9, <2>2, QuietStep
<1>10. ASSUME NEW t \in Table, x[2] = Manifest(t), LogIs(t) PROVE LogIs(t)'
  <2>1. Saves(todo[c], t)
    BY <1>1, <1>2, <1>10 DEF Saves
  <2>2. /\ disk[Manifest(t)] = Torn /\ Reported(t) \subseteq ToSet(x[3])
        /\ \A d \in Client : ~Commits(todo[d], t)
        /\ \A d \in Client \ {c} : ~Saves(todo[d], t)
    BY <1>2, <1>10, <2>1 DEF LogIs
  <2>3. disk'[Manifest(t)] = x[3]
    BY <1>3, <1>8, <1>10, <2>2
  <2>4. x[3] \notin {Absent, Torn}
    BY <1>6, <1>10, KeptAreLogs
  <2>5. Readable(t)' /\ ReadLog(t)' = x[3]
    BY <2>3, <2>4 DEF Readable, ReadLog
  <2>6. todo'[c] = n /\ \A d \in Client \ {c} : todo'[d] = todo[d]
    BY <1>4 DEF RequestsAre
  <2>7. \A d \in Client : ~Commits(todo'[d], t) /\ ~Saves(todo'[d], t)
    BY <1>7, <2>2, <2>6
  <2>8. Reported(t)' \subseteq Reported(t)
    <3>1. Reported(t)' \subseteq Reported(t) \cup {}
      BY <1>4, <1>7, ReportedStep
    <3>2. QED  BY <3>1
  <2>9. QED  BY <2>2, <2>5, <2>7, <2>8 DEF LogIs, Commits, Saves
<1>11. \A t \in Table : LogIs(t) => LogIs(t)'
  BY <1>9, <1>10
<1>12. told'.log = [t \in Table |-> told'.log[t]]
  BY <1>4 DEF LogsAre
<1>13. QED  BY <1>4, <1>7, <1>11, <1>12, LogsStep

\* The logs of the initial states are the past ones.
LEMMA PastIsThere ==
    ASSUME Init
    PROVE  \A t \in Table : /\ Readable(t) /\ ReadLog(t) = PastLog(t)
                            /\ PastLog(t) \in Seq(Kept(t))
<1>1. \A t \in Table : PastLog(t) \in Seq(Kept(t)) /\ PastLog(t) \notin {Absent, Torn}
  BY PastIsKept, KeptAreLogs
<1>2. \A t \in Table : disk[Manifest(t)] = PastLog(t)
  <2>1. PICK head, golden, work : disk = StoreFiles(head, golden, work)
    BY DEF Init
  <2>2. \A t \in Table : Manifest(t)[1] = "manifest" /\ Manifest(t)[2] = t
    BY DEF Manifest
  <2>3. \A t \in Table : Manifest(t) \in File /\ Manifest(t) \notin Pointers \cup AllWorkFiles
    BY Files, Names
  <2>4. QED  BY <2>1, <2>2, <2>3 DEF StoreFiles, Pointers
<1>3. QED  BY <1>1, <1>2 DEF Readable, ReadLog

\* At first nothing is reported and nobody commits.
LEMMA InitLogs ==
    ASSUME Init
    PROVE  LogsAre
<1>1. todo = [c \in Client |-> <<>>]
  BY DEF Init
<1>2. \A t \in Table : Readable(t) /\ ReadLog(t) = PastLog(t)
  BY PastIsThere
<1>3. told.log = [t \in Table |-> ToSet(PastLog(t))]
  BY DEF Init
<1>4. \A c \in Client : /\ todo[c] = <<>> /\ InTurn(todo[c])
                        /\ \A t : /\ ~Commits(todo[c], t) /\ ~Saves(todo[c], t)
                                  /\ Told(todo[c], t) = {}
  BY <1>1, Short DEF InTurn, Commits, Saves, Told
<1>5. \A t \in Table : Reported(t) \subseteq ToSet(ReadLog(t))
  BY <1>2, <1>3, <1>4 DEF Reported
<1>6. \A t \in Table : LogIs(t)
  BY <1>2, <1>4, <1>5 DEF LogIs
<1>7. told.log = [t \in Table |-> told.log[t]]
  <2>1. PICK g : g = [t \in Table |-> ToSet(PastLog(t))]
    OBVIOUS
  <2>2. g = [t \in Table |-> g[t]]
    BY <2>1
  <2>3. QED  BY <1>3, <2>1, <2>2
<1>8. QED  BY <1>4, <1>6, <1>7 DEF LogsAre

\* Stuttering steps.
LEMMA NothingLogs ==
    ASSUME LogsAre, UNCHANGED vars
    PROVE  LogsAre'
<1>1. todo' = todo /\ disk' = disk /\ mem' = mem /\ told' = told /\ disturbed' = disturbed
  BY DEF vars
<1>2. \A t : /\ Reported(t)' = Reported(t) /\ ReadLog(t)' = ReadLog(t) /\ Readable(t)' = Readable(t)
  BY <1>1 DEF Reported, ReadLog, Readable, Told
<1>3. \A t \in Table : LogIs(t) => LogIs(t)'
  BY <1>1, <1>2 DEF LogIs, Commits, Saves
<1>4. \A c \in Client : InTurn(todo[c])'
  BY <1>1 DEF LogsAre, InTurn
<1>5. QED  BY <1>1, <1>3, <1>4 DEF LogsAre

\* Every step keeps what the logs are.
LEMMA NextLogs ==
    ASSUME DiskIs, RequestsAre, LogsAre, [Next]_vars
    PROVE  LogsAre'
<1>1. CASE \E c \in Client, only \in SUBSET Table, ps \in {{HeadFile}, Pointers} :
               BeginCommit(c, only, ps)
  <2>1. {HeadFile} \in SUBSET Pointers /\ Pointers \in SUBSET Pointers
    BY DEF Pointers
  <2>2. QED  BY <1>1, <2>1, CommitStarts, StartLogs
<1>2. CASE \E c \in Client, t \in Table, i \in Id : BeginRestore(c, t, i)
  BY <1>2, RestoreStarts, StartLogs
<1>3. CASE \E c \in Client, t \in Table, i \in Id : BeginSetGolden(c, t, i)
  BY <1>3, SetGoldenStarts, StartLogs
<1>4. CASE \E c \in Client, t \in Table : BeginClearGolden(c, t)
  BY <1>4, ClearGoldenStarts, StartLogs
<1>5. CASE \E c \in Client : BeginClean(c)
  BY <1>5, CleanStarts, StartLogs
<1>6. CASE \E c \in Client : Load(c) \/ Store(c) \/ Record(c)
  BY <1>6, LoadLogs, StoreLogs, RecordLogs
<1>7. CASE \E c \in Client : Fetch(c) \/ Unlink(c)
  BY <1>7, FetchLogs, UnlinkLogs
<1>8. CASE \E c \in Client : EditPointer(c) \/ Open(c) \/ Fill(c) \/ Report(c)
  BY <1>8, EditPointerLogs, OpenLogs, FillLogs, ReportLogs
<1>9. CASE \E c \in Client : Die(c)
  BY <1>9, AbortLogs DEF Die
<1>10. CASE UNCHANGED vars
  BY <1>10, NothingLogs
<1>11. QED  BY <1>1, <1>2, <1>3, <1>4, <1>5, <1>6, <1>7, <1>8, <1>9, <1>10 DEF Next

\* The invariant gives the property.
LEMMA ReportedAreThere ==
    ASSUME RequestsAre, LogsAre
    PROVE  ReportedCommitsStay
<1>1. SUFFICES ASSUME NEW t \in Table, Manifest(t) \notin disturbed, ~Filling(Manifest(t))
               PROVE  Readable(t) /\ told.log[t] \subseteq ToSet(ReadLog(t))
  BY DEF ReportedCommitsStay
<1>2. LogIs(t)
  BY <1>1 DEF LogsAre
<1>3. ASSUME NEW c \in Client, Saves(todo[c], t) PROVE FALSE
  <2>1. todo[c][1] \in Pending(c, {"fill"}) /\ todo[c][1][2] = Manifest(t)
    BY <1>3, First DEF Saves, Pending
  <2>2. QED  BY <1>1, <2>1 DEF Filling
<1>4. Readable(t) /\ Reported(t) \subseteq ToSet(ReadLog(t))
  BY <1>2, <1>3 DEF LogIs
<1>5. QED  BY <1>4 DEF Reported

\* A snapshot reported to its committer stays in the manifest, unless two commits
\* of the table overlapped or one died while it wrote the manifest.
THEOREM ReportedStay == Spec => []ReportedCommitsStay
<1>1. Init => DiskIs /\ RequestsAre /\ LogsAre
  BY InitIs, InitLogs
<1>2. DiskIs /\ RequestsAre /\ LogsAre /\ [Next]_vars => (DiskIs /\ RequestsAre /\ LogsAre)'
  BY NextKeeps, NextLogs
<1>3. RequestsAre /\ LogsAre => ReportedCommitsStay
  BY ReportedAreThere
<1>4. QED  BY <1>1, <1>2, <1>3, PTL DEF Spec

-----------------------------------------------------------------------------
(* What requests are to report, and what that says of the files.          *)

\* Call x is about table t.
IsAbout(x, t) ==
    \/ x[1] \in Planned \ {"put", "del"} /\ x[2] = t
    \/ x[1] \in {"put", "del"} /\ x[3] = t
    \/ x[1] \in Writing /\ (x[2] = Manifest(t) \/ x[2] \in WorkFiles(t))

\* Call y reports what became of t.
Reports(y, t) == y[1] = "report" /\ y[2] = t

\* What a call x and the report y of the same table in one request have in common.
Fits(x, y) ==
    /\ x[1] = "put" => /\ x[2] \in y[3] /\ y[4] # "clear" /\ y[5].id = x[4]
                       /\ x[2] = HeadFile => y[4] = "restore"
    /\ x[1] = "del" => x[2] \in y[3] /\ y[4] = IF x[2] = HeadFile THEN "commit" ELSE "clear"
    /\ x[1] = "fetch" => y[4] = "restore" /\ y[5] = x[4]
    /\ x[1] = "unlink" => y[4] = "restore" /\ "output" \notin DOMAIN y[5].blobs
    /\ x[1] \in Writing /\ x[2] = Manifest(y[2]) => y[4] = "commit" /\ y[5] = Last(x[3])

\* Calls the report of their table is still ahead of.
Ending == {"load", "store", "record", "report"}

\* The table of x is through with a call x that records or reports it.
Closes(x, y) == x[1] \in {"record", "report"} => ~IsAbout(y, x[2])

\* The calls of a request go with the reports they lead to.
Linked(s) ==
    /\ \A x, y \in ToSet(s) : \A t \in Table : IsAbout(x, t) /\ Reports(y, t) => Fits(x, y)
    /\ \A x \in ToSet(s) : \A t \in Table :
          IsAbout(x, t) /\ x[1] \notin Ending => \E y \in ToSet(s) : Reports(y, t)
    /\ \A x \in ToSet(s) : x[1] = "record" \/ ReportsCommit(x) => HeadFile \in x[3]
    /\ \A x \in ToSet(s) : \A t \in Table : x[1] = "fill" /\ x[2] = Manifest(t) =>
          \E y \in ToSet(s) : y[1] = "del" /\ y[2] = HeadFile /\ y[3] = t
    /\ \A i, j \in DOMAIN s : i < j => Closes(s[i], s[j])

\* Request s is to set pointer f of t, or to report that it has.
Settler(s, f, t) ==
    \E x \in ToSet(s) : x[1] \in {"record", "report"} /\ x[2] = t /\ f \in x[3]

\* Request s has not set pointer f of t yet.
Unset(s, f, t) ==
    \E x \in ToSet(s) : \/ x[1] = "record" /\ x[2] = t /\ f \in x[3]
                        \/ x[1] \in {"put", "del"} /\ x[2] = f /\ x[3] = t

\* Request s is writing file f.
Edits(s, f) == s # <<>> /\ s[1][1] \in Writing /\ s[1][2] = f

\* The reports of t that s is to make about pointer f.
ReportsOf(s, f, t) == {y \in ToSet(s) : Reports(y, t) /\ f \in y[3]}

\* The maps that are in the pointer files, or on their way there.
Marks == PartialMap(Table, Nat)
MarksAreMaps ==
    /\ \A f \in Pointers : disk[f] \in {Absent, Torn} \cup Marks
    /\ \A c \in Client : \A f \in Pointers : Edits(todo[c], f) => todo[c][1][3] \in Marks
    /\ \A c \in Client : \A x \in ToSet(todo[c]) : x[1] = "put" => x[4] \in Nat
    /\ DOMAIN told.head \subseteq Table

\* The ids of a log count its snapshots.
Numbered(l) == \A i \in DOMAIN l : l[i].id = i

\* The log of t, also while it is being saved: what a client that saves it saves.
\* A snapshot is in it.
IsIn(t, s) ==
    IF \E c \in Client : Saves(todo[c], t)
    THEN \E c \in Client : Saves(todo[c], t) /\ s \in ToSet(todo[c][1][3])
    ELSE s \in ToSet(ReadLog(t))

\* The snapshots of t that restores and golden marks go by.
Mentioned(t) ==
    (IF t \in DOMAIN told.golden THEN {told.golden[t]} ELSE {})
    \cup {y[5] : y \in {x \in UNION {ToSet(todo[c]) : c \in Client} :
                            Reports(x, t) /\ x[4] # "clear"}}

\* The log of t counts its snapshots, on the disk or on its way there, and the
\* snapshots that restores and golden marks go by are in it.
LogCounts(t) ==
    /\ Readable(t) => Numbered(ReadLog(t))
    /\ \A c \in Client : Saves(todo[c], t) => Numbered(todo[c][1][3])
    /\ \A s \in Mentioned(t) : IsIn(t, s)

MentionsAre == \A t \in Table : Manifest(t) \notin disturbed => LogCounts(t)

\* The current snapshot of t by the map m.
HeadOf(m, t) ==
    IF t \in DOMAIN m /\ m[t] \in Ids(ReadLog(t)) THEN m[t] ELSE Last(ReadLog(t)).id

\* The map m says of pointer f of t what report y says.
Agrees(f, t, m, y) ==
    IF f = HeadFile THEN HeadOf(m, t) = y[5].id
    ELSE IF y[4] = "clear" THEN t \notin DOMAIN m
    ELSE t \in DOMAIN m /\ m[t] = y[5].id

\* The map m says of pointer f of t what was reported last.
AgreesWithTold(f, t, m) ==
    IF f = HeadFile THEN t \in DOMAIN told.head => HeadOf(m, t) = told.head[t]
    ELSE /\ t \in DOMAIN m <=> t \in DOMAIN told.golden
         /\ t \in DOMAIN m => m[t] = told.golden[t].id

\* The map m holds what is to be reported of pointer f of t, or was reported.
Holds(f, t, m) ==
    /\ \A c \in Client : \A y \in ReportsOf(todo[c], f, t) : Agrees(f, t, m, y)
    /\ (\A c \in Client : ~Settler(todo[c], f, t)) => AgreesWithTold(f, t, m)

\* Nobody is about to set pointer f of t.
IsSet(f, t) == \A c \in Client : ~Unset(todo[c], f, t)

\* Pointer f of t, when neither an overlap nor a death has made it uncertain.
MarkIs(f, t) ==
    /\ \A c, d \in Client : Settler(todo[c], f, t) /\ Settler(todo[d], f, t) => c = d
    /\ IsSet(f, t) =>
          /\ \A c, d \in Client : Edits(todo[c], f) /\ Edits(todo[d], f) => c = d
          /\ \A c \in Client : Edits(todo[c], f) => Holds(f, t, todo[c][1][3])
          /\ \A c \in Client : Fills(todo[c], f) => disk[f] = Torn
          /\ (\A c \in Client : ~Fills(todo[c], f)
                                /\ ~(Edits(todo[c], f) /\ Settler(todo[c], f, t)))
             => Holds(f, t, ReadMap(f))

\* A commit of t that is still to be reported is the last of the log.
CommitIsLast(t) ==
    \A c \in Client : \A y \in ToSet(todo[c]) :
        ReportsCommit(y) /\ y[2] = t /\ ~Saves(todo[c], t) =>
            ReadLog(t) # <<>> /\ Last(ReadLog(t)) = y[5]

LinkedAre == \A c \in Client : Linked(todo[c])

\* The pointers of t.
MarksOf(t) ==
    /\ \A f \in Pointers : <<f, t>> \notin loose => MarkIs(f, t)
    /\ <<HeadFile, t>> \notin loose => CommitIsLast(t)

MarksHold == \A t \in Table : Manifest(t) \notin disturbed => MarksOf(t)

\* The call brings the k of t back, or takes it away.
Touches(x, k, t) ==
    \/ x[1] = "fetch" /\ x[2] = t /\ x[3] = k
    \/ x[1] = "unlink" /\ x[2] = t /\ k = "output"
    \/ x[1] \in Writing /\ x[2] = Work(k, t)

\* The k of the table that y reports as restored, in a request of c.
WorkIs(c, y, k) ==
    LET f == Work(k, y[2]) IN
    /\ (\A x \in ToSet(todo[c]) : ~Touches(x, k, y[2])) =>
          /\ disk[f] = IF k \in DOMAIN y[5].blobs THEN y[5].blobs[k] ELSE Absent
          /\ \A d \in Client : ~Fills(todo[d], f)
    /\ Edits(todo[c], f) => k \in DOMAIN y[5].blobs /\ todo[c][1][3] = y[5].blobs[k]
    /\ Fills(todo[c], f) => disk[f] = Torn /\ \A d \in Client \ {c} : ~Fills(todo[d], f)

WorksAre ==
    \A c \in Client : \A y \in ToSet(todo[c]) : y[1] = "report" /\ y[4] = "restore" =>
        \A k \in Kinds(y[2]) :
            /\ Work(k, y[2]) \notin disturbed
            /\ k \in DOMAIN y[5].blobs => Blob(y[5].blobs[k]) \notin disturbed
            => WorkIs(c, y, k)

-----------------------------------------------------------------------------
(* Calls and the reports they lead to.                                     *)

\* What comes after the first call of s.
Rest(s) == {s[i] : i \in DOMAIN s \ {1}}

\* The calls of a request whose first call gives way to the calls a.
LEMMA Replaced ==
    ASSUME NEW s, s \in Seq(ToSet(s)), s # <<>>, NEW a, a \in Seq(ToSet(a)),
           NEW n, n = a \o Tail(s)
    PROVE  /\ n \in Seq(ToSet(n))
           /\ ToSet(n) = ToSet(a) \cup Rest(s)
           /\ ToSet(s) = {s[1]} \cup Rest(s)
           /\ a # <<>> => n # <<>> /\ n[1] = a[1]
           /\ a = <<>> /\ n # <<>> => n[1] \in Rest(s)
<1>1. PICK l, m : l = Len(a) /\ m = Len(s) /\ IsContinued(n, a, s, l, m)
  BY Continued
<1>2. /\ l \in Nat /\ m \in Nat \ {0}
      /\ n \in Seq(ToSet(n)) /\ DOMAIN n = 1..(l + m - 1) /\ DOMAIN s = 1..m /\ DOMAIN a = 1..l
      /\ \A i \in 1..l : n[i] = a[i]
      /\ \A i \in 2..m : n[l + i - 1] = s[i]
      /\ \A i \in 1..(l + m - 1) : i \notin 1..l => i - l + 1 \in 2..m /\ n[i] = s[i - l + 1]
  BY <1>1 DEF IsContinued
<1>3. Rest(s) = {s[i] : i \in 2..m}
  <2>1. DOMAIN s \ {1} = 2..m
    BY <1>2
  <2>2. QED  BY <2>1 DEF Rest
<1>4. \A i \in DOMAIN n : n[i] \in ToSet(a) \cup Rest(s)
  <2>1. SUFFICES ASSUME NEW i \in DOMAIN n PROVE n[i] \in ToSet(a) \cup Rest(s)
    OBVIOUS
  <2>2. CASE i \in 1..l
    BY <2>2, <1>2 DEF ToSet
  <2>3. CASE i \notin 1..l
    BY <2>3, <1>2, <1>3
  <2>4. QED  BY <2>2, <2>3
<1>5. ToSet(a) \subseteq ToSet(n)
  <2>1. \A i \in 1..l : i \in DOMAIN n
    BY <1>2
  <2>2. QED  BY <1>2, <2>1 DEF ToSet
<1>6. Rest(s) \subseteq ToSet(n)
  <2>1. \A i \in 2..m : l + i - 1 \in DOMAIN n
    BY <1>2
  <2>2. \A i \in 2..m : s[i] \in ToSet(n)
    BY <1>2, <2>1 DEF ToSet
  <2>3. QED  BY <2>2, <1>3
<1>7. ToSet(s) = {s[1]} \cup Rest(s)
  <2>1. 1 \in DOMAIN s
    BY <1>2
  <2>2. QED  BY <2>1 DEF ToSet, Rest
<1>8. ToSet(n) = ToSet(a) \cup Rest(s)
  <2>1. ToSet(n) \subseteq ToSet(a) \cup Rest(s)
    BY <1>4 DEF ToSet
  <2>2. QED  BY <2>1, <1>5, <1>6
<1>9. a # <<>> => n # <<>> /\ n[1] = a[1]
  <2>1. a # <<>> => 1 \in 1..l
    BY <1>1, <1>2
  <2>2. a # <<>> => 1 \in DOMAIN n /\ n[1] = a[1]
    BY <2>1, <1>2
  <2>3. QED  BY <2>2
<1>10. ASSUME a = <<>>, n # <<>> PROVE n[1] \in Rest(s)
  <2>1. 1 \in DOMAIN n
    BY <1>2, <1>10
  <2>2. n[1] \in ToSet(n)
    BY <2>1 DEF ToSet
  <2>3. ToSet(a) = {}
    BY <1>10 DEF ToSet
  <2>4. QED  BY <2>2, <2>3, <1>8
<1>11. QED  BY <1>2, <1>7, <1>8, <1>9, <1>10

\* The calls stay in an order Q when the first gives way to calls a.
LEMMA ReplacedOrder ==
    ASSUME NEW s, s \in Seq(ToSet(s)), s # <<>>, NEW a, a \in Seq(ToSet(a)),
           NEW Q, Ordered(s, Q), Ordered(a, Q),
           \A x \in ToSet(a), y \in Rest(s) : <<x, y>> \in Q
    PROVE  Ordered(a \o Tail(s), Q) /\ \A y \in Rest(s) : <<s[1], y>> \in Q
<1>1. PICK n, l, m : n = a \o Tail(s) /\ l = Len(a) /\ m = Len(s) /\ IsContinued(n, a, s, l, m)
  BY Continued
<1>2. /\ l \in Nat /\ m \in Nat \ {0}
      /\ DOMAIN n = 1..(l + m - 1) /\ DOMAIN s = 1..m /\ DOMAIN a = 1..l
      /\ \A i \in 1..l : n[i] = a[i]
      /\ \A i \in 1..(l + m - 1) : i \notin 1..l => i - l + 1 \in 2..m /\ n[i] = s[i - l + 1]
  BY <1>1 DEF IsContinued
<1>3. \A i \in 2..m : i \in DOMAIN s /\ s[i] \in Rest(s)
  <2>1. \A i \in 2..m : i \in DOMAIN s \ {1}
    BY <1>2
  <2>2. QED  BY <2>1 DEF Rest
<1>4. ASSUME NEW i \in DOMAIN n, NEW j \in DOMAIN n, i < j PROVE <<n[i], n[j]>> \in Q
  <2>1. CASE i \in 1..l /\ j \in 1..l
    BY <2>1, <1>2, <1>4 DEF Ordered
  <2>2. CASE i \in 1..l /\ j \notin 1..l
    <3>1. n[i] \in ToSet(a)
      BY <2>2, <1>2 DEF ToSet
    <3>2. n[j] \in Rest(s)
      BY <2>2, <1>2, <1>3
    <3>3. QED  BY <3>1, <3>2
  <2>3. CASE i \notin 1..l /\ j \notin 1..l
    <3>1. PICK p \in 2..m, q \in 2..m : p = i - l + 1 /\ q = j - l + 1 /\ n[i] = s[p] /\ n[j] = s[q]
      BY <2>3, <1>2
    <3>2. l \in Int /\ i \in Int /\ j \in Int
      BY <1>2
    <3>3. p < q
      BY <3>1, <3>2, <1>4
    <3>4. QED  BY <3>1, <3>3, <1>3 DEF Ordered
  <2>4. i \notin 1..l => j \notin 1..l
    BY <1>2, <1>4
  <2>5. QED  BY <2>1, <2>2, <2>3, <2>4
<1>5. ASSUME NEW i \in DOMAIN s \ {1} PROVE <<s[1], s[i]>> \in Q
  <2>1. 1 \in DOMAIN s /\ 1 < i
    BY <1>2
  <2>2. QED  BY <2>1 DEF Ordered
<1>6. QED  BY <1>1, <1>4, <1>5 DEF Ordered, Rest

\* Only the first call of a request may be half done.
LEMMA RestIsPlanned ==
    ASSUME NEW s, IsRequest(s)
    PROVE  \A y \in Rest(s) : y[1] \in Planned /\ IsCall(y)
BY DEF IsRequest, Rest

\* The first call of c gives way to the calls a.
Goes(c, a) ==
    /\ todo[c] # <<>> /\ a \in Seq(ToSet(a))
    /\ todo' = [todo EXCEPT ![c] = a \o Tail(todo[c])]

\* What the clients are to do after a call of c.
LEMMA GoesOn ==
    ASSUME RequestsAre, NEW c \in Client, NEW a, Goes(c, a)
    PROVE  /\ todo'[c] = a \o Tail(todo[c]) /\ \A d \in Client \ {c} : todo'[d] = todo[d]
           /\ IsRequest(todo[c]) /\ IsCall(todo[c][1]) /\ todo[c][1] \in ToSet(todo[c])
           /\ ToSet(todo'[c]) = ToSet(a) \cup Rest(todo[c])
           /\ ToSet(todo[c]) = {todo[c][1]} \cup Rest(todo[c])
           /\ \A y \in Rest(todo[c]) : y[1] \in Planned /\ IsCall(y)
           /\ a # <<>> => todo'[c] # <<>> /\ todo'[c][1] = a[1]
           /\ a = <<>> /\ todo'[c] # <<>> => todo'[c][1] \in Rest(todo[c])
<1>1. PICK n : n = a \o Tail(todo[c])
  OBVIOUS
<1>2. todo'[c] = n /\ \A d \in Client \ {c} : todo'[d] = todo[d]
  BY <1>1 DEF RequestsAre, Goes
<1>3. /\ IsRequest(todo[c]) /\ IsCall(todo[c][1]) /\ todo[c][1] \in ToSet(todo[c])
      /\ todo[c] \in Seq(ToSet(todo[c]))
  BY First DEF Goes
<1>4. \A y \in Rest(todo[c]) : y[1] \in Planned /\ IsCall(y)
  BY <1>3, RestIsPlanned
<1>5. /\ ToSet(n) = ToSet(a) \cup Rest(todo[c])
      /\ ToSet(todo[c]) = {todo[c][1]} \cup Rest(todo[c])
      /\ a # <<>> => n # <<>> /\ n[1] = a[1]
      /\ a = <<>> /\ n # <<>> => n[1] \in Rest(todo[c])
  BY <1>1, <1>3, Replaced DEF Goes
<1>6. QED  BY <1>1, <1>2, <1>3, <1>4, <1>5

\* The calls a may come in the place of call x: they write what x is about.
Writes(a, x) ==
    \A z \in ToSet(a) :
        /\ z[1] \in Writing /\ \A t \in Table : z[2] # Manifest(t)
        /\ \A t \in Table : z[2] \in WorkFiles(t) => IsAbout(x, t) /\ x[1] \notin Ending

\* A request that writes what its first call is about stays linked.
LEMMA LinkedOn ==
    ASSUME NEW s, IsRequest(s), Linked(s), s # <<>>, NEW a, a \in Seq(ToSet(a)),
           Writes(a, s[1])
    PROVE  Linked(a \o Tail(s))
<1>1. PICK n : n = a \o Tail(s)
  OBVIOUS
<1>2. s \in Seq(ToSet(s))
  BY DEF IsRequest
<1>3. /\ n \in Seq(ToSet(n)) /\ ToSet(n) = ToSet(a) \cup Rest(s) /\ ToSet(s) = {s[1]} \cup Rest(s)
  BY <1>1, <1>2, Replaced
<1>4. \A z \in ToSet(a) : z[1] \notin Planned /\ z[1] \in Writing
  BY DEF Writes, Writing, Planned
<1>5. \A y \in Rest(s) : y[1] \in Planned /\ y[1] \notin Writing
  BY RestIsPlanned DEF Planned, Writing
<1>6. \A t : \A y \in ToSet(n) : Reports(y, t) => y \in Rest(s)
  BY <1>3, <1>4 DEF Reports, Planned
<1>7. ASSUME NEW x \in ToSet(n), NEW y \in ToSet(n), NEW t \in Table, IsAbout(x, t), Reports(y, t)
      PROVE  Fits(x, y)
  <2>1. CASE x \in ToSet(a)
    <3>1. x[1] \in Writing /\ x[2] # Manifest(t) /\ y[2] = t
      BY <2>1, <1>4, <1>7 DEF Writes, Reports
    <3>2. QED  BY <3>1 DEF Fits, Writing
  <2>2. CASE x \in Rest(s)
    BY <2>2, <1>3, <1>6, <1>7 DEF Linked
  <2>3. QED  BY <2>1, <2>2, <1>3
<1>8. ASSUME NEW x \in ToSet(n), NEW t \in Table, IsAbout(x, t), x[1] \notin Ending
      PROVE  \E y \in ToSet(n) : Reports(y, t)
  <2>1. \E z \in ToSet(s) : /\ IsAbout(z, t) /\ z[1] \notin Ending
                            /\ z = s[1] \/ z \in Rest(s)
    <3>1. CASE x \in ToSet(a)
      <4>1. x[2] \in WorkFiles(t)
        BY <3>1, <1>4, <1>8 DEF IsAbout, Writes, Planned, Writing
      <4>2. QED  BY <3>1, <4>1, <1>3 DEF Writes
    <3>2. CASE x \in Rest(s)
      BY <3>2, <1>3, <1>8
    <3>3. QED  BY <3>1, <3>2, <1>3
  <2>2. PICK y \in ToSet(s) : Reports(y, t)
    BY <2>1 DEF Linked
  <2>3. CASE y \in Rest(s)
    BY <2>2, <2>3, <1>3
  <2>4. CASE y = s[1]
    <3>1. PICK z \in Rest(s) : IsAbout(z, t)
      BY <2>1, <2>2, <2>4 DEF Reports, Ending
    <3>2. PICK i \in DOMAIN s \ {1} : z = s[i]
      BY <3>1 DEF Rest
    <3>3. 1 \in DOMAIN s /\ i \in DOMAIN s /\ 1 < i
      BY <1>2, <3>2
    <3>4. Closes(s[1], s[i])
      BY <3>3 DEF Linked
    <3>5. QED  BY <2>2, <2>4, <3>1, <3>2, <3>4 DEF Closes, Reports
  <2>5. QED  BY <2>2, <2>3, <2>4, <1>3
<1>9. \A x \in ToSet(n) : x[1] = "record" \/ ReportsCommit(x) => HeadFile \in x[3]
  <2>1. \A x \in ToSet(a) : ~(x[1] = "record" \/ ReportsCommit(x))
    BY <1>4 DEF ReportsCommit, Planned
  <2>2. QED  BY <2>1, <1>3 DEF Linked
<1>10. \A x \in ToSet(n) : \A t \in Table : ~(x[1] = "fill" /\ x[2] = Manifest(t))
  BY <1>3, <1>5 DEF Writes, Writing
<1>11. \A i, j \in DOMAIN n : i < j => Closes(n[i], n[j])
  <2>1. PICK X, Q : X = ToSet(a) \cup ToSet(s) /\ Q = {p \in X \X X : Closes(p[1], p[2])}
    OBVIOUS
  <2>2. Ordered(s, Q)
    <3>1. SUFFICES ASSUME NEW i \in DOMAIN s, NEW j \in DOMAIN s, i < j
                   PROVE  <<s[i], s[j]>> \in Q
      BY DEF Ordered
    <3>2. s[i] \in X /\ s[j] \in X /\ Closes(s[i], s[j])
      BY <2>1, <3>1 DEF ToSet, Linked
    <3>3. QED  BY <2>1, <3>2
  <2>3. \A x \in ToSet(a), y \in X : <<x, y>> \in Q
    <3>1. \A x \in ToSet(a), y \in X : Closes(x, y)
      BY <1>4 DEF Closes, Planned
    <3>2. QED  BY <2>1, <3>1
  <2>4. Ordered(a, Q)
    <3>1. \A i \in DOMAIN a : a[i] \in ToSet(a) /\ a[i] \in X
      BY <2>1 DEF ToSet
    <3>2. QED  BY <2>3, <3>1 DEF Ordered
  <2>5. \A x \in ToSet(a), y \in Rest(s) : <<x, y>> \in Q
    BY <2>1, <2>3, <1>3
  <2>6. Ordered(n, Q)
    BY <1>1, <1>2, <2>2, <2>4, <2>5, ReplacedOrder
  <2>7. ASSUME NEW i \in DOMAIN n, NEW j \in DOMAIN n, i < j PROVE Closes(n[i], n[j])
    <3>1. PICK p : p = <<n[i], n[j]>>
      OBVIOUS
    <3>2. p \in Q
      BY <2>6, <2>7, <3>1 DEF Ordered
    <3>3. QED  BY <2>1, <3>1, <3>2
  <2>8. QED  BY <2>7
<1>12. Linked(n)
  BY <1>7, <1>8, <1>9, <1>10, <1>11 DEF Linked
<1>13. QED  BY <1>1, <1>12

\* A client without a request is linked.
LEMMA NothingLinked == Linked(<<>>)
<1>1. ToSet(<<>>) = {}
  BY Short
<1>2. DOMAIN <<>> = {}
  OBVIOUS
<1>3. QED  BY <1>1, <1>2 DEF Linked

\* The calls of Record: the log of t is saved as l, the head of t cleared, the
\* new snapshot s marked golden if ps says so, and the commit reported.
SavesLog(x, t, l) == x[1] = "fill" /\ x[2] = Manifest(t) /\ x[3] = l
ClearsHead(x, t) == x[1] = "del" /\ x[2] = HeadFile /\ x[3] = t
MarksGolden(x, t, s) == x[1] = "put" /\ x[2] = GoldenFile /\ x[3] = t /\ x[4] = s.id
Confirms(x, t, ps, s) ==
    x[1] = "report" /\ x[2] = t /\ x[3] = ps /\ x[4] = "commit" /\ x[5] = s

AreSaving(a, t, ps, s, l) ==
    /\ a \in Seq(ToSet(a)) /\ a # <<>> /\ SavesLog(a[1], t, l)
    /\ \A x \in ToSet(a) : \/ SavesLog(x, t, l) \/ ClearsHead(x, t)
                           \/ GoldenFile \in ps /\ MarksGolden(x, t, s)
                           \/ Confirms(x, t, ps, s)
    /\ \A i \in DOMAIN a : i # Len(a) => a[i][1] # "report"
    /\ \E x \in ToSet(a) : ClearsHead(x, t)
    /\ \E x \in ToSet(a) : Confirms(x, t, ps, s)
    /\ GoldenFile \in ps => \E x \in ToSet(a) : MarksGolden(x, t, s)

\* c records s as the last snapshot of the log l of t.
IsRecording(c, a, t, ps, s, l) ==
    /\ Goes(c, a) /\ t \in Table /\ ps \subseteq Pointers
    /\ todo[c][1][1] = "record" /\ todo[c][1][2] = t /\ todo[c][1][3] = ps
    /\ mem[c].log \in Seq(Kept(t)) /\ s \in Kept(t) /\ s.id = NextId(mem[c].log)
    /\ l \in Seq(Kept(t)) /\ Len(l) = Len(mem[c].log) + 1 /\ l[Len(l)] = s
    /\ \A i \in DOMAIN mem[c].log : l[i] = mem[c].log[i]
    /\ AreSaving(a, t, ps, s, l)
    /\ disk' = [disk EXCEPT ![Manifest(t)] = Torn] /\ mem' = [mem EXCEPT ![c] = NothingRead]
    /\ told' = told /\ loose' = loose /\ disturbed' = disturbed

\* Record, with names for what it reads and writes.
LEMMA RecordIs ==
    ASSUME RequestsAre, NEW c \in Client, Record(c)
    PROVE  \E a, t, ps, s, l : IsRecording(c, a, t, ps, s, l)
<1>1. todo[c] # <<>> /\ todo[c][1][1] = "record"
  BY DEF Record, Is, Idle
<1>2. PICK t, ps, s, l : /\ t = todo[c][1][2] /\ ps = todo[c][1][3]
                         /\ s = [id |-> NextId(mem[c].log), blobs |-> mem[c].blobs]
                         /\ l = Extended(mem[c].log, s)
  OBVIOUS
<1>3. t \in Table /\ ps \subseteq Pointers
  BY <1>1, <1>2, First DEF IsCall, Planned
<1>4. s \in Kept(t) /\ l \in Seq(Kept(t))
  BY <1>1, <1>2, RecordedIsKept
<1>5. mem[c].log \in Seq(Kept(t))
  <2>1. PICK x : x = todo[c][1]
    OBVIOUS
  <2>2. x[1] = "record" /\ x \in ToSet(todo[c]) /\ IsNext(todo[c], x)
    BY <1>1, <2>1, First DEF Planned
  <2>3. MemIs(c, x)
    BY <2>2 DEF RequestsAre
  <2>4. QED  BY <1>2, <2>1, <2>3 DEF MemIs
<1>6. Len(l) = Len(mem[c].log) + 1 /\ l[Len(l)] = s
      /\ \A i \in DOMAIN mem[c].log : l[i] = mem[c].log[i]
  BY <1>2, <1>4, <1>5 DEF Extended
<1>7. PICK f, d, g, r, a : /\ f = <<"fill", Manifest(t), l>> /\ d = <<"del", HeadFile, t>>
                           /\ g = <<"put", GoldenFile, t, s.id>>
                           /\ r = <<"report", t, ps, "commit", s>>
                           /\ IsSaving(a, f, d, g, r, ps)
  <2>1. PICK f, d, g, r : /\ f = <<"fill", Manifest(t), l>> /\ d = <<"del", HeadFile, t>>
                          /\ g = <<"put", GoldenFile, t, s.id>>
                          /\ r = <<"report", t, ps, "commit", s>>
    OBVIOUS
  <2>2. \E a : IsSaving(a, f, d, g, r, ps)
    BY DEF IsSaving
  <2>3. QED  BY <2>1, <2>2
<1>8. /\ SavesLog(f, t, l) /\ ClearsHead(d, t) /\ MarksGolden(g, t, s) /\ Confirms(r, t, ps, s)
      /\ f[1] # "report" /\ d[1] # "report" /\ g[1] # "report"
  BY <1>7 DEF SavesLog, ClearsHead, MarksGolden, Confirms
<1>9. AreSaving(a, t, ps, s, l)
  <2>1. /\ a \in Seq(ToSet(a)) /\ a # <<>> /\ a[1] = f /\ r \in ToSet(a)
        /\ ToSet(a) \subseteq {f, d, g, r}
        /\ \A i \in DOMAIN a : i # Len(a) => a[i] \in {f, d, g}
        /\ {f, d} \subseteq ToSet(a)
        /\ GoldenFile \in ps => g \in ToSet(a)
        /\ GoldenFile \notin ps => ToSet(a) \subseteq {f, d, r}
    <3>1. IsSaving(a, f, d, g, r, ps)
      BY <1>7
    <3>2. QED  BY <3>1, SavingIs
  <2>2. \A i \in DOMAIN a : i # Len(a) => a[i][1] # "report"
    BY <2>1, <1>8
  <2>3. QED  BY <2>1, <2>2, <1>8 DEF AreSaving
<1>10. /\ disk' = [disk EXCEPT ![Manifest(t)] = Torn]
       /\ todo' = [todo EXCEPT ![c] = a \o Tail(todo[c])]
       /\ mem' = [mem EXCEPT ![c] = NothingRead] /\ told' = told /\ loose' = loose
       /\ disturbed' = disturbed
  <2>1. a = <<f, d>> \o (IF GoldenFile \in ps THEN <<g>> ELSE <<>>) \o <<r>>
    BY <1>7 DEF IsSaving
  <2>2. QED  BY <1>2, <1>7, <2>1 DEF Record, Continue
<1>11. Goes(c, a)
  BY <1>1, <1>9, <1>10 DEF Goes, AreSaving
<1>12. IsRecording(c, a, t, ps, s, l)
  BY <1>1, <1>2, <1>3, <1>4, <1>5, <1>6, <1>9, <1>10, <1>11 DEF IsRecording
<1>13. QED  BY <1>12

\* A request that records is linked to its report.
LEMMA LinkedRecord ==
    ASSUME RequestsAre, NEW c \in Client, Linked(todo[c]),
           NEW a, NEW t, NEW ps, NEW s, NEW l, IsRecording(c, a, t, ps, s, l)
    PROVE  Linked(todo'[c])
<1>1. PICK n, o : n = todo'[c] /\ o = todo[c]
  OBVIOUS
<1>2. /\ n = a \o Tail(o) /\ IsRequest(o) /\ o # <<>>
      /\ ToSet(n) = ToSet(a) \cup Rest(o) /\ ToSet(o) = {o[1]} \cup Rest(o)
      /\ \A y \in Rest(o) : y[1] \in Planned
      /\ Linked(o) /\ o[1][1] = "record" /\ o[1][2] = t /\ o[1][3] = ps /\ t \in Table
  BY <1>1, GoesOn DEF IsRecording, Goes
<1>3. /\ a \in Seq(ToSet(a)) /\ o \in Seq(ToSet(o)) /\ AreSaving(a, t, ps, s, l)
  BY <1>2 DEF IsRecording, AreSaving, IsRequest
<1>4. PICK X, Q : X = ToSet(a) \cup ToSet(o) /\ Q = {p \in X \X X : Closes(p[1], p[2])}
  OBVIOUS
<1>5. Ordered(o, Q)
  <2>1. SUFFICES ASSUME NEW i \in DOMAIN o, NEW j \in DOMAIN o, i < j
                 PROVE  <<o[i], o[j]>> \in Q
    BY DEF Ordered
  <2>2. o[i] \in X /\ o[j] \in X /\ Closes(o[i], o[j])
    BY <1>2, <1>4, <2>1 DEF ToSet, Linked
  <2>3. QED  BY <1>4, <2>2
<1>6. \A y \in Rest(o) : ~IsAbout(y, t)
  <2>1. SUFFICES ASSUME NEW i \in DOMAIN o \ {1} PROVE ~IsAbout(o[i], t)
    BY DEF Rest
  <2>2. 1 \in DOMAIN o /\ i \in DOMAIN o /\ 1 < i
    BY <1>3
  <2>3. Closes(o[1], o[i])
    BY <1>2, <2>2 DEF Linked
  <2>4. QED  BY <1>2, <2>3 DEF Closes
<1>7. \A x \in ToSet(a) : x[1] \in {"fill", "del", "put", "report"}
  BY <1>3 DEF AreSaving, SavesLog, ClearsHead, MarksGolden, Confirms
<1>8. \A x \in ToSet(a) : \A u \in Table : IsAbout(x, u) => u = t
  <2>1. SUFFICES ASSUME NEW x \in ToSet(a), NEW u \in Table, IsAbout(x, u) PROVE u = t
    OBVIOUS
  <2>2. CASE SavesLog(x, t, l)
    <3>1. x[1] \in Writing /\ x[1] \notin Planned /\ x[2] = Manifest(t)
      BY <2>2 DEF SavesLog, Writing, Planned
    <3>2. Manifest(t) \notin WorkFiles(u)
      BY <1>2, Names DEF AllWorkFiles
    <3>3. Manifest(u) = Manifest(t)
      BY <2>1, <3>1, <3>2 DEF IsAbout, Planned
    <3>4. QED  BY <1>2, <3>3, Names
  <2>3. CASE ClearsHead(x, t)
    BY <2>1, <2>3 DEF IsAbout, ClearsHead, Writing, Planned
  <2>4. CASE MarksGolden(x, t, s)
    BY <2>1, <2>4 DEF IsAbout, MarksGolden, Writing, Planned
  <2>5. CASE Confirms(x, t, ps, s)
    BY <2>1, <2>5 DEF IsAbout, Confirms, Writing, Planned
  <2>6. QED  BY <1>3, <2>2, <2>3, <2>4, <2>5 DEF AreSaving
<1>9. \A y : \A u : Reports(y, u) => IsAbout(y, u)
  BY DEF Reports, IsAbout, Planned
<1>10. HeadFile \in ps
  BY <1>2 DEF Linked
<1>11. ASSUME NEW x \in ToSet(n), NEW y \in ToSet(n), NEW u \in Table, IsAbout(x, u), Reports(y, u)
       PROVE  Fits(x, y)
  <2>1. CASE x \in Rest(o) /\ y \in Rest(o)
    BY <2>1, <1>2, <1>11 DEF Linked
  <2>2. CASE x \in ToSet(a) /\ y \in Rest(o)
    BY <2>2, <1>6, <1>8, <1>9, <1>11
  <2>3. CASE x \in Rest(o) /\ y \in ToSet(a)
    BY <2>3, <1>6, <1>8, <1>9, <1>11
  <2>4. CASE x \in ToSet(a) /\ y \in ToSet(a)
    <3>1. Confirms(y, t, ps, s)
      BY <2>4, <1>3, <1>11 DEF AreSaving, Reports, SavesLog, ClearsHead, MarksGolden
    <3>2. CASE SavesLog(x, t, l)
      <4>1. Last(l) = s
        BY DEF IsRecording, Last
      <4>2. QED  BY <3>1, <3>2, <4>1 DEF Fits, SavesLog, Confirms
    <3>3. CASE ClearsHead(x, t)
      BY <3>1, <3>3, <1>10 DEF Fits, ClearsHead, Confirms, Writing
    <3>4. CASE GoldenFile \in ps /\ MarksGolden(x, t, s)
      BY <3>1, <3>4 DEF Fits, MarksGolden, Confirms, Writing, GoldenFile, HeadFile
    <3>5. CASE Confirms(x, t, ps, s)
      BY <3>5 DEF Fits, Confirms, Writing
    <3>6. QED  BY <2>4, <1>3, <3>2, <3>3, <3>4, <3>5 DEF AreSaving
  <2>5. QED  BY <2>1, <2>2, <2>3, <2>4, <1>2
<1>12. ASSUME NEW x \in ToSet(n), NEW u \in Table, IsAbout(x, u), x[1] \notin Ending
       PROVE  \E y \in ToSet(n) : Reports(y, u)
  <2>1. CASE x \in ToSet(a)
    <3>1. PICK y \in ToSet(a) : Confirms(y, t, ps, s)
      BY <1>3 DEF AreSaving
    <3>2. QED  BY <1>2, <1>8, <1>12, <2>1, <3>1 DEF Confirms, Reports
  <2>2. CASE x \in Rest(o)
    <3>1. PICK y \in ToSet(o) : Reports(y, u)
      BY <2>2, <1>2, <1>12 DEF Linked
    <3>2. y # o[1]
      BY <3>1, <1>2 DEF Reports
    <3>3. QED  BY <3>1, <3>2, <1>2
  <2>3. QED  BY <2>1, <2>2, <1>2
<1>13. \A x \in ToSet(n) : x[1] = "record" \/ ReportsCommit(x) => HeadFile \in x[3]
  <2>1. \A x \in ToSet(a) : x[1] = "record" \/ ReportsCommit(x) => x[3] = ps
    BY <1>3, <1>7 DEF AreSaving, SavesLog, ClearsHead, MarksGolden, Confirms, ReportsCommit
  <2>2. QED  BY <2>1, <1>2, <1>10 DEF Linked
<1>14. ASSUME NEW x \in ToSet(n), NEW u \in Table, x[1] = "fill", x[2] = Manifest(u)
       PROVE  \E y \in ToSet(n) : y[1] = "del" /\ y[2] = HeadFile /\ y[3] = u
  <2>1. x \in ToSet(a)
    BY <1>2, <1>14 DEF Planned
  <2>2. IsAbout(x, u)
    BY <1>14 DEF IsAbout, Writing
  <2>3. PICK y \in ToSet(a) : ClearsHead(y, t)
    BY <1>3 DEF AreSaving
  <2>4. QED  BY <2>1, <2>2, <2>3, <1>2, <1>8 DEF ClearsHead
<1>15. \A x \in ToSet(a), y \in Rest(o) : <<x, y>> \in Q
  <2>1. SUFFICES ASSUME NEW x \in ToSet(a), NEW y \in Rest(o) PROVE Closes(x, y)
    BY <1>2, <1>4
  <2>2. x[1] \in {"record", "report"} => x[2] = t
    BY <1>3, <1>7 DEF AreSaving, SavesLog, ClearsHead, MarksGolden, Confirms
  <2>3. QED  BY <2>2, <1>6 DEF Closes
<1>16. Ordered(a, Q)
  <2>1. SUFFICES ASSUME NEW i \in DOMAIN a, NEW j \in DOMAIN a, i < j
                 PROVE  <<a[i], a[j]>> \in Q
    BY DEF Ordered
  <2>2. a[i] \in X /\ a[j] \in X /\ a[i] \in ToSet(a)
    BY <1>4 DEF ToSet
  <2>3. i # Len(a)
    BY <1>3, <2>1
  <2>4. a[i][1] \notin {"record", "report"}
    BY <2>2, <2>3, <1>3, <1>7 DEF AreSaving
  <2>5. QED  BY <1>4, <2>2, <2>4 DEF Closes
<1>17. Ordered(n, Q)
  BY <1>2, <1>3, <1>5, <1>15, <1>16, ReplacedOrder
<1>18. ASSUME NEW i \in DOMAIN n, NEW j \in DOMAIN n, i < j PROVE Closes(n[i], n[j])
  <2>1. PICK p : p = <<n[i], n[j]>>
    OBVIOUS
  <2>2. p \in Q
    BY <1>17, <1>18, <2>1 DEF Ordered
  <2>3. QED  BY <1>4, <2>1, <2>2
<1>19. Linked(n)
  BY <1>11, <1>12, <1>13, <1>14, <1>18 DEF Linked
<1>20. QED  BY <1>1, <1>19

-----------------------------------------------------------------------------
(* What requests begin with.                                               *)

\* c begins request n, which is to set the pointers in sets: it has them all to
\* set, goes by snapshots of logs that can be read, and touches all the work
\* files that it is to report as restored.
Begins(c, sets, n) ==
    /\ IsStart(n) /\ Linked(n) /\ Begin(c, sets, n)
    /\ \A f \in Pointers, t \in Table : <<f, t>> \in sets <=> Settler(n, f, t)
    /\ \A f \in Pointers, t \in Table : Settler(n, f, t) => Unset(n, f, t)
    /\ \A x \in ToSet(n) : x[1] = "put" => x[4] \in Nat
    /\ \A y \in ToSet(n) : y[1] = "report" /\ y[4] # "clear" =>
          Readable(y[2]) /\ y[5] \in ToSet(ReadLog(y[2]))
    /\ \A y \in ToSet(n) : y[1] = "report" /\ y[4] = "restore" =>
          \A k \in Kinds(y[2]) : \E x \in ToSet(n) : Touches(x, k, y[2])
    /\ \A f \in disturbed : f \in disturbed' \/ \E t \in Table \ BusyOthers(c) : f \in WorkFiles(t)

BeginsRight(c) == \E sets, n : Begins(c, sets, n)

\* What Starts says of the very request that begins.
LEMMA StartIs ==
    ASSUME RequestsAre, NEW c \in Client, Starts(c), NEW sets, NEW n, Begin(c, sets, n)
    PROVE  IsStart(n) /\ n \in Seq(ToSet(n))
<1>1. PICK calls : IsStart(calls) /\ todo' = [todo EXCEPT ![c] = calls]
  BY DEF Starts, Begin
<1>2. todo'[c] = calls
  BY <1>1 DEF RequestsAre
<1>3. todo'[c] = n
  BY DEF RequestsAre, Begin
<1>4. QED  BY <1>1, <1>2, <1>3 DEF IsStart, IsRequest

\* n is a request about t alone, that ends in its report r.
IsAlone(n, t, r) ==
    /\ n \in Seq(ToSet(n)) /\ t \in Table
    /\ \A i \in DOMAIN n : i # Len(n) => n[i][1] \notin {"record", "report"}
    /\ \A x \in ToSet(n) : x[1] \in {"fetch", "unlink", "put", "del", "report"}
    /\ \A x \in ToSet(n) : \A u \in Table : IsAbout(x, u) => u = t
    /\ r \in ToSet(n) /\ Reports(r, t) /\ ~ReportsCommit(r)
    /\ \A x \in ToSet(n) : Fits(x, r) /\ (x[1] = "report" => x = r)

\* A request of a report alone.
LEMMA AloneLinked ==
    ASSUME NEW n, NEW t, NEW r, IsAlone(n, t, r)
    PROVE  Linked(n)
<1>1. \A x, y \in ToSet(n) : \A u \in Table : IsAbout(x, u) /\ Reports(y, u) => Fits(x, y)
  BY DEF IsAlone, Reports
<1>2. \A x \in ToSet(n) : \A u \in Table :
          IsAbout(x, u) /\ x[1] \notin Ending => \E y \in ToSet(n) : Reports(y, u)
  BY DEF IsAlone
<1>3. \A x \in ToSet(n) : ~(x[1] = "record" \/ ReportsCommit(x)) /\ x[1] # "fill"
  BY DEF IsAlone, ReportsCommit
<1>4. ASSUME NEW i \in DOMAIN n, NEW j \in DOMAIN n, i < j PROVE Closes(n[i], n[j])
  <2>1. i # Len(n)
    BY <1>4 DEF IsAlone
  <2>2. QED  BY <2>1 DEF IsAlone, Closes
<1>5. QED  BY <1>1, <1>2, <1>3, <1>4 DEF Linked

\* calls has the calls of some tables, for each table about that table alone.
AreApart(calls) ==
    /\ DOMAIN calls \subseteq Table
    /\ \A t \in DOMAIN calls :
          /\ calls[t] \in Seq(ToSet(calls[t])) /\ Linked(calls[t])
          /\ \A x \in ToSet(calls[t]) : /\ x[1] \in Planned
                                        /\ x[1] \in {"record", "report"} => x[2] = t
                                        /\ \A u \in Table : IsAbout(x, u) => u = t

\* Linked requests about different tables are linked together.
LEMMA ApartLinked ==
    ASSUME NEW calls, AreApart(calls)
    PROVE  /\ Linked(InOrder(calls))
           /\ \A x \in ToSet(InOrder(calls)) : \E t \in DOMAIN calls : x \in ToSet(calls[t])
           /\ \A t \in DOMAIN calls : ToSet(calls[t]) \subseteq ToSet(InOrder(calls))
<1>1. PICK S, Q : /\ S = UNION {ToSet(calls[t]) : t \in DOMAIN calls}
                  /\ Q = {p \in S \X S : Closes(p[1], p[2])}
  OBVIOUS
<1>2. \A t \in DOMAIN calls : /\ ToSet(calls[t]) \subseteq S
                              /\ \A i \in DOMAIN calls[t] : calls[t][i] \in S
  <2>1. \A t \in DOMAIN calls : ToSet(calls[t]) \subseteq S
    BY <1>1
  <2>2. QED  BY <2>1 DEF ToSet
<1>3. AreChains(calls, S, S \X S, Q)
  <2>1. ASSUME NEW t \in DOMAIN calls
        PROVE  calls[t] \in Seq(S) /\ Chain(calls[t], S \X S) /\ Ordered(calls[t], Q)
    <3>1. calls[t] \in Seq(S)
      BY <1>2 DEF AreApart
    <3>2. \A i \in 2..Len(calls[t]) : i \in DOMAIN calls[t] /\ i - 1 \in DOMAIN calls[t]
      BY <3>1
    <3>3. Ordered(calls[t], Q)
      <4>1. SUFFICES ASSUME NEW i \in DOMAIN calls[t], NEW j \in DOMAIN calls[t], i < j
                     PROVE  <<calls[t][i], calls[t][j]>> \in Q
        BY DEF Ordered
      <4>2. Closes(calls[t][i], calls[t][j])
        BY <4>1 DEF AreApart, Linked
      <4>3. QED  BY <1>1, <1>2, <4>2
    <3>4. QED  BY <3>1, <3>2, <3>3, <1>2 DEF Chain
  <2>2. ASSUME NEW t \in DOMAIN calls, NEW u \in DOMAIN calls, t # u,
               NEW x \in ToSet(calls[t]), NEW y \in ToSet(calls[u])
        PROVE  <<x, y>> \in Q
    <3>1. Closes(x, y)
      BY <2>2 DEF AreApart, Closes
    <3>2. QED  BY <3>1, <1>1, <1>2
  <2>3. ASSUME NEW t \in DOMAIN calls, NEW u \in DOMAIN calls, calls[t] # <<>>, calls[u] # <<>>
        PROVE  <<calls[t][Len(calls[t])], calls[u][1]>> \in S \X S
    <3>1. Len(calls[t]) \in DOMAIN calls[t] /\ 1 \in DOMAIN calls[u]
      BY <2>1, <2>3
    <3>2. QED  BY <3>1, <1>2
  <2>4. QED  BY <2>1, <2>2, <2>3 DEF AreChains
<1>4. PICK n : n = InOrder(calls)
  OBVIOUS
<1>5. /\ n \in Seq(S) /\ Ordered(n, Q)
      /\ \A x \in ToSet(n) : \E t \in DOMAIN calls : x \in ToSet(calls[t])
      /\ \A t \in DOMAIN calls : ToSet(calls[t]) \subseteq ToSet(n)
  <2>1. DOMAIN calls \cap Table = DOMAIN calls
    BY DEF AreApart
  <2>2. QED  BY <1>3, <1>4, <2>1, InOrderIs
<1>6. ASSUME NEW x \in ToSet(n), NEW t \in Table, IsAbout(x, t)
      PROVE  t \in DOMAIN calls /\ x \in ToSet(calls[t])
  BY <1>5, <1>6 DEF AreApart
<1>7. \A y, t : Reports(y, t) => IsAbout(y, t)
  BY DEF Reports, IsAbout, Planned
<1>8. \A x, y \in ToSet(n) : \A t \in Table : IsAbout(x, t) /\ Reports(y, t) => Fits(x, y)
  BY <1>6, <1>7 DEF AreApart, Linked
<1>9. \A x \in ToSet(n) : \A t \in Table :
          IsAbout(x, t) /\ x[1] \notin Ending => \E y \in ToSet(n) : Reports(y, t)
  BY <1>5, <1>6 DEF AreApart, Linked
<1>10. \A x \in ToSet(n) : (x[1] = "record" \/ ReportsCommit(x) => HeadFile \in x[3])
                           /\ x[1] # "fill"
  <2>1. \A t \in DOMAIN calls : \A x \in ToSet(calls[t]) :
            (x[1] = "record" \/ ReportsCommit(x) => HeadFile \in x[3]) /\ x[1] # "fill"
    BY DEF AreApart, Linked, Planned
  <2>2. QED  BY <2>1, <1>5
<1>11. ASSUME NEW i \in DOMAIN n, NEW j \in DOMAIN n, i < j PROVE Closes(n[i], n[j])
  <2>1. PICK p : p = <<n[i], n[j]>>
    OBVIOUS
  <2>2. p \in Q
    BY <1>5, <1>11, <2>1 DEF Ordered
  <2>3. QED  BY <1>1, <2>1, <2>2
<1>12. Linked(n)
  BY <1>8, <1>9, <1>10, <1>11 DEF Linked
<1>13. QED  BY <1>4, <1>5, <1>12

\* n, over S, is x and then y.
IsJoin(n, x, y, S) ==
    /\ n \in Seq(S) /\ ToSet(n) = ToSet(x) \cup ToSet(y)
    /\ \A i \in DOMAIN n : i # Len(n) => \/ n[i] \in ToSet(x)
                                         \/ \E j \in DOMAIN y : j # Len(y) /\ n[i] = y[j]

\* Two sequences put together.
LEMMA Joined ==
    ASSUME NEW S, NEW x, x \in Seq(S), NEW y, y \in Seq(S), y # <<>>
    PROVE  IsJoin(x \o y, x, y, S)
<1>1. PICK n, l, m : n = x \o y /\ l = Len(x) /\ m = Len(y)
  OBVIOUS
<1>2. l \in Nat /\ m \in Nat \ {0} /\ DOMAIN x = 1..l /\ DOMAIN y = 1..m
  BY <1>1, EmptySeq
<1>3. /\ n \in Seq(S) /\ Len(n) = l + m
      /\ \A i \in 1..l : n[i] = x[i]
      /\ \A i \in 1..m : n[l + i] = y[i]
  BY <1>1, ConcatProperties
<1>4. DOMAIN n = 1..(l + m)
  BY <1>3
<1>5. \A i \in DOMAIN n : i \notin 1..l => i - l \in 1..m /\ n[i] = y[i - l]
  <2>1. SUFFICES ASSUME NEW i \in DOMAIN n, i \notin 1..l PROVE i - l \in 1..m /\ n[i] = y[i - l]
    OBVIOUS
  <2>2. i - l \in 1..m /\ l + (i - l) = i
    BY <2>1, <1>2, <1>4
  <2>3. QED  BY <2>2, <1>3
<1>6. \A i \in DOMAIN n : i # Len(n) /\ i \notin 1..l => i - l # m
  BY <1>2, <1>3, <1>4
<1>7. \A i \in 1..l : n[i] \in ToSet(x) /\ i \in DOMAIN n
  <2>1. \A i \in 1..l : i \in DOMAIN n
    BY <1>2, <1>4
  <2>2. QED  BY <2>1, <1>2, <1>3 DEF ToSet
<1>8. \A i \in 1..m : l + i \in DOMAIN n
  BY <1>2, <1>4
<1>9. ToSet(n) \subseteq ToSet(x) \cup ToSet(y)
  <2>1. \A i \in DOMAIN n : n[i] \in ToSet(x) \/ n[i] \in ToSet(y)
    BY <1>2, <1>5, <1>7 DEF ToSet
  <2>2. QED  BY <2>1 DEF ToSet
<1>10. ToSet(x) \subseteq ToSet(n) /\ ToSet(y) \subseteq ToSet(n)
  <2>1. \A i \in 1..l : x[i] \in ToSet(n)
    BY <1>3, <1>7 DEF ToSet
  <2>2. \A i \in 1..m : y[i] \in ToSet(n)
    BY <1>3, <1>8 DEF ToSet
  <2>3. QED  BY <2>1, <2>2, <1>2 DEF ToSet
<1>11. ASSUME NEW i \in DOMAIN n, i # Len(n), n[i] \notin ToSet(x)
       PROVE  \E j \in DOMAIN y : j # Len(y) /\ n[i] = y[j]
  <2>1. i \notin 1..l
    BY <1>7, <1>11
  <2>2. i - l \in 1..m /\ n[i] = y[i - l] /\ i - l # m
    BY <2>1, <1>5, <1>6, <1>11
  <2>3. QED  BY <2>2, <1>1, <1>2
<1>12. IsJoin(n, x, y, S)
  BY <1>3, <1>9, <1>10, <1>11 DEF IsJoin
<1>13. QED  BY <1>1, <1>12

\* A request of two calls.
LEMMA TwoCalls ==
    ASSUME NEW p, NEW r, NEW n, n = <<p, r>>
    PROVE  n \in Seq(ToSet(n)) /\ ToSet(n) = {p, r} /\ Len(n) = 2 /\ n[1] = p /\ n[2] = r
<1>1. n \in Seq({p, r}) /\ Len(n) = 2 /\ n[1] = p /\ n[2] = r
  OBVIOUS
<1>2. DOMAIN n = {1, 2}
  BY <1>1
<1>3. QED  BY <1>1, <1>2, InOwnElements DEF ToSet

\* n is a call f, perhaps another, h, and two more.
IsOfThree(n, f, m, h, p, r) ==
    /\ n \in Seq(ToSet(n)) /\ {f, p, r} \subseteq ToSet(n)
    /\ ToSet(n) \subseteq {f, p, r} \cup (IF m = <<>> THEN {} ELSE {h})
    /\ m # <<>> => h \in ToSet(n)
    /\ \A i \in DOMAIN n : i # Len(n) => n[i] \in {f, h, p}

\* The calls of a restore: one first, perhaps one in between, two last.
LEMMA ThreeParts ==
    ASSUME NEW f, NEW m, NEW p, NEW r, NEW h, m = <<>> \/ m = <<h>>
    PROVE  IsOfThree(<<f>> \o m \o <<p, r>>, f, m, h, p, r)
<1> PICK n : n = <<f>> \o m \o <<p, r>>
  OBVIOUS
<1>1. PICK S : S = {f, h, p, r}
  OBVIOUS
<1>2. PICK e, z : e = <<f>> /\ z = <<p, r>>
  OBVIOUS
<1>3. /\ e \in Seq(S) /\ ToSet(e) = {f}
      /\ z \in Seq(S) /\ z # <<>> /\ ToSet(z) = {p, r} /\ DOMAIN z = {1, 2} /\ Len(z) = 2
      /\ z[1] = p
  <2>1. e \in Seq(S) /\ ToSet(e) = {f}
    BY <1>1, <1>2, Single
  <2>2. z \in Seq(S) /\ Len(z) = 2
    BY <1>1, <1>2
  <2>3. z # <<>> /\ DOMAIN z = {1, 2}
    <3>1. DOMAIN z = 1..2 /\ 1..2 = {1, 2}
      BY <2>2
    <3>2. z # <<>>
      BY <2>2
    <3>3. QED  BY <3>1, <3>2
  <2>4. ToSet(z) = {p, r} /\ z[1] = p
    BY <1>2, TwoCalls
  <2>5. QED  BY <2>1, <2>2, <2>3, <2>4
<1>4. m \in Seq(S) /\ (m # <<>> => ToSet(m) = {h}) /\ (m = <<>> => ToSet(m) = {})
  <2>1. CASE m = <<>>
    BY <2>1, Single
  <2>2. CASE m = <<h>>
    BY <1>1, <2>2, Single
  <2>3. QED  BY <2>1, <2>2
<1>5. PICK y : y = e \o m
  OBVIOUS
<1>6. y \in Seq(S) /\ ToSet(y) = {f} \cup ToSet(m)
  <2>1. CASE m = <<>>
    <3>1. y = e
      BY <1>3, <1>5, <2>1
    <3>2. QED  BY <3>1, <2>1, <1>3, <1>4
  <2>2. CASE m # <<>>
    <3>1. IsJoin(e \o m, e, m, S)
      BY <2>2, <1>3, <1>4, Joined
    <3>2. IsJoin(y, e, m, S)
      BY <3>1, <1>5
    <3>3. QED  BY <3>2, <1>3, <2>2, <1>4 DEF IsJoin
  <2>3. QED  BY <2>1, <2>2
<1>7. n = y \o z
  BY <1>2, <1>5
<1>8. /\ n \in Seq(S) /\ ToSet(n) = ToSet(y) \cup ToSet(z)
      /\ \A i \in DOMAIN n : i # Len(n) => \/ n[i] \in ToSet(y)
                                           \/ \E j \in DOMAIN z : j # Len(z) /\ n[i] = z[j]
  <2>1. IsJoin(y \o z, y, z, S)
    BY <1>3, <1>6, Joined
  <2>2. IsJoin(n, y, z, S)
    BY <2>1, <1>7
  <2>3. QED  BY <2>2 DEF IsJoin
<1>9. \A i \in DOMAIN n : i # Len(n) => n[i] \in {f, h, p}
  BY <1>3, <1>4, <1>6, <1>8
<1>10. n \in Seq(ToSet(n))
  BY <1>8, InOwnElements
<1>11. IsOfThree(n, f, m, h, p, r)
  BY <1>3, <1>4, <1>6, <1>8, <1>9, <1>10 DEF IsOfThree
<1>12. QED  BY <1>11

\* Snapshots that GetSnapshot finds are in the log.
LEMMA PickedIsThere ==
    ASSUME NEW t, NEW i, i \in Ids(ReadLog(t))
    PROVE  GetSnapshot(ReadLog(t), i) \in ToSet(ReadLog(t))
<1>1. \E s \in ToSet(ReadLog(t)) : s.id = i
  BY DEF Ids
<1>2. QED  BY <1>1 DEF GetSnapshot

\* restore begins right.
LEMMA RestoreBegins ==
    ASSUME DiskIs, RequestsAre, NEW c \in Client, NEW t \in Table, NEW i, BeginRestore(c, t, i)
    PROVE  BeginsRight(c)
<1>1. PICK s : s = GetSnapshot(ReadLog(t), i)
  OBVIOUS
<1>2. s \in Kept(t) /\ s \in ToSet(ReadLog(t)) /\ Readable(t)
  BY <1>1, PickedIsKept, PickedIsThere DEF BeginRestore
<1>3. PICK f, g, u, p, r : /\ f = <<"fetch", t, "source", s>> /\ g = <<"fetch", t, "output", s>>
                           /\ u = <<"unlink", t>> /\ p = <<"put", HeadFile, t, s.id>>
                           /\ r = <<"report", t, {HeadFile}, "restore", s>>
  OBVIOUS
<1>4. /\ f[1] = "fetch" /\ f[2] = t /\ f[3] = "source" /\ f[4] = s
      /\ g[1] = "fetch" /\ g[2] = t /\ g[3] = "output" /\ g[4] = s
      /\ u[1] = "unlink" /\ u[2] = t
      /\ p[1] = "put" /\ p[2] = HeadFile /\ p[3] = t /\ p[4] = s.id
      /\ r[1] = "report" /\ r[2] = t /\ r[3] = {HeadFile} /\ r[4] = "restore" /\ r[5] = s
  BY <1>3
<1>5. PICK m, h : /\ m = (IF "output" \in DOMAIN s.blobs THEN <<g>>
                          ELSE IF t \in Built THEN <<u>> ELSE <<>>)
                  /\ h = (IF "output" \in DOMAIN s.blobs THEN g ELSE u)
  OBVIOUS
<1>6. PICK n : n = RestoreCalls(t, s) /\ n = <<f>> \o m \o <<p, r>>
  BY <1>3, <1>5 DEF RestoreCalls
<1>7. /\ m = <<>> \/ m = <<h>>
      /\ m = <<>> <=> "output" \notin DOMAIN s.blobs /\ t \notin Built
  <2>1. CASE "output" \in DOMAIN s.blobs
    BY <2>1, <1>5, Single
  <2>2. CASE "output" \notin DOMAIN s.blobs /\ t \in Built
    BY <2>2, <1>5, Single
  <2>3. CASE "output" \notin DOMAIN s.blobs /\ t \notin Built
    BY <2>3, <1>5
  <2>4. QED  BY <2>1, <2>2, <2>3
<1>8. /\ n \in Seq(ToSet(n)) /\ {f, p, r} \subseteq ToSet(n)
      /\ ToSet(n) \subseteq {f, p, r} \cup (IF m = <<>> THEN {} ELSE {h})
      /\ m # <<>> => h \in ToSet(n)
      /\ \A j \in DOMAIN n : j # Len(n) => n[j] \in {f, h, p}
  <2>1. IsOfThree(<<f>> \o m \o <<p, r>>, f, m, h, p, r)
    BY <1>7, ThreeParts
  <2>2. IsOfThree(n, f, m, h, p, r)
    BY <2>1, <1>6
  <2>3. QED  BY <2>2 DEF IsOfThree
<1>9. \A x \in ToSet(n) : x \in {f, p, r} \/ (x = g /\ "output" \in DOMAIN s.blobs)
                          \/ (x = u /\ "output" \notin DOMAIN s.blobs)
  BY <1>5, <1>7, <1>8
<1>10. IsAlone(n, t, r)
  <2>1. \A j \in DOMAIN n : j # Len(n) => n[j][1] \notin {"record", "report"}
    <3>1. \A x \in {f, h, p} : x[1] \notin {"record", "report"}
      BY <1>4, <1>5
    <3>2. QED  BY <1>8, <3>1
  <2>2. \A x \in ToSet(n) : x[1] \in {"fetch", "unlink", "put", "del", "report"}
    BY <1>4, <1>9
  <2>3. \A x \in ToSet(n) : \A v \in Table : IsAbout(x, v) => v = t
    BY <1>4, <1>9 DEF IsAbout, Writing, Planned
  <2>4. Reports(r, t) /\ ~ReportsCommit(r)
    BY <1>4 DEF Reports, ReportsCommit
  <2>5. Fits(f, r) /\ Fits(p, r) /\ Fits(r, r) /\ Fits(g, r)
        /\ ("output" \notin DOMAIN s.blobs => Fits(u, r))
    BY <1>4 DEF Fits, Writing
  <2>6. \A x \in ToSet(n) : Fits(x, r) /\ (x[1] = "report" => x = r)
    BY <2>5, <1>4, <1>9
  <2>7. QED  BY <2>1, <2>2, <2>3, <2>4, <2>6, <1>8 DEF IsAlone
<1>11. Begin(c, {<<HeadFile, t>>}, n)
  BY <1>1, <1>6 DEF BeginRestore
<1>12. IsStart(n) /\ Linked(n)
  BY <1>10, <1>11, RestoreStarts, StartIs, AloneLinked
<1>13. \A q \in Pointers, v \in Table : <<q, v>> \in {<<HeadFile, t>>} <=> Settler(n, q, v)
  <2>1. \A x \in ToSet(n) : x[1] \in {"record", "report"} => x = r
    BY <1>10 DEF IsAlone
  <2>2. QED  BY <2>1, <1>4, <1>8 DEF Settler
<1>14. \A q \in Pointers, v \in Table : Settler(n, q, v) => Unset(n, q, v)
  <2>1. Unset(n, HeadFile, t)
    BY <1>4, <1>8 DEF Unset
  <2>2. QED  BY <2>1, <1>13
<1>15. \A x \in ToSet(n) : x[1] = "put" => x[4] \in Nat
  BY <1>2, <1>4, <1>9 DEF Kept
<1>16. \A y \in ToSet(n) : y[1] = "report" => y = r
  BY <1>10 DEF IsAlone
<1>17. \A k \in Kinds(t) : \E x \in ToSet(n) : Touches(x, k, t)
  <2>1. Touches(f, "source", t) /\ f \in ToSet(n)
    BY <1>4, <1>8 DEF Touches
  <2>2. "output" \in Kinds(t) => t \in Built
    BY TableKinds
  <2>3. "output" \in Kinds(t) => h \in ToSet(n) /\ Touches(h, "output", t)
    BY <2>2, <1>4, <1>5, <1>7, <1>8 DEF Touches
  <2>4. QED  BY <2>1, <2>3, TableKinds
<1>18. \A q \in disturbed : q \in disturbed' \/ \E v \in Table \ BusyOthers(c) : q \in WorkFiles(v)
  BY DEF BeginRestore
<1>19. Begins(c, {<<HeadFile, t>>}, n)
  BY <1>2, <1>4, <1>11, <1>12, <1>13, <1>14, <1>15, <1>16, <1>17, <1>18 DEF Begins
<1>20. QED  BY <1>19 DEF BeginsRight

\* set_golden begins right.
LEMMA SetGoldenBegins ==
    ASSUME DiskIs, RequestsAre, NEW c \in Client, NEW t \in Table, NEW i, BeginSetGolden(c, t, i)
    PROVE  BeginsRight(c)
<1>1. PICK s : s = GetSnapshot(ReadLog(t), i)
  OBVIOUS
<1>2. s \in Kept(t) /\ s \in ToSet(ReadLog(t)) /\ Readable(t)
  BY <1>1, PickedIsKept, PickedIsThere DEF BeginSetGolden
<1>3. s.id = i
  <2>1. \E x \in ToSet(ReadLog(t)) : x.id = i
    BY DEF BeginSetGolden, Ids
  <2>2. QED  BY <2>1, <1>1 DEF GetSnapshot
<1>4. PICK p, r, n : /\ p = <<"put", GoldenFile, t, i>>
                     /\ r = <<"report", t, {GoldenFile}, "set", s>> /\ n = <<p, r>>
  OBVIOUS
<1>5. /\ p[1] = "put" /\ p[2] = GoldenFile /\ p[3] = t /\ p[4] = i
      /\ r[1] = "report" /\ r[2] = t /\ r[3] = {GoldenFile} /\ r[4] = "set" /\ r[5] = s
  BY <1>4
<1>6. n \in Seq(ToSet(n)) /\ ToSet(n) = {p, r} /\ Len(n) = 2 /\ n[1] = p /\ n[2] = r
  BY <1>4, TwoCalls
<1>7. IsAlone(n, t, r)
  <2>1. \A j \in DOMAIN n : j # Len(n) => n[j][1] \notin {"record", "report"}
    BY <1>5, <1>6
  <2>2. \A v \in Table : (IsAbout(p, v) => v = t) /\ (IsAbout(r, v) => v = t)
    BY <1>5 DEF IsAbout, Writing, Planned
  <2>3. Fits(p, r) /\ Fits(r, r)
    BY <1>3, <1>5 DEF Fits, Writing, GoldenFile, HeadFile
  <2>4. QED  BY <2>1, <2>2, <2>3, <1>5, <1>6 DEF IsAlone, Reports, ReportsCommit
<1>8. Begin(c, {<<GoldenFile, t>>}, n) /\ disturbed' = disturbed
  BY <1>1, <1>4 DEF BeginSetGolden
<1>9. IsStart(n) /\ Linked(n)
  BY <1>7, <1>8, SetGoldenStarts, StartIs, AloneLinked
<1>10. \A q \in Pointers, v \in Table : <<q, v>> \in {<<GoldenFile, t>>} <=> Settler(n, q, v)
  BY <1>5, <1>6 DEF Settler
<1>11. \A q \in Pointers, v \in Table : Settler(n, q, v) => Unset(n, q, v)
  <2>1. Unset(n, GoldenFile, t)
    BY <1>5, <1>6 DEF Unset
  <2>2. QED  BY <2>1, <1>10
<1>12. i \in Nat
  BY <1>2, <1>3 DEF Kept
<1>13. Begins(c, {<<GoldenFile, t>>}, n)
  BY <1>2, <1>5, <1>6, <1>8, <1>9, <1>10, <1>11, <1>12 DEF Begins
<1>14. QED  BY <1>13 DEF BeginsRight

\* clear_golden begins right.
LEMMA ClearIsAlone ==
    ASSUME NEW t \in Table
    PROVE  LET n == ClearCalls(t) IN
           /\ n \in Seq(ToSet(n)) /\ Linked(n) /\ n # <<>>
           /\ \A x \in ToSet(n) : \/ x[1] = "del" /\ x[2] = GoldenFile /\ x[3] = t
                                  \/ /\ x[1] = "report" /\ x[2] = t /\ x[3] = {GoldenFile}
                                     /\ x[4] = "clear"
           /\ \E x \in ToSet(n) : x[1] = "del" /\ x[2] = GoldenFile /\ x[3] = t
           /\ \E x \in ToSet(n) : x[1] = "report" /\ x[2] = t /\ x[3] = {GoldenFile}
<1>1. PICK d, r, n : /\ d = <<"del", GoldenFile, t>>
                     /\ r = <<"report", t, {GoldenFile}, "clear">> /\ n = <<d, r>>
  OBVIOUS
<1>2. /\ d[1] = "del" /\ d[2] = GoldenFile /\ d[3] = t
      /\ r[1] = "report" /\ r[2] = t /\ r[3] = {GoldenFile} /\ r[4] = "clear"
  BY <1>1
<1>3. n = ClearCalls(t)
  BY <1>1 DEF ClearCalls
<1>4. n \in Seq(ToSet(n)) /\ ToSet(n) = {d, r} /\ Len(n) = 2 /\ n[1] = d /\ n[2] = r
  BY <1>1, TwoCalls
<1>5. IsAlone(n, t, r)
  <2>1. \A j \in DOMAIN n : j # Len(n) => n[j][1] \notin {"record", "report"}
    BY <1>2, <1>4
  <2>2. \A v \in Table : (IsAbout(d, v) => v = t) /\ (IsAbout(r, v) => v = t)
    BY <1>2 DEF IsAbout, Writing, Planned
  <2>3. Fits(d, r) /\ Fits(r, r)
    BY <1>2 DEF Fits, Writing, GoldenFile, HeadFile
  <2>4. QED  BY <2>1, <2>2, <2>3, <1>2, <1>4 DEF IsAlone, Reports, ReportsCommit
<1>6. Linked(n) /\ n # <<>>
  <2>1. n # <<>>
    BY <1>4
  <2>2. n \in Seq(ToSet(n))
    BY <1>4
  <2>3. QED  BY <2>1, <2>2, <1>5, AloneLinked
<1>7. QED  BY <1>2, <1>3, <1>4, <1>6

\* golden clear begins.
LEMMA ClearGoldenBegins ==
    ASSUME RequestsAre, NEW c \in Client, NEW t \in Table, BeginClearGolden(c, t)
    PROVE  BeginsRight(c)
<1>1. PICK n : n = ClearCalls(t)
  OBVIOUS
<1>2. /\ n \in Seq(ToSet(n)) /\ Linked(n)
      /\ \A x \in ToSet(n) : \/ x[1] = "del" /\ x[2] = GoldenFile /\ x[3] = t
                             \/ /\ x[1] = "report" /\ x[2] = t /\ x[3] = {GoldenFile}
                                /\ x[4] = "clear"
      /\ \E x \in ToSet(n) : x[1] = "del" /\ x[2] = GoldenFile /\ x[3] = t
      /\ \E x \in ToSet(n) : x[1] = "report" /\ x[2] = t /\ x[3] = {GoldenFile}
  BY <1>1, ClearIsAlone
<1>3. Begin(c, {<<GoldenFile, t>>}, n) /\ disturbed' = disturbed
  BY <1>1 DEF BeginClearGolden
<1>4. IsStart(n)
  BY <1>3, ClearGoldenStarts, StartIs
<1>5. \A q \in Pointers, v \in Table : <<q, v>> \in {<<GoldenFile, t>>} <=> Settler(n, q, v)
  BY <1>2 DEF Settler
<1>6. \A q \in Pointers, v \in Table : Settler(n, q, v) => Unset(n, q, v)
  <2>1. Unset(n, GoldenFile, t)
    BY <1>2 DEF Unset
  <2>2. QED  BY <2>1, <1>5
<1>7. Begins(c, {<<GoldenFile, t>>}, n)
  BY <1>2, <1>3, <1>4, <1>5, <1>6 DEF Begins
<1>8. QED  BY <1>7 DEF BeginsRight

\* discard_changes begins right.
LEMMA CleanBegins ==
    ASSUME RequestsAre, NEW c \in Client, BeginClean(c)
    PROVE  BeginsRight(c)
<1>1. PICK there, calls, n : /\ there = Table \cap DOMAIN ReadMap(GoldenFile)
                             /\ calls = [t \in there |-> ClearCalls(t)] /\ n = InOrder(calls)
  OBVIOUS
<1>2. DOMAIN calls = there /\ there \subseteq Table /\ \A t \in there : calls[t] = ClearCalls(t)
  BY <1>1
<1>3. \A t \in there :
          /\ calls[t] \in Seq(ToSet(calls[t])) /\ Linked(calls[t])
          /\ \A x \in ToSet(calls[t]) : \/ x[1] = "del" /\ x[2] = GoldenFile /\ x[3] = t
                                        \/ /\ x[1] = "report" /\ x[2] = t /\ x[3] = {GoldenFile}
                                           /\ x[4] = "clear"
          /\ \E x \in ToSet(calls[t]) : x[1] = "del" /\ x[2] = GoldenFile /\ x[3] = t
          /\ \E x \in ToSet(calls[t]) : x[1] = "report" /\ x[2] = t /\ x[3] = {GoldenFile}
  BY <1>2, ClearIsAlone
<1>4. AreApart(calls)
  <2>1. ASSUME NEW t \in there, NEW x \in ToSet(calls[t])
        PROVE  /\ x[1] \in Planned
               /\ x[1] \in {"record", "report"} => x[2] = t
               /\ \A u \in Table : IsAbout(x, u) => u = t
    <3>1. CASE x[1] = "del" /\ x[2] = GoldenFile /\ x[3] = t
      BY <3>1 DEF Planned, IsAbout, Writing
    <3>2. CASE x[1] = "report" /\ x[2] = t
      BY <3>2 DEF Planned, IsAbout, Writing
    <3>3. QED  BY <3>1, <3>2, <1>3
  <2>2. QED  BY <2>1, <1>2, <1>3 DEF AreApart
<1>5. /\ Linked(n)
      /\ \A x \in ToSet(n) : \E t \in there : x \in ToSet(calls[t])
      /\ \A t \in there : ToSet(calls[t]) \subseteq ToSet(n)
  BY <1>1, <1>2, <1>4, ApartLinked
<1>6. Begin(c, {GoldenFile} \X there, n) /\ disturbed' = disturbed
  BY <1>1 DEF BeginClean
<1>7. IsStart(n)
  BY <1>6, CleanStarts, StartIs
<1>8. \A q \in Pointers, v \in Table : <<q, v>> \in {GoldenFile} \X there <=> Settler(n, q, v)
  <2>1. ASSUME NEW q \in Pointers, NEW v \in Table, q = GoldenFile, v \in there
        PROVE  Settler(n, q, v)
    BY <2>1, <1>3, <1>5 DEF Settler
  <2>2. ASSUME NEW q \in Pointers, NEW v \in Table, Settler(n, q, v)
        PROVE  q = GoldenFile /\ v \in there
    <3>1. PICK x \in ToSet(n) : x[1] \in {"record", "report"} /\ x[2] = v /\ q \in x[3]
      BY <2>2 DEF Settler
    <3>2. PICK t \in there : x \in ToSet(calls[t])
      BY <1>5
    <3>3. x[2] = t /\ x[3] = {GoldenFile}
      BY <3>1, <3>2, <1>3
    <3>4. QED  BY <3>1, <3>2, <3>3
  <2>3. QED  BY <2>1, <2>2
<1>9. \A q \in Pointers, v \in Table : Settler(n, q, v) => Unset(n, q, v)
  <2>1. \A v \in there : Unset(n, GoldenFile, v)
    BY <1>3, <1>5 DEF Unset
  <2>2. QED  BY <2>1, <1>8
<1>10. \A x \in ToSet(n) : x[1] # "put" /\ (x[1] = "report" => x[4] = "clear")
  BY <1>3, <1>5
<1>11. Begins(c, {GoldenFile} \X there, n)
  BY <1>5, <1>6, <1>7, <1>8, <1>9, <1>10 DEF Begins
<1>12. QED  BY <1>11 DEF BeginsRight

\* commit begins right.
LEMMA CommitBegins ==
    ASSUME RequestsAre, NEW c \in Client, NEW only \in SUBSET Table,
           NEW ps \in {{HeadFile}, Pointers}, BeginCommit(c, only, ps)
    PROVE  BeginsRight(c)
<1>1. PICK dirty, calls, n : /\ dirty = {t \in only : IsDirty(t)}
                             /\ calls = [t \in dirty |-> CommitCalls(t, ps)] /\ n = InOrder(calls)
  OBVIOUS
<1>2. /\ DOMAIN calls = dirty /\ dirty \subseteq Table
      /\ \A t \in dirty : calls[t] = CommitCalls(t, ps)
      /\ ps \in SUBSET Pointers /\ HeadFile \in ps
  BY <1>1 DEF Pointers
<1>3. ASSUME NEW t \in dirty
      PROVE  /\ calls[t] \in Seq(ToSet(calls[t])) /\ calls[t] # <<>>
             /\ calls[t][Len(calls[t])] = <<"record", t, ps>>
             /\ \A i \in DOMAIN calls[t] : /\ IsCommitCall(calls[t][i], t)
                                           /\ calls[t][i][1] = "record" => i = Len(calls[t])
  BY <1>2, CommitCallsAre
<1>4. ASSUME NEW t \in dirty
      PROVE  /\ \A x \in ToSet(calls[t]) : x[1] \in {"load", "store", "record"} /\ x[2] = t
             /\ \A x \in ToSet(calls[t]) : x[1] = "record" => x[3] = ps
             /\ \E x \in ToSet(calls[t]) : x[1] = "record" /\ x[2] = t /\ x[3] = ps
  <2>1. PICK q, r : q = calls[t] /\ r = <<"record", t, ps>>
    OBVIOUS
  <2>2. r[1] = "record" /\ r[2] = t /\ r[3] = ps
    BY <2>1
  <2>3. q \in Seq(ToSet(q)) /\ q # <<>> /\ q[Len(q)] = r
        /\ \A i \in DOMAIN q : IsCommitCall(q[i], t) /\ (q[i][1] = "record" => i = Len(q))
    BY <1>3, <2>1
  <2>4. Len(q) \in DOMAIN q
    BY <2>3
  <2>5. r \in ToSet(q)
    BY <2>3, <2>4 DEF ToSet
  <2>6. \A i \in DOMAIN q : /\ q[i][1] \in {"load", "store", "record"} /\ q[i][2] = t
                            /\ q[i][1] = "record" => q[i] = r
    BY <2>3 DEF IsCommitCall
  <2>7. QED  BY <2>1, <2>2, <2>5, <2>6 DEF ToSet
<1>5. ASSUME NEW t \in dirty PROVE Linked(calls[t])
  <2>1. \A x \in ToSet(calls[t]) : x[1] \in Ending /\ x[1] # "report" /\ x[1] # "fill"
    BY <1>4 DEF Ending
  <2>2. ASSUME NEW i \in DOMAIN calls[t], NEW j \in DOMAIN calls[t], i < j
        PROVE  Closes(calls[t][i], calls[t][j])
    <3>1. i # Len(calls[t])
      BY <1>3, <2>2
    <3>2. calls[t][i][1] \notin {"record", "report"}
      BY <3>1, <1>3, <2>1 DEF ToSet
    <3>3. QED  BY <3>2 DEF Closes
  <2>3. QED  BY <1>2, <1>4, <2>1, <2>2 DEF Linked, Reports, ReportsCommit
<1>6. AreApart(calls)
  <2>1. ASSUME NEW t \in dirty, NEW x \in ToSet(calls[t])
        PROVE  /\ x[1] \in Planned
               /\ x[1] \in {"record", "report"} => x[2] = t
               /\ \A u \in Table : IsAbout(x, u) => u = t
    BY <1>4 DEF Planned, IsAbout, Writing
  <2>2. QED  BY <2>1, <1>2, <1>3, <1>5 DEF AreApart
<1>7. /\ Linked(n)
      /\ \A x \in ToSet(n) : \E t \in dirty : x \in ToSet(calls[t])
      /\ \A t \in dirty : ToSet(calls[t]) \subseteq ToSet(n)
  BY <1>1, <1>2, <1>6, ApartLinked
<1>8. Begin(c, ps \X dirty, n) /\ disturbed' = disturbed
  BY <1>1 DEF BeginCommit
<1>9. IsStart(n)
  BY <1>2, <1>8, CommitStarts, StartIs
<1>10. \A q \in Pointers, v \in Table : <<q, v>> \in ps \X dirty <=> Settler(n, q, v)
  <2>1. ASSUME NEW q \in ps, NEW v \in dirty PROVE Settler(n, q, v)
    BY <1>4, <1>7 DEF Settler
  <2>2. ASSUME NEW q \in Pointers, NEW v \in Table, Settler(n, q, v) PROVE q \in ps /\ v \in dirty
    <3>1. PICK x \in ToSet(n) : x[1] \in {"record", "report"} /\ x[2] = v /\ q \in x[3]
      BY <2>2 DEF Settler
    <3>2. PICK t \in dirty : x \in ToSet(calls[t])
      BY <1>7
    <3>3. x[2] = t /\ x[3] = ps
      BY <3>1, <3>2, <1>4
    <3>4. QED  BY <3>1, <3>2, <3>3
  <2>3. QED  BY <2>1, <2>2
<1>11. ASSUME NEW q \in Pointers, NEW v \in Table, Settler(n, q, v) PROVE Unset(n, q, v)
  <2>1. PICK x \in ToSet(n) : x[1] \in {"record", "report"} /\ x[2] = v /\ q \in x[3]
    BY <1>11 DEF Settler
  <2>2. x[1] = "record"
    BY <2>1, <1>4, <1>7
  <2>3. QED  BY <2>1, <2>2 DEF Unset
<1>12. \A x \in ToSet(n) : x[1] # "put" /\ x[1] # "report"
  BY <1>4, <1>7
<1>13. Begins(c, ps \X dirty, n)
  BY <1>7, <1>8, <1>9, <1>10, <1>11, <1>12 DEF Begins
<1>14. QED  BY <1>13 DEF BeginsRight

-----------------------------------------------------------------------------
(* The other steps, and what they do to pointer files and manifests.       *)

\* c goes on with calls that write what its first call is about.
Runs(c, a) ==
    Goes(c, a) /\ Writes(a, todo[c][1]) /\ \A f \in disturbed : f \in disturbed'

\* A step that leaves the pointer files, the manifests and the reports alone.
IsAside(c, a) ==
    /\ Runs(c, a)
    /\ todo[c][1][1] \notin {"record", "report", "put", "del"}
    /\ todo[c][1][1] \in Writing =>
          todo[c][1][2] \notin Pointers /\ \A t \in Table : todo[c][1][2] # Manifest(t)
    /\ \A z \in ToSet(a) : z[2] \notin Pointers
    /\ \A f \in Pointers : disk'[f] = disk[f]
    /\ \A t \in Table : disk'[Manifest(t)] = disk[Manifest(t)]
    /\ told' = told /\ loose' = loose

\* A step that leaves the work files alone.
Spares(c, a) ==
    /\ Runs(c, a)
    /\ \A f \in AllWorkFiles : disk'[f] = disk[f]
    /\ \A z \in ToSet(a) : z[2] \notin AllWorkFiles
    /\ todo[c][1][1] \notin {"fetch", "unlink"}
    /\ todo[c][1][1] \in Writing => todo[c][1][2] \notin AllWorkFiles

\* The calls of c that bring a work file back, or take it away: each is told when
\* another client is at the same table.
IsFetching(c, a) ==
    LET x == todo[c][1]
        f == Work(x[3], x[2])
        d == disk[Blob(x[4].blobs[x[3]])]
    IN /\ Runs(c, a) /\ x[1] = "fetch" /\ disk' = disk
       /\ a # <<>> /\ ToSet(a) = {a[1]} /\ a[1][1] = "open" /\ a[1][2] = f /\ a[1][3] = d
       /\ d # Absent /\ (Filling(Blob(x[4].blobs[x[3]])) => f \in disturbed')

IsUnlinking(c, a) ==
    LET x == todo[c][1]
        f == Work("output", x[2])
    IN /\ Runs(c, a) /\ x[1] = "unlink" /\ a = <<>> /\ disk' = [disk EXCEPT ![f] = Absent]
       /\ x[2] \in BusyOthers(c) => f \in disturbed'

IsOpeningWork(c, a) ==
    LET x == todo[c][1] IN
    /\ Runs(c, a) /\ x[1] = "open" /\ x[2] \in AllWorkFiles
    /\ a # <<>> /\ ToSet(a) = {a[1]} /\ a[1][1] = "fill" /\ a[1][2] = x[2] /\ a[1][3] = x[3]
    /\ disk' = [disk EXCEPT ![x[2]] = Torn]
    /\ x[2][2] \in BusyOthers(c) => x[2] \in disturbed'

IsFillingWork(c, a) ==
    LET x == todo[c][1] IN
    /\ Runs(c, a) /\ x[1] = "fill" /\ x[2] \in AllWorkFiles /\ a = <<>>
    /\ \E v \in {x[3], Torn} : /\ disk[x[2]] = Torn => v = x[3]
                               /\ disk' = [disk EXCEPT ![x[2]] = v]

OnWork(c, a) ==
    Spares(c, a) \/ IsFetching(c, a) \/ IsUnlinking(c, a)
                 \/ IsOpeningWork(c, a) \/ IsFillingWork(c, a)

\* The calls w of c take the place of one that names no file but w does.
LEMMA AsideCall ==
    ASSUME RequestsAre, NEW c \in Client, todo[c] # <<>>,
           NEW a, a = <<>> \/ \E w : a = <<w>> /\ w[1] \in Writing,
           todo' = [todo EXCEPT ![c] = a \o Tail(todo[c])],
           \A z \in ToSet(a) :
              \/ z[2] \in {Blob(d) : d \in Data}
              \/ /\ z[2] \in AllWorkFiles /\ todo[c][1][1] \notin Ending
                 /\ \A t \in Table : z[2] \in WorkFiles(t) => IsAbout(todo[c][1], t),
           todo[c][1][1] \notin {"record", "report", "put", "del"},
           todo[c][1][1] \in Writing =>
              todo[c][1][2] \notin Pointers /\ \A t \in Table : todo[c][1][2] # Manifest(t),
           \A f \in Pointers : disk'[f] = disk[f],
           \A t \in Table : disk'[Manifest(t)] = disk[Manifest(t)],
           told' = told, loose' = loose, \A f \in disturbed : f \in disturbed'
    PROVE  IsAside(c, a)
<1>1. a \in Seq(ToSet(a)) /\ \A z \in ToSet(a) : z[1] \in Writing
  <2>1. CASE a = <<>>
    BY <2>1, Short
  <2>2. CASE a # <<>>
    <3>1. PICK w : a = <<w>> /\ w[1] \in Writing
      BY <2>2
    <3>2. QED  BY <3>1, Short
  <2>3. QED  BY <2>1, <2>2
<1>2. \A t \in Table : WorkFiles(t) \subseteq AllWorkFiles
  BY DEF AllWorkFiles
<1>3. \A z \in ToSet(a) : z[2] \notin Pointers /\ \A t \in Table : z[2] # Manifest(t)
  BY Names
<1>4. \A z \in ToSet(a) : \A t \in Table :
          z[2] \in WorkFiles(t) => IsAbout(todo[c][1], t) /\ todo[c][1][1] \notin Ending
  BY <1>2, Names
<1>5. Writes(a, todo[c][1])
  BY <1>1, <1>3, <1>4 DEF Writes
<1>6. Goes(c, a)
  BY <1>1 DEF Goes
<1>7. QED  BY <1>3, <1>5, <1>6 DEF IsAside, Runs

\* A log that can be read.
LEMMA LoadIsAside ==
    ASSUME DiskIs, RequestsAre, NEW c \in Client, Load(c)
    PROVE  (IsAside(c, <<>>) /\ OnWork(c, <<>>)) \/ Abort(c)
<1>1. todo[c] # <<>> /\ todo[c][1][1] = "load"
  BY DEF Load, Is, Idle
<1>2. CASE ~Readable(todo[c][1][2])
  BY <1>2 DEF Load
<1>3. CASE Readable(todo[c][1][2])
  <2>1. /\ todo' = [todo EXCEPT ![c] = <<>> \o Tail(todo[c])] /\ disk' = disk /\ told' = told
        /\ loose' = loose /\ \A f : f \in disturbed => f \in disturbed'
    BY <1>3 DEF Load, Continue
  <2>2. ToSet(<<>>) = {}
    BY Short
  <2>3. IsAside(c, <<>>)
    BY <1>1, <2>1, <2>2, AsideCall DEF Writing
  <2>4. Spares(c, <<>>)
    BY <1>1, <2>1, <2>2, <2>3 DEF Spares, IsAside, Writing
  <2>5. QED  BY <2>3, <2>4 DEF OnWork
<1>4. QED  BY <1>2, <1>3

\* A work file is read.
LEMMA StoreIsAside ==
    ASSUME DiskIs, RequestsAre, NEW c \in Client, Store(c)
    PROVE  \E a : IsAside(c, a) /\ OnWork(c, a)
<1>1. todo[c] # <<>> /\ todo[c][1][1] = "store"
  BY DEF Store, Is, Idle
<1>2. PICK k, t, d : t = todo[c][1][2] /\ k = todo[c][1][3] /\ d = disk[Work(k, t)]
  OBVIOUS
<1>3. PICK a : /\ todo' = [todo EXCEPT ![c] = a \o Tail(todo[c])]
               /\ a = (IF d # Absent /\ disk[Blob(d)] = Absent
                       THEN << <<"open", Blob(d), d>> >> ELSE <<>>)
  BY <1>2 DEF Store, DoFirst
<1>4. t \in Table /\ k \in Kinds(t)
  BY <1>1, <1>2, First DEF IsCall, Planned
<1>5. d # Absent => d \in Data
  BY <1>2, <1>4, TableKinds DEF DiskIs
<1>6. a = <<>> \/ \E w : a = <<w>> /\ w[1] \in Writing /\ w[2] = Blob(d) /\ d \in Data
  <2>1. PICK w : w = <<"open", Blob(d), d>>
    OBVIOUS
  <2>2. w[1] \in Writing /\ w[2] = Blob(d)
    BY <2>1 DEF Writing
  <2>3. QED  BY <1>3, <1>5, <2>1, <2>2
<1>7. \A z \in ToSet(a) : z[2] \in {Blob(e) : e \in Data}
  <2>1. CASE a = <<>>
    BY <2>1, Short
  <2>2. CASE a # <<>>
    <3>1. PICK w : a = <<w>> /\ w[2] = Blob(d) /\ d \in Data
      BY <2>2, <1>6
    <3>2. ToSet(a) = {w}
      BY <3>1, Short
    <3>3. QED  BY <3>1, <3>2
  <2>3. QED  BY <2>1, <2>2
<1>8. disk' = disk /\ told' = told /\ loose' = loose /\ disturbed' = disturbed
  BY DEF Store
<1>9. a = <<>> \/ \E w : a = <<w>> /\ w[1] \in Writing
  BY <1>6
<1>10. IsAside(c, a)
  BY <1>1, <1>3, <1>7, <1>8, <1>9, AsideCall DEF Writing
<1>11. Spares(c, a)
  BY <1>1, <1>7, <1>8, <1>10, Names DEF Spares, IsAside, Writing
<1>12. QED  BY <1>10, <1>11 DEF OnWork

\* A blob is read.
LEMMA FetchIsAside ==
    ASSUME RequestsAre, NEW c \in Client, Fetch(c)
    PROVE  (\E a : IsAside(c, a) /\ OnWork(c, a)) \/ Abort(c)
<1>1. todo[c] # <<>> /\ todo[c][1][1] = "fetch"
  BY DEF Fetch, Is, Idle
<1>2. PICK x, d : x = todo[c][1] /\ d = disk[Blob(x[4].blobs[x[3]])]
  OBVIOUS
<1>3. CASE d = Absent
  BY <1>2, <1>3 DEF Fetch
<1>4. CASE d # Absent
  <2>1. PICK w, a : w = <<"open", Work(x[3], x[2]), d>> /\ a = <<w>>
    OBVIOUS
  <2>2. /\ todo' = [todo EXCEPT ![c] = a \o Tail(todo[c])] /\ disk' = disk /\ told' = told
        /\ loose' = loose /\ \A f : f \in disturbed => f \in disturbed'
    BY <1>2, <1>4, <2>1 DEF Fetch, Continue
  <2>3. w[1] \in Writing /\ w[2] = Work(x[3], x[2]) /\ ToSet(a) = {w}
    BY <2>1, Short DEF Writing
  <2>4. x[2] \in Table /\ x[3] \in Kinds(x[2])
    BY <1>1, <1>2, First DEF IsCall, Planned, Kept
  <2>5. \A t \in Table : w[2] \in WorkFiles(t) => t = x[2]
    BY <2>3, Names DEF WorkFiles
  <2>6. x[1] \notin Ending /\ IsAbout(x, x[2]) /\ w[2] \in AllWorkFiles
    BY <1>1, <1>2, <2>3, <2>4, Names DEF Ending, IsAbout, Planned
  <2>7. \A z \in ToSet(a) : /\ z[2] \in AllWorkFiles /\ todo[c][1][1] \notin Ending
                            /\ \A t \in Table : z[2] \in WorkFiles(t) => IsAbout(todo[c][1], t)
    BY <1>2, <2>3, <2>5, <2>6
  <2>8. a = <<>> \/ \E z : a = <<z>> /\ z[1] \in Writing
    BY <2>1, <2>3
  <2>9. IsAside(c, a)
    BY <1>1, <2>2, <2>7, <2>8, AsideCall DEF Writing
  <2>10. Filling(Blob(x[4].blobs[x[3]])) => Work(x[3], x[2]) \in disturbed'
    BY <1>2, <1>4 DEF Fetch
  <2>11. a # <<>> /\ a[1] = w /\ w[1] = "open" /\ w[3] = d
    BY <2>1, Single
  <2>12. IsFetching(c, a)
    BY <1>1, <1>2, <1>4, <2>2, <2>3, <2>9, <2>10, <2>11 DEF IsFetching, IsAside
  <2>13. QED  BY <2>9, <2>12 DEF OnWork
<1>5. QED  BY <1>3, <1>4

\* An output is removed.
LEMMA UnlinkIsAside ==
    ASSUME DiskIs, RequestsAre, NEW c \in Client, Unlink(c)
    PROVE  IsAside(c, <<>>) /\ OnWork(c, <<>>)
<1>1. todo[c] # <<>> /\ todo[c][1][1] = "unlink"
  BY DEF Unlink, Is, Idle
<1>2. PICK t, f : t = todo[c][1][2] /\ f = Work("output", t)
  OBVIOUS
<1>3. t \in Built /\ t \in Table
  BY <1>1, <1>2, First DEF IsCall, Planned
<1>4. f \in AllWorkFiles /\ \A u \in Table : f # Manifest(u)
  BY <1>2, <1>3, Names, TableKinds
<1>5. /\ todo' = [todo EXCEPT ![c] = <<>> \o Tail(todo[c])]
      /\ disk' = [disk EXCEPT ![f] = Absent]
      /\ told' = told /\ loose' = loose /\ \A g : g \in disturbed => g \in disturbed'
  BY <1>2 DEF Unlink, Continue
<1>6. (\A u \in Table : disk'[Manifest(u)] = disk[Manifest(u)])
      /\ \A g \in Pointers : disk'[g] = disk[g]
  BY <1>4, <1>5, Files, Names DEF DiskIs
<1>7. ToSet(<<>>) = {}
  BY Short
<1>8. IsAside(c, <<>>)
  BY <1>1, <1>5, <1>6, <1>7, AsideCall DEF Writing
<1>9. t \in BusyOthers(c) => f \in disturbed'
  BY <1>2 DEF Unlink
<1>10. IsUnlinking(c, <<>>)
  BY <1>1, <1>2, <1>5, <1>8, <1>9 DEF IsUnlinking, IsAside
<1>11. QED  BY <1>8, <1>10 DEF OnWork

\* c opens pointer file g, to write m.
IsOpening(c, a, g, m) ==
    /\ Runs(c, a) /\ g \in Pointers
    /\ todo[c][1][1] = "open" /\ todo[c][1][2] = g /\ todo[c][1][3] = m
    /\ a # <<>> /\ ToSet(a) = {a[1]} /\ a[1][1] = "fill" /\ a[1][2] = g /\ a[1][3] = m
    /\ disk' = [disk EXCEPT ![g] = Torn]
    /\ told' = told /\ loose' = loose

\* A file is opened: a pointer file or one that is aside.
LEMMA OpenIs ==
    ASSUME DiskIs, RequestsAre, NEW c \in Client, Open(c)
    PROVE  \E a : (IsAside(c, a) /\ OnWork(c, a)) \/ \E g, m : IsOpening(c, a, g, m)
<1>1. todo[c] # <<>> /\ todo[c][1][1] = "open"
  BY DEF Open, Is, Idle
<1>2. PICK x, w, a : x = todo[c][1] /\ w = <<"fill", x[2], x[3]>> /\ a = <<w>>
  OBVIOUS
<1>3. w[1] = "fill" /\ w[2] = x[2] /\ w[3] = x[3] /\ ToSet(a) = {w} /\ a # <<>> /\ a[1] = w
      /\ a \in Seq(ToSet(a))
  BY <1>2, Short
<1>4. IsWrite(x)
  BY <1>1, <1>2, First DEF IsCall, Writing
<1>5. \A t \in Table : x[2] # Manifest(t)
  BY <1>1, <1>2, <1>4, Written
<1>6. /\ todo' = [todo EXCEPT ![c] = a \o Tail(todo[c])]
      /\ disk' = [disk EXCEPT ![x[2]] = Torn]
      /\ told' = told /\ loose' = loose /\ \A f : f \in disturbed => f \in disturbed'
  BY <1>2 DEF Open, Continue
<1>7. CASE x[2] \in Pointers
  <2>1. \A t \in Table : x[2] \notin WorkFiles(t)
    BY <1>7, Names DEF AllWorkFiles
  <2>2. Writes(a, x)
    BY <1>3, <1>5, <2>1 DEF Writes, Writing
  <2>3. Goes(c, a)
    BY <1>1, <1>3, <1>6 DEF Goes
  <2>4. IsOpening(c, a, x[2], x[3])
    BY <1>1, <1>2, <1>3, <1>6, <1>7, <2>2, <2>3 DEF IsOpening, Runs
  <2>5. QED  BY <2>4
<1>8. CASE x[2] \notin Pointers
  <2>1. x[2] \in {Blob(d) : d \in Data} \/ x[2] \in AllWorkFiles
    BY <1>1, <1>2, <1>4, <1>5, <1>8, Names DEF IsWrite
  <2>2. \A t \in Table : x[2] \in WorkFiles(t) => IsAbout(x, t)
    BY <1>1, <1>2 DEF IsAbout, Writing
  <2>3. x[1] \notin Ending
    BY <1>1, <1>2 DEF Ending
  <2>4. /\ \A f \in Pointers : disk'[f] = disk[f]
        /\ \A t \in Table : disk'[Manifest(t)] = disk[Manifest(t)]
    BY <1>5, <1>6, <1>8, Files DEF DiskIs
  <2>5. a = <<>> \/ \E z : a = <<z>> /\ z[1] \in Writing
    BY <1>2, <1>3 DEF Writing
  <2>6. \A z \in ToSet(a) :
              \/ z[2] \in {Blob(d) : d \in Data}
              \/ /\ z[2] \in AllWorkFiles /\ todo[c][1][1] \notin Ending
                 /\ \A t \in Table : z[2] \in WorkFiles(t) => IsAbout(todo[c][1], t)
    BY <1>2, <1>3, <2>1, <2>2, <2>3
  <2>7. todo[c][1][1] \notin {"record", "report", "put", "del"} /\ todo[c][1][2] \notin Pointers
        /\ \A t \in Table : todo[c][1][2] # Manifest(t)
    BY <1>1, <1>2, <1>5, <1>8
  <2>8. IsAside(c, a)
    BY <1>1, <1>6, <2>4, <2>5, <2>6, <2>7, AsideCall
  <2>9. CASE x[2] \in AllWorkFiles
    <3>1. x[2][2] \in BusyOthers(c) => x[2] \in disturbed'
      BY <1>2, <2>9 DEF Open
    <3>2. IsOpeningWork(c, a)
      BY <1>1, <1>2, <1>3, <1>6, <2>8, <2>9, <3>1 DEF IsOpeningWork, IsAside
    <3>3. QED  BY <2>8, <3>2 DEF OnWork
  <2>10. CASE x[2] \notin AllWorkFiles
    <3>1. \A f \in AllWorkFiles : disk'[f] = disk[f]
      BY <1>6, <2>10, Files DEF DiskIs
    <3>2. Spares(c, a)
      BY <1>1, <1>2, <1>3, <2>8, <2>10, <3>1 DEF Spares, IsAside
    <3>3. QED  BY <2>8, <3>2 DEF OnWork
  <2>11. QED  BY <2>9, <2>10
<1>9. QED  BY <1>7, <1>8

\* c fills file g, a pointer file or a manifest, with m, or v is what it leaves.
IsFilling(c, g, m, v) ==
    /\ Runs(c, <<>>) /\ g \in Pointers \cup {Manifest(t) : t \in Table}
    /\ todo[c][1][1] = "fill" /\ todo[c][1][2] = g /\ todo[c][1][3] = m
    /\ v \in {m, Torn} /\ (disk[g] = Torn => v = m)
    /\ disk' = [disk EXCEPT ![g] = v]
    /\ told' = told /\ loose' = loose /\ disturbed' = disturbed

\* A file is filled: a pointer file, a manifest or one that is aside.
LEMMA FillIs ==
    ASSUME DiskIs, RequestsAre, NEW c \in Client, Fill(c)
    PROVE  (IsAside(c, <<>>) /\ OnWork(c, <<>>)) \/ \E g, m, v : IsFilling(c, g, m, v)
<1>1. todo[c] # <<>> /\ todo[c][1][1] = "fill"
  BY DEF Fill, Is, Idle
<1>2. PICK x : x = todo[c][1]
  OBVIOUS
<1>3. PICK v \in {x[3]} \cup (IF disk[x[2]] \in {Torn, x[3]} THEN {} ELSE {Torn}) :
          disk' = [disk EXCEPT ![x[2]] = v]
  BY <1>2 DEF Fill
<1>4. /\ todo' = [todo EXCEPT ![c] = <<>> \o Tail(todo[c])]
      /\ told' = told /\ loose' = loose /\ disturbed' = disturbed
  BY <1>2 DEF Fill, Continue
<1>5. <<>> \in Seq(ToSet(<<>>)) /\ ToSet(<<>>) = {}
  BY Short
<1>6. CASE x[2] \in Pointers \cup {Manifest(t) : t \in Table}
  <2>1. Runs(c, <<>>)
    BY <1>1, <1>4, <1>5 DEF Runs, Goes, Writes
  <2>2. v \in {x[3], Torn} /\ (disk[x[2]] = Torn => v = x[3])
    BY <1>3
  <2>3. IsFilling(c, x[2], x[3], v)
    BY <1>1, <1>2, <1>3, <1>4, <1>6, <2>1, <2>2 DEF IsFilling
  <2>4. QED  BY <2>3
<1>7. CASE x[2] \notin Pointers \cup {Manifest(t) : t \in Table}
  <2>1. /\ \A f \in Pointers : disk'[f] = disk[f]
        /\ \A t \in Table : disk'[Manifest(t)] = disk[Manifest(t)]
    BY <1>3, <1>7, Files DEF DiskIs
  <2>2. IsAside(c, <<>>)
    BY <1>1, <1>2, <1>4, <1>5, <1>7, <2>1, AsideCall
  <2>3. CASE x[2] \in AllWorkFiles
    <3>1. v \in {x[3], Torn} /\ (disk[x[2]] = Torn => v = x[3])
      BY <1>3
    <3>2. IsFillingWork(c, <<>>)
      BY <1>1, <1>2, <1>3, <2>2, <2>3, <3>1 DEF IsFillingWork, IsAside
    <3>3. QED  BY <2>2, <3>2 DEF OnWork
  <2>4. CASE x[2] \notin AllWorkFiles
    <3>1. \A f \in AllWorkFiles : disk'[f] = disk[f]
      BY <1>3, <2>4, Files DEF DiskIs
    <3>2. Spares(c, <<>>)
      BY <1>1, <1>2, <1>5, <2>2, <2>4, <3>1 DEF Spares, IsAside
    <3>3. QED  BY <2>2, <3>2 DEF OnWork
  <2>5. QED  BY <2>3, <2>4
<1>8. QED  BY <1>6, <1>7

\* c makes its next report, y.
IsReporting(c, y) ==
    /\ Runs(c, <<>>) /\ y = todo[c][1] /\ y[1] = "report"
    /\ disk' = disk /\ loose' = loose /\ disturbed' = disturbed
    /\ told'.head = IF HeadFile \in y[3] THEN Put(told.head, y[2], y[5].id) ELSE told.head
    /\ told'.golden = IF GoldenFile \notin y[3] THEN told.golden
                      ELSE IF y[4] = "clear" THEN Drop(told.golden, {y[2]})
                      ELSE Put(told.golden, y[2], y[5])

\* A client reports.
LEMMA ReportIs ==
    ASSUME NEW c \in Client, Report(c)
    PROVE  IsReporting(c, todo[c][1])
<1>1. todo[c] # <<>> /\ todo[c][1][1] = "report"
  BY DEF Report, Is, Idle
<1>2. PICK y : y = todo[c][1]
  OBVIOUS
<1>3. <<>> \in Seq(ToSet(<<>>)) /\ ToSet(<<>>) = {}
  BY Short
<1>4. /\ todo' = [todo EXCEPT ![c] = <<>> \o Tail(todo[c])]
      /\ disk' = disk /\ loose' = loose /\ disturbed' = disturbed
  BY DEF Report, Continue
<1>5. Runs(c, <<>>)
  BY <1>1, <1>3, <1>4 DEF Runs, Goes, Writes
<1>6. /\ told'.head = IF HeadFile \in y[3] THEN Put(told.head, y[2], y[5].id) ELSE told.head
      /\ told'.golden = IF GoldenFile \notin y[3] THEN told.golden
                        ELSE IF y[4] = "clear" THEN Drop(told.golden, {y[2]})
                        ELSE Put(told.golden, y[2], y[5])
  BY <1>2 DEF Report
<1>7. QED  BY <1>1, <1>2, <1>4, <1>5, <1>6 DEF IsReporting

\* c reads pointer file g to set or to remove the entry of t, and is to write m,
\* or m is what is there already.
IsEditing(c, a, g, t, m) ==
    /\ Runs(c, a) /\ todo[c][1][2] = g /\ todo[c][1][3] = t /\ g \in Pointers /\ t \in Table
    /\ \/ todo[c][1][1] = "put" /\ m = Put(ReadMap(g), t, todo[c][1][4]) /\ a # <<>>
       \/ todo[c][1][1] = "del" /\ m = Drop(ReadMap(g), {t})
       \/ todo[c][1][1] = "del" /\ m = ReadMap(g) /\ t \notin DOMAIN m /\ a = <<>>
    /\ a # <<>> => ToSet(a) = {a[1]} /\ a[1][1] = "open" /\ a[1][2] = g /\ a[1][3] = m
    /\ a = <<>> => m = ReadMap(g)
    /\ disk' = disk /\ told' = told /\ disturbed' = disturbed
    /\ loose' = IF Overlaps(c, g) THEN loose \cup ({g} \X Table) ELSE loose

\* An entry of a pointer file is put in or taken out.
LEMMA EditPointerIs ==
    ASSUME RequestsAre, NEW c \in Client, EditPointer(c)
    PROVE  \E a, g, t, m : IsEditing(c, a, g, t, m)
<1>1. todo[c] # <<>> /\ todo[c][1][1] \in {"put", "del"}
  BY DEF EditPointer, Is, Idle
<1>2. PICK x, g, t, map : x = todo[c][1] /\ g = x[2] /\ t = x[3] /\ map = ReadMap(g)
  OBVIOUS
<1>3. g \in Pointers /\ t \in Table
  BY <1>1, <1>2, First DEF IsCall
<1>4. PICK m, a : /\ m = (IF x[1] = "put" THEN Put(map, t, x[4])
                          ELSE IF t \in DOMAIN map THEN Drop(map, {t}) ELSE map)
                  /\ a = (IF x[1] = "put" \/ t \in DOMAIN map THEN << <<"open", g, m>> >> ELSE <<>>)
  OBVIOUS
<1>5. /\ todo' = [todo EXCEPT ![c] = a \o Tail(todo[c])]
      /\ disk' = disk /\ told' = told /\ disturbed' = disturbed
      /\ loose' = IF Overlaps(c, g) THEN loose \cup ({g} \X Table) ELSE loose
  <2>1. a = IF x[1] = "put" THEN << <<"open", x[2], Pointed(map, x[3], x[4])>> >>
            ELSE IF x[3] \in DOMAIN map THEN << <<"open", x[2], Cleared(map, x[3])>> >>
            ELSE <<>>
    BY <1>2, <1>4 DEF Pointed, Cleared
  <2>2. QED  BY <1>2, <2>1 DEF EditPointer, Continue
<1>6. a = <<>> \/ /\ a # <<>> /\ ToSet(a) = {a[1]}
                  /\ a[1][1] = "open" /\ a[1][2] = g /\ a[1][3] = m
  <2>1. PICK w : w = <<"open", g, m>>
    OBVIOUS
  <2>2. w[1] = "open" /\ w[2] = g /\ w[3] = m
    BY <2>1
  <2>3. a = <<>> \/ a = <<w>>
    BY <1>4, <2>1
  <2>4. QED  BY <2>2, <2>3, Single
<1>7. a \in Seq(ToSet(a)) /\ \A z \in ToSet(a) : z[1] = "open" /\ z[2] = g
  <2>1. CASE a = <<>>
    BY <2>1, Short
  <2>2. CASE a # <<>>
    <3>1. a \in Seq(ToSet(a))
      BY <1>4, Short
    <3>2. QED  BY <2>2, <3>1, <1>6
  <2>3. QED  BY <2>1, <2>2
<1>8. Runs(c, a)
  <2>1. \A u \in Table : g # Manifest(u) /\ g \notin WorkFiles(u)
    BY <1>3, Names DEF AllWorkFiles
  <2>2. QED  BY <1>1, <1>5, <1>7, <2>1 DEF Runs, Goes, Writes, Writing
<1>9. /\ \/ x[1] = "put" /\ m = Put(ReadMap(g), t, x[4]) /\ a # <<>>
         \/ x[1] = "del" /\ m = Drop(ReadMap(g), {t})
         \/ x[1] = "del" /\ m = ReadMap(g) /\ t \notin DOMAIN m /\ a = <<>>
      /\ a = <<>> => m = ReadMap(g)
  BY <1>1, <1>2, <1>4
<1>10. IsEditing(c, a, g, t, m)
  BY <1>2, <1>3, <1>5, <1>6, <1>8, <1>9 DEF IsEditing
<1>11. QED  BY <1>10

\* What a step of client c is.
StepIs(c) ==
    \/ BeginsRight(c)
    \/ Abort(c)
    \/ \E a, t, ps, s, l : IsRecording(c, a, t, ps, s, l)
    \/ \E a : IsAside(c, a) /\ OnWork(c, a)
    \/ \E a, g, t, m : IsEditing(c, a, g, t, m)
    \/ \E a, g, m : IsOpening(c, a, g, m)
    \/ \E g, m, v : IsFilling(c, g, m, v)
    \/ IsReporting(c, todo[c][1])

\* The steps of the specification are steps of clients as told apart here.
LEMMA NextIs ==
    ASSUME DiskIs, RequestsAre, Next
    PROVE  \E c \in Client : StepIs(c)
<1>1. CASE \E c \in Client, only \in SUBSET Table, ps \in {{HeadFile}, Pointers} :
               BeginCommit(c, only, ps)
  BY <1>1, CommitBegins DEF StepIs
<1>2. CASE \E c \in Client, t \in Table, i \in Id : BeginRestore(c, t, i)
  BY <1>2, RestoreBegins DEF StepIs
<1>3. CASE \E c \in Client, t \in Table, i \in Id : BeginSetGolden(c, t, i)
  BY <1>3, SetGoldenBegins DEF StepIs
<1>4. CASE \E c \in Client, t \in Table : BeginClearGolden(c, t)
  BY <1>4, ClearGoldenBegins DEF StepIs
<1>5. CASE \E c \in Client : BeginClean(c)
  BY <1>5, CleanBegins DEF StepIs
<1>6. CASE \E c \in Client : Load(c) \/ Store(c) \/ Record(c)
  <2>1. PICK c \in Client : Load(c) \/ Store(c) \/ Record(c)
    BY <1>6
  <2>2. Load(c) => StepIs(c)
    BY LoadIsAside DEF StepIs
  <2>3. Store(c) => StepIs(c)
    BY StoreIsAside DEF StepIs
  <2>4. Record(c) => StepIs(c)
    BY RecordIs DEF StepIs
  <2>5. QED  BY <2>1, <2>2, <2>3, <2>4
<1>7. CASE \E c \in Client : Fetch(c) \/ Unlink(c)
  BY <1>7, FetchIsAside, UnlinkIsAside DEF StepIs
<1>8. CASE \E c \in Client : EditPointer(c) \/ Open(c) \/ Fill(c) \/ Report(c)
  <2>1. PICK c \in Client : EditPointer(c) \/ Open(c) \/ Fill(c) \/ Report(c)
    BY <1>8
  <2>2. EditPointer(c) => StepIs(c)
    BY EditPointerIs DEF StepIs
  <2>3. Open(c) => StepIs(c)
    BY OpenIs DEF StepIs
  <2>4. Fill(c) => StepIs(c)
    BY FillIs DEF StepIs
  <2>5. Report(c) => StepIs(c)
    BY ReportIs DEF StepIs
  <2>6. QED  BY <2>1, <2>2, <2>3, <2>4, <2>5
<1>9. CASE \E c \in Client : Die(c)
  BY <1>9 DEF Die, StepIs
<1>10. QED  BY <1>1, <1>2, <1>3, <1>4, <1>5, <1>6, <1>7, <1>8, <1>9 DEF Next

\* Only the requests of c change in a step of c.
LEMMA OthersWait ==
    ASSUME RequestsAre, NEW c \in Client, NEW n, todo' = [todo EXCEPT ![c] = n]
    PROVE  todo'[c] = n /\ \A d \in Client \ {c} : todo'[d] = todo[d]
BY DEF RequestsAre

\* The requests stay linked.
LEMMA LinkedStep ==
    ASSUME RequestsAre, LinkedAre, NEW c \in Client, NEW n, todo' = [todo EXCEPT ![c] = n],
           Linked(n)
    PROVE  LinkedAre'
<1>1. \A d \in Client : Linked(todo'[d])
  BY OthersWait DEF LinkedAre
<1>2. QED  BY <1>1 DEF LinkedAre

\* A client that goes on has the reports its calls lead to.
LEMMA LinkedRuns ==
    ASSUME RequestsAre, LinkedAre, NEW c \in Client, NEW a, Runs(c, a)
    PROVE  LinkedAre'
<1>1. Goes(c, a) /\ Writes(a, todo[c][1])
  BY DEF Runs
<1>2. todo[c] # <<>> /\ a \in Seq(ToSet(a)) /\ todo' = [todo EXCEPT ![c] = a \o Tail(todo[c])]
  BY <1>1 DEF Goes
<1>3. IsRequest(todo[c]) /\ Linked(todo[c])
  BY DEF RequestsAre, LinkedAre
<1>4. Linked(a \o Tail(todo[c]))
  BY <1>1, <1>2, <1>3, LinkedOn
<1>5. QED  BY <1>2, <1>4, LinkedStep

\* Every step of a client keeps the calls with their reports.
LEMMA LinkedNext ==
    ASSUME RequestsAre, LinkedAre, NEW c \in Client, StepIs(c)
    PROVE  LinkedAre'
<1>1. CASE BeginsRight(c)
  <2>1. PICK sets, n : Begins(c, sets, n)
    BY <1>1 DEF BeginsRight
  <2>2. Linked(n) /\ todo' = [todo EXCEPT ![c] = n]
    BY <2>1 DEF Begins, Begin
  <2>3. QED  BY <2>2, LinkedStep
<1>2. CASE Abort(c)
  BY <1>2, LinkedStep, NothingLinked DEF Abort
<1>3. CASE \E a, t, ps, s, l : IsRecording(c, a, t, ps, s, l)
  <2>1. PICK a, t, ps, s, l : IsRecording(c, a, t, ps, s, l)
    BY <1>3
  <2>2. Linked(todo'[c])
    BY <2>1, LinkedRecord DEF LinkedAre
  <2>3. todo' = [todo EXCEPT ![c] = a \o Tail(todo[c])]
    BY <2>1 DEF IsRecording, Goes
  <2>4. todo'[c] = a \o Tail(todo[c])
    BY <2>3, OthersWait
  <2>5. QED  BY <2>2, <2>3, <2>4, LinkedStep
<1>4. CASE \E a : Runs(c, a)
  BY <1>4, LinkedRuns
<1>5. QED
  BY <1>1, <1>2, <1>3, <1>4 DEF StepIs, IsAside, IsEditing, IsOpening, IsFilling, IsReporting

-----------------------------------------------------------------------------
(* restore: what is reported is in the work files.                         *)

\* Only the first call of a request fills a file.
LEMMA FillsFirst ==
    ASSUME NEW s, IsRequest(s), NEW f, Fills(s, f)
    PROVE  s # <<>> /\ s[1][1] = "fill" /\ s[1][2] = f /\ Edits(s, f) /\ s[1] \in ToSet(s)
<1>1. PICK i \in DOMAIN s : s[i][1] = "fill" /\ s[i][2] = f
  BY DEF Fills
<1>2. i = 1
  BY <1>1 DEF IsRequest, Planned
<1>3. s # <<>>
  BY <1>1
<1>4. QED  BY <1>1, <1>2, <1>3 DEF Edits, Writing, ToSet

\* Who fills a work file is to report about its table.
LEMMA FillerIsBusy ==
    ASSUME RequestsAre, LinkedAre, NEW c \in Client, NEW d \in Client, d # c,
           NEW t \in Table, NEW k \in Kinds(t), Fills(todo[d], Work(k, t))
    PROVE  t \in BusyOthers(c)
<1>1. PICK x : x = todo[d][1]
  OBVIOUS
<1>2. x \in ToSet(todo[d]) /\ x[1] = "fill" /\ x[2] = Work(k, t)
  BY <1>1, FillsFirst DEF RequestsAre
<1>3. IsAbout(x, t) /\ x[1] \notin Ending
  BY <1>2 DEF IsAbout, Writing, WorkFiles, Ending
<1>4. PICK y \in ToSet(todo[d]) : Reports(y, t)
  BY <1>2, <1>3 DEF LinkedAre, Linked
<1>5. t \in Busy(d)
  BY <1>4 DEF Busy, Pending, Reports
<1>6. QED  BY <1>5 DEF BusyOthers

\* The work files of a table whose restore others are to report do not change
\* unless it is noted, or they were being filled.
IsGentle(c) ==
    /\ \A t \in Table : \A k \in Kinds(t) :
          LET f == Work(k, t) IN
          t \in BusyOthers(c) /\ f \notin disturbed' =>
              /\ f \notin disturbed
              /\ disk'[f] = disk[f] \/ Fills(todo[c], f)
              /\ Fills(todo'[c], f) => Fills(todo[c], f)
    /\ \A d \in Data : Blob(d) \in disturbed => Blob(d) \in disturbed'

\* The claims of a client at what it is to report of the k of t.
OwnClaim(c, y, k) ==
    /\ Work(k, y[2]) \notin disturbed
    /\ k \in DOMAIN y[5].blobs => Blob(y[5].blobs[k]) \notin disturbed
    => WorkIs(c, y, k)

IsRestored(y) == y[1] = "report" /\ y[4] = "restore"

\* The report of a restore.
LEMMA RestoredIs ==
    ASSUME RequestsAre, NEW c \in Client, NEW y \in ToSet(todo[c]), IsRestored(y)
    PROVE  /\ y[2] \in Table /\ y[5] \in Kept(y[2]) /\ DOMAIN y[5].blobs \subseteq Kinds(y[2])
           /\ \A k \in DOMAIN y[5].blobs : y[5].blobs[k] \in Data
           /\ Reports(y, y[2]) /\ y[2] \in Busy(c)
<1>1. IsCall(y)
  BY DEF RequestsAre, IsRequest, ToSet
<1>2. y[2] \in Table /\ y[5] \in Kept(y[2])
  BY <1>1 DEF IsCall, Planned, IsRestored
<1>3. /\ y[5].blobs \in PartialMap({"source", "output"}, Data)
      /\ DOMAIN y[5].blobs \subseteq Kinds(y[2])
  BY <1>2 DEF Kept
<1>4. \A k \in DOMAIN y[5].blobs : y[5].blobs[k] \in Data
  BY <1>3, PartialMapDef
<1>5. QED  BY <1>2, <1>3, <1>4 DEF IsRestored, Reports, Busy, Pending

\* WorksAre in the next state: what others claim stays, what c claims is to show.
LEMMA WorksStep ==
    ASSUME RequestsAre, LinkedAre, WorksAre, NEW c \in Client, NEW n,
           todo' = [todo EXCEPT ![c] = n], IsGentle(c),
           \A y \in ToSet(n) : IsRestored(y) => \A k \in Kinds(y[2]) : OwnClaim(c, y, k)'
    PROVE  WorksAre'
<1>1. todo'[c] = n /\ \A d \in Client \ {c} : todo'[d] = todo[d]
  BY OthersWait
<1>2. ASSUME NEW b \in Client, b # c, NEW y \in ToSet(todo[b]), IsRestored(y), NEW k \in Kinds(y[2])
      PROVE  OwnClaim(b, y, k)'
  <2>1. PICK t, f : t = y[2] /\ f = Work(k, t)
    OBVIOUS
  <2>2. /\ t \in Table /\ t \in Busy(b) /\ k \in Kinds(t)
        /\ \A l \in DOMAIN y[5].blobs : y[5].blobs[l] \in Data
    BY <1>2, <2>1, RestoredIs
  <2>3. t \in BusyOthers(c)
    BY <1>2, <2>2 DEF BusyOthers
  <2>4. SUFFICES ASSUME f \notin disturbed',
                        k \in DOMAIN y[5].blobs => Blob(y[5].blobs[k]) \notin disturbed'
                 PROVE  WorkIs(b, y, k)'
    BY <2>1 DEF OwnClaim
  <2>5. /\ f \notin disturbed
        /\ disk'[f] = disk[f] \/ Fills(todo[c], f)
        /\ Fills(todo'[c], f) => Fills(todo[c], f)
    BY <2>1, <2>2, <2>3, <2>4 DEF IsGentle
  <2>6. k \in DOMAIN y[5].blobs => Blob(y[5].blobs[k]) \notin disturbed
    BY <2>2, <2>4 DEF IsGentle
  <2>7. WorkIs(b, y, k)
    BY <1>2, <2>1, <2>5, <2>6 DEF WorksAre, IsRestored
  <2>8. todo'[b] = todo[b]
    BY <1>1, <1>2
  <2>9. \A d \in Client : Fills(todo'[d], f) => Fills(todo[d], f)
    BY <1>1, <2>5
  <2>10. (\A x \in ToSet(todo[b]) : ~Touches(x, k, t)) =>
            /\ disk'[f] = IF k \in DOMAIN y[5].blobs THEN y[5].blobs[k] ELSE Absent
            /\ \A d \in Client : ~Fills(todo'[d], f)
    <3>1. SUFFICES ASSUME \A x \in ToSet(todo[b]) : ~Touches(x, k, t)
                   PROVE  /\ disk'[f] = IF k \in DOMAIN y[5].blobs THEN y[5].blobs[k] ELSE Absent
                          /\ \A d \in Client : ~Fills(todo'[d], f)
      OBVIOUS
    <3>2. /\ disk[f] = IF k \in DOMAIN y[5].blobs THEN y[5].blobs[k] ELSE Absent
          /\ \A d \in Client : ~Fills(todo[d], f)
      BY <2>1, <2>7, <3>1 DEF WorkIs
    <3>3. QED  BY <2>5, <2>9, <3>2
  <2>11. Fills(todo[b], f) => disk'[f] = Torn /\ \A d \in Client \ {b} : ~Fills(todo'[d], f)
    <3>1. SUFFICES ASSUME Fills(todo[b], f)
                   PROVE  disk'[f] = Torn /\ \A d \in Client \ {b} : ~Fills(todo'[d], f)
      OBVIOUS
    <3>2. disk[f] = Torn /\ \A d \in Client \ {b} : ~Fills(todo[d], f)
      BY <2>1, <2>7, <3>1 DEF WorkIs
    <3>3. QED  BY <1>2, <2>5, <2>9, <3>2
  <2>12. Edits(todo[b], f) => k \in DOMAIN y[5].blobs /\ todo[b][1][3] = y[5].blobs[k]
    BY <2>1, <2>7 DEF WorkIs
  <2>13. QED  BY <2>1, <2>8, <2>10, <2>11, <2>12 DEF WorkIs
<1>3. \A b \in Client : \A y \in ToSet(todo'[b]) : IsRestored(y) =>
          \A k \in Kinds(y[2]) : OwnClaim(b, y, k)'
  BY <1>1, <1>2
<1>4. QED  BY <1>3 DEF WorksAre, OwnClaim, IsRestored, WorkIs

\* A step that notes what it does to the work files of other restores is gentle.
LEMMA GentleRuns ==
    ASSUME RequestsAre, NEW c \in Client, NEW a, Runs(c, a),
           \A t \in Table : \A k \in Kinds(t) :
              LET f == Work(k, t) IN
              t \in BusyOthers(c) /\ f \notin disturbed' =>
                  /\ disk'[f] = disk[f] \/ Fills(todo[c], f)
                  /\ \A z \in ToSet(a) : z[1] = "fill" => z[2] # f
    PROVE  IsGentle(c)
<1>1. Goes(c, a) /\ \A f \in disturbed : f \in disturbed'
  BY DEF Runs
<1>2. todo'[c] = a \o Tail(todo[c]) /\ todo[c] # <<>> /\ a \in Seq(ToSet(a)) /\ IsRequest(todo[c])
  BY <1>1, GoesOn DEF Goes
<1>3. \A f : Fills(todo'[c], f) => \E z \in ToSet(a) : z[1] = "fill" /\ z[2] = f
  <2>1. \A f : Fills(todo'[c], f) => Fills(a, f)
    BY <1>2, FillsAfter
  <2>2. QED  BY <2>1 DEF Fills, ToSet
<1>4. QED  BY <1>1, <1>3 DEF IsGentle

\* What c claimed before it goes on.
LEMMA ClaimedBefore ==
    ASSUME RequestsAre, LinkedAre, WorksAre, NEW c \in Client, NEW a, Runs(c, a),
           NEW y \in ToSet(todo'[c]), IsRestored(y), NEW k \in Kinds(y[2]),
           Work(k, y[2]) \notin disturbed',
           k \in DOMAIN y[5].blobs => Blob(y[5].blobs[k]) \notin disturbed'
    PROVE  /\ y \in Rest(todo[c]) /\ y \in ToSet(todo[c]) /\ y[2] \in Table /\ WorkIs(c, y, k)
           /\ IsAbout(todo[c][1], y[2]) => Fits(todo[c][1], y)
<1>1. Goes(c, a) /\ Writes(a, todo[c][1]) /\ \A f \in disturbed : f \in disturbed'
  BY DEF Runs
<1>2. /\ ToSet(todo'[c]) = ToSet(a) \cup Rest(todo[c])
      /\ ToSet(todo[c]) = {todo[c][1]} \cup Rest(todo[c])
  BY <1>1, GoesOn
<1>3. y \notin ToSet(a)
  BY <1>1 DEF Writes, Writing, IsRestored
<1>4. y \in Rest(todo[c]) /\ y \in ToSet(todo[c]) /\ todo[c][1] \in ToSet(todo[c])
  BY <1>2, <1>3
<1>5. y[2] \in Table /\ Reports(y, y[2])
  BY <1>4, RestoredIs
<1>6. WorkIs(c, y, k)
  BY <1>1, <1>4 DEF WorksAre, IsRestored
<1>7. IsAbout(todo[c][1], y[2]) => Fits(todo[c][1], y)
  BY <1>4, <1>5 DEF LinkedAre, Linked
<1>8. QED  BY <1>4, <1>5, <1>6, <1>7

\* What c claims of a work file stays when it goes on with something else.
LEMMA ClaimStays ==
    ASSUME RequestsAre, LinkedAre, WorksAre, NEW c \in Client, NEW a, Runs(c, a),
           NEW y \in ToSet(todo'[c]), IsRestored(y), NEW k \in Kinds(y[2]),
           disk'[Work(k, y[2])] = disk[Work(k, y[2])],
           \A z \in ToSet(a) : z[2] # Work(k, y[2]),
           ~Touches(todo[c][1], k, y[2])
    PROVE  OwnClaim(c, y, k)'
<1>1. PICK t, f : t = y[2] /\ f = Work(k, t)
  OBVIOUS
<1>2. SUFFICES ASSUME f \notin disturbed',
                      k \in DOMAIN y[5].blobs => Blob(y[5].blobs[k]) \notin disturbed'
               PROVE  WorkIs(c, y, k)'
  BY <1>1 DEF OwnClaim
<1>3. WorkIs(c, y, k)
  BY <1>1, <1>2, ClaimedBefore
<1>4. Goes(c, a) /\ Writes(a, todo[c][1])
  BY DEF Runs
<1>5. /\ todo'[c] = a \o Tail(todo[c]) /\ \A d \in Client \ {c} : todo'[d] = todo[d]
      /\ IsRequest(todo[c]) /\ todo[c] # <<>> /\ a \in Seq(ToSet(a))
      /\ ToSet(todo'[c]) = ToSet(a) \cup Rest(todo[c])
      /\ ToSet(todo[c]) = {todo[c][1]} \cup Rest(todo[c])
      /\ \A x \in Rest(todo[c]) : x[1] \in Planned
      /\ a # <<>> => todo'[c][1] = a[1]
      /\ a = <<>> /\ todo'[c] # <<>> => todo'[c][1] \in Rest(todo[c])
  BY <1>4, GoesOn DEF Goes
<1>6. ~Edits(todo'[c], f)
  <2>1. a # <<>> => a[1] \in ToSet(a)
    BY <1>5 DEF ToSet
  <2>2. QED  BY <2>1, <1>1, <1>5 DEF Edits, Writing, Planned
<1>7. ~Fills(todo'[c], f)
  <2>1. Fills(todo'[c], f) => Fills(a, f)
    BY <1>5, FillsAfter
  <2>2. ~Fills(a, f)
    BY <1>1 DEF Fills, ToSet
  <2>3. QED  BY <2>1, <2>2
<1>8. ASSUME \A x \in ToSet(todo'[c]) : ~Touches(x, k, t)
      PROVE  /\ disk'[f] = IF k \in DOMAIN y[5].blobs THEN y[5].blobs[k] ELSE Absent
             /\ \A d \in Client : ~Fills(todo'[d], f)
  <2>1. \A x \in ToSet(todo[c]) : ~Touches(x, k, t)
    BY <1>1, <1>5, <1>8
  <2>2. /\ disk[f] = IF k \in DOMAIN y[5].blobs THEN y[5].blobs[k] ELSE Absent
        /\ \A d \in Client : ~Fills(todo[d], f)
    BY <2>1, <1>1, <1>3 DEF WorkIs
  <2>3. QED  BY <2>2, <1>1, <1>5, <1>7
<1>9. QED  BY <1>1, <1>6, <1>7, <1>8 DEF WorkIs

\* A step that leaves the work files alone.
LEMMA SparesWorks ==
    ASSUME RequestsAre, LinkedAre, WorksAre, NEW c \in Client, NEW a, Spares(c, a)
    PROVE  WorksAre'
<1>1. Runs(c, a) /\ todo' = [todo EXCEPT ![c] = a \o Tail(todo[c])]
  BY DEF Spares, Runs, Goes
<1>2. \A t \in Table : \A k \in Kinds(t) :
          /\ Work(k, t) \in AllWorkFiles /\ disk'[Work(k, t)] = disk[Work(k, t)]
          /\ \A z \in ToSet(a) : z[2] # Work(k, t)
          /\ ~Touches(todo[c][1], k, t)
  <2>1. \A t \in Table : \A k \in Kinds(t) : Work(k, t) \in AllWorkFiles
    BY Names
  <2>2. QED  BY <2>1 DEF Spares, Touches
<1>3. IsGentle(c)
  BY <1>1, <1>2, GentleRuns
<1>4. todo'[c] = a \o Tail(todo[c])
  BY <1>1, OthersWait
<1>5. ASSUME NEW y \in ToSet(todo'[c]), IsRestored(y), NEW k \in Kinds(y[2])
      PROVE  OwnClaim(c, y, k)'
  <2>1. SUFFICES ASSUME Work(k, y[2]) \notin disturbed',
                        k \in DOMAIN y[5].blobs => Blob(y[5].blobs[k]) \notin disturbed'
                 PROVE  OwnClaim(c, y, k)'
    BY DEF OwnClaim
  <2>2. y[2] \in Table
    BY <1>1, <1>5, <2>1, ClaimedBefore
  <2>3. QED  BY <1>1, <1>2, <1>5, <2>2, ClaimStays
<1>6. QED  BY <1>1, <1>3, <1>4, <1>5, WorksStep

\* The calls that touch a work file: what is claimed of the others stays.
LEMMA TouchedWorks ==
    ASSUME RequestsAre, LinkedAre, WorksAre, NEW c \in Client, NEW a, Runs(c, a), IsGentle(c),
           NEW l, NEW u,
           \A t \in Table : \A k \in Kinds(t) : Work(k, t) # Work(l, u) =>
              /\ disk'[Work(k, t)] = disk[Work(k, t)]
              /\ \A z \in ToSet(a) : z[2] # Work(k, t)
              /\ ~Touches(todo[c][1], k, t),
           \A y \in ToSet(todo'[c]) : IsRestored(y) /\ y[2] = u => OwnClaim(c, y, l)'
    PROVE  WorksAre'
<1>1. todo' = [todo EXCEPT ![c] = a \o Tail(todo[c])]
  BY DEF Runs, Goes
<1>2. todo'[c] = a \o Tail(todo[c])
  BY <1>1, OthersWait
<1>3. ASSUME NEW y \in ToSet(todo'[c]), IsRestored(y), NEW k \in Kinds(y[2])
      PROVE  OwnClaim(c, y, k)'
  <2>1. SUFFICES ASSUME Work(k, y[2]) \notin disturbed',
                        k \in DOMAIN y[5].blobs => Blob(y[5].blobs[k]) \notin disturbed'
                 PROVE  OwnClaim(c, y, k)'
    BY DEF OwnClaim
  <2>2. y[2] \in Table
    BY <1>3, <2>1, ClaimedBefore
  <2>3. CASE Work(k, y[2]) # Work(l, u)
    BY <1>3, <2>2, <2>3, ClaimStays
  <2>4. CASE Work(k, y[2]) = Work(l, u)
    <3>1. k = l /\ y[2] = u
      BY <2>4, Names
    <3>2. QED  BY <1>3, <3>1
  <2>5. QED  BY <2>3, <2>4
<1>4. QED  BY <1>1, <1>2, <1>3, WorksStep

\* What c is to do after it goes on with a.
LEMMA NowIs ==
    ASSUME RequestsAre, NEW c \in Client, NEW a, Runs(c, a)
    PROVE  /\ IsCall(todo[c][1]) /\ todo[c] # <<>> /\ todo[c][1] \in ToSet(todo[c])
           /\ \A d \in Client \ {c} : todo'[d] = todo[d]
           /\ ToSet(todo'[c]) = ToSet(a) \cup Rest(todo[c])
           /\ ToSet(todo[c]) = {todo[c][1]} \cup Rest(todo[c])
           /\ a # <<>> => todo'[c][1] = a[1] /\ a[1] \in ToSet(todo'[c])
           /\ a = <<>> => \A f : ~Edits(todo'[c], f) /\ ~Fills(todo'[c], f)
           /\ \A f : Fills(todo'[c], f) => \E z \in ToSet(a) : z[1] = "fill" /\ z[2] = f
           /\ \A f \in disturbed : f \in disturbed'
<1>1. Goes(c, a) /\ Writes(a, todo[c][1]) /\ \A f \in disturbed : f \in disturbed'
  BY DEF Runs
<1>2. todo[c] # <<>> /\ a \in Seq(ToSet(a))
  BY <1>1 DEF Goes
<1>3. /\ todo'[c] = a \o Tail(todo[c]) /\ \A d \in Client \ {c} : todo'[d] = todo[d]
      /\ IsRequest(todo[c]) /\ IsCall(todo[c][1]) /\ todo[c][1] \in ToSet(todo[c])
      /\ ToSet(todo'[c]) = ToSet(a) \cup Rest(todo[c])
      /\ ToSet(todo[c]) = {todo[c][1]} \cup Rest(todo[c])
      /\ \A y \in Rest(todo[c]) : y[1] \in Planned
      /\ a # <<>> => todo'[c][1] = a[1]
      /\ a = <<>> /\ todo'[c] # <<>> => todo'[c][1] \in Rest(todo[c])
  BY <1>1, GoesOn
<1>4. a # <<>> => a[1] \in ToSet(a)
  BY <1>2 DEF ToSet
<1>5. \A f : Fills(todo'[c], f) => \E z \in ToSet(a) : z[1] = "fill" /\ z[2] = f
  <2>1. \A f : Fills(todo'[c], f) => Fills(a, f)
    BY <1>2, <1>3, FillsAfter
  <2>2. QED  BY <2>1 DEF Fills, ToSet
<1>6. a = <<>> => \A f : ~Edits(todo'[c], f) /\ ~Fills(todo'[c], f)
  <2>1. a = <<>> => ToSet(a) = {}
    BY Short
  <2>2. QED  BY <2>1, <1>3, <1>5 DEF Edits, Writing, Planned
<1>7. QED  BY <1>1, <1>2, <1>3, <1>4, <1>5, <1>6

\* A blob is read to be written over a work file.
LEMMA FetchingWorks ==
    ASSUME DiskIs, RequestsAre, LinkedAre, WorksAre, NEW c \in Client, NEW a, IsFetching(c, a)
    PROVE  WorksAre'
<1>1. PICK x, l, u, f, d : /\ x = todo[c][1] /\ l = x[3] /\ u = x[2] /\ f = Work(l, u)
                           /\ d = disk[Blob(x[4].blobs[l])]
  OBVIOUS
<1>2. /\ Runs(c, a) /\ x[1] = "fetch" /\ disk' = disk
      /\ a # <<>> /\ ToSet(a) = {a[1]} /\ a[1][1] = "open" /\ a[1][2] = f /\ a[1][3] = d
      /\ d # Absent /\ (Filling(Blob(x[4].blobs[l])) => f \in disturbed')
  BY <1>1 DEF IsFetching
<1>3. /\ IsCall(x) /\ todo'[c][1] = a[1] /\ a[1] \in ToSet(todo'[c]) /\ ~Fills(todo'[c], f)
      /\ \A g \in disturbed : g \in disturbed'
  BY <1>1, <1>2, NowIs
<1>4. x[4] \in Kept(u) /\ l \in DOMAIN x[4].blobs /\ x[4].blobs[l] \in Data
  <2>1. x[4] \in Kept(u) /\ l \in DOMAIN x[4].blobs
    BY <1>1, <1>2, <1>3 DEF IsCall
  <2>2. x[4].blobs \in PartialMap({"source", "output"}, Data)
    BY <2>1 DEF Kept
  <2>3. QED  BY <2>1, <2>2, PartialMapDef
<1>5. IsGentle(c)
  BY <1>2, GentleRuns
<1>6. \A t \in Table : \A k \in Kinds(t) : Work(k, t) # Work(l, u) =>
              /\ disk'[Work(k, t)] = disk[Work(k, t)]
              /\ \A z \in ToSet(a) : z[2] # Work(k, t)
              /\ ~Touches(todo[c][1], k, t)
  BY <1>1, <1>2 DEF Touches, Writing
<1>7. ASSUME NEW y \in ToSet(todo'[c]), IsRestored(y), y[2] = u PROVE OwnClaim(c, y, l)'
  <2>1. SUFFICES ASSUME f \notin disturbed',
                        l \in DOMAIN y[5].blobs => Blob(y[5].blobs[l]) \notin disturbed'
                 PROVE  WorkIs(c, y, l)'
    BY <1>1, <1>7 DEF OwnClaim
  <2>2. IsAbout(x, u)
    BY <1>1, <1>2 DEF IsAbout, Planned
  <2>3. l \in Kinds(u)
    BY <1>4 DEF Kept
  <2>4. y[5] = x[4]
    <3>1. Fits(x, y)
      BY <1>1, <1>2, <1>7, <2>1, <2>2, <2>3, ClaimedBefore
    <3>2. QED  BY <1>2, <3>1 DEF Fits
  <2>5. d = y[5].blobs[l] /\ l \in DOMAIN y[5].blobs
    <3>1. Blob(x[4].blobs[l]) \notin disturbed /\ ~Filling(Blob(x[4].blobs[l]))
      BY <1>2, <1>3, <1>4, <2>1, <2>4
    <3>2. d = x[4].blobs[l]
      BY <1>1, <1>2, <1>4, <3>1 DEF DiskIs
    <3>3. QED  BY <1>4, <2>4, <3>2
  <2>6. Touches(a[1], l, u)
    BY <1>1, <1>2 DEF Touches, Writing
  <2>7. QED  BY <1>1, <1>2, <1>3, <1>7, <2>5, <2>6 DEF WorkIs
<1>8. QED  BY <1>2, <1>5, <1>6, <1>7, TouchedWorks

\* An output that the snapshot does not have is removed.
LEMMA UnlinkingWorks ==
    ASSUME DiskIs, RequestsAre, LinkedAre, WorksAre, NEW c \in Client, NEW a, IsUnlinking(c, a)
    PROVE  WorksAre'
<1>1. PICK x, u, f : x = todo[c][1] /\ u = x[2] /\ f = Work("output", u)
  OBVIOUS
<1>2. /\ Runs(c, a) /\ x[1] = "unlink" /\ a = <<>> /\ disk' = [disk EXCEPT ![f] = Absent]
      /\ u \in BusyOthers(c) => f \in disturbed'
  BY <1>1 DEF IsUnlinking
<1>3. /\ IsCall(x) /\ \A g : ~Edits(todo'[c], g) /\ ~Fills(todo'[c], g)
      /\ \A d \in Client \ {c} : todo'[d] = todo[d]
  BY <1>1, <1>2, NowIs
<1>4. u \in Table /\ "output" \in Kinds(u) /\ f \in File
  <2>1. u \in Table /\ u \in Built
    BY <1>1, <1>2, <1>3 DEF IsCall, Planned
  <2>2. "output" \in Kinds(u)
    BY <2>1, TableKinds
  <2>3. QED  BY <1>1, <2>1, <2>2, Names, Files
<1>5. disk'[f] = Absent /\ \A g \in File : g # f => disk'[g] = disk[g]
  BY <1>2, <1>4 DEF DiskIs
<1>6. \A t \in Table : \A k \in Kinds(t) : Work(k, t) # f => disk'[Work(k, t)] = disk[Work(k, t)]
  BY <1>5, Names, Files
<1>7. \A z \in ToSet(a) : FALSE
  BY <1>2, Short
<1>8. IsGentle(c)
  <2>1. \A t \in Table : \A k \in Kinds(t) : Work(k, t) = f => t = u
    BY <1>1, Names
  <2>2. QED  BY <1>2, <1>6, <1>7, <2>1, GentleRuns
<1>9. \A t \in Table : \A k \in Kinds(t) : Work(k, t) # f =>
              /\ disk'[Work(k, t)] = disk[Work(k, t)]
              /\ \A z \in ToSet(a) : z[2] # Work(k, t)
              /\ ~Touches(todo[c][1], k, t)
  BY <1>1, <1>2, <1>6, <1>7 DEF Touches, Writing
<1>10. ASSUME NEW y \in ToSet(todo'[c]), IsRestored(y), y[2] = u PROVE OwnClaim(c, y, "output")'
  <2>1. SUFFICES ASSUME f \notin disturbed',
                        "output" \in DOMAIN y[5].blobs =>
                            Blob(y[5].blobs["output"]) \notin disturbed'
                 PROVE  WorkIs(c, y, "output")'
    BY <1>1, <1>10 DEF OwnClaim
  <2>2. IsAbout(x, u)
    BY <1>1, <1>2 DEF IsAbout, Planned
  <2>3. "output" \notin DOMAIN y[5].blobs
    <3>1. Fits(x, y)
      BY <1>1, <1>2, <1>4, <1>10, <2>1, <2>2, ClaimedBefore
    <3>2. QED  BY <1>2, <3>1 DEF Fits
  <2>4. \A d \in Client : ~Fills(todo'[d], f)
    <3>1. u \notin BusyOthers(c)
      BY <1>2, <2>1
    <3>2. \A d \in Client \ {c} : ~Fills(todo[d], f)
      BY <1>1, <1>4, <3>1, FillerIsBusy
    <3>3. QED  BY <1>3, <3>2
  <2>5. QED  BY <1>1, <1>3, <1>5, <1>10, <2>3, <2>4 DEF WorkIs
<1>11. QED  BY <1>1, <1>2, <1>8, <1>9, <1>10, TouchedWorks

\* A work file is opened.
LEMMA OpeningWorks ==
    ASSUME DiskIs, RequestsAre, LinkedAre, WorksAre, NEW c \in Client, NEW a, IsOpeningWork(c, a)
    PROVE  WorksAre'
<1>1. PICK x, f : x = todo[c][1] /\ f = x[2]
  OBVIOUS
<1>2. /\ Runs(c, a) /\ x[1] = "open" /\ f \in AllWorkFiles
      /\ a # <<>> /\ ToSet(a) = {a[1]} /\ a[1][1] = "fill" /\ a[1][2] = f /\ a[1][3] = x[3]
      /\ disk' = [disk EXCEPT ![f] = Torn]
      /\ f[2] \in BusyOthers(c) => f \in disturbed'
  BY <1>1 DEF IsOpeningWork
<1>3. PICK u, l : u \in Table /\ l \in Kinds(u) /\ f = Work(l, u)
  BY <1>2 DEF AllWorkFiles, WorkFiles
<1>4. /\ todo[c] # <<>> /\ todo'[c][1] = a[1] /\ a[1] \in ToSet(todo'[c])
      /\ \A d \in Client \ {c} : todo'[d] = todo[d]
  BY <1>2, NowIs
<1>5. disk'[f] = Torn /\ \A g \in File : g # f => disk'[g] = disk[g]
  BY <1>2, Files DEF DiskIs
<1>6. \A t \in Table : \A k \in Kinds(t) : Work(k, t) # f => disk'[Work(k, t)] = disk[Work(k, t)]
  BY <1>5, Names, Files
<1>7. f[2] = u
  BY <1>3 DEF Work
<1>8. IsGentle(c)
  <2>1. \A t \in Table : \A k \in Kinds(t) : Work(k, t) = f => t = u
    BY <1>3, Names
  <2>2. QED  BY <1>2, <1>6, <1>7, <2>1, GentleRuns
<1>9. \A t \in Table : \A k \in Kinds(t) : Work(k, t) # f =>
              /\ disk'[Work(k, t)] = disk[Work(k, t)]
              /\ \A z \in ToSet(a) : z[2] # Work(k, t)
              /\ ~Touches(todo[c][1], k, t)
  BY <1>1, <1>2, <1>6 DEF Touches
<1>10. ASSUME NEW y \in ToSet(todo'[c]), IsRestored(y), y[2] = u PROVE OwnClaim(c, y, l)'
  <2>1. SUFFICES ASSUME f \notin disturbed',
                        l \in DOMAIN y[5].blobs => Blob(y[5].blobs[l]) \notin disturbed'
                 PROVE  WorkIs(c, y, l)'
    BY <1>3, <1>10 DEF OwnClaim
  <2>2. l \in DOMAIN y[5].blobs /\ x[3] = y[5].blobs[l]
    <3>1. WorkIs(c, y, l)
      BY <1>2, <1>3, <1>10, <2>1, ClaimedBefore
    <3>2. Edits(todo[c], f)
      BY <1>1, <1>2, <1>4 DEF Edits, Writing
    <3>3. QED  BY <1>1, <1>3, <1>10, <3>1, <3>2 DEF WorkIs
  <2>3. \A d \in Client \ {c} : ~Fills(todo'[d], f)
    <3>1. u \notin BusyOthers(c)
      BY <1>2, <1>7, <2>1
    <3>2. \A d \in Client \ {c} : ~Fills(todo[d], f)
      BY <1>3, <3>1, FillerIsBusy
    <3>3. QED  BY <1>4, <3>2
  <2>4. Touches(a[1], l, u)
    BY <1>2, <1>3 DEF Touches, Writing
  <2>5. QED  BY <1>2, <1>3, <1>4, <1>5, <1>10, <2>2, <2>3, <2>4 DEF WorkIs
<1>11. QED  BY <1>2, <1>3, <1>8, <1>9, <1>10, TouchedWorks

\* A work file is filled.
LEMMA FillingWorks ==
    ASSUME DiskIs, RequestsAre, LinkedAre, WorksAre, NEW c \in Client, NEW a, IsFillingWork(c, a)
    PROVE  WorksAre'
<1>1. PICK x, f : x = todo[c][1] /\ f = x[2]
  OBVIOUS
<1>2. PICK v : /\ Runs(c, a) /\ x[1] = "fill" /\ f \in AllWorkFiles /\ a = <<>>
               /\ disk[f] = Torn => v = x[3]
               /\ disk' = [disk EXCEPT ![f] = v]
  BY <1>1 DEF IsFillingWork
<1>3. PICK u, l : u \in Table /\ l \in Kinds(u) /\ f = Work(l, u)
  BY <1>2 DEF AllWorkFiles, WorkFiles
<1>4. /\ todo[c] # <<>> /\ \A g : ~Edits(todo'[c], g) /\ ~Fills(todo'[c], g)
      /\ \A d \in Client \ {c} : todo'[d] = todo[d]
  BY <1>2, NowIs
<1>5. disk'[f] = v /\ \A g \in File : g # f => disk'[g] = disk[g]
  BY <1>2, Files DEF DiskIs
<1>6. \A t \in Table : \A k \in Kinds(t) : Work(k, t) # f => disk'[Work(k, t)] = disk[Work(k, t)]
  BY <1>5, Names, Files
<1>7. \A z \in ToSet(a) : FALSE
  BY <1>2, Short
<1>8. Fills(todo[c], f) /\ Edits(todo[c], f)
  <2>1. todo[c] \in Seq(ToSet(todo[c]))
    BY <1>4, First
  <2>2. 1 \in DOMAIN todo[c]
    BY <1>4, <2>1
  <2>3. QED  BY <1>1, <1>2, <1>4, <2>2 DEF Fills, Edits, Writing
<1>9. IsGentle(c)
  BY <1>2, <1>6, <1>7, <1>8, GentleRuns
<1>10. \A t \in Table : \A k \in Kinds(t) : Work(k, t) # f =>
              /\ disk'[Work(k, t)] = disk[Work(k, t)]
              /\ \A z \in ToSet(a) : z[2] # Work(k, t)
              /\ ~Touches(todo[c][1], k, t)
  BY <1>1, <1>2, <1>6, <1>7 DEF Touches
<1>11. ASSUME NEW y \in ToSet(todo'[c]), IsRestored(y), y[2] = u PROVE OwnClaim(c, y, l)'
  <2>1. SUFFICES ASSUME f \notin disturbed',
                        l \in DOMAIN y[5].blobs => Blob(y[5].blobs[l]) \notin disturbed'
                 PROVE  WorkIs(c, y, l)'
    BY <1>3, <1>11 DEF OwnClaim
  <2>2. WorkIs(c, y, l)
    BY <1>2, <1>3, <1>11, <2>1, ClaimedBefore
  <2>3. /\ l \in DOMAIN y[5].blobs /\ x[3] = y[5].blobs[l] /\ disk[f] = Torn
        /\ \A d \in Client \ {c} : ~Fills(todo[d], f)
    BY <1>1, <1>3, <1>8, <1>11, <2>2 DEF WorkIs
  <2>4. disk'[f] = y[5].blobs[l] /\ \A d \in Client : ~Fills(todo'[d], f)
    BY <1>2, <1>4, <1>5, <2>3
  <2>5. QED  BY <1>3, <1>4, <1>11, <2>3, <2>4 DEF WorkIs
<1>12. QED  BY <1>2, <1>3, <1>9, <1>10, <1>11, TouchedWorks

\* A request begins: all that it is to bring back is still to be touched.
LEMMA BeginsWorks ==
    ASSUME RequestsAre, LinkedAre, WorksAre, NEW c \in Client, BeginsRight(c)
    PROVE  WorksAre'
<1>1. PICK sets, n : Begins(c, sets, n)
  BY DEF BeginsRight
<1>2. todo' = [todo EXCEPT ![c] = n] /\ disk' = disk /\ todo'[c] = n
  <2>1. todo' = [todo EXCEPT ![c] = n] /\ disk' = disk
    BY <1>1 DEF Begins, Begin
  <2>2. QED  BY <2>1, OthersWait
<1>3. \A f : ~Edits(n, f) /\ ~Fills(n, f)
  <2>1. IsRequest(n) /\ (n # <<>> => n[1][1] \in Planned)
    BY <1>1 DEF Begins, IsStart
  <2>2. \A f : ~Edits(n, f)
    BY <2>1 DEF Edits, Writing, Planned
  <2>3. \A f : ~Fills(n, f)
    BY <2>1, <2>2, FillsFirst
  <2>4. QED  BY <2>2, <2>3
<1>4. IsGentle(c)
  <2>1. \A f \in disturbed : f \in disturbed' \/ \E t \in Table \ BusyOthers(c) : f \in WorkFiles(t)
    BY <1>1 DEF Begins
  <2>2. \A t, u \in Table : \A k \in Kinds(t) : Work(k, t) \in WorkFiles(u) => t = u
    BY Names DEF WorkFiles
  <2>3. \A d \in Data : \A u \in Table : Blob(d) \notin WorkFiles(u)
    BY Names DEF AllWorkFiles
  <2>4. \A t \in Table : \A k \in Kinds(t) : t \in BusyOthers(c) /\ Work(k, t) \in disturbed =>
                                                Work(k, t) \in disturbed'
    BY <2>1, <2>2
  <2>5. \A d \in Data : Blob(d) \in disturbed => Blob(d) \in disturbed'
    BY <2>1, <2>3
  <2>6. QED  BY <1>2, <1>3, <2>4, <2>5 DEF IsGentle
<1>5. ASSUME NEW y \in ToSet(n), IsRestored(y), NEW k \in Kinds(y[2]) PROVE OwnClaim(c, y, k)'
  <2>1. \E x \in ToSet(n) : Touches(x, k, y[2])
    BY <1>1, <1>5 DEF Begins, IsRestored
  <2>2. QED  BY <1>2, <1>3, <2>1 DEF OwnClaim, WorkIs
<1>6. QED  BY <1>2, <1>4, <1>5, WorksStep

\* A request ends before its time.
LEMMA AbortWorks ==
    ASSUME RequestsAre, LinkedAre, WorksAre, NEW c \in Client, Abort(c)
    PROVE  WorksAre'
<1>1. /\ todo' = [todo EXCEPT ![c] = <<>>] /\ disk' = disk /\ todo'[c] = <<>>
      /\ \A f \in disturbed : f \in disturbed'
  <2>1. /\ todo' = [todo EXCEPT ![c] = <<>>] /\ disk' = disk
        /\ \A f \in disturbed : f \in disturbed'
    BY DEF Abort
  <2>2. QED  BY <2>1, OthersWait
<1>2. \A f : ~Fills(<<>>, f)
  BY Single
<1>3. IsGentle(c)
  BY <1>1, <1>2 DEF IsGentle
<1>4. ToSet(<<>>) = {}
  BY Short
<1>5. QED  BY <1>1, <1>3, <1>4, WorksStep

\* A snapshot is recorded.
LEMMA RecordWorks ==
    ASSUME DiskIs, RequestsAre, LinkedAre, WorksAre, NEW c \in Client,
           NEW a, NEW t, NEW ps, NEW s, NEW m, IsRecording(c, a, t, ps, s, m)
    PROVE  WorksAre'
<1>1. /\ Goes(c, a) /\ t \in Table /\ todo[c][1][1] = "record" /\ disturbed' = disturbed
      /\ disk' = [disk EXCEPT ![Manifest(t)] = Torn] /\ AreSaving(a, t, ps, s, m)
  BY DEF IsRecording
<1>2. /\ todo' = [todo EXCEPT ![c] = a \o Tail(todo[c])] /\ todo[c] # <<>>
      /\ a \in Seq(ToSet(a)) /\ a # <<>> /\ a[1][2] = Manifest(t)
  BY <1>1 DEF Goes, AreSaving, SavesLog
<1>3. /\ todo'[c] = a \o Tail(todo[c]) /\ \A d \in Client \ {c} : todo'[d] = todo[d]
      /\ IsRequest(todo[c])
      /\ ToSet(todo'[c]) = ToSet(a) \cup Rest(todo[c])
      /\ ToSet(todo[c]) = {todo[c][1]} \cup Rest(todo[c])
      /\ todo'[c][1] = a[1]
  BY <1>1, <1>2, GoesOn
<1>4. \A f \in AllWorkFiles : disk'[f] = disk[f] /\ f # Manifest(t)
  BY <1>1, Names, Files DEF DiskIs
<1>5. \A f \in AllWorkFiles : ~Edits(todo'[c], f) /\ ~Fills(todo'[c], f)
  <2>1. \A f \in AllWorkFiles : ~Edits(todo'[c], f)
    BY <1>2, <1>3, <1>4 DEF Edits
  <2>2. \A f : Fills(todo'[c], f) => Fills(a, f)
    <3>1. \A f : Fills(a \o Tail(todo[c]), f) => Fills(a, f)
      BY <1>2, <1>3, FillsAfter
    <3>2. QED  BY <1>3, <3>1
  <2>3. \A z \in ToSet(a) : z[1] = "fill" => z[2] = Manifest(t)
    BY <1>1 DEF AreSaving, SavesLog, ClearsHead, MarksGolden, Confirms
  <2>4. \A f : Fills(a, f) => f = Manifest(t)
    BY <2>3 DEF Fills, ToSet
  <2>5. QED  BY <1>4, <2>1, <2>2, <2>4
<1>6. \A u \in Table : \A k \in Kinds(u) : Work(k, u) \in AllWorkFiles
  BY Names
<1>7. IsGentle(c)
  BY <1>1, <1>4, <1>5, <1>6 DEF IsGentle
<1>8. ASSUME NEW y \in ToSet(todo'[c]), IsRestored(y), NEW k \in Kinds(y[2])
      PROVE  OwnClaim(c, y, k)'
  <2>1. y \in Rest(todo[c])
    <3>1. \A z \in ToSet(a) : z[1] = "report" => z[4] = "commit"
      BY <1>1 DEF AreSaving, SavesLog, ClearsHead, MarksGolden, Confirms
    <3>2. QED  BY <1>3, <1>8, <3>1 DEF IsRestored
  <2>2. y \in ToSet(todo[c])
    BY <1>3, <2>1
  <2>3. PICK u, f : u = y[2] /\ f = Work(k, u)
    OBVIOUS
  <2>4. u \in Table /\ f \in AllWorkFiles
    BY <1>6, <1>8, <2>2, <2>3, RestoredIs
  <2>5. SUFFICES ASSUME f \notin disturbed,
                        k \in DOMAIN y[5].blobs => Blob(y[5].blobs[k]) \notin disturbed
                 PROVE  WorkIs(c, y, k)'
    BY <1>1, <2>3 DEF OwnClaim
  <2>6. WorkIs(c, y, k)
    BY <1>8, <2>2, <2>3, <2>5 DEF WorksAre, IsRestored
  <2>7. ~Edits(todo'[c], f) /\ ~Fills(todo'[c], f) /\ disk'[f] = disk[f]
    BY <1>4, <1>5, <2>4
  <2>8. ASSUME \A x \in ToSet(todo'[c]) : ~Touches(x, k, u)
        PROVE  /\ disk'[f] = IF k \in DOMAIN y[5].blobs THEN y[5].blobs[k] ELSE Absent
               /\ \A d \in Client : ~Fills(todo'[d], f)
    <3>1. ~Touches(todo[c][1], k, u)
      BY <1>1 DEF Touches, Writing
    <3>2. \A x \in ToSet(todo[c]) : ~Touches(x, k, u)
      BY <1>3, <2>8, <3>1
    <3>3. /\ disk[f] = IF k \in DOMAIN y[5].blobs THEN y[5].blobs[k] ELSE Absent
          /\ \A d \in Client : ~Fills(todo[d], f)
      BY <2>3, <2>6, <3>2 DEF WorkIs
    <3>4. QED  BY <1>3, <2>7, <3>3
  <2>9. QED  BY <2>3, <2>7, <2>8 DEF WorkIs
<1>9. QED  BY <1>2, <1>3, <1>7, <1>8, WorksStep

\* The steps on pointer files and manifests, and the reports.
LEMMA PointersSpare ==
    ASSUME DiskIs, NEW c \in Client
    PROVE  /\ \A a, g, t, m : IsEditing(c, a, g, t, m) => Spares(c, a)
           /\ \A a, g, m : IsOpening(c, a, g, m) => Spares(c, a)
           /\ \A g, m, v : IsFilling(c, g, m, v) => Spares(c, <<>>)
           /\ \A y : IsReporting(c, y) => Spares(c, <<>>)
<1>1. \A g \in Pointers \cup {Manifest(t) : t \in Table} : g \notin AllWorkFiles
  BY Names
<1>2. ToSet(<<>>) = {}
  BY Short
<1>3. ASSUME NEW g \in Pointers \cup {Manifest(t) : t \in Table}, NEW v,
             disk' = [disk EXCEPT ![g] = v]
      PROVE  \A f \in AllWorkFiles : disk'[f] = disk[f]
  BY <1>1, <1>3, Files DEF DiskIs
<1>4. ASSUME NEW a, NEW g, NEW t, NEW m, IsEditing(c, a, g, t, m) PROVE Spares(c, a)
  <2>1. /\ Runs(c, a) /\ g \in Pointers /\ disk' = disk /\ todo[c][1][1] \in {"put", "del"}
        /\ a # <<>> => ToSet(a) = {a[1]} /\ a[1][2] = g
    BY <1>4 DEF IsEditing
  <2>2. QED  BY <1>1, <1>2, <2>1 DEF Spares, Writing
<1>5. ASSUME NEW a, NEW g, NEW m, IsOpening(c, a, g, m) PROVE Spares(c, a)
  <2>1. /\ Runs(c, a) /\ g \in Pointers /\ disk' = [disk EXCEPT ![g] = Torn]
        /\ todo[c][1][1] = "open" /\ todo[c][1][2] = g /\ ToSet(a) = {a[1]} /\ a[1][2] = g
    BY <1>5 DEF IsOpening
  <2>2. QED  BY <1>1, <1>3, <2>1 DEF Spares
<1>6. ASSUME NEW g, NEW m, NEW v, IsFilling(c, g, m, v) PROVE Spares(c, <<>>)
  <2>1. /\ Runs(c, <<>>) /\ g \in Pointers \cup {Manifest(t) : t \in Table}
        /\ todo[c][1][1] = "fill" /\ todo[c][1][2] = g /\ disk' = [disk EXCEPT ![g] = v]
    BY <1>6 DEF IsFilling
  <2>2. QED  BY <1>1, <1>2, <1>3, <2>1 DEF Spares
<1>7. ASSUME NEW y, IsReporting(c, y) PROVE Spares(c, <<>>)
  <2>1. Runs(c, <<>>) /\ todo[c][1][1] = "report" /\ disk' = disk
    BY <1>7 DEF IsReporting
  <2>2. QED  BY <1>2, <2>1 DEF Spares, Writing
<1>8. QED  BY <1>4, <1>5, <1>6, <1>7

\* Every step of a client keeps what restores are to report.
LEMMA WorksNext ==
    ASSUME DiskIs, RequestsAre, LinkedAre, WorksAre, NEW c \in Client, StepIs(c)
    PROVE  WorksAre'
<1>1. CASE BeginsRight(c)
  BY <1>1, BeginsWorks
<1>2. CASE Abort(c)
  BY <1>2, AbortWorks
<1>3. CASE \E a, t, ps, s, m : IsRecording(c, a, t, ps, s, m)
  BY <1>3, RecordWorks
<1>4. CASE \E a : OnWork(c, a)
  BY <1>4, SparesWorks, FetchingWorks, UnlinkingWorks, OpeningWorks, FillingWorks DEF OnWork
<1>5. CASE \/ \E a, g, t, m : IsEditing(c, a, g, t, m)
           \/ \E a, g, m : IsOpening(c, a, g, m)
           \/ \E g, m, v : IsFilling(c, g, m, v)
           \/ IsReporting(c, todo[c][1])
  BY <1>5, PointersSpare, SparesWorks
<1>6. QED  BY <1>1, <1>2, <1>3, <1>4, <1>5 DEF StepIs

\* The first call of a request that reports a restore has all of it behind it.
LEMMA RestoredAreBack ==
    ASSUME RequestsAre, LinkedAre, WorksAre
    PROVE  RestoreBringsBack
<1>1. SUFFICES ASSUME NEW c \in Client, todo[c] # <<>>, todo[c][1][1] = "report",
                      todo[c][1][4] = "restore",
                      NEW y, y = todo[c][1], NEW t, t = y[2],
                      (WorkFiles(t) \cup {Blob(d) : d \in ValuesOf(y[5].blobs)}) \cap disturbed = {}
               PROVE  WorkOf(t) = y[5].blobs
  BY DEF RestoreBringsBack, Is, Idle
<1>2. y \in ToSet(todo[c]) /\ IsRestored(y) /\ IsRequest(todo[c])
  BY <1>1, First DEF IsRestored
<1>3. t \in Table /\ y[5] \in Kept(t) /\ DOMAIN y[5].blobs \subseteq Kinds(t)
      /\ \A k \in DOMAIN y[5].blobs : y[5].blobs[k] \in Data
  BY <1>1, <1>2, RestoredIs
<1>4. \A k \in DOMAIN y[5].blobs : Blob(y[5].blobs[k]) \notin disturbed
  BY <1>1 DEF ValuesOf
<1>5. \A k \in Kinds(t) : WorkIs(c, y, k)
  BY <1>1, <1>2, <1>4 DEF WorksAre, IsRestored, WorkFiles
<1>6. \A x \in ToSet(todo[c]) : \A k \in Kinds(t) : ~Touches(x, k, t)
  <2>1. SUFFICES ASSUME NEW i \in DOMAIN todo[c], NEW k \in Kinds(t), Touches(todo[c][i], k, t)
                 PROVE  FALSE
    BY DEF ToSet
  <2>2. i # 1
    BY <1>1, <2>1 DEF Touches, Writing
  <2>3. 1 \in DOMAIN todo[c] /\ 1 < i
    BY <1>2, <2>2 DEF IsRequest
  <2>4. Closes(todo[c][1], todo[c][i])
    BY <2>3 DEF LinkedAre, Linked
  <2>5. IsAbout(todo[c][i], t)
    BY <1>3, <2>1 DEF Touches, IsAbout, Planned, WorkFiles
  <2>6. QED  BY <1>1, <2>4, <2>5 DEF Closes
<1>7. \A k \in Kinds(t) :
         disk[Work(k, t)] = IF k \in DOMAIN y[5].blobs THEN y[5].blobs[k] ELSE Absent
  BY <1>1, <1>5, <1>6 DEF WorkIs
<1>8. {k \in Kinds(t) : disk[Work(k, t)] # Absent} = DOMAIN y[5].blobs
  BY <1>3, <1>7, DataIs
<1>9. y[5].blobs = [k \in DOMAIN y[5].blobs |-> y[5].blobs[k]]
  <2>1. y[5].blobs \in PartialMap({"source", "output"}, Data)
    BY <1>3 DEF Kept
  <2>2. QED  BY <2>1, PartialMapDef
<1>10. WorkOf(t) = [k \in DOMAIN y[5].blobs |-> disk[Work(k, t)]]
  BY <1>8 DEF WorkOf
<1>11. QED  BY <1>3, <1>7, <1>9, <1>10

\* Stuttering steps.
LEMMA NothingMoves ==
    ASSUME LinkedAre, WorksAre, UNCHANGED vars
    PROVE  LinkedAre' /\ WorksAre'
<1>1. disk' = disk /\ todo' = todo /\ disturbed' = disturbed
  BY DEF vars
<1>2. QED  BY <1>1 DEF LinkedAre, WorksAre, WorkIs

\* When a restore reports, the working tree of the table is the snapshot it
\* restored, its outputs removed where the snapshot has none, whichever requests
\* run and die meanwhile, unless another writes to the table (HistoryStore.restore).
THEOREM RestoredIsBack == Spec => []RestoreBringsBack
<1>1. Init => DiskIs /\ RequestsAre /\ LinkedAre /\ WorksAre
  <2>1. SUFFICES ASSUME Init PROVE DiskIs /\ RequestsAre /\ LinkedAre /\ WorksAre
    OBVIOUS
  <2>2. \A c \in Client : todo[c] = <<>> /\ ToSet(todo[c]) = {}
    <3>1. todo = [c \in Client |-> <<>>]
      BY <2>1 DEF Init
    <3>2. QED  BY <3>1, Short
  <2>3. LinkedAre /\ WorksAre
    BY <2>2, NothingLinked DEF LinkedAre, WorksAre
  <2>4. QED  BY <2>1, <2>3, InitIs
<1>2. DiskIs /\ RequestsAre /\ LinkedAre /\ WorksAre /\ [Next]_vars =>
          (DiskIs /\ RequestsAre /\ LinkedAre /\ WorksAre)'
  BY NextKeeps, NextIs, LinkedNext, WorksNext, NothingMoves
<1>3. RequestsAre /\ LinkedAre /\ WorksAre => RestoreBringsBack
  BY RestoredAreBack
<1>4. QED  BY <1>1, <1>2, <1>3, PTL DEF Spec

-----------------------------------------------------------------------------
(* Pointers: who is to set them, and who is to report them.                *)

\* Who is still to set a pointer is still to report it.
LEMMA UnsetSettles ==
    ASSUME NEW s, Linked(s), NEW f, NEW t \in Table, Unset(s, f, t)
    PROVE  Settler(s, f, t)
<1>1. PICK x \in ToSet(s) : \/ x[1] = "record" /\ x[2] = t /\ f \in x[3]
                            \/ x[1] \in {"put", "del"} /\ x[2] = f /\ x[3] = t
  BY DEF Unset
<1>2. CASE x[1] = "record" /\ x[2] = t /\ f \in x[3]
  BY <1>2 DEF Settler
<1>3. CASE x[1] \in {"put", "del"} /\ x[2] = f /\ x[3] = t
  <2>1. IsAbout(x, t) /\ x[1] \notin Ending
    BY <1>3 DEF IsAbout, Ending
  <2>2. PICK y \in ToSet(s) : Reports(y, t)
    BY <2>1 DEF Linked
  <2>3. Fits(x, y)
    BY <2>1, <2>2 DEF Linked
  <2>4. f \in y[3]
    BY <1>3, <2>3 DEF Fits
  <2>5. QED  BY <2>2, <2>4 DEF Reports, Settler
<1>4. QED  BY <1>1, <1>2, <1>3

\* Who saves a log is to clear the head next.
LEMMA SaverIsUnset ==
    ASSUME NEW s, IsRequest(s), Linked(s), NEW t \in Table, Saves(s, t)
    PROVE  /\ Unset(s, HeadFile, t) /\ Settler(s, HeadFile, t)
           /\ \E y \in Rest(s) : y[1] = "del" /\ y[2] = HeadFile /\ y[3] = t
<1>1. s # <<>> /\ s[1][1] = "fill" /\ s[1][2] = Manifest(t) /\ s \in Seq(ToSet(s))
  BY DEF Saves, IsRequest
<1>2. 1 \in DOMAIN s
  BY <1>1
<1>3. s[1] \in ToSet(s)
  BY <1>2 DEF ToSet
<1>4. PICK y \in ToSet(s) : y[1] = "del" /\ y[2] = HeadFile /\ y[3] = t
  BY <1>1, <1>3 DEF Linked
<1>5. Unset(s, HeadFile, t)
  BY <1>4 DEF Unset
<1>6. y \in Rest(s)
  BY <1>1, <1>4 DEF ToSet, Rest
<1>7. QED  BY <1>4, <1>5, <1>6, UnsetSettles

\* Who is to report a commit is to settle the head.
LEMMA CommitterSettles ==
    ASSUME NEW s, Linked(s), NEW y \in ToSet(s), ReportsCommit(y)
    PROVE  Settler(s, HeadFile, y[2])
BY DEF Linked, ReportsCommit, Settler

\* Who is to report about a pointer is to settle it.
LEMMA ReporterSettles ==
    ASSUME NEW s, NEW f, NEW t, NEW y \in ReportsOf(s, f, t)
    PROVE  Settler(s, f, t) /\ y \in ToSet(s) /\ Reports(y, t) /\ f \in y[3]
BY DEF ReportsOf, Reports, Settler

\* Who fills a pointer file is at it with its first call.
LEMMA FillsEdits ==
    ASSUME RequestsAre, NEW c \in Client, NEW f, Fills(todo[c], f)
    PROVE  Edits(todo[c], f)
BY FillsFirst DEF RequestsAre

\* What is told of pointer f of t does not change.
ToldStays(f, t) ==
    IF f = HeadFile
    THEN /\ t \in DOMAIN told'.head <=> t \in DOMAIN told.head
         /\ t \in DOMAIN told.head => told'.head[t] = told.head[t]
    ELSE /\ t \in DOMAIN told'.golden <=> t \in DOMAIN told.golden
         /\ t \in DOMAIN told.golden => told'.golden[t] = told.golden[t]

\* The requests are about pointer f of t as before.
SetsStay(f, t) ==
    /\ \A d \in Client : /\ Settler(todo'[d], f, t) <=> Settler(todo[d], f, t)
                         /\ ReportsOf(todo'[d], f, t) \subseteq ReportsOf(todo[d], f, t)
                         /\ Unset(todo[d], f, t) => Unset(todo'[d], f, t)
    /\ f = HeadFile => ReadLog(t)' = ReadLog(t)
    /\ ToldStays(f, t)

\* What a map holds of a pointer it goes on holding.
LEMMA HoldsOn ==
    ASSUME NEW f \in Pointers, NEW t, SetsStay(f, t), NEW m, Holds(f, t, m)
    PROVE  Holds(f, t, m)'
<1>1. f = HeadFile => HeadOf(m, t)' = HeadOf(m, t)
  BY DEF SetsStay, HeadOf
<1>2. ASSUME NEW c \in Client, NEW y \in ReportsOf(todo'[c], f, t) PROVE Agrees(f, t, m, y)'
  <2>1. y \in ReportsOf(todo[c], f, t)
    BY <1>2 DEF SetsStay
  <2>2. Agrees(f, t, m, y)
    BY <2>1 DEF Holds
  <2>3. QED  BY <2>2, <1>1 DEF Agrees
<1>3. ASSUME \A c \in Client : ~Settler(todo'[c], f, t) PROVE AgreesWithTold(f, t, m)'
  <2>1. \A c \in Client : ~Settler(todo[c], f, t)
    BY <1>3 DEF SetsStay
  <2>2. AgreesWithTold(f, t, m)
    BY <2>1 DEF Holds
  <2>3. CASE f = HeadFile
    BY <1>1, <2>2, <2>3 DEF AgreesWithTold, SetsStay, ToldStays
  <2>4. CASE f # HeadFile
    BY <2>2, <2>4 DEF AgreesWithTold, SetsStay, ToldStays
  <2>5. QED  BY <2>3, <2>4
<1>4. QED  BY <1>2, <1>3 DEF Holds

\* A step of c that is not at pointer file f.
IsElsewhere(c, f, t) ==
    /\ \A d \in Client \ {c} : todo'[d] = todo[d]
    /\ ~Edits(todo'[c], f) /\ ~Fills(todo'[c], f)
    /\ Edits(todo[c], f) => ~Fills(todo[c], f) /\ ~Settler(todo[c], f, t)
    /\ disk'[f] = disk[f]

\* Such a step keeps what is known of pointer f of t.
LEMMA MarkStays ==
    ASSUME RequestsAre, NEW c \in Client, NEW f \in Pointers, NEW t,
           SetsStay(f, t), IsElsewhere(c, f, t), MarkIs(f, t)
    PROVE  MarkIs(f, t)'
<1>1. \A d, e \in Client : Settler(todo'[d], f, t) /\ Settler(todo'[e], f, t) => d = e
  BY DEF MarkIs, SetsStay
<1>2. ASSUME IsSet(f, t)'
      PROVE  /\ \A d, e \in Client : Edits(todo'[d], f) /\ Edits(todo'[e], f) => d = e
             /\ \A d \in Client : Edits(todo'[d], f) => Holds(f, t, todo[d][1][3])'
             /\ \A d \in Client : Fills(todo'[d], f) => disk'[f] = Torn
             /\ (\A d \in Client : ~Fills(todo'[d], f)
                                   /\ ~(Edits(todo'[d], f) /\ Settler(todo'[d], f, t)))
                => Holds(f, t, ReadMap(f))'
  <2>1. IsSet(f, t)
    BY <1>2 DEF IsSet, SetsStay
  <2>2. /\ \A d, e \in Client : Edits(todo[d], f) /\ Edits(todo[e], f) => d = e
        /\ \A d \in Client : Edits(todo[d], f) => Holds(f, t, todo[d][1][3])
        /\ \A d \in Client : Fills(todo[d], f) => disk[f] = Torn
        /\ (\A d \in Client : ~Fills(todo[d], f)
                              /\ ~(Edits(todo[d], f) /\ Settler(todo[d], f, t)))
           => Holds(f, t, ReadMap(f))
    BY <2>1 DEF MarkIs
  <2>3. \A d \in Client : /\ Edits(todo'[d], f) => d # c /\ todo'[d] = todo[d]
                          /\ Fills(todo'[d], f) => d # c /\ todo'[d] = todo[d]
    BY DEF IsElsewhere
  <2>4. ASSUME NEW d \in Client, Edits(todo'[d], f) PROVE Holds(f, t, todo[d][1][3])'
    <3>1. PICK m : m = todo[d][1][3]
      OBVIOUS
    <3>2. Holds(f, t, m)
      BY <2>2, <2>3, <2>4, <3>1
    <3>3. Holds(f, t, m)'
      BY <3>2, HoldsOn
    <3>4. m = todo'[d][1][3]
      BY <2>3, <2>4, <3>1
    <3>5. QED  BY <3>3, <3>4 DEF Holds
  <2>5. ASSUME \A d \in Client : ~Fills(todo'[d], f)
                                 /\ ~(Edits(todo'[d], f) /\ Settler(todo'[d], f, t))
        PROVE  Holds(f, t, ReadMap(f))'
    <3>1. ~Fills(todo[c], f)
      BY FillsEdits DEF IsElsewhere
    <3>2. \A d \in Client : ~Fills(todo[d], f) /\ ~(Edits(todo[d], f) /\ Settler(todo[d], f, t))
      BY <2>5, <3>1 DEF IsElsewhere
    <3>3. PICK m : m = ReadMap(f)
      OBVIOUS
    <3>4. Holds(f, t, m)'
      BY <2>2, <3>2, <3>3, HoldsOn
    <3>5. m = ReadMap(f)'
      BY <3>3 DEF ReadMap, IsElsewhere
    <3>6. QED  BY <3>4, <3>5 DEF Holds
  <2>6. QED  BY <2>2, <2>3, <2>4, <2>5 DEF IsElsewhere
<1>3. QED  BY <1>1, <1>2 DEF MarkIs, IsSet

\* A pointer that a client is still to set: that it is the only one is enough.
LEMMA MarkUnset ==
    ASSUME NEW c \in Client, NEW f, NEW t, Unset(todo'[c], f, t),
           \A d, e \in Client : Settler(todo'[d], f, t) /\ Settler(todo'[e], f, t) => d = e
    PROVE  MarkIs(f, t)'
BY DEF MarkIs, IsSet

\* No step that leaves the log of t alone makes another snapshot its last.
LEMMA CommitStays ==
    ASSUME NEW c \in Client, NEW t, CommitIsLast(t), ReadLog(t)' = ReadLog(t),
           \A d \in Client \ {c} : todo'[d] = todo[d],
           ~Saves(todo[c], t),
           \A y \in ToSet(todo'[c]) : ReportsCommit(y) /\ y[2] = t => y \in ToSet(todo[c])
    PROVE  CommitIsLast(t)'
<1>1. ASSUME NEW d \in Client, NEW y \in ToSet(todo'[d]), ReportsCommit(y), y[2] = t,
             ~Saves(todo'[d], t)
      PROVE  ReadLog(t)' # <<>> /\ Last(ReadLog(t)') = y[5]
  <2>1. y \in ToSet(todo[d]) /\ ~Saves(todo[d], t)
    BY <1>1
  <2>2. ReadLog(t) # <<>> /\ Last(ReadLog(t)) = y[5]
    BY <1>1, <2>1 DEF CommitIsLast
  <2>3. QED  BY <2>2
<1>2. QED  BY <1>1 DEF CommitIsLast

\* What a client that goes on is to set and to report.
LEMMA RunsOn ==
    ASSUME RequestsAre, NEW c \in Client, NEW a, Runs(c, a)
    PROVE  /\ \A f, t : /\ Settler(todo'[c], f, t) => Settler(todo[c], f, t)
                        /\ ReportsOf(todo'[c], f, t) \subseteq ReportsOf(todo[c], f, t)
                        /\ Unset(todo'[c], f, t) => Unset(todo[c], f, t)
                        /\ Settler(todo[c], f, t) =>
                              \/ Settler(todo'[c], f, t)
                              \/ /\ todo[c][1][1] \in {"record", "report"}
                                 /\ todo[c][1][2] = t /\ f \in todo[c][1][3]
                        /\ Unset(todo[c], f, t) =>
                              \/ Unset(todo'[c], f, t)
                              \/ todo[c][1][1] = "record"
                              \/ /\ todo[c][1][1] \in {"put", "del"}
                                 /\ todo[c][1][2] = f /\ todo[c][1][3] = t
           /\ \A y \in ToSet(todo'[c]) : y[1] \in Planned => y \in Rest(todo[c])
           /\ \A f : Edits(todo'[c], f) => a # <<>> /\ a[1] \in ToSet(a) /\ a[1][2] = f
           /\ \A t \in Table : ~Saves(todo'[c], t)
<1>1. Writes(a, todo[c][1]) /\ Goes(c, a)
  BY DEF Runs
<1>2. /\ ToSet(todo'[c]) = ToSet(a) \cup Rest(todo[c])
      /\ ToSet(todo[c]) = {todo[c][1]} \cup Rest(todo[c])
      /\ a # <<>> => todo'[c][1] = a[1]
      /\ a = <<>> => \A f : ~Edits(todo'[c], f) /\ ~Fills(todo'[c], f)
  BY NowIs
<1>3. \A z \in ToSet(a) : z[1] \in Writing /\ z[1] \notin Planned
  BY <1>1 DEF Writes, Writing, Planned
<1>4. \A y \in ToSet(todo'[c]) : y[1] \in Planned => y \in Rest(todo[c])
  BY <1>2, <1>3
<1>5. a # <<>> => a[1] \in ToSet(a)
  <2>1. a \in Seq(ToSet(a))
    BY <1>1 DEF Goes
  <2>2. a # <<>> => 1 \in DOMAIN a
    BY <2>1
  <2>3. QED  BY <2>2 DEF ToSet
<1>6. \A f : Edits(todo'[c], f) => a # <<>> /\ a[1] \in ToSet(a) /\ a[1][2] = f
  BY <1>2, <1>5 DEF Edits
<1>7. \A t \in Table : ~Saves(todo'[c], t)
  <2>1. ASSUME NEW t \in Table, Saves(todo'[c], t) PROVE FALSE
    <3>1. Edits(todo'[c], Manifest(t))
      BY <2>1 DEF Saves, Edits, Writing
    <3>2. a[1] \in ToSet(a) /\ a[1][2] = Manifest(t)
      BY <1>6, <3>1
    <3>3. QED  BY <1>1, <3>2 DEF Writes
  <2>2. QED  BY <2>1
<1>8. ASSUME NEW f, NEW t
      PROVE  /\ Settler(todo'[c], f, t) => Settler(todo[c], f, t)
             /\ ReportsOf(todo'[c], f, t) \subseteq ReportsOf(todo[c], f, t)
             /\ Unset(todo'[c], f, t) => Unset(todo[c], f, t)
  BY <1>2, <1>4 DEF Settler, ReportsOf, Reports, Unset, Planned
<1>9. ASSUME NEW f, NEW t, Settler(todo[c], f, t)
      PROVE  \/ Settler(todo'[c], f, t)
             \/ /\ todo[c][1][1] \in {"record", "report"}
                /\ todo[c][1][2] = t /\ f \in todo[c][1][3]
  BY <1>2, <1>9 DEF Settler
<1>10. ASSUME NEW f, NEW t, Unset(todo[c], f, t)
       PROVE  \/ Unset(todo'[c], f, t)
              \/ todo[c][1][1] = "record"
              \/ /\ todo[c][1][1] \in {"put", "del"}
                 /\ todo[c][1][2] = f /\ todo[c][1][3] = t
  BY <1>2, <1>10 DEF Unset
<1>11. QED  BY <1>4, <1>6, <1>7, <1>8, <1>9, <1>10

\* The parts of it that say which calls are there.
LEMMA RunEdits ==
    ASSUME RequestsAre, NEW c \in Client, NEW a, Runs(c, a)
    PROVE  /\ \A f : Edits(todo'[c], f) => a # <<>> /\ a[1] \in ToSet(a) /\ a[1][2] = f
           /\ \A y \in ToSet(todo'[c]) : y[1] \in Planned => y \in Rest(todo[c])
BY RunsOn

-----------------------------------------------------------------------------
(* What the pointer files are.                                             *)

\* The maps of the next state.
LEMMA MapsStep ==
    ASSUME MarksAreMaps, NEW c \in Client, \A d \in Client \ {c} : todo'[d] = todo[d],
           \A f \in Pointers : disk'[f] = disk[f] \/ disk'[f] = Torn \/ disk'[f] \in Marks,
           \A f \in Pointers : Edits(todo'[c], f) => todo'[c][1][3] \in Marks,
           \A x \in ToSet(todo'[c]) : x[1] = "put" => x[4] \in Nat \/ x \in ToSet(todo[c]),
           DOMAIN told'.head \subseteq Table
    PROVE  MarksAreMaps'
<1>1. \A d \in Client : \A f \in Pointers : Edits(todo'[d], f) => todo'[d][1][3] \in Marks
  BY DEF MarksAreMaps
<1>2. \A d \in Client : \A x \in ToSet(todo'[d]) : x[1] = "put" => x[4] \in Nat
  BY DEF MarksAreMaps
<1>3. \A f \in Pointers : disk'[f] \in {Absent, Torn} \cup Marks
  BY DEF MarksAreMaps
<1>4. QED  BY <1>1, <1>2, <1>3 DEF MarksAreMaps, Marks

\* A client that goes on leaves the pointer files maps, if what it writes is one.
LEMMA MapsRun ==
    ASSUME RequestsAre, MarksAreMaps, NEW c \in Client, NEW a, Runs(c, a),
           \A f \in Pointers : disk'[f] = disk[f] \/ disk'[f] = Torn \/ disk'[f] \in Marks,
           a # <<>> /\ a[1] \in ToSet(a) /\ a[1][2] \in Pointers => a[1][3] \in Marks,
           DOMAIN told'.head \subseteq Table
    PROVE  MarksAreMaps'
<1>1. \A d \in Client \ {c} : todo'[d] = todo[d]
  BY NowIs
<1>2. \A f : Edits(todo'[c], f) => a # <<>> /\ a[1] \in ToSet(a) /\ a[1][2] = f
  BY RunEdits
<1>3. \A f \in Pointers : Edits(todo'[c], f) => todo'[c][1][3] \in Marks
  BY <1>2, NowIs
<1>4. \A x \in ToSet(todo'[c]) : x[1] = "put" => x \in ToSet(todo[c])
  <2>1. \A x \in ToSet(todo'[c]) : x[1] \in Planned => x \in Rest(todo[c])
    BY RunEdits
  <2>2. \A x \in Rest(todo[c]) : x \in ToSet(todo[c])
    BY NowIs
  <2>3. QED  BY <2>1, <2>2 DEF Planned
<1>5. QED  BY <1>1, <1>3, <1>4, MapsStep

\* A pointer file reads as a map.
LEMMA ReadMapIs ==
    ASSUME MarksAreMaps, NEW f \in Pointers
    PROVE  ReadMap(f) \in Marks
BY EmptyMapType DEF MarksAreMaps, ReadMap, Marks

\* Every step of a client keeps the pointer files maps.
LEMMA MapsNext ==
    ASSUME DiskIs, RequestsAre, MarksAreMaps, NEW c \in Client, StepIs(c)
    PROVE  MarksAreMaps'
<1>1. CASE BeginsRight(c)
  <2>1. PICK sets, n : Begins(c, sets, n)
    BY <1>1 DEF BeginsRight
  <2>2. todo' = [todo EXCEPT ![c] = n] /\ disk' = disk /\ told' = told
    BY <2>1 DEF Begins, Begin
  <2>3. todo'[c] = n /\ \A d \in Client \ {c} : todo'[d] = todo[d]
    BY <2>2, OthersWait
  <2>4. \A f : ~Edits(n, f)
    BY <2>1 DEF Begins, IsStart, Edits, Writing, Planned
  <2>5. \A x \in ToSet(n) : x[1] = "put" => x[4] \in Nat
    BY <2>1 DEF Begins
  <2>6. DOMAIN told'.head \subseteq Table
    BY <2>2 DEF MarksAreMaps
  <2>7. QED  BY <2>2, <2>3, <2>4, <2>5, <2>6, MapsStep
<1>2. CASE Abort(c)
  <2>1. todo' = [todo EXCEPT ![c] = <<>>] /\ disk' = disk /\ told' = told
    BY <1>2 DEF Abort
  <2>2. todo'[c] = <<>> /\ \A d \in Client \ {c} : todo'[d] = todo[d]
    BY <2>1, OthersWait
  <2>3. (\A f : ~Edits(<<>>, f)) /\ ToSet(<<>>) = {}
    BY Short DEF Edits
  <2>4. DOMAIN told'.head \subseteq Table
    BY <2>1 DEF MarksAreMaps
  <2>5. QED  BY <2>1, <2>2, <2>3, <2>4, MapsStep
<1>3. CASE \E a, t, ps, s, l : IsRecording(c, a, t, ps, s, l)
  <2>1. PICK a, t, ps, s, l : IsRecording(c, a, t, ps, s, l)
    BY <1>3
  <2>2. /\ Goes(c, a) /\ t \in Table /\ s \in Kept(t) /\ AreSaving(a, t, ps, s, l)
        /\ disk' = [disk EXCEPT ![Manifest(t)] = Torn] /\ told' = told
    BY <2>1 DEF IsRecording
  <2>3. a # <<>> /\ a[1][2] = Manifest(t)
    BY <2>2 DEF AreSaving, SavesLog
  <2>4. /\ \A d \in Client \ {c} : todo'[d] = todo[d]
        /\ ToSet(todo'[c]) = ToSet(a) \cup Rest(todo[c])
        /\ ToSet(todo[c]) = {todo[c][1]} \cup Rest(todo[c])
        /\ todo'[c][1] = a[1]
    BY <2>2, <2>3, GoesOn
  <2>5. \A f \in Pointers : f # Manifest(t) /\ disk'[f] = disk[f]
    BY <2>2, Names, Files DEF DiskIs
  <2>6. \A f \in Pointers : ~Edits(todo'[c], f)
    BY <2>3, <2>4, <2>5 DEF Edits
  <2>7. \A x \in ToSet(a) : x[1] = "put" => x[4] \in Nat
    <3>1. s.id \in Nat
      BY <2>2 DEF Kept
    <3>2. QED  BY <2>2, <3>1 DEF AreSaving, SavesLog, ClearsHead, MarksGolden, Confirms
  <2>8. \A x \in ToSet(todo'[c]) : x[1] = "put" => x[4] \in Nat \/ x \in ToSet(todo[c])
    BY <2>4, <2>7
  <2>9. DOMAIN told'.head \subseteq Table
    BY <2>2 DEF MarksAreMaps
  <2>10. QED  BY <2>4, <2>5, <2>6, <2>8, <2>9, MapsStep
<1>4. CASE \E a : IsAside(c, a)
  <2>1. PICK a : IsAside(c, a)
    BY <1>4
  <2>2. /\ Runs(c, a) /\ \A f \in Pointers : disk'[f] = disk[f]
        /\ told' = told /\ \A z \in ToSet(a) : z[2] \notin Pointers
    BY <2>1 DEF IsAside
  <2>3. DOMAIN told'.head \subseteq Table
    BY <2>2 DEF MarksAreMaps
  <2>4. QED  BY <2>2, <2>3, MapsRun
<1>5. CASE \E a, g, t, m : IsEditing(c, a, g, t, m)
  <2>1. PICK a, g, t, m : IsEditing(c, a, g, t, m)
    BY <1>5
  <2>2. /\ Runs(c, a) /\ g \in Pointers /\ t \in Table /\ disk' = disk /\ told' = told
        /\ a # <<>> => a[1][3] = m
        /\ \/ todo[c][1][1] = "put" /\ m = Put(ReadMap(g), t, todo[c][1][4])
           \/ m = Drop(ReadMap(g), {t})
           \/ m = ReadMap(g)
    BY <2>1 DEF IsEditing
  <2>3. todo[c][1] \in ToSet(todo[c])
    BY <2>2, NowIs
  <2>4. todo[c][1][1] = "put" => todo[c][1][4] \in Nat
    BY <2>3 DEF MarksAreMaps
  <2>5. ReadMap(g) \in Marks
    BY <2>2, ReadMapIs
  <2>6. m \in Marks
    <3>1. ASSUME NEW i \in Nat PROVE Put(ReadMap(g), t, i) \in Marks
      BY <2>2, <2>5, PutType DEF Marks
    <3>2. Drop(ReadMap(g), {t}) \in Marks
      BY <2>5, DropType DEF Marks
    <3>3. QED  BY <2>2, <2>4, <2>5, <3>1, <3>2
  <2>7. DOMAIN told'.head \subseteq Table
    BY <2>2 DEF MarksAreMaps
  <2>8. QED  BY <2>2, <2>6, <2>7, MapsRun
<1>6. CASE \E a, g, m : IsOpening(c, a, g, m)
  <2>1. PICK a, g, m : IsOpening(c, a, g, m)
    BY <1>6
  <2>2. /\ Runs(c, a) /\ g \in Pointers /\ todo[c][1][1] = "open" /\ todo[c][1][2] = g
        /\ todo[c][1][3] = m /\ a[1][3] = m /\ told' = told /\ disk' = [disk EXCEPT ![g] = Torn]
    BY <2>1 DEF IsOpening
  <2>3. todo[c] # <<>>
    BY <2>2, NowIs
  <2>4. m \in Marks
    BY <2>2, <2>3 DEF MarksAreMaps, Edits, Writing
  <2>5. \A f \in Pointers : disk'[f] = disk[f] \/ disk'[f] = Torn
    BY <2>2, Files DEF DiskIs
  <2>6. DOMAIN told'.head \subseteq Table
    BY <2>2 DEF MarksAreMaps
  <2>7. QED  BY <2>2, <2>4, <2>5, <2>6, MapsRun
<1>7. CASE \E g, m, v : IsFilling(c, g, m, v)
  <2>1. PICK g, m, v : IsFilling(c, g, m, v)
    BY <1>7
  <2>2. /\ Runs(c, <<>>) /\ todo[c][1][1] = "fill" /\ todo[c][1][2] = g
        /\ todo[c][1][3] = m /\ v \in {m, Torn} /\ told' = told /\ disk' = [disk EXCEPT ![g] = v]
    BY <2>1 DEF IsFilling
  <2>3. todo[c] # <<>>
    BY <2>2, NowIs
  <2>4. g \in Pointers => m \in Marks
    BY <2>2, <2>3 DEF MarksAreMaps, Edits, Writing
  <2>5. \A f \in Pointers : disk'[f] = disk[f] \/ disk'[f] = Torn \/ disk'[f] \in Marks
    BY <2>2, <2>4, Files DEF DiskIs
  <2>6. DOMAIN told'.head \subseteq Table
    BY <2>2 DEF MarksAreMaps
  <2>7. QED  BY <2>2, <2>5, <2>6, MapsRun
<1>8. CASE IsReporting(c, todo[c][1])
  <2>1. PICK y : y = todo[c][1] /\ IsReporting(c, y)
    BY <1>8
  <2>2. /\ Runs(c, <<>>) /\ disk' = disk /\ y[1] = "report"
        /\ told'.head = IF HeadFile \in y[3] THEN Put(told.head, y[2], y[5].id) ELSE told.head
    BY <2>1 DEF IsReporting
  <2>3. y[2] \in Table
    BY <2>1, <2>2, NowIs DEF IsCall, Planned
  <2>4. DOMAIN told'.head \subseteq Table
    BY <2>2, <2>3 DEF MarksAreMaps, Put
  <2>5. QED  BY <2>2, <2>4, MapsRun
<1>9. QED  BY <1>1, <1>2, <1>3, <1>4, <1>5, <1>6, <1>7, <1>8 DEF StepIs

\* The snapshots that the next state mentions.
LEMMA MentionedIs ==
    ASSUME NEW t, NEW s
    PROVE  /\ s \in Mentioned(t) <=>
                 \/ t \in DOMAIN told.golden /\ s = told.golden[t]
                 \/ \E d \in Client : \E y \in ToSet(todo[d]) :
                       Reports(y, t) /\ y[4] # "clear" /\ s = y[5]
           /\ s \in Mentioned(t)' <=>
                 \/ t \in DOMAIN told'.golden /\ s = told'.golden[t]
                 \/ \E d \in Client : \E y \in ToSet(todo'[d]) :
                       Reports(y, t) /\ y[4] # "clear" /\ s = y[5]
BY DEF Mentioned

\* A log that stays counts on: what is mentioned anew has to be in it.
LEMMA CountsOn ==
    ASSUME NEW t, LogCounts(t), disk'[Manifest(t)] = disk[Manifest(t)],
           \A d \in Client : todo'[d] = todo[d] \/ (~Saves(todo[d], t) /\ ~Saves(todo'[d], t)),
           \A s \in Mentioned(t)' : s \in Mentioned(t) \/ IsIn(t, s)
    PROVE  LogCounts(t)'
<1>1. \A d \in Client : Saves(todo'[d], t) <=> Saves(todo[d], t)
  OBVIOUS
<1>2. \A d \in Client : Saves(todo'[d], t) => todo'[d] = todo[d]
  OBVIOUS
<1>3. ReadLog(t)' = ReadLog(t) /\ Readable(t)' = Readable(t)
  BY DEF ReadLog, Readable
<1>4. \A s : IsIn(t, s) => IsIn(t, s)'
  BY <1>1, <1>2, <1>3 DEF IsIn
<1>5. \A s \in Mentioned(t)' : IsIn(t, s)'
  BY <1>4 DEF LogCounts
<1>6. \A d \in Client : Saves(todo'[d], t) => Numbered(todo'[d][1][3])
  BY <1>1, <1>2 DEF LogCounts
<1>7. Readable(t)' => Numbered(ReadLog(t)')
  BY <1>3 DEF LogCounts
<1>8. QED  BY <1>5, <1>6, <1>7 DEF LogCounts

\* A client that goes on mentions nothing more.
LEMMA CountsRun ==
    ASSUME RequestsAre, NEW c \in Client, NEW a, Runs(c, a), NEW t \in Table, LogCounts(t),
           disk'[Manifest(t)] = disk[Manifest(t)], ~Saves(todo[c], t),
           told'.golden = told.golden
           \/ (t \in DOMAIN told'.golden =>
                 \/ t \in DOMAIN told.golden /\ told'.golden[t] = told.golden[t]
                 \/ Reports(todo[c][1], t) /\ todo[c][1][4] # "clear"
                    /\ told'.golden[t] = todo[c][1][5])
    PROVE  LogCounts(t)'
<1>1. \A d \in Client : todo'[d] = todo[d] \/ (~Saves(todo[d], t) /\ ~Saves(todo'[d], t))
  BY RunsOn, NowIs
<1>2. \A y \in ToSet(todo'[c]) : y[1] \in Planned => y \in Rest(todo[c])
  BY RunEdits
<1>3. \A d \in Client : \A y \in ToSet(todo'[d]) : Reports(y, t) => y \in ToSet(todo[d])
  <2>1. \A y \in ToSet(todo'[c]) : Reports(y, t) => y \in ToSet(todo[c])
    BY <1>2, NowIs DEF Reports, Planned
  <2>2. QED  BY <2>1, NowIs
<1>4. todo[c][1] \in ToSet(todo[c])
  BY NowIs
<1>5. ASSUME NEW s \in Mentioned(t)' PROVE s \in Mentioned(t)
  <2>1. CASE t \in DOMAIN told'.golden /\ s = told'.golden[t]
    BY <2>1, <1>4, MentionedIs
  <2>2. CASE \E d \in Client : \E y \in ToSet(todo'[d]) :
                 Reports(y, t) /\ y[4] # "clear" /\ s = y[5]
    BY <2>2, <1>3, MentionedIs
  <2>3. QED  BY <2>1, <2>2, MentionedIs
<1>6. QED  BY <1>1, <1>5, CountsOn

\* A request begins: it goes by a log that can be read, which nobody saves.
LEMMA CountsBegin ==
    ASSUME RequestsAre, NEW c \in Client, NEW sets, NEW n, Begins(c, sets, n),
           NEW t \in Table, LogIs(t), LogCounts(t)
    PROVE  LogCounts(t)'
<1>1. todo' = [todo EXCEPT ![c] = n] /\ disk' = disk /\ told' = told /\ todo[c] = <<>>
  BY DEF Begins, Begin, Idle
<1>2. todo'[c] = n /\ \A d \in Client \ {c} : todo'[d] = todo[d]
  BY <1>1, OthersWait
<1>3. ~Saves(n, t)
  BY DEF Begins, IsStart, Saves, Planned
<1>4. ~Saves(<<>>, t)
  BY DEF Saves
<1>5. \A d \in Client : todo'[d] = todo[d] \/ (~Saves(todo[d], t) /\ ~Saves(todo'[d], t))
  BY <1>1, <1>2, <1>3, <1>4
<1>6. ASSUME NEW s \in Mentioned(t)' PROVE s \in Mentioned(t) \/ IsIn(t, s)
  <2>1. CASE \E y \in ToSet(n) : Reports(y, t) /\ y[4] # "clear" /\ s = y[5]
    <3>1. Readable(t) /\ s \in ToSet(ReadLog(t))
      BY <2>1 DEF Begins, Reports
    <3>2. \A d \in Client : ~Saves(todo[d], t)
      BY <3>1 DEF LogIs, Readable
    <3>3. QED  BY <3>1, <3>2 DEF IsIn
  <2>2. CASE ~\E y \in ToSet(n) : Reports(y, t) /\ y[4] # "clear" /\ s = y[5]
    BY <2>2, <1>1, <1>2, MentionedIs
  <2>3. QED  BY <2>1, <2>2
<1>7. QED  BY <1>1, <1>5, <1>6, CountsOn

\* A request ends before its time: if it was saving the log this is noted.
LEMMA CountsAbort ==
    ASSUME RequestsAre, NEW c \in Client, Abort(c), NEW t \in Table,
           Manifest(t) \notin disturbed', LogCounts(t)
    PROVE  LogCounts(t)'
<1>1. todo' = [todo EXCEPT ![c] = <<>>] /\ disk' = disk /\ told' = told
  BY DEF Abort
<1>2. todo'[c] = <<>> /\ \A d \in Client \ {c} : todo'[d] = todo[d]
  BY <1>1, OthersWait
<1>3. ~Saves(todo[c], t)
  <2>1. ASSUME Saves(todo[c], t) PROVE FALSE
    <3>1. todo[c] # <<>> /\ todo[c][1][1] = "fill" /\ todo[c][1][2] = Manifest(t)
      BY <2>1 DEF Saves
    <3>2. todo[c][1] \in Pending(c, {"fill"})
      BY <3>1, First DEF Pending
    <3>3. Manifest(t) \notin Pointers
      BY Names
    <3>4. Manifest(t) \in disturbed'
      BY <3>1, <3>2, <3>3 DEF Abort
    <3>5. QED  BY <3>4
  <2>2. QED  BY <2>1
<1>4. ~Saves(<<>>, t)
  BY DEF Saves
<1>5. \A d \in Client : todo'[d] = todo[d] \/ (~Saves(todo[d], t) /\ ~Saves(todo'[d], t))
  BY <1>2, <1>3, <1>4
<1>6. ASSUME NEW s \in Mentioned(t)' PROVE s \in Mentioned(t)
  <2>1. ToSet(<<>>) = {}
    BY Short
  <2>2. QED  BY <1>1, <1>2, <2>1, MentionedIs
<1>7. QED  BY <1>1, <1>5, <1>6, CountsOn

\* What comes after a call that records or reports a table is not about it.
LEMMA ClosesRest ==
    ASSUME NEW s, IsRequest(s), Linked(s), s # <<>>, NEW y \in Rest(s)
    PROVE  Closes(s[1], y)
<1>1. PICK i \in DOMAIN s \ {1} : y = s[i]
  BY DEF Rest
<1>2. 1 \in DOMAIN s /\ 1 < i
  BY <1>1 DEF IsRequest
<1>3. QED  BY <1>1, <1>2 DEF Linked

\* The log with one more snapshot counts its snapshots.
LEMMA NumberedMore ==
    ASSUME NEW T, NEW g \in Seq(T), Numbered(g), NEW l \in Seq(T), Len(l) = Len(g) + 1,
           \A i \in DOMAIN g : l[i] = g[i], l[Len(l)].id = NextId(g)
    PROVE  Numbered(l) /\ \A s \in ToSet(g) \cup {l[Len(l)]} : s \in ToSet(l)
<1>1. PICK m, n : m = Len(g) /\ n = Len(l)
  OBVIOUS
<1>2. m \in Nat /\ n = m + 1 /\ DOMAIN g = 1..m /\ DOMAIN l = 1..n
  BY <1>1
<1>3. NextId(g) = n
  <2>1. CASE g = <<>>
    BY <1>1, <1>2, <2>1 DEF NextId
  <2>2. CASE g # <<>>
    <3>1. m \in DOMAIN g
      BY <1>1, <1>2, <2>2
    <3>2. Last(g).id = m
      BY <1>1, <3>1 DEF Numbered, Last
    <3>3. QED  BY <1>2, <2>2, <3>2 DEF NextId
  <2>3. QED  BY <2>1, <2>2
<1>4. \A i \in DOMAIN l : i \in DOMAIN g \/ i = n
  BY <1>2
<1>5. Numbered(l)
  BY <1>1, <1>3, <1>4 DEF Numbered
<1>6. \A i \in DOMAIN g : i \in DOMAIN l
  BY <1>2
<1>7. n \in DOMAIN l
  BY <1>2
<1>8. QED  BY <1>1, <1>5, <1>6, <1>7 DEF ToSet

\* A snapshot is recorded.
LEMMA CountsRecord ==
    ASSUME DiskIs, RequestsAre, LinkedAre, NEW c \in Client,
           NEW a, NEW u, NEW ps, NEW s, NEW l, IsRecording(c, a, u, ps, s, l),
           NEW t \in Table, LogIs(t), LogCounts(t)
    PROVE  LogCounts(t)'
<1>1. /\ Goes(c, a) /\ u \in Table /\ todo[c][1][1] = "record" /\ todo[c][1][2] = u
      /\ disk' = [disk EXCEPT ![Manifest(u)] = Torn] /\ told' = told
      /\ AreSaving(a, u, ps, s, l)
  BY DEF IsRecording
<1>2. /\ a # <<>> /\ SavesLog(a[1], u, l)
      /\ \A y \in ToSet(a) : y[1] = "report" => y[2] = u /\ y[5] = s
  BY <1>1 DEF AreSaving, SavesLog, ClearsHead, MarksGolden, Confirms
<1>3. /\ \A d \in Client \ {c} : todo'[d] = todo[d]
      /\ ToSet(todo'[c]) = ToSet(a) \cup Rest(todo[c])
      /\ ToSet(todo[c]) = {todo[c][1]} \cup Rest(todo[c])
      /\ todo'[c] # <<>> /\ todo'[c][1] = a[1]
  BY <1>1, <1>2, GoesOn
<1>4. ~Saves(todo[c], t)
  BY <1>1 DEF Saves
<1>5. \A x \in Mentioned(t)' : x \in Mentioned(t) \/ (t = u /\ x = s)
  <2>1. \A d \in Client : \A y \in ToSet(todo'[d]) : Reports(y, t) =>
            y \in ToSet(todo[d]) \/ (t = u /\ y[5] = s)
    BY <1>2, <1>3 DEF Reports
  <2>2. QED  BY <1>1, <2>1, MentionedIs
<1>6. CASE t # u
  <2>1. Manifest(t) # Manifest(u)
    BY <1>1, <1>6, Names
  <2>2. ~Saves(todo'[c], t)
    BY <1>2, <1>3, <2>1 DEF Saves, SavesLog
  <2>3. disk'[Manifest(t)] = disk[Manifest(t)]
    BY <1>1, <2>1, Files DEF DiskIs
  <2>4. QED  BY <1>3, <1>4, <1>5, <1>6, <2>2, <2>3, CountsOn
<1>7. CASE t = u
  <2>1. todo[c] # <<>>
    BY <1>1 DEF Goes
  <2>2. Commits(todo[c], t)
    <3>1. todo[c][1] \in ToSet(todo[c]) /\ IsRequest(todo[c]) /\ Linked(todo[c])
      BY <2>1, First DEF LinkedAre
    <3>2. \A x \in Rest(todo[c]) : ~(x[1] = "load" /\ x[2] = t)
      BY <1>1, <1>7, <2>1, <3>1, ClosesRest DEF Closes, IsAbout, Planned
    <3>3. \A x \in ToSet(todo[c]) : ~(x[1] = "load" /\ x[2] = t)
      BY <1>1, <1>3, <3>2
    <3>4. QED  BY <1>1, <1>7, <3>1, <3>3 DEF Commits
  <2>3. Readable(t) /\ mem[c].log = ReadLog(t) /\ \A d \in Client : ~Saves(todo[d], t)
    BY <1>4, <2>2 DEF LogIs
  <2>4. /\ \A x \in Mentioned(t) : x \in ToSet(ReadLog(t))
        /\ Numbered(ReadLog(t))
    BY <2>3 DEF LogCounts, IsIn
  <2>5. Numbered(l) /\ \A x \in ToSet(ReadLog(t)) \cup {s} : x \in ToSet(l)
    <3>1. PICK g : g = mem[c].log
      OBVIOUS
    <3>2. /\ g \in Seq(Kept(t)) /\ s.id = NextId(g) /\ l \in Seq(Kept(t)) /\ Len(l) = Len(g) + 1
          /\ l[Len(l)] = s /\ \A i \in DOMAIN g : l[i] = g[i]
      BY <1>7, <3>1 DEF IsRecording
    <3>3. Numbered(g)
      BY <2>3, <2>4, <3>1
    <3>4. Numbered(l) /\ \A x \in ToSet(g) \cup {l[Len(l)]} : x \in ToSet(l)
      BY <3>2, <3>3, NumberedMore
    <3>5. QED  BY <2>3, <3>1, <3>2, <3>4
  <2>6. Saves(todo'[c], t) /\ todo'[c][1][3] = l
    BY <1>2, <1>3, <1>7 DEF Saves, SavesLog
  <2>7. \A d \in Client : Saves(todo'[d], t) => todo'[d][1][3] = l
    BY <1>3, <2>3, <2>6
  <2>8. \A x \in Mentioned(t)' : IsIn(t, x)'
    <3>1. \A x \in Mentioned(t)' : x \in ToSet(l)
      BY <1>5, <2>4, <2>5
    <3>2. QED  BY <2>6, <3>1 DEF IsIn
  <2>9. ~Readable(t)'
    <3>1. disk'[Manifest(t)] = Torn
      BY <1>1, <1>7, Files DEF DiskIs
    <3>2. QED  BY <3>1 DEF Readable
  <2>10. QED  BY <2>5, <2>7, <2>8, <2>9 DEF LogCounts
<1>8. QED  BY <1>6, <1>7

\* The log that was being saved is there.
LEMMA CountsFill ==
    ASSUME DiskIs, RequestsAre, NEW c \in Client, NEW t \in Table, NEW m, NEW v,
           IsFilling(c, Manifest(t), m, v), LogIs(t), LogCounts(t)
    PROVE  LogCounts(t)' /\ disk'[Manifest(t)] = m /\ m = todo[c][1][3]
           /\ ReadLog(t)' = m /\ Saves(todo[c], t)
<1>1. /\ Runs(c, <<>>) /\ todo[c][1][1] = "fill" /\ todo[c][1][2] = Manifest(t)
      /\ todo[c][1][3] = m /\ (disk[Manifest(t)] = Torn => v = m) /\ told' = told
      /\ disk' = [disk EXCEPT ![Manifest(t)] = v]
  BY DEF IsFilling
<1>2. todo[c] # <<>> /\ IsCall(todo[c][1])
  BY <1>1, NowIs
<1>3. Saves(todo[c], t)
  BY <1>1, <1>2 DEF Saves
<1>4. disk[Manifest(t)] = Torn /\ \A d \in Client : Saves(todo[d], t) => d = c
  BY <1>3 DEF LogIs
<1>5. m \in Seq(Kept(t))
  BY <1>1, <1>2, Written DEF IsCall, Writing
<1>6. disk'[Manifest(t)] = m
  BY <1>1, <1>4, Files DEF DiskIs
<1>7. ReadLog(t)' = m
  BY <1>5, <1>6, KeptAreLogs DEF ReadLog
<1>8. \A d \in Client : ~Saves(todo'[d], t)
  BY <1>1, <1>4, RunsOn, NowIs
<1>9. Numbered(m) /\ \A x \in Mentioned(t) : x \in ToSet(m)
  <2>1. Numbered(m)
    BY <1>1, <1>3 DEF LogCounts
  <2>2. \A x \in Mentioned(t) : IsIn(t, x)
    BY DEF LogCounts
  <2>3. \A x : IsIn(t, x) => x \in ToSet(m)
    BY <1>1, <1>3, <1>4 DEF IsIn
  <2>4. QED  BY <2>1, <2>2, <2>3
<1>10. \A x \in Mentioned(t)' : x \in Mentioned(t)
  <2>1. \A y \in ToSet(todo'[c]) : y[1] \in Planned => y \in Rest(todo[c])
    BY <1>1, RunEdits
  <2>2. \A y \in ToSet(todo'[c]) : y[1] \in Planned => y \in ToSet(todo[c])
    BY <1>1, <2>1, NowIs
  <2>3. \A d \in Client : \A y \in ToSet(todo'[d]) : Reports(y, t) => y \in ToSet(todo[d])
    BY <1>1, <2>2, NowIs DEF Reports, Planned
  <2>4. QED  BY <1>1, <2>3, MentionedIs
<1>11. \A x \in Mentioned(t)' : IsIn(t, x)'
  BY <1>7, <1>8, <1>9, <1>10 DEF IsIn
<1>12. LogCounts(t)'
  BY <1>7, <1>8, <1>9, <1>11 DEF LogCounts
<1>13. QED  BY <1>1, <1>3, <1>6, <1>7, <1>12

\* Every step of a client keeps the count of an undisturbed log.
LEMMA MentionsNext ==
    ASSUME DiskIs, RequestsAre, LinkedAre, LogsAre, MentionsAre, NEW c \in Client, StepIs(c)
    PROVE  MentionsAre'
<1>1. SUFFICES ASSUME NEW t \in Table, Manifest(t) \notin disturbed' PROVE LogCounts(t)'
  BY DEF MentionsAre
<1>2. ASSUME Manifest(t) \notin disturbed PROVE LogIs(t) /\ LogCounts(t)
  BY <1>2 DEF LogsAre, MentionsAre
<1>3. CASE BeginsRight(c)
  <2>1. PICK sets, n : Begins(c, sets, n)
    BY <1>3 DEF BeginsRight
  <2>2. Manifest(t) \notin disturbed
    <3>1. \A u \in Table : Manifest(t) \notin WorkFiles(u)
      BY Names DEF AllWorkFiles
    <3>2. QED  BY <1>1, <2>1, <3>1 DEF Begins
  <2>3. QED  BY <1>2, <2>1, <2>2, CountsBegin
<1>4. CASE Abort(c)
  <2>1. Manifest(t) \notin disturbed
    BY <1>1, <1>4 DEF Abort
  <2>2. QED  BY <1>1, <1>2, <1>4, <2>1, CountsAbort
<1>5. CASE \E a, u, ps, s, l : IsRecording(c, a, u, ps, s, l)
  <2>1. PICK a, u, ps, s, l : IsRecording(c, a, u, ps, s, l)
    BY <1>5
  <2>2. Manifest(t) \notin disturbed
    BY <1>1, <2>1 DEF IsRecording
  <2>3. QED  BY <1>2, <2>1, <2>2, CountsRecord
<1>6. ASSUME NEW a, Runs(c, a) PROVE LogIs(t) /\ LogCounts(t)
  BY <1>1, <1>2, <1>6, NowIs
<1>7. CASE \E a : IsAside(c, a)
  <2>1. PICK a : IsAside(c, a)
    BY <1>7
  <2>2. Runs(c, a) /\ disk'[Manifest(t)] = disk[Manifest(t)] /\ told' = told
        /\ ~Saves(todo[c], t)
    BY <2>1 DEF IsAside, Saves, Writing
  <2>3. QED  BY <1>6, <2>2, CountsRun
<1>8. CASE \E a, g, u, m : IsEditing(c, a, g, u, m)
  <2>1. PICK a, g, u, m : IsEditing(c, a, g, u, m)
    BY <1>8
  <2>2. Runs(c, a) /\ disk' = disk /\ told' = told /\ ~Saves(todo[c], t)
    BY <2>1 DEF IsEditing, Saves
  <2>3. QED  BY <1>6, <2>2, CountsRun
<1>9. CASE \E a, g, m : IsOpening(c, a, g, m)
  <2>1. PICK a, g, m : IsOpening(c, a, g, m)
    BY <1>9
  <2>2. /\ Runs(c, a) /\ g \in Pointers /\ disk' = [disk EXCEPT ![g] = Torn]
        /\ told' = told /\ ~Saves(todo[c], t)
    BY <2>1 DEF IsOpening, Saves
  <2>3. disk'[Manifest(t)] = disk[Manifest(t)]
    BY <2>2, Names, Files DEF DiskIs
  <2>4. QED  BY <1>6, <2>2, <2>3, CountsRun
<1>10. CASE \E g, m, v : IsFilling(c, g, m, v)
  <2>1. PICK g, m, v : IsFilling(c, g, m, v)
    BY <1>10
  <2>2. /\ Runs(c, <<>>) /\ disk' = [disk EXCEPT ![g] = v] /\ told' = told
        /\ todo[c][1][2] = g
    BY <2>1 DEF IsFilling
  <2>3. CASE g = Manifest(t)
    BY <1>6, <2>1, <2>2, <2>3, CountsFill
  <2>4. CASE g # Manifest(t)
    <3>1. disk'[Manifest(t)] = disk[Manifest(t)] /\ ~Saves(todo[c], t)
      BY <2>2, <2>4, Files DEF DiskIs, Saves
    <3>2. QED  BY <1>6, <2>2, <3>1, CountsRun
  <2>5. QED  BY <2>3, <2>4
<1>11. CASE IsReporting(c, todo[c][1])
  <2>1. PICK y : y = todo[c][1] /\ IsReporting(c, y)
    BY <1>11
  <2>2. /\ Runs(c, <<>>) /\ disk' = disk /\ y[1] = "report" /\ ~Saves(todo[c], t)
        /\ told'.golden = IF GoldenFile \notin y[3] THEN told.golden
                          ELSE IF y[4] = "clear" THEN Drop(told.golden, {y[2]})
                          ELSE Put(told.golden, y[2], y[5])
    BY <2>1 DEF IsReporting, Saves
  <2>3. t \in DOMAIN told'.golden =>
            \/ t \in DOMAIN told.golden /\ told'.golden[t] = told.golden[t]
            \/ Reports(y, t) /\ y[4] # "clear" /\ told'.golden[t] = y[5]
    <3>1. CASE GoldenFile \notin y[3]
      BY <2>2, <3>1
    <3>2. CASE GoldenFile \in y[3] /\ y[4] = "clear"
      BY <2>2, <3>2 DEF Drop
    <3>3. CASE GoldenFile \in y[3] /\ y[4] # "clear"
      BY <2>2, <3>3 DEF Put, Reports
    <3>4. QED  BY <3>1, <3>2, <3>3
  <2>4. QED  BY <1>6, <2>1, <2>2, <2>3, CountsRun
<1>12. QED
  BY <1>3, <1>4, <1>5, <1>7, <1>8, <1>9, <1>10, <1>11 DEF StepIs

-----------------------------------------------------------------------------
(* The pointers of a table, step by step.                                  *)

\* A step that is at neither pointer file keeps the pointers.
LEMMA MarksElsewhere ==
    ASSUME RequestsAre, NEW c \in Client, NEW t, MarksOf(t),
           \A f \in Pointers : /\ <<f, t>> \in loose => <<f, t>> \in loose'
                               /\ SetsStay(f, t) /\ IsElsewhere(c, f, t),
           ReadLog(t)' = ReadLog(t), ~Saves(todo[c], t),
           \A y \in ToSet(todo'[c]) : ReportsCommit(y) /\ y[2] = t => y \in ToSet(todo[c])
    PROVE  MarksOf(t)'
<1>1. ASSUME NEW f \in Pointers, <<f, t>> \notin loose' PROVE MarkIs(f, t)'
  BY <1>1, MarkStays DEF MarksOf
<1>2. <<HeadFile, t>> \notin loose' => CommitIsLast(t)'
  <2>1. HeadFile \in Pointers
    BY DEF Pointers
  <2>2. \A d \in Client \ {c} : todo'[d] = todo[d]
    BY <2>1 DEF IsElsewhere
  <2>3. QED  BY <2>1, <2>2, CommitStays DEF MarksOf
<1>3. QED  BY <1>1, <1>2 DEF MarksOf

\* The requests go on about pointer f of t as before, unless the call is about it.
LEMMA RunSetsStay ==
    ASSUME RequestsAre, NEW c \in Client, NEW a, Runs(c, a), NEW f, NEW t,
           todo[c][1][1] # "record",
           ~(todo[c][1][1] = "report" /\ todo[c][1][2] = t /\ f \in todo[c][1][3]),
           ~(todo[c][1][1] \in {"put", "del"} /\ todo[c][1][2] = f /\ todo[c][1][3] = t),
           f = HeadFile => ReadLog(t)' = ReadLog(t), ToldStays(f, t)
    PROVE  SetsStay(f, t)
<1>1. /\ Settler(todo'[c], f, t) <=> Settler(todo[c], f, t)
      /\ ReportsOf(todo'[c], f, t) \subseteq ReportsOf(todo[c], f, t)
      /\ Unset(todo[c], f, t) => Unset(todo'[c], f, t)
  BY RunsOn
<1>2. \A d \in Client \ {c} : todo'[d] = todo[d]
  BY NowIs
<1>3. QED  BY <1>1, <1>2 DEF SetsStay

\* A client that goes on without a call at f.
LEMMA RunIsElsewhere ==
    ASSUME RequestsAre, NEW c \in Client, NEW a, Runs(c, a), NEW f, NEW t,
           ~(todo[c][1][1] \in Writing /\ todo[c][1][2] = f),
           \A z \in ToSet(a) : z[2] # f, disk'[f] = disk[f]
    PROVE  IsElsewhere(c, f, t)
<1>1. ~Edits(todo'[c], f)
  <2>1. \A g : Edits(todo'[c], g) => a # <<>> /\ a[1] \in ToSet(a) /\ a[1][2] = g
    BY RunEdits
  <2>2. QED  BY <2>1
<1>2. ~Fills(todo'[c], f) /\ \A d \in Client \ {c} : todo'[d] = todo[d]
  BY NowIs
<1>3. ~Edits(todo[c], f)
  BY DEF Edits
<1>4. QED  BY <1>1, <1>2, <1>3 DEF IsElsewhere

\* A client that goes on has no more commits to report.
LEMMA RunReports ==
    ASSUME RequestsAre, NEW c \in Client, NEW a, Runs(c, a)
    PROVE  \A y \in ToSet(todo'[c]) : ReportsCommit(y) =>
               y \in ToSet(todo[c]) /\ y \in Rest(todo[c])
<1>1. \A y \in ToSet(todo'[c]) : y[1] \in Planned => y \in Rest(todo[c])
  BY RunEdits
<1>2. \A y \in Rest(todo[c]) : y \in ToSet(todo[c])
  BY NowIs
<1>3. QED  BY <1>1, <1>2 DEF ReportsCommit, Planned

\* A step aside.
LEMMA AsideMarks ==
    ASSUME RequestsAre, NEW c \in Client, NEW a, IsAside(c, a), NEW t \in Table, MarksOf(t)
    PROVE  MarksOf(t)'
<1>1. /\ Runs(c, a) /\ todo[c][1][1] \notin {"record", "report", "put", "del"}
      /\ todo[c][1][1] \in Writing =>
            todo[c][1][2] \notin Pointers /\ todo[c][1][2] # Manifest(t)
      /\ \A z \in ToSet(a) : z[2] \notin Pointers
      /\ \A f \in Pointers : disk'[f] = disk[f]
      /\ disk'[Manifest(t)] = disk[Manifest(t)] /\ told' = told /\ loose' = loose
  BY DEF IsAside
<1>2. ReadLog(t)' = ReadLog(t) /\ ~Saves(todo[c], t)
  BY <1>1 DEF ReadLog, Saves, Writing
<1>3. \A f : ToldStays(f, t)
  BY <1>1 DEF ToldStays
<1>4. \A f \in Pointers : SetsStay(f, t)
  BY <1>1, <1>2, <1>3, RunSetsStay
<1>5. \A f \in Pointers : IsElsewhere(c, f, t)
  BY <1>1, RunIsElsewhere
<1>6. QED  BY <1>1, <1>2, <1>4, <1>5, RunReports, MarksElsewhere

\* A request begins: only the pointers it is to set become certain by that.
LEMMA BeginMarks ==
    ASSUME RequestsAre, LinkedAre, NEW c \in Client, BeginsRight(c), NEW t \in Table, MarksOf(t)
    PROVE  MarksOf(t)'
<1>1. PICK sets, n : Begins(c, sets, n)
  BY DEF BeginsRight
<1>2. /\ todo' = [todo EXCEPT ![c] = n] /\ disk' = disk /\ told' = told /\ todo[c] = <<>>
      /\ loose' = (loose \ sets) \cup (sets \cap UNION {Sets(d) : d \in Client \ {c}})
  BY <1>1 DEF Begins, Begin, Idle
<1>3. todo'[c] = n /\ \A d \in Client \ {c} : todo'[d] = todo[d]
  BY <1>2, OthersWait
<1>4. ToSet(<<>>) = {}
  BY Short
<1>5. /\ IsRequest(n) /\ (n # <<>> => n[1][1] \in Planned)
      /\ \A y \in ToSet(n) : ~ReportsCommit(y)
      /\ \A f \in Pointers : <<f, t>> \in sets <=> Settler(n, f, t)
      /\ \A f \in Pointers : Settler(n, f, t) => Unset(n, f, t)
  BY <1>1 DEF Begins, IsStart, ToSet
<1>6. \A f : ~Edits(n, f) /\ ~Fills(n, f) /\ ~Edits(<<>>, f)
  <2>1. \A f : ~Edits(n, f) /\ ~Edits(<<>>, f)
    BY <1>5 DEF Edits, Writing, Planned
  <2>2. QED  BY <1>5, <2>1, FillsFirst
<1>7. \A f, d : Settler(todo[d], f, t) => <<f, t>> \in Sets(d)
  <2>1. ASSUME NEW f, NEW d, NEW x \in ToSet(todo[d]),
               x[1] \in {"record", "report"}, x[2] = t, f \in x[3]
        PROVE  <<f, t>> \in Sets(d)
    <3>1. x \in Pending(d, {"record", "report"}) /\ <<f, t>> \in x[3] \X {x[2]}
      BY <2>1 DEF Pending
    <3>2. QED  BY <3>1 DEF Sets
  <2>2. QED  BY <2>1 DEF Settler
<1>8. \A f : ~Settler(<<>>, f, t) /\ ~Unset(<<>>, f, t)
  BY <1>4 DEF Settler, Unset
<1>9. ReadLog(t)' = ReadLog(t) /\ \A f : ToldStays(f, t)
  BY <1>2 DEF ReadLog, ToldStays
<1>10. ASSUME NEW f \in Pointers, <<f, t>> \in sets, <<f, t>> \notin loose'
       PROVE  MarkIs(f, t)' /\ \A d \in Client \ {c} : ~Settler(todo[d], f, t)
  <2>1. \A d \in Client \ {c} : ~Settler(todo[d], f, t)
    BY <1>2, <1>7, <1>10
  <2>2. \A d, e \in Client : Settler(todo'[d], f, t) /\ Settler(todo'[e], f, t) => d = e
    BY <1>3, <2>1
  <2>3. Unset(todo'[c], f, t)
    BY <1>3, <1>5, <1>10
  <2>4. QED  BY <2>1, <2>2, <2>3, MarkUnset
<1>11. ASSUME NEW f \in Pointers, <<f, t>> \notin sets, <<f, t>> \notin loose'
       PROVE  MarkIs(f, t)'
  <2>1. <<f, t>> \notin loose
    BY <1>2, <1>11
  <2>2. ~Settler(n, f, t)
    BY <1>5, <1>11
  <2>3. ReportsOf(n, f, t) = {}
    BY <2>2, ReporterSettles
  <2>4. SetsStay(f, t)
    BY <1>2, <1>3, <1>8, <1>9, <2>2, <2>3 DEF SetsStay
  <2>5. IsElsewhere(c, f, t)
    BY <1>2, <1>3, <1>6 DEF IsElsewhere
  <2>6. QED  BY <2>1, <2>4, <2>5, MarkStays DEF MarksOf
<1>12. ASSUME <<HeadFile, t>> \notin loose' PROVE CommitIsLast(t)'
  <2>1. HeadFile \in Pointers
    BY DEF Pointers
  <2>2. CASE <<HeadFile, t>> \in sets
    <3>1. \A d \in Client \ {c} : ~Settler(todo[d], HeadFile, t)
      BY <1>10, <1>12, <2>1, <2>2
    <3>2. \A d \in Client \ {c} : \A y \in ToSet(todo[d]) : ~(ReportsCommit(y) /\ y[2] = t)
      BY <3>1, CommitterSettles DEF LinkedAre
    <3>3. \A d \in Client : \A y \in ToSet(todo'[d]) : ~(ReportsCommit(y) /\ y[2] = t)
      BY <1>3, <1>5, <3>2
    <3>4. QED  BY <3>3 DEF CommitIsLast
  <2>3. CASE <<HeadFile, t>> \notin sets
    <3>1. CommitIsLast(t)
      BY <1>2, <1>12, <2>3 DEF MarksOf
    <3>2. ~Saves(todo[c], t)
      BY <1>2 DEF Saves
    <3>3. QED  BY <1>3, <1>5, <1>9, <3>1, <3>2, CommitStays
  <2>4. QED  BY <2>2, <2>3
<1>13. QED  BY <1>10, <1>11, <1>12 DEF MarksOf

\* A request ends before its time: what it was to set or to report is uncertain.
LEMMA AbortMarks ==
    ASSUME RequestsAre, LinkedAre, NEW c \in Client, Abort(c), NEW t \in Table, MarksOf(t),
           Manifest(t) \notin disturbed'
    PROVE  MarksOf(t)'
<1>1. /\ todo' = [todo EXCEPT ![c] = <<>>] /\ disk' = disk /\ told' = told
      /\ loose' = loose \cup Sets(c)
             \cup (({x[2] : x \in Pending(c, {"fill"})} \cap Pointers) \X Table)
      /\ disturbed' = disturbed \cup ({x[2] : x \in Pending(c, {"fill"})} \ Pointers)
  BY DEF Abort
<1>2. todo'[c] = <<>> /\ \A d \in Client \ {c} : todo'[d] = todo[d]
  BY <1>1, OthersWait
<1>3. ToSet(<<>>) = {}
  BY Short
<1>4. \A f : /\ ~Edits(<<>>, f) /\ ~Fills(<<>>, f) /\ ~Settler(<<>>, f, t)
              /\ ReportsOf(<<>>, f, t) = {}
  BY <1>3, Single DEF Edits, Settler, ReportsOf
<1>5. ReadLog(t)' = ReadLog(t) /\ \A f : ToldStays(f, t)
  BY <1>1 DEF ReadLog, ToldStays
<1>6. \A f : Settler(todo[c], f, t) => <<f, t>> \in loose'
  <2>1. ASSUME NEW f, NEW x \in ToSet(todo[c]),
               x[1] \in {"record", "report"}, x[2] = t, f \in x[3]
        PROVE  <<f, t>> \in Sets(c)
    <3>1. x \in Pending(c, {"record", "report"}) /\ <<f, t>> \in x[3] \X {x[2]}
      BY <2>1 DEF Pending
    <3>2. QED  BY <3>1 DEF Sets
  <2>2. QED  BY <1>1, <2>1 DEF Settler
<1>7. \A f : Fills(todo[c], f) => f \in {x[2] : x \in Pending(c, {"fill"})}
  BY DEF Fills, Pending, ToSet
<1>8. ASSUME NEW f \in Pointers, <<f, t>> \notin loose' PROVE MarkIs(f, t)'
  <2>1. ~Settler(todo[c], f, t) /\ ~Fills(todo[c], f)
    BY <1>1, <1>6, <1>7, <1>8
  <2>2. ~Unset(todo[c], f, t)
    BY <2>1, UnsetSettles DEF LinkedAre
  <2>3. SetsStay(f, t)
    BY <1>2, <1>4, <1>5, <2>1, <2>2 DEF SetsStay
  <2>4. IsElsewhere(c, f, t)
    BY <1>1, <1>2, <1>4, <2>1 DEF IsElsewhere
  <2>5. QED  BY <1>1, <1>8, <2>3, <2>4, MarkStays DEF MarksOf
<1>9. ASSUME <<HeadFile, t>> \notin loose' PROVE CommitIsLast(t)'
  <2>1. ~Saves(todo[c], t)
    <3>1. \A s : IsRequest(s) /\ Saves(s, t) => Fills(s, Manifest(t))
      BY DEF IsRequest, Saves, Fills
    <3>2. Manifest(t) \notin Pointers
      BY Names
    <3>3. QED  BY <1>1, <1>7, <3>1, <3>2 DEF RequestsAre
  <2>2. CommitIsLast(t)
    BY <1>1, <1>9 DEF MarksOf
  <2>3. QED  BY <1>2, <1>3, <1>5, <2>1, <2>2, CommitStays
<1>10. QED  BY <1>8, <1>9 DEF MarksOf

\* A snapshot is recorded: the head is still to be cleared, and nobody else may
\* report a commit of the table.
LEMMA RecordMarks ==
    ASSUME DiskIs, RequestsAre, LinkedAre, NEW c \in Client,
           NEW a, NEW u, NEW ps, NEW s, NEW l, IsRecording(c, a, u, ps, s, l),
           NEW t \in Table, MarksOf(t)
    PROVE  MarksOf(t)'
<1>1. /\ Goes(c, a) /\ u \in Table /\ AreSaving(a, u, ps, s, l)
      /\ disk' = [disk EXCEPT ![Manifest(u)] = Torn] /\ told' = told /\ loose' = loose
  BY DEF IsRecording
<1>2. PICK x : /\ x = todo[c][1] /\ x[1] = "record" /\ x[2] = u /\ x[3] = ps
  BY DEF IsRecording
<1>3. /\ todo[c] # <<>> /\ a \in Seq(ToSet(a)) /\ a # <<>> /\ a[1][2] = Manifest(u)
      /\ \A z \in ToSet(a) : z[1] = "fill" => z[2] = Manifest(u)
      /\ \A z \in ToSet(a) : z[1] # "record"
      /\ \A z \in ToSet(a) : z[1] = "report" => z[2] = u /\ z[3] = ps
  BY <1>1 DEF Goes, AreSaving, SavesLog, ClearsHead, MarksGolden, Confirms
<1>4. /\ todo'[c] = a \o Tail(todo[c]) /\ \A d \in Client \ {c} : todo'[d] = todo[d]
      /\ IsRequest(todo[c]) /\ x \in ToSet(todo[c])
      /\ ToSet(todo'[c]) = ToSet(a) \cup Rest(todo[c])
      /\ ToSet(todo[c]) = {x} \cup Rest(todo[c])
      /\ todo'[c][1] = a[1]
  BY <1>1, <1>2, <1>3, GoesOn
<1>5. Linked(todo[c]) /\ HeadFile \in ps
  BY <1>2, <1>4 DEF LinkedAre, Linked
<1>6. \A f \in Pointers : f # Manifest(u) /\ disk'[f] = disk[f]
  BY <1>1, Names, Files DEF DiskIs
<1>7. \A f \in Pointers : ~Edits(todo'[c], f) /\ ~Fills(todo'[c], f)
  <2>1. \A f \in Pointers : ~Edits(todo'[c], f)
    BY <1>3, <1>4, <1>6 DEF Edits
  <2>2. \A f : Fills(a \o Tail(todo[c]), f) => Fills(a, f)
    BY <1>3, <1>4, FillsAfter
  <2>3. \A f : Fills(a, f) => f = Manifest(u)
    BY <1>3 DEF Fills, ToSet
  <2>4. QED  BY <1>4, <1>6, <2>1, <2>2, <2>3
<1>8. \A f \in Pointers : IsElsewhere(c, f, t)
  <2>1. \A f : ~Edits(todo[c], f)
    BY <1>2 DEF Edits, Writing
  <2>2. QED  BY <1>4, <1>6, <1>7, <2>1 DEF IsElsewhere
<1>9. \A f : Settler(todo'[c], f, t) => Settler(todo[c], f, t)
  BY <1>2, <1>3, <1>4 DEF Settler
<1>10. t # u => ReadLog(t)' = ReadLog(t)
  <2>1. t # u => Manifest(t) # Manifest(u) /\ Manifest(t) \in File
    BY <1>1, Names, Files
  <2>2. t # u => disk'[Manifest(t)] = disk[Manifest(t)]
    BY <1>1, <2>1 DEF DiskIs
  <2>3. QED  BY <2>2 DEF ReadLog
<1>11. ASSUME NEW f \in Pointers, <<f, t>> \notin loose, t = u, f \in ps PROVE MarkIs(f, t)'
  <2>1. \A d, e \in Client : Settler(todo'[d], f, t) /\ Settler(todo'[e], f, t) => d = e
    BY <1>4, <1>9, <1>11 DEF MarksOf, MarkIs
  <2>2. Unset(todo'[c], f, t)
    <3>1. CASE f = HeadFile
      <4>1. \E z \in ToSet(a) : ClearsHead(z, u)
        BY <1>1 DEF AreSaving
      <4>2. QED  BY <1>4, <1>11, <3>1, <4>1 DEF Unset, ClearsHead
    <3>2. CASE f = GoldenFile
      <4>1. \E z \in ToSet(a) : MarksGolden(z, u, s)
        BY <1>1, <1>11, <3>2 DEF AreSaving
      <4>2. QED  BY <1>4, <1>11, <3>2, <4>1 DEF Unset, MarksGolden
    <3>3. QED  BY <3>1, <3>2 DEF Pointers
  <2>3. QED  BY <2>1, <2>2, MarkUnset
<1>12. ASSUME NEW f \in Pointers, <<f, t>> \notin loose, ~(t = u /\ f \in ps) PROVE MarkIs(f, t)'
  <2>1. Settler(todo[c], f, t) => Settler(todo'[c], f, t)
    BY <1>2, <1>4, <1>12 DEF Settler
  <2>2. ReportsOf(todo'[c], f, t) \subseteq ReportsOf(todo[c], f, t)
    BY <1>3, <1>4, <1>12 DEF ReportsOf, Reports
  <2>3. Unset(todo[c], f, t) => Unset(todo'[c], f, t)
    BY <1>2, <1>4, <1>12 DEF Unset
  <2>4. f = HeadFile => ReadLog(t)' = ReadLog(t)
    BY <1>5, <1>10, <1>12
  <2>5. ToldStays(f, t)
    BY <1>1 DEF ToldStays
  <2>6. SetsStay(f, t)
    BY <1>4, <1>9, <2>1, <2>2, <2>3, <2>4, <2>5 DEF SetsStay
  <2>7. QED  BY <1>8, <1>12, <2>6, MarkStays DEF MarksOf
<1>13. ASSUME <<HeadFile, t>> \notin loose PROVE CommitIsLast(t)'
  <2>1. CommitIsLast(t) /\ MarkIs(HeadFile, t)
    BY <1>13 DEF MarksOf, Pointers
  <2>2. ~Saves(todo[c], t)
    BY <1>2 DEF Saves
  <2>3. CASE t # u
    <3>1. \A y \in ToSet(todo'[c]) : ReportsCommit(y) /\ y[2] = t => y \in ToSet(todo[c])
      BY <1>3, <1>4, <2>3 DEF ReportsCommit
    <3>2. QED  BY <1>4, <1>10, <2>1, <2>2, <2>3, <3>1, CommitStays
  <2>4. CASE t = u
    <3>1. Saves(todo'[c], t)
      <4>1. SavesLog(a[1], u, l) /\ todo'[c] # <<>>
        BY <1>1, <1>3, GoesOn DEF AreSaving
      <4>2. QED  BY <1>4, <2>4, <4>1 DEF Saves, SavesLog
    <3>2. Settler(todo[c], HeadFile, t)
      BY <1>2, <1>4, <1>5, <2>4 DEF Settler
    <3>3. \A d \in Client \ {c} : ~Settler(todo[d], HeadFile, t)
      BY <2>1, <3>2 DEF MarkIs
    <3>4. \A d \in Client \ {c} : \A y \in ToSet(todo'[d]) : ~(ReportsCommit(y) /\ y[2] = t)
      BY <1>4, <3>3, CommitterSettles DEF LinkedAre
    <3>5. QED  BY <3>1, <3>4 DEF CommitIsLast
  <2>5. QED  BY <2>3, <2>4
<1>14. QED  BY <1>1, <1>11, <1>12, <1>13 DEF MarksOf

\* The log is saved: the commit that is to be reported is the last of it.
LEMMA SavedMarks ==
    ASSUME DiskIs, RequestsAre, LinkedAre, NEW c \in Client, NEW u \in Table, NEW m, NEW v,
           IsFilling(c, Manifest(u), m, v),
           NEW t \in Table, LogIs(t), LogCounts(t), MarksOf(t)
    PROVE  MarksOf(t)'
<1>1. /\ Runs(c, <<>>) /\ todo[c][1][1] = "fill" /\ todo[c][1][2] = Manifest(u)
      /\ told' = told /\ loose' = loose /\ disk' = [disk EXCEPT ![Manifest(u)] = v]
      /\ todo[c][1][3] = m
  BY DEF IsFilling
<1>2. /\ todo[c] # <<>> /\ \A d \in Client \ {c} : todo'[d] = todo[d]
      /\ todo[c][1] \in ToSet(todo[c])
  BY <1>1, NowIs
<1>3. \A f \in Pointers : f # Manifest(u) /\ disk'[f] = disk[f]
  BY <1>1, Names, Files DEF DiskIs
<1>4. \A z \in ToSet(<<>>) : FALSE
  BY Short
<1>5. \A f \in Pointers : IsElsewhere(c, f, t)
  BY <1>1, <1>3, <1>4, RunIsElsewhere
<1>6. \A f : ToldStays(f, t)
  BY <1>1 DEF ToldStays
<1>7. \A y \in ToSet(todo'[c]) : ReportsCommit(y) => y \in ToSet(todo[c]) /\ y \in Rest(todo[c])
  BY <1>1, RunReports
<1>8. CASE t # u
  <2>1. Manifest(t) # Manifest(u) /\ Manifest(t) \in File
    BY <1>8, Names, Files
  <2>2. disk'[Manifest(t)] = disk[Manifest(t)]
    BY <1>1, <2>1 DEF DiskIs
  <2>3. ReadLog(t)' = ReadLog(t) /\ ~Saves(todo[c], t)
    BY <1>1, <2>1, <2>2 DEF ReadLog, Saves
  <2>4. \A f \in Pointers : SetsStay(f, t)
    BY <1>1, <1>6, <2>3, RunSetsStay
  <2>5. QED  BY <1>1, <1>5, <1>7, <2>3, <2>4, MarksElsewhere
<1>9. CASE t = u
  <2>1. Saves(todo[c], t) /\ IsRequest(todo[c]) /\ Linked(todo[c])
    BY <1>1, <1>2, <1>9 DEF Saves, RequestsAre, LinkedAre
  <2>2. ReadLog(t)' = m /\ m \in Seq(Kept(t))
    <3>1. ReadLog(t)' = m
      BY <1>9, CountsFill
    <3>2. m \in Seq(Kept(t))
      BY <1>1, <1>2, <1>9, First, Written DEF IsCall, Writing
    <3>3. QED  BY <3>1, <3>2
  <2>3. Settler(todo[c], HeadFile, t)
        /\ \E y \in Rest(todo[c]) : y[1] = "del" /\ y[2] = HeadFile /\ y[3] = t
    BY <2>1, SaverIsUnset
  <2>4. Unset(todo'[c], HeadFile, t)
    <3>1. Rest(todo[c]) \subseteq ToSet(todo'[c])
      BY <1>1, NowIs
    <3>2. QED  BY <2>3, <3>1 DEF Unset
  <2>5. \A d \in Client : Settler(todo'[d], HeadFile, t) => Settler(todo[d], HeadFile, t)
    BY <1>1, <1>2, RunsOn
  <2>6. ASSUME <<HeadFile, t>> \notin loose
        PROVE  MarkIs(HeadFile, t)' /\ \A d \in Client \ {c} : ~Settler(todo[d], HeadFile, t)
    <3>1. \A d, e \in Client :
              Settler(todo[d], HeadFile, t) /\ Settler(todo[e], HeadFile, t) => d = e
      BY <2>6 DEF MarksOf, MarkIs, Pointers
    <3>2. QED  BY <2>3, <2>4, <2>5, <3>1, MarkUnset
  <2>7. ASSUME <<GoldenFile, t>> \notin loose PROVE MarkIs(GoldenFile, t)'
    <3>1. GoldenFile \in Pointers /\ GoldenFile # HeadFile
      BY DEF Pointers, GoldenFile, HeadFile
    <3>2. SetsStay(GoldenFile, t)
      BY <1>1, <1>6, <3>1, RunSetsStay
    <3>3. QED  BY <1>5, <2>7, <3>1, <3>2, MarkStays DEF MarksOf
  <2>8. ASSUME <<HeadFile, t>> \notin loose PROVE CommitIsLast(t)'
    <3>1. \A d \in Client \ {c} : \A y \in ToSet(todo'[d]) : ~(ReportsCommit(y) /\ y[2] = t)
      BY <1>2, <2>6, <2>8, CommitterSettles DEF LinkedAre
    <3>2. ASSUME NEW y \in ToSet(todo'[c]), ReportsCommit(y), y[2] = t
          PROVE  m # <<>> /\ Last(m) = y[5]
      <4>1. y \in ToSet(todo[c])
        BY <1>7, <3>2
      <4>2. IsAbout(todo[c][1], t) /\ Reports(y, t)
        BY <1>1, <1>9, <3>2 DEF IsAbout, Writing, Reports, ReportsCommit
      <4>3. Fits(todo[c][1], y)
        BY <1>2, <2>1, <4>1, <4>2 DEF Linked
      <4>4. y[5] = Last(m)
        BY <1>1, <1>9, <3>2, <4>3 DEF Fits, Writing
      <4>5. y[5] \in ToSet(m)
        <5>1. y[5] \in Told(todo[c], t)
          BY <3>2, <4>1 DEF Told
        <5>2. y[5] \in Reported(t)
          BY <5>1 DEF Reported
        <5>3. QED  BY <1>1, <2>1, <5>2 DEF LogIs
      <4>6. m # <<>>
        BY <1>4, <4>5
      <4>7. QED  BY <4>4, <4>6
    <3>3. QED  BY <2>2, <3>1, <3>2 DEF CommitIsLast
  <2>9. QED  BY <1>1, <2>6, <2>7, <2>8 DEF MarksOf, Pointers
<1>10. QED  BY <1>8, <1>9

\* A map is no mark of a file that is not there or is cut off.
LEMMA MarksAreThere == \A m \in Marks : m \notin {Absent, Torn}
<1>1. ASSUME NEW m \in Marks PROVE m \notin {Absent, Torn}
  <2>1. DOMAIN m \subseteq Table /\ m \in [DOMAIN m -> Nat]
    BY PartialMapDef DEF Marks
  <2>2. QED  BY <2>1, MarksAreNoContent DEF Table
<1>2. QED  BY <1>1

\* A pointer file is opened: what is to be written in it stays.
LEMMA OpenedMarks ==
    ASSUME DiskIs, RequestsAre, NEW c \in Client, NEW a, NEW g, NEW m, IsOpening(c, a, g, m),
           NEW t \in Table, MarksOf(t)
    PROVE  MarksOf(t)'
<1>1. /\ Runs(c, a) /\ g \in Pointers /\ disk' = [disk EXCEPT ![g] = Torn]
      /\ todo[c][1][1] = "open" /\ todo[c][1][2] = g /\ todo[c][1][3] = m
      /\ a # <<>> /\ ToSet(a) = {a[1]} /\ a[1][1] = "fill" /\ a[1][2] = g /\ a[1][3] = m
      /\ told' = told /\ loose' = loose
  BY DEF IsOpening
<1>2. /\ todo[c] # <<>> /\ \A d \in Client \ {c} : todo'[d] = todo[d]
      /\ todo'[c][1] = a[1] /\ a[1] \in ToSet(todo'[c])
  BY <1>1, NowIs
<1>3. disk'[g] = Torn /\ \A f \in File : f # g => disk'[f] = disk[f]
  BY <1>1, Files DEF DiskIs
<1>4. ReadLog(t)' = ReadLog(t) /\ ~Saves(todo[c], t)
  <2>1. Manifest(t) \in File /\ Manifest(t) # g
    BY <1>1, Names, Files
  <2>2. QED  BY <1>1, <1>3, <2>1 DEF ReadLog, Saves
<1>5. \A f : SetsStay(f, t)
  BY <1>1, <1>4, RunSetsStay DEF ToldStays
<1>6. ASSUME NEW f \in Pointers, f # g, <<f, t>> \notin loose PROVE MarkIs(f, t)'
  <2>1. IsElsewhere(c, f, t)
    BY <1>1, <1>3, <1>6, Files, RunIsElsewhere
  <2>2. QED  BY <1>5, <1>6, <2>1, MarkStays DEF MarksOf
<1>7. ASSUME <<g, t>> \notin loose PROVE MarkIs(g, t)'
  <2>1. MarkIs(g, t)
    BY <1>1, <1>7 DEF MarksOf
  <2>2. \A d, e \in Client : Settler(todo'[d], g, t) /\ Settler(todo'[e], g, t) => d = e
    BY <1>5, <2>1 DEF MarkIs, SetsStay
  <2>3. Edits(todo[c], g)
    BY <1>1, <1>2 DEF Edits, Writing
  <2>4. Fills(todo'[c], g)
    BY <1>1, <1>2 DEF Fills, ToSet
  <2>5. ASSUME IsSet(g, t)'
        PROVE  /\ \A d, e \in Client : Edits(todo'[d], g) /\ Edits(todo'[e], g) => d = e
               /\ \A d \in Client : Edits(todo'[d], g) => Holds(g, t, todo[d][1][3])'
    <3>1. IsSet(g, t)
      BY <1>5, <2>5 DEF IsSet, SetsStay
    <3>2. \A d \in Client : Edits(todo'[d], g) => d = c
      BY <1>2, <2>1, <2>3, <3>1 DEF MarkIs
    <3>3. Holds(g, t, m)
      BY <1>1, <2>1, <2>3, <3>1 DEF MarkIs
    <3>4. Holds(g, t, m)'
      BY <1>1, <1>5, <3>3, HoldsOn
    <3>5. m = todo'[c][1][3]
      BY <1>1, <1>2
    <3>6. Holds(g, t, todo[c][1][3])'
      BY <3>4, <3>5 DEF Holds
    <3>7. QED  BY <3>2, <3>6
  <2>6. QED  BY <1>3, <2>2, <2>4, <2>5 DEF MarkIs
<1>8. \A y \in ToSet(todo'[c]) : ReportsCommit(y) => y \in ToSet(todo[c])
  BY <1>1, RunReports
<1>9. <<HeadFile, t>> \notin loose => CommitIsLast(t)'
  BY <1>2, <1>4, <1>8, CommitStays DEF MarksOf
<1>10. QED  BY <1>1, <1>6, <1>7, <1>9 DEF MarksOf

\* A pointer file is filled: the map that was on its way is there.
LEMMA FilledMarks ==
    ASSUME DiskIs, RequestsAre, MarksAreMaps, NEW c \in Client, NEW g \in Pointers, NEW m, NEW v,
           IsFilling(c, g, m, v), NEW t \in Table, MarksOf(t)
    PROVE  MarksOf(t)'
<1>1. /\ Runs(c, <<>>) /\ disk' = [disk EXCEPT ![g] = v] /\ (disk[g] = Torn => v = m)
      /\ todo[c][1][1] = "fill" /\ todo[c][1][2] = g /\ todo[c][1][3] = m
      /\ told' = told /\ loose' = loose
  BY DEF IsFilling
<1>2. /\ todo[c] # <<>> /\ todo[c][1] \in ToSet(todo[c])
      /\ \A d \in Client \ {c} : todo'[d] = todo[d]
      /\ \A f : ~Edits(todo'[c], f) /\ ~Fills(todo'[c], f)
  BY <1>1, NowIs
<1>3. disk'[g] = v /\ \A f \in File : f # g => disk'[f] = disk[f]
  BY <1>1, Files DEF DiskIs
<1>4. ReadLog(t)' = ReadLog(t) /\ ~Saves(todo[c], t)
  <2>1. Manifest(t) \in File /\ Manifest(t) # g
    BY Names, Files
  <2>2. QED  BY <1>1, <1>3, <2>1 DEF ReadLog, Saves
<1>5. \A f : SetsStay(f, t)
  BY <1>1, <1>4, RunSetsStay DEF ToldStays
<1>6. ASSUME NEW f \in Pointers, f # g, <<f, t>> \notin loose PROVE MarkIs(f, t)'
  <2>1. \A z \in ToSet(<<>>) : FALSE
    BY Short
  <2>2. IsElsewhere(c, f, t)
    BY <1>1, <1>3, <1>6, <2>1, Files, RunIsElsewhere
  <2>3. QED  BY <1>5, <1>6, <2>2, MarkStays DEF MarksOf
<1>7. ASSUME <<g, t>> \notin loose PROVE MarkIs(g, t)'
  <2>1. MarkIs(g, t)
    BY <1>7 DEF MarksOf
  <2>2. \A d, e \in Client : Settler(todo'[d], g, t) /\ Settler(todo'[e], g, t) => d = e
    BY <1>5, <2>1 DEF MarkIs, SetsStay
  <2>3. Edits(todo[c], g) /\ Fills(todo[c], g) /\ m \in Marks
    <3>1. Edits(todo[c], g)
      BY <1>1, <1>2 DEF Edits, Writing
    <3>2. QED  BY <1>1, <1>2, <3>1 DEF Fills, ToSet, MarksAreMaps
  <2>4. ASSUME IsSet(g, t)'
        PROVE  /\ \A d \in Client : ~Edits(todo'[d], g) /\ ~Fills(todo'[d], g)
               /\ Holds(g, t, ReadMap(g))'
    <3>1. IsSet(g, t)
      BY <1>5, <2>4 DEF IsSet, SetsStay
    <3>2. /\ \A d \in Client : Edits(todo[d], g) => d = c
          /\ Holds(g, t, m) /\ disk[g] = Torn
      BY <1>1, <2>1, <2>3, <3>1 DEF MarkIs
    <3>3. \A d \in Client : ~Edits(todo'[d], g) /\ ~Fills(todo'[d], g)
      BY <1>2, <3>2, FillsEdits
    <3>4. ReadMap(g)' = m
      BY <1>1, <1>3, <2>3, <3>2, MarksAreThere DEF ReadMap
    <3>5. Holds(g, t, m)'
      BY <1>5, <3>2, HoldsOn
    <3>6. QED  BY <3>3, <3>4, <3>5 DEF Holds
  <2>5. QED  BY <2>2, <2>4 DEF MarkIs
<1>8. \A y \in ToSet(todo'[c]) : ReportsCommit(y) => y \in ToSet(todo[c])
  BY <1>1, RunReports
<1>9. <<HeadFile, t>> \notin loose => CommitIsLast(t)'
  BY <1>2, <1>4, <1>8, CommitStays DEF MarksOf
<1>10. QED  BY <1>1, <1>6, <1>7, <1>9 DEF MarksOf

\* What a map says as it is reported is what it says afterwards.
LEMMA ReportTells ==
    ASSUME NEW c \in Client, NEW y, IsReporting(c, y), NEW f \in Pointers, f \in y[3],
           NEW m, Agrees(f, y[2], m, y)
    PROVE  AgreesWithTold(f, y[2], m)'
<1>1. PICK t : t = y[2]
  OBVIOUS
<1>2. CASE f = HeadFile
  <2>1. HeadOf(m, t)' = HeadOf(m, t)
    BY DEF IsReporting, HeadOf, ReadLog
  <2>2. told'.head[t] = y[5].id
    BY <1>1, <1>2 DEF IsReporting, Put
  <2>3. HeadOf(m, t) = y[5].id
    BY <1>1, <1>2 DEF Agrees
  <2>4. QED  BY <1>1, <1>2, <2>1, <2>2, <2>3 DEF AgreesWithTold
<1>3. CASE f = GoldenFile
  <2>1. f # HeadFile
    BY <1>3 DEF HeadFile, GoldenFile
  <2>2. CASE y[4] = "clear"
    <3>1. t \notin DOMAIN told'.golden
      BY <1>1, <1>3, <2>2 DEF IsReporting, Drop
    <3>2. QED  BY <1>1, <2>1, <2>2, <3>1 DEF Agrees, AgreesWithTold
  <2>3. CASE y[4] # "clear"
    <3>1. t \in DOMAIN told'.golden /\ told'.golden[t] = y[5]
      BY <1>1, <1>3, <2>3 DEF IsReporting, Put
    <3>2. QED  BY <1>1, <2>1, <2>3, <3>1 DEF Agrees, AgreesWithTold
  <2>4. QED  BY <2>2, <2>3
<1>4. QED  BY <1>2, <1>3 DEF Pointers

\* A request reports: what it set is what is told.
LEMMA ReportedMarks ==
    ASSUME RequestsAre, LinkedAre, NEW c \in Client, NEW y, IsReporting(c, y),
           NEW t \in Table, MarksOf(t)
    PROVE  MarksOf(t)'
<1>1. /\ Runs(c, <<>>) /\ y = todo[c][1] /\ y[1] = "report" /\ disk' = disk /\ loose' = loose
  BY DEF IsReporting
<1>2. /\ todo[c] # <<>> /\ y \in ToSet(todo[c]) /\ IsRequest(todo[c]) /\ Linked(todo[c])
      /\ \A d \in Client \ {c} : todo'[d] = todo[d]
      /\ \A f : ~Edits(todo'[c], f) /\ ~Fills(todo'[c], f)
      /\ ToSet(todo[c]) = {y} \cup Rest(todo[c])
  BY <1>1, NowIs DEF RequestsAre, LinkedAre
<1>3. ReadLog(t)' = ReadLog(t) /\ ~Saves(todo[c], t)
  BY <1>1 DEF ReadLog, Saves
<1>4. ToSet(<<>>) = {}
  BY Short
<1>5. \A f : IsElsewhere(c, f, t) /\ ~Edits(todo[c], f)
  BY <1>1, <1>4, RunIsElsewhere DEF Writing, Edits
<1>6. \A y1 \in ToSet(todo'[c]) : y1[1] \in Planned => y1 \in Rest(todo[c])
  BY <1>1, RunEdits
<1>7. ASSUME NEW f \in Pointers, ~(y[2] = t /\ f \in y[3]), <<f, t>> \notin loose
      PROVE  MarkIs(f, t)'
  <2>1. ToldStays(f, t)
    <3>1. CASE f = HeadFile
      BY <1>7, <3>1 DEF ToldStays, IsReporting, Put
    <3>2. CASE f = GoldenFile
      <4>1. f # HeadFile
        BY <3>2 DEF HeadFile, GoldenFile
      <4>2. QED  BY <1>7, <3>2, <4>1 DEF ToldStays, IsReporting, Put, Drop
    <3>3. QED  BY <3>1, <3>2 DEF Pointers
  <2>2. SetsStay(f, t)
    BY <1>1, <1>3, <1>7, <2>1, RunSetsStay
  <2>3. QED  BY <1>5, <1>7, <2>2, MarkStays DEF MarksOf
<1>8. ASSUME NEW f \in Pointers, y[2] = t, f \in y[3], <<f, t>> \notin loose
      PROVE  MarkIs(f, t)'
  <2>1. MarkIs(f, t)
    BY <1>8 DEF MarksOf
  <2>2. \A x \in Rest(todo[c]) : ~IsAbout(x, t)
    BY <1>1, <1>2, <1>8, ClosesRest DEF Closes
  <2>3. ~Settler(todo'[c], f, t)
    <3>1. \A x \in ToSet(todo'[c]) : x[1] \in {"record", "report"} => x[2] # t
      BY <1>6, <2>2 DEF IsAbout, Planned
    <3>2. QED  BY <3>1 DEF Settler
  <2>4. \A d \in Client \ {c} : ~Settler(todo[d], f, t)
    <3>1. Settler(todo[c], f, t)
      BY <1>1, <1>2, <1>8 DEF Settler
    <3>2. QED  BY <2>1, <3>1 DEF MarkIs
  <2>5. \A d \in Client : ~Settler(todo'[d], f, t)
    BY <1>2, <2>3, <2>4
  <2>6. IsSet(f, t)
    <3>1. \A d \in Client \ {c} : ~Unset(todo[d], f, t)
      BY <2>4, UnsetSettles DEF LinkedAre
    <3>2. ~Unset(todo[c], f, t)
      <4>1. \A x \in Rest(todo[c]) :
               ~(x[1] = "record" /\ x[2] = t) /\ ~(x[1] \in {"put", "del"} /\ x[3] = t)
        BY <2>2 DEF IsAbout, Planned
      <4>2. QED  BY <1>1, <1>2, <4>1 DEF Unset
    <3>3. QED  BY <3>1, <3>2 DEF IsSet
  <2>7. y \in ReportsOf(todo[c], f, t)
    BY <1>1, <1>2, <1>8 DEF ReportsOf, Reports
  <2>8. \A m : Holds(f, t, m) => Holds(f, t, m)'
    <3>1. ASSUME NEW m, Holds(f, t, m) PROVE Holds(f, t, m)'
      <4>1. Agrees(f, t, m, y)
        BY <2>7, <3>1 DEF Holds
      <4>2. AgreesWithTold(f, t, m)'
        BY <1>8, <4>1, ReportTells
      <4>3. \A d \in Client : ReportsOf(todo'[d], f, t) = {}
        BY <2>5, ReporterSettles
      <4>4. QED  BY <4>2, <4>3 DEF Holds
    <3>2. QED  BY <3>1
  <2>9. /\ \A d \in Client : Edits(todo'[d], f) => d # c /\ Edits(todo[d], f)
        /\ \A d \in Client : Fills(todo'[d], f) => d # c /\ Fills(todo[d], f)
    BY <1>2
  <2>10. \A d, e \in Client : Edits(todo'[d], f) /\ Edits(todo'[e], f) => d = e
    BY <2>1, <2>6, <2>9 DEF MarkIs
  <2>11. \A d \in Client : Edits(todo'[d], f) => Holds(f, t, todo[d][1][3])'
    <3>1. ASSUME NEW d \in Client, Edits(todo'[d], f) PROVE Holds(f, t, todo[d][1][3])'
      <4>1. PICK m : m = todo[d][1][3]
        OBVIOUS
      <4>2. Holds(f, t, m)
        BY <2>1, <2>6, <2>9, <3>1, <4>1 DEF MarkIs
      <4>3. Holds(f, t, m)'
        BY <2>8, <4>2
      <4>4. m = todo'[d][1][3]
        BY <1>2, <2>9, <3>1, <4>1
      <4>5. QED  BY <4>3, <4>4 DEF Holds
    <3>2. QED  BY <3>1
  <2>12. \A d \in Client : Fills(todo'[d], f) => disk'[f] = Torn
    BY <1>1, <2>1, <2>6, <2>9 DEF MarkIs
  <2>13. ASSUME \A d \in Client : ~Fills(todo'[d], f) PROVE Holds(f, t, ReadMap(f))'
    <3>1. ~Edits(todo[c], f) /\ ~Fills(todo[c], f)
      BY <1>5, FillsEdits
    <3>2. \A d \in Client : ~Fills(todo[d], f) /\ ~(Edits(todo[d], f) /\ Settler(todo[d], f, t))
      BY <1>2, <2>4, <2>13, <3>1
    <3>3. Holds(f, t, ReadMap(f))
      BY <2>1, <2>6, <3>2 DEF MarkIs
    <3>4. PICK m : m = ReadMap(f)
      OBVIOUS
    <3>5. Holds(f, t, m)'
      BY <2>8, <3>3, <3>4
    <3>6. m = ReadMap(f)'
      BY <1>1, <3>4 DEF ReadMap
    <3>7. QED  BY <3>5, <3>6 DEF Holds
  <2>14. QED  BY <2>5, <2>10, <2>11, <2>12, <2>13 DEF MarkIs
<1>9. \A x \in ToSet(todo'[c]) : ReportsCommit(x) => x \in ToSet(todo[c])
  BY <1>1, RunReports
<1>10. <<HeadFile, t>> \notin loose => CommitIsLast(t)'
  BY <1>2, <1>3, <1>9, CommitStays DEF MarksOf
<1>11. QED  BY <1>1, <1>7, <1>8, <1>10 DEF MarksOf

\* Who edits a pointer file that stays certain is the only one at it.
LEMMA EditsAlone ==
    ASSUME RequestsAre, NEW c \in Client, NEW a, NEW g, NEW u, NEW m, IsEditing(c, a, g, u, m),
           NEW t \in Table, <<g, t>> \notin loose'
    PROVE  <<g, t>> \notin loose /\ \A d \in Client \ {c} : ~Edits(todo[d], g)
<1>1. loose' = IF Overlaps(c, g) THEN loose \cup ({g} \X Table) ELSE loose
  BY DEF IsEditing
<1>2. ~Overlaps(c, g) /\ <<g, t>> \notin loose
  BY <1>1
<1>3. ASSUME NEW d \in Client \ {c}, Edits(todo[d], g) PROVE FALSE
  <2>1. todo[d] # <<>> /\ todo[d][1][1] \in {"open", "fill"} /\ todo[d][1][2] = g
    BY <1>3 DEF Edits, Writing
  <2>2. todo[d][1] \in Pending(d, {"open", "fill"})
    BY <2>1, First DEF Pending
  <2>3. g \in Using(d)
    BY <2>1, <2>2 DEF Using
  <2>4. QED  BY <1>2, <2>3 DEF Overlaps
<1>4. QED  BY <1>2, <1>3

\* What is written, or left, has to hold.
LEMMA EditedMark ==
    ASSUME RequestsAre, NEW c \in Client, NEW a, NEW g, NEW u, NEW m, IsEditing(c, a, g, u, m),
           NEW t, \A d \in Client \ {c} : ~Edits(todo[d], g),
           \A d, e \in Client : Settler(todo'[d], g, t) /\ Settler(todo'[e], g, t) => d = e,
           IsSet(g, t)' => /\ Holds(g, t, m)'
                           /\ a = <<>> \/ Settler(todo'[c], g, t) \/ Holds(g, t, ReadMap(g))'
    PROVE  MarkIs(g, t)'
<1>1. /\ Runs(c, a) /\ disk' = disk /\ (a = <<>> => m = ReadMap(g))
      /\ a # <<>> => ToSet(a) = {a[1]} /\ a[1][1] = "open" /\ a[1][2] = g /\ a[1][3] = m
  BY DEF IsEditing
<1>2. /\ \A d \in Client \ {c} : todo'[d] = todo[d]
      /\ a # <<>> => todo'[c][1] = a[1]
      /\ a = <<>> => ~Edits(todo'[c], g)
      /\ ~Fills(todo'[c], g)
  <2>1. \A f : Fills(todo'[c], f) => \E z \in ToSet(a) : z[1] = "fill" /\ z[2] = f
    BY <1>1, NowIs
  <2>2. ToSet(<<>>) = {}
    BY Short
  <2>3. ~Fills(todo'[c], g)
    BY <1>1, <2>1, <2>2
  <2>4. QED  BY <1>1, <2>3, NowIs
<1>3. \A d \in Client \ {c} : ~Edits(todo'[d], g) /\ ~Fills(todo'[d], g)
  BY <1>2, FillsEdits
<1>4. ASSUME IsSet(g, t)'
      PROVE  /\ \A d \in Client : Edits(todo'[d], g) => Holds(g, t, todo[d][1][3])'
             /\ (\A d \in Client : ~(Edits(todo'[d], g) /\ Settler(todo'[d], g, t)))
                => Holds(g, t, ReadMap(g))'
  <2>1. ASSUME NEW d \in Client, Edits(todo'[d], g) PROVE Holds(g, t, todo[d][1][3])'
    <3>1. d = c /\ a # <<>>
      BY <1>2, <1>3, <2>1
    <3>2. m = todo'[d][1][3]
      BY <1>1, <1>2, <3>1
    <3>3. QED  BY <1>4, <3>2 DEF Holds
  <2>2. CASE a = <<>>
    <3>1. m = ReadMap(g)'
      BY <1>1, <2>2 DEF ReadMap
    <3>2. Holds(g, t, ReadMap(g))'
      BY <1>4, <3>1 DEF Holds
    <3>3. QED  BY <2>1, <3>2
  <2>3. CASE a # <<>>
    <3>1. todo'[c] # <<>>
      <4>1. a[1] \in ToSet(todo'[c]) /\ ToSet(<<>>) = {}
        BY <1>1, <2>3, NowIs, Short
      <4>2. QED  BY <4>1
    <3>2. Edits(todo'[c], g)
      BY <1>1, <1>2, <2>3, <3>1 DEF Edits, Writing
    <3>3. QED  BY <1>4, <2>1, <2>3, <3>2
  <2>4. QED  BY <2>2, <2>3
<1>5. QED  BY <1>2, <1>3, <1>4 DEF MarkIs

\* The map a request is to write says of its table what the request will report.
LEMMA EditAgrees ==
    ASSUME RequestsAre, LinkedAre, NEW c \in Client, NEW a, NEW g, NEW t \in Table, NEW m,
           IsEditing(c, a, g, t, m), LogCounts(t), IsSet(g, t)',
           g = HeadFile => CommitIsLast(t)
    PROVE  \A y \in ReportsOf(todo'[c], g, t) : Agrees(g, t, m, y)'
<1>1. PICK x : x = todo[c][1]
  OBVIOUS
<1>2. /\ Runs(c, a) /\ x[2] = g /\ x[3] = t /\ x[1] \in {"put", "del"} /\ disk' = disk
      /\ x[1] = "put" => t \in DOMAIN m /\ m[t] = x[4]
      /\ x[1] = "del" => t \notin DOMAIN m
  BY <1>1 DEF IsEditing, Put, Drop
<1>3. /\ x \in ToSet(todo[c]) /\ Linked(todo[c]) /\ \A d \in Client \ {c} : todo'[d] = todo[d]
  BY <1>1, <1>2, NowIs DEF LinkedAre
<1>4. SUFFICES ASSUME NEW y \in ReportsOf(todo'[c], g, t) PROVE Agrees(g, t, m, y)'
  OBVIOUS
<1>5. y \in ReportsOf(todo[c], g, t)
  BY <1>2, RunsOn
<1>6. y \in ToSet(todo[c]) /\ Reports(y, t)
  BY <1>5 DEF ReportsOf
<1>7. Fits(x, y)
  <2>1. IsAbout(x, t)
    BY <1>2 DEF IsAbout
  <2>2. QED  BY <1>3, <1>6, <2>1 DEF Linked
<1>8. HeadOf(m, t)' = HeadOf(m, t)
  BY <1>2 DEF HeadOf, ReadLog
<1>9. CASE g = HeadFile /\ x[1] = "put"
  <2>1. y[4] = "restore" /\ y[5].id = x[4]
    BY <1>2, <1>7, <1>9 DEF Fits
  <2>2. y[5] \in Mentioned(t)
    BY <1>6, <2>1, MentionedIs
  <2>3. \A d \in Client : ~Saves(todo[d], t)
    <3>1. ~Saves(todo[c], t)
      BY <1>1, <1>9 DEF Saves
    <3>2. \A d \in Client \ {c} : ~Unset(todo[d], HeadFile, t)
      BY <1>3, <1>9 DEF IsSet
    <3>3. \A d \in Client \ {c} : ~Saves(todo[d], t)
      BY <3>2, SaverIsUnset DEF RequestsAre, LinkedAre
    <3>4. QED  BY <3>1, <3>3
  <2>4. y[5] \in ToSet(ReadLog(t))
    BY <2>2, <2>3 DEF LogCounts, IsIn
  <2>5. m[t] \in Ids(ReadLog(t))
    BY <1>2, <1>9, <2>1, <2>4 DEF Ids
  <2>6. QED  BY <1>2, <1>8, <1>9, <2>1, <2>5 DEF Agrees, HeadOf
<1>10. CASE g = HeadFile /\ x[1] = "del"
  <2>1. y[4] = "commit"
    BY <1>2, <1>7, <1>10 DEF Fits
  <2>2. ReportsCommit(y) /\ y[2] = t /\ ~Saves(todo[c], t)
    BY <1>1, <1>6, <1>10, <2>1 DEF ReportsCommit, Reports, Saves
  <2>3. Last(ReadLog(t)) = y[5]
    BY <1>6, <1>10, <2>2 DEF CommitIsLast
  <2>4. QED  BY <1>2, <1>8, <1>10, <2>3 DEF Agrees, HeadOf
<1>11. CASE g # HeadFile /\ x[1] = "put"
  BY <1>2, <1>7, <1>11 DEF Fits, Agrees
<1>12. CASE g # HeadFile /\ x[1] = "del"
  BY <1>2, <1>7, <1>12 DEF Fits, Agrees
<1>13. QED  BY <1>2, <1>9, <1>10, <1>11, <1>12

\* Of the other tables the map says what it said.
LEMMA HoldsAlike ==
    ASSUME NEW f, NEW t, NEW m, NEW n, Holds(f, t, m),
           t \in DOMAIN n <=> t \in DOMAIN m, t \in DOMAIN m => n[t] = m[t]
    PROVE  Holds(f, t, n)
<1>1. HeadOf(n, t) = HeadOf(m, t)
  BY DEF HeadOf
<1>2. \A y : Agrees(f, t, m, y) => Agrees(f, t, n, y)
  BY <1>1 DEF Agrees
<1>3. AgreesWithTold(f, t, m) => AgreesWithTold(f, t, n)
  BY <1>1 DEF AgreesWithTold
<1>4. QED  BY <1>2, <1>3 DEF Holds

\* A pointer file is read to be written with one entry changed.
LEMMA EditedMarks ==
    ASSUME DiskIs, RequestsAre, LinkedAre, NEW c \in Client,
           NEW a, NEW g, NEW u, NEW m, IsEditing(c, a, g, u, m),
           NEW t \in Table, LogCounts(t), MarksOf(t)
    PROVE  MarksOf(t)'
<1>1. /\ Runs(c, a) /\ g \in Pointers /\ u \in Table /\ disk' = disk /\ told' = told
      /\ todo[c][1][1] \in {"put", "del"} /\ todo[c][1][2] = g /\ todo[c][1][3] = u
      /\ a # <<>> => ToSet(a) = {a[1]} /\ a[1][2] = g
      /\ \A x \in loose : x \in loose'
  BY DEF IsEditing
<1>2. /\ todo[c] # <<>> /\ todo[c][1] \in ToSet(todo[c]) /\ Linked(todo[c])
      /\ \A d \in Client \ {c} : todo'[d] = todo[d]
  BY <1>1, NowIs DEF LinkedAre
<1>3. ReadLog(t)' = ReadLog(t) /\ ~Saves(todo[c], t)
  BY <1>1 DEF ReadLog, Saves
<1>4. \A f : ToldStays(f, t)
  BY <1>1 DEF ToldStays
<1>5. \A f : ~(f = g /\ t = u) => SetsStay(f, t)
  BY <1>1, <1>3, <1>4, RunSetsStay
<1>6. ASSUME NEW f \in Pointers, f # g, <<f, t>> \notin loose' PROVE MarkIs(f, t)'
  <2>1. \A z \in ToSet(a) : z[2] # f
    <3>1. ToSet(<<>>) = {}
      BY Short
    <3>2. QED  BY <1>1, <1>6, <3>1
  <2>2. IsElsewhere(c, f, t)
    BY <1>1, <1>6, <2>1, RunIsElsewhere DEF Writing
  <2>3. QED  BY <1>1, <1>5, <1>6, <2>2, MarkStays DEF MarksOf
<1>7. ASSUME <<g, t>> \notin loose' PROVE MarkIs(g, t)'
  <2>1. <<g, t>> \notin loose /\ \A d \in Client \ {c} : ~Edits(todo[d], g)
    BY <1>7, EditsAlone
  <2>2. MarkIs(g, t)
    BY <1>1, <2>1 DEF MarksOf
  <2>3. \A d : Settler(todo'[d], g, t) /\ d \in Client => Settler(todo[d], g, t)
    BY <1>1, <1>2, RunsOn
  <2>4. \A d, e \in Client : Settler(todo'[d], g, t) /\ Settler(todo'[e], g, t) => d = e
    BY <2>2, <2>3 DEF MarkIs
  <2>5. CASE t # u
    <3>1. SetsStay(g, t)
      BY <1>5, <2>5
    <3>2. ASSUME IsSet(g, t)' PROVE Holds(g, t, m)' /\ Holds(g, t, ReadMap(g))'
      <4>1. IsSet(g, t)
        BY <3>1, <3>2 DEF IsSet, SetsStay
      <4>2. \A d \in Client : ~Edits(todo[d], g) /\ ~Fills(todo[d], g)
        <5>1. ~Edits(todo[c], g)
          BY <1>1 DEF Edits, Writing
        <5>2. \A d \in Client : ~Edits(todo[d], g)
          BY <2>1, <5>1
        <5>3. QED  BY <5>2, FillsEdits
      <4>3. PICK n : n = ReadMap(g)
        OBVIOUS
      <4>4. Holds(g, t, n)
        BY <2>2, <4>1, <4>2, <4>3 DEF MarkIs
      <4>5. (t \in DOMAIN m <=> t \in DOMAIN n) /\ (t \in DOMAIN n => m[t] = n[t])
        BY <2>5, <4>3 DEF IsEditing, Put, Drop
      <4>6. Holds(g, t, m)
        BY <4>4, <4>5, HoldsAlike
      <4>7. Holds(g, t, m)' /\ Holds(g, t, n)'
        BY <1>1, <3>1, <4>4, <4>6, HoldsOn
      <4>8. n = ReadMap(g)'
        BY <1>1, <4>3 DEF ReadMap
      <4>9. QED  BY <4>7, <4>8 DEF Holds
    <3>3. QED  BY <2>1, <2>4, <3>2, EditedMark
  <2>6. CASE t = u
    <3>1. Unset(todo[c], g, t)
      BY <1>1, <1>2, <2>6 DEF Unset
    <3>2. Settler(todo[c], g, t)
      BY <1>2, <3>1, UnsetSettles
    <3>3. Settler(todo'[c], g, t)
      BY <1>1, <3>2, RunsOn
    <3>4. \A d \in Client \ {c} : ReportsOf(todo'[d], g, t) = {}
      BY <2>4, <3>3, ReporterSettles
    <3>5. g = HeadFile => CommitIsLast(t)
      BY <2>1 DEF MarksOf
    <3>6. ASSUME IsSet(g, t)' PROVE Holds(g, t, m)'
      <4>1. \A y \in ReportsOf(todo'[c], g, t) : Agrees(g, t, m, y)'
        BY <2>6, <3>5, <3>6, EditAgrees
      <4>2. QED  BY <3>3, <3>4, <4>1 DEF Holds
    <3>7. QED  BY <2>1, <2>4, <3>3, <3>6, EditedMark
  <2>7. QED  BY <2>5, <2>6
<1>8. \A y \in ToSet(todo'[c]) : ReportsCommit(y) => y \in ToSet(todo[c])
  BY <1>1, RunReports
<1>9. <<HeadFile, t>> \notin loose' => CommitIsLast(t)'
  BY <1>1, <1>2, <1>3, <1>8, CommitStays DEF MarksOf
<1>10. QED  BY <1>6, <1>7, <1>9 DEF MarksOf

\* Every step of a client keeps the pointers.
LEMMA MarksNext ==
    ASSUME DiskIs, RequestsAre, LinkedAre, LogsAre, MentionsAre, MarksAreMaps, MarksHold,
           NEW c \in Client, StepIs(c)
    PROVE  MarksHold'
<1>1. SUFFICES ASSUME NEW t \in Table, Manifest(t) \notin disturbed' PROVE MarksOf(t)'
  BY DEF MarksHold
<1>2. ASSUME Manifest(t) \notin disturbed PROVE LogIs(t) /\ LogCounts(t) /\ MarksOf(t)
  BY <1>2 DEF LogsAre, MentionsAre, MarksHold
<1>3. CASE BeginsRight(c)
  <2>1. PICK sets, n : Begins(c, sets, n)
    BY <1>3 DEF BeginsRight
  <2>2. Manifest(t) \notin disturbed
    <3>1. \A u \in Table : Manifest(t) \notin WorkFiles(u)
      BY Names DEF AllWorkFiles
    <3>2. QED  BY <1>1, <2>1, <3>1 DEF Begins
  <2>3. QED  BY <1>2, <1>3, <2>2, BeginMarks
<1>4. CASE Abort(c)
  <2>1. Manifest(t) \notin disturbed
    BY <1>1, <1>4 DEF Abort
  <2>2. QED  BY <1>1, <1>2, <1>4, <2>1, AbortMarks
<1>5. CASE \E a, u, ps, s, l : IsRecording(c, a, u, ps, s, l)
  <2>1. PICK a, u, ps, s, l : IsRecording(c, a, u, ps, s, l)
    BY <1>5
  <2>2. Manifest(t) \notin disturbed
    BY <1>1, <2>1 DEF IsRecording
  <2>3. QED  BY <1>2, <2>1, <2>2, RecordMarks
<1>6. ASSUME NEW a, Runs(c, a) PROVE LogIs(t) /\ LogCounts(t) /\ MarksOf(t)
  BY <1>1, <1>2, <1>6, NowIs
<1>7. CASE \E a : IsAside(c, a)
  <2>1. PICK a : IsAside(c, a)
    BY <1>7
  <2>2. Runs(c, a)
    BY <2>1 DEF IsAside
  <2>3. QED  BY <1>6, <2>1, <2>2, AsideMarks
<1>8. CASE \E a, g, u, m : IsEditing(c, a, g, u, m)
  <2>1. PICK a, g, u, m : IsEditing(c, a, g, u, m)
    BY <1>8
  <2>2. Runs(c, a)
    BY <2>1 DEF IsEditing
  <2>3. QED  BY <1>6, <2>1, <2>2, EditedMarks
<1>9. CASE \E a, g, m : IsOpening(c, a, g, m)
  <2>1. PICK a, g, m : IsOpening(c, a, g, m)
    BY <1>9
  <2>2. Runs(c, a)
    BY <2>1 DEF IsOpening
  <2>3. QED  BY <1>6, <2>1, <2>2, OpenedMarks
<1>10. CASE \E g, m, v : IsFilling(c, g, m, v)
  <2>1. PICK g, m, v : IsFilling(c, g, m, v)
    BY <1>10
  <2>2. Runs(c, <<>>) /\ g \in Pointers \cup {Manifest(u) : u \in Table}
    BY <2>1 DEF IsFilling
  <2>3. CASE g \in Pointers
    BY <1>6, <2>1, <2>2, <2>3, FilledMarks
  <2>4. CASE g \in {Manifest(u) : u \in Table}
    BY <1>6, <2>1, <2>2, <2>4, SavedMarks
  <2>5. QED  BY <2>2, <2>3, <2>4
<1>11. CASE IsReporting(c, todo[c][1])
  <2>1. Runs(c, <<>>)
    BY <1>11 DEF IsReporting
  <2>2. QED  BY <1>6, <1>11, <2>1, ReportedMarks
<1>12. QED
  BY <1>3, <1>4, <1>5, <1>7, <1>8, <1>9, <1>10, <1>11 DEF StepIs

-----------------------------------------------------------------------------
(* The pointers of the initial states.                                     *)

\* The pointers a store starts with are of snapshots it has.
LEMMA PastMarksAre ==
    \A p \in PastMarks : /\ p \in Marks
                         /\ \A t \in DOMAIN p : t \in Table /\ p[t] \in DOMAIN Past[t]
<1>1. SUFFICES ASSUME NEW p \in PastMarks
               PROVE  p \in Marks /\ \A t \in DOMAIN p : t \in Table /\ p[t] \in DOMAIN Past[t]
  OBVIOUS
<1>2. /\ p = [t \in DOMAIN p |-> p[t]] /\ DOMAIN p \subseteq Table
      /\ \A t \in DOMAIN p : t \in Table /\ p[t] \in DOMAIN Past[t]
  BY PastMarksResolve DEF Table
<1>3. \A t \in DOMAIN p : p[t] \in Nat
  <2>1. \A t \in Table : Past[t] \in Seq(PartialMap({"source", "output"}, Content))
    BY PastIsRecorded DEF Table
  <2>2. \A t \in Table : DOMAIN Past[t] \subseteq Nat
    BY <2>1
  <2>3. QED  BY <1>2, <2>2
<1>4. p \in [DOMAIN p -> Nat]
  BY <1>2, <1>3
<1>5. QED  BY <1>2, <1>4, PartialMapDef DEF Marks

\* The past logs count their snapshots.
LEMMA PastCounts ==
    ASSUME Init, NEW t \in Table
    PROVE  /\ Numbered(PastLog(t))
           /\ \A i \in DOMAIN Past[t] : /\ PastLog(t)[i] \in ToSet(PastLog(t))
                                        /\ PastLog(t)[i].id = i /\ i \in Ids(PastLog(t))
           /\ Past[t] # <<>> => Last(PastLog(t)).id = Len(Past[t])
<1>1. PICK l : l = PastLog(t)
  OBVIOUS
<1>2. DOMAIN l = DOMAIN Past[t] /\ \A i \in DOMAIN l : l[i].id = i
  BY <1>1 DEF PastLog
<1>3. \A i \in DOMAIN l : l[i] \in ToSet(l)
  BY DEF ToSet
<1>4. \A i \in DOMAIN l : i \in Ids(l)
  BY <1>2, <1>3 DEF Ids
<1>5. Past[t] # <<>> => Last(l).id = Len(Past[t])
  <2>1. l \in Seq(Kept(t))
    BY <1>1, PastIsThere
  <2>2. Past[t] \in Seq(PartialMap({"source", "output"}, Content))
    BY PastIsRecorded DEF Table
  <2>3. DOMAIN l = 1..Len(l) /\ Len(l) \in Nat
    BY <2>1
  <2>4. DOMAIN Past[t] = 1..Len(Past[t]) /\ Len(Past[t]) \in Nat
    BY <2>2
  <2>5. Len(l) = Len(Past[t])
    <3>1. \A i, j \in Nat : 1..i = 1..j => i = j
      <4>1. SUFFICES ASSUME NEW i \in Nat, NEW j \in Nat, 1..i = 1..j PROVE i = j
        OBVIOUS
      <4>2. i > 0 => i <= j
        BY <4>1
      <4>3. j > 0 => j <= i
        BY <4>1
      <4>4. QED  BY <4>2, <4>3
    <3>2. QED  BY <1>2, <2>3, <2>4, <3>1
  <2>6. Past[t] # <<>> => Len(Past[t]) \in DOMAIN Past[t]
    BY <2>2
  <2>7. QED  BY <1>2, <2>5, <2>6 DEF Last
<1>6. QED  BY <1>1, <1>2, <1>3, <1>4, <1>5 DEF Numbered

\* The stores the system starts with are as their pointers say.
LEMMA InitMarks ==
    ASSUME Init
    PROVE  MarksAreMaps /\ MentionsAre /\ MarksHold
<1>1. PICK head \in PastMarks, golden \in PastMarks,
           work \in [AllWorkFiles -> Content \cup {Absent}] :
          /\ disk = StoreFiles(head, golden, work)
          /\ told = [log |-> [t \in Table |-> ToSet(PastLog(t))],
                     head |-> [t \in {u \in Table : Past[u] # <<>>} |->
                                 IF t \in DOMAIN head THEN head[t] ELSE Len(Past[t])],
                     golden |-> [t \in DOMAIN golden |-> PastLog(t)[golden[t]]]]
  BY DEF Init
<1>2. disk[HeadFile] = head /\ disk[GoldenFile] = golden
  <2>1. HeadFile \in File /\ GoldenFile \in File /\ HeadFile # GoldenFile
    BY Files DEF Pointers, HeadFile, GoldenFile
  <2>2. QED  BY <1>1, <2>1 DEF StoreFiles
<1>3. /\ head \in Marks /\ golden \in Marks
      /\ \A t \in DOMAIN head : t \in Table /\ head[t] \in DOMAIN Past[t]
      /\ \A t \in DOMAIN golden : t \in Table /\ golden[t] \in DOMAIN Past[t]
  BY PastMarksAre
<1>4. ReadMap(HeadFile) = head /\ ReadMap(GoldenFile) = golden
  BY <1>2, <1>3, MarksAreThere DEF ReadMap
<1>5. \A c \in Client : todo[c] = <<>> /\ ToSet(todo[c]) = {}
  <2>1. todo = [c \in Client |-> <<>>]
    BY DEF Init
  <2>2. QED  BY <2>1, Short
<1>6. \A c \in Client : \A f : /\ ~Edits(todo[c], f)
                               /\ \A t : /\ ~Settler(todo[c], f, t) /\ ~Unset(todo[c], f, t)
                                         /\ ReportsOf(todo[c], f, t) = {}
  BY <1>5 DEF Edits, Settler, Unset, ReportsOf
<1>7. \A c \in Client : \A f : ~Fills(todo[c], f)
  <2>1. RequestsAre
    BY InitIs
  <2>2. QED  BY <1>6, <2>1, FillsEdits
<1>8. \A c \in Client : \A t : ~Saves(todo[c], t)
  BY <1>5 DEF Saves
<1>9. \A t \in Table : Readable(t) /\ ReadLog(t) = PastLog(t)
  BY PastIsThere
<1>10. told.head = [t \in {u \in Table : Past[u] # <<>>} |->
                       IF t \in DOMAIN head THEN head[t] ELSE Len(Past[t])]
       /\ told.golden = [t \in DOMAIN golden |-> PastLog(t)[golden[t]]]
  BY <1>1
<1>11. MarksAreMaps
  BY <1>2, <1>3, <1>5, <1>6, <1>10 DEF MarksAreMaps, Pointers
<1>12. ASSUME NEW t \in Table PROVE LogCounts(t)
  <2>1. \A s \in Mentioned(t) : s \in ToSet(ReadLog(t))
    <3>1. ASSUME NEW s \in Mentioned(t) PROVE s \in ToSet(ReadLog(t))
      <4>1. t \in DOMAIN told.golden /\ s = told.golden[t]
        BY <1>5, <3>1, MentionedIs
      <4>2. s = PastLog(t)[golden[t]] /\ golden[t] \in DOMAIN Past[t]
        BY <1>3, <1>10, <4>1
      <4>3. QED  BY <1>9, <4>2, PastCounts
    <3>2. QED  BY <3>1
  <2>2. QED  BY <1>8, <1>9, <2>1, PastCounts DEF LogCounts, IsIn
<1>13. ASSUME NEW t \in Table PROVE MarksOf(t)
  <2>1. AgreesWithTold(HeadFile, t, head)
    <3>1. ASSUME t \in DOMAIN told.head PROVE HeadOf(head, t) = told.head[t]
      <4>1. Past[t] # <<>> /\ told.head[t] = IF t \in DOMAIN head THEN head[t] ELSE Len(Past[t])
        BY <1>10, <3>1
      <4>2. t \in DOMAIN head => head[t] \in Ids(ReadLog(t))
        BY <1>3, <1>9, PastCounts
      <4>3. Last(ReadLog(t)).id = Len(Past[t])
        BY <1>9, <4>1, PastCounts
      <4>4. QED  BY <4>1, <4>2, <4>3 DEF HeadOf
    <3>2. QED  BY <3>1 DEF AgreesWithTold
  <2>2. AgreesWithTold(GoldenFile, t, golden)
    <3>1. GoldenFile # HeadFile
      BY DEF GoldenFile, HeadFile
    <3>2. t \in DOMAIN golden <=> t \in DOMAIN told.golden
      BY <1>10
    <3>3. t \in DOMAIN golden => golden[t] = told.golden[t].id
      BY <1>3, <1>10, PastCounts
    <3>4. QED  BY <3>1, <3>2, <3>3 DEF AgreesWithTold
  <2>3. \A f \in Pointers : Holds(f, t, ReadMap(f))
    BY <1>4, <1>6, <2>1, <2>2 DEF Holds, Pointers
  <2>4. \A f \in Pointers : MarkIs(f, t)
    BY <1>6, <1>7, <2>3 DEF MarkIs
  <2>5. CommitIsLast(t)
    BY <1>5 DEF CommitIsLast
  <2>6. QED  BY <2>4, <2>5 DEF MarksOf
<1>14. QED  BY <1>11, <1>12, <1>13 DEF MentionsAre, MarksHold

\* Stuttering steps.
LEMMA NothingMarks ==
    ASSUME MarksAreMaps, MentionsAre, MarksHold, UNCHANGED vars
    PROVE  MarksAreMaps' /\ MentionsAre' /\ MarksHold'
<1>1. disk' = disk /\ todo' = todo /\ told' = told /\ loose' = loose /\ disturbed' = disturbed
  BY DEF vars
<1>2. MarksAreMaps'
  BY <1>1 DEF MarksAreMaps
<1>3. \A t : /\ ReadLog(t)' = ReadLog(t) /\ Readable(t)' = Readable(t)
             /\ Mentioned(t)' = Mentioned(t)
  BY <1>1 DEF ReadLog, Readable, Mentioned
<1>4. \A t, s : IsIn(t, s) => IsIn(t, s)'
  BY <1>1, <1>3 DEF IsIn
<1>5. \A t : LogCounts(t) => LogCounts(t)'
  BY <1>1, <1>3, <1>4 DEF LogCounts
<1>6. \A f \in Pointers : \A t : ReadMap(f)' = ReadMap(f)
  BY <1>1 DEF ReadMap
<1>7. \A f \in Pointers : \A t, m : Holds(f, t, m) => Holds(f, t, m)'
  BY <1>1, <1>3, HoldsOn DEF SetsStay, ToldStays
<1>8. ASSUME NEW f \in Pointers, NEW t, MarkIs(f, t) PROVE MarkIs(f, t)'
  <2>1. IsSet(f, t)' => IsSet(f, t)
    BY <1>1 DEF IsSet
  <2>2. \A c \in Client : Holds(f, t, todo[c][1][3]) => Holds(f, t, todo[c][1][3])'
    <3>1. ASSUME NEW c \in Client, Holds(f, t, todo[c][1][3]) PROVE Holds(f, t, todo[c][1][3])'
      <4>1. PICK m : m = todo[c][1][3]
        OBVIOUS
      <4>2. Holds(f, t, m)' /\ m = todo'[c][1][3]
        BY <1>1, <1>7, <3>1, <4>1
      <4>3. QED  BY <4>2 DEF Holds
    <3>2. QED  BY <3>1
  <2>3. Holds(f, t, ReadMap(f)) => Holds(f, t, ReadMap(f))'
    <3>1. ASSUME Holds(f, t, ReadMap(f)) PROVE Holds(f, t, ReadMap(f))'
      <4>1. PICK m : m = ReadMap(f)
        OBVIOUS
      <4>2. Holds(f, t, m)' /\ m = ReadMap(f)'
        BY <1>6, <1>7, <3>1, <4>1
      <4>3. QED  BY <4>2 DEF Holds
    <3>2. QED  BY <3>1
  <2>4. QED  BY <1>1, <1>8, <2>1, <2>2, <2>3 DEF MarkIs
<1>9. \A t : CommitIsLast(t) => CommitIsLast(t)'
  BY <1>1, <1>3 DEF CommitIsLast
<1>10. \A t : MarksOf(t) => MarksOf(t)'
  BY <1>1, <1>8, <1>9 DEF MarksOf
<1>11. QED  BY <1>1, <1>2, <1>5, <1>10 DEF MentionsAre, MarksHold

-----------------------------------------------------------------------------
(* What was reported is what is in the pointer files.                      *)

\* A settled pointer is the one that was reported last.
LEMMA SettledAgrees ==
    ASSUME RequestsAre, LinkedAre, MarksHold, NEW f \in Pointers, NEW t \in Table, Settled(f, t)
    PROVE  AgreesWithTold(f, t, ReadMap(f))
<1>1. /\ <<f, t>> \notin loose /\ Manifest(t) \notin disturbed
      /\ ~Filling(f) /\ \A c \in Client : <<f, t>> \notin Sets(c)
  BY DEF Settled
<1>2. \A c \in Client : ~Settler(todo[c], f, t)
  <2>1. ASSUME NEW c \in Client, NEW x \in ToSet(todo[c]),
               x[1] \in {"record", "report"}, x[2] = t, f \in x[3]
        PROVE  FALSE
    <3>1. x \in Pending(c, {"record", "report"}) /\ <<f, t>> \in x[3] \X {x[2]}
      BY <2>1 DEF Pending
    <3>2. QED  BY <1>1, <3>1 DEF Sets
  <2>2. QED  BY <2>1 DEF Settler
<1>3. IsSet(f, t)
  BY <1>2, UnsetSettles DEF IsSet, LinkedAre
<1>4. \A c \in Client : ~Fills(todo[c], f)
  BY <1>1 DEF Fills, Filling, Pending, ToSet
<1>5. MarkIs(f, t)
  BY <1>1 DEF MarksHold, MarksOf
<1>6. Holds(f, t, ReadMap(f))
  BY <1>2, <1>3, <1>4, <1>5 DEF MarkIs
<1>7. QED  BY <1>2, <1>6 DEF Holds

\* The snapshots of a log that counts them have different ids.
LEMMA IdsAreOwn ==
    ASSUME NEW l, Numbered(l), NEW s \in ToSet(l)
    PROVE  s.id \in Ids(l) /\ GetSnapshot(l, s.id) = s
<1>1. \A x, y \in ToSet(l) : x.id = y.id => x = y
  BY DEF Numbered, ToSet
<1>2. QED  BY <1>1 DEF Ids, GetSnapshot

\* Hence the current snapshot of a table is the one reported last.
LEMMA CurrentAgrees ==
    ASSUME RequestsAre, LinkedAre, MarksAreMaps, MarksHold
    PROVE  CurrentIsAsReported
<1>1. SUFFICES ASSUME NEW t \in DOMAIN told.head, Settled(HeadFile, t)
               PROVE  HeadId(t) = told.head[t]
  BY DEF CurrentIsAsReported
<1>2. t \in Table /\ HeadFile \in Pointers
  BY DEF MarksAreMaps, Pointers
<1>3. AgreesWithTold(HeadFile, t, ReadMap(HeadFile))
  BY <1>1, <1>2, SettledAgrees
<1>4. HeadOf(ReadMap(HeadFile), t) = told.head[t]
  BY <1>3 DEF AgreesWithTold
<1>5. QED  BY <1>4 DEF HeadId, HeadOf

\* Hence the golden of a table is the one reported last.
LEMMA GoldenAgrees ==
    ASSUME RequestsAre, LinkedAre, LogsAre, MentionsAre, MarksHold
    PROVE  GoldenIsAsReported
<1>1. SUFFICES ASSUME NEW t \in Table, Settled(GoldenFile, t), NEW g, g = ReadMap(GoldenFile)
               PROVE  /\ t \in DOMAIN g <=> t \in DOMAIN told.golden
                      /\ t \in DOMAIN g => /\ g[t] \in Ids(ReadLog(t))
                                           /\ GetSnapshot(ReadLog(t), g[t]) = told.golden[t]
  BY DEF GoldenIsAsReported
<1>2. /\ t \in DOMAIN g <=> t \in DOMAIN told.golden
      /\ t \in DOMAIN g => g[t] = told.golden[t].id
  <2>1. GoldenFile \in Pointers /\ GoldenFile # HeadFile
    BY DEF Pointers, GoldenFile, HeadFile
  <2>2. AgreesWithTold(GoldenFile, t, g)
    BY <1>1, <2>1, SettledAgrees
  <2>3. QED  BY <2>1, <2>2 DEF AgreesWithTold
<1>3. Readable(t) /\ LogIs(t) /\ LogCounts(t)
  BY <1>1 DEF Settled, LogsAre, MentionsAre
<1>4. \A c \in Client : ~Saves(todo[c], t)
  BY <1>3 DEF LogIs, Readable
<1>5. ASSUME t \in DOMAIN g PROVE told.golden[t] \in ToSet(ReadLog(t))
  <2>1. told.golden[t] \in Mentioned(t)
    BY <1>2, <1>5, MentionedIs
  <2>2. QED  BY <1>3, <1>4, <2>1 DEF LogCounts, IsIn
<1>6. Numbered(ReadLog(t))
  BY <1>3 DEF LogCounts
<1>7. QED  BY <1>2, <1>5, <1>6, IdsAreOwn

\* All that is known of the pointers, and of the logs they go by.
PointersAre ==
    DiskIs /\ RequestsAre /\ LinkedAre /\ LogsAre /\ MentionsAre /\ MarksAreMaps /\ MarksHold

\* It is so at first.
LEMMA PointersInit == Init => PointersAre
<1>1. SUFFICES ASSUME Init PROVE PointersAre
  OBVIOUS
<1>2. \A c \in Client : todo[c] = <<>>
  <2>1. todo = [c \in Client |-> <<>>]
    BY <1>1 DEF Init
  <2>2. QED  BY <2>1
<1>3. LinkedAre
  BY <1>2, NothingLinked DEF LinkedAre
<1>4. QED  BY <1>1, <1>3, InitIs, InitLogs, InitMarks DEF PointersAre

\* Every step keeps it so.
LEMMA PointersNext ==
    ASSUME PointersAre, [Next]_vars
    PROVE  PointersAre'
<1>1. DiskIs /\ RequestsAre /\ LinkedAre /\ LogsAre /\ MentionsAre /\ MarksAreMaps /\ MarksHold
  BY DEF PointersAre
<1>2. DiskIs' /\ RequestsAre' /\ LogsAre'
  BY <1>1, NextKeeps, NextLogs
<1>3. CASE Next
  <2>1. PICK c \in Client : StepIs(c)
    BY <1>1, <1>3, NextIs
  <2>2. LinkedAre' /\ MentionsAre' /\ MarksAreMaps' /\ MarksHold'
    BY <1>1, <2>1, LinkedNext, MentionsNext, MapsNext, MarksNext
  <2>3. QED  BY <1>2, <2>2 DEF PointersAre
<1>4. CASE UNCHANGED vars
  <2>1. LinkedAre'
    BY <1>1, <1>4 DEF LinkedAre, vars
  <2>2. MentionsAre' /\ MarksAreMaps' /\ MarksHold'
    BY <1>1, <1>4, NothingMarks
  <2>3. QED  BY <1>2, <2>1, <2>2 DEF PointersAre
<1>5. QED  BY <1>3, <1>4

\* The current snapshot of a table is the one last committed or restored, for
\* any number of clients and tables, also when a commit died between saving the
\* manifest and clearing the head (HistoryStore.current_head).
THEOREM CurrentAsReported == Spec => []CurrentIsAsReported
<1>1. PointersAre => CurrentIsAsReported
  BY CurrentAgrees DEF PointersAre
<1>2. PointersAre /\ [Next]_vars => PointersAre'
  BY PointersNext
<1>3. QED  BY <1>1, <1>2, PointersInit, PTL DEF Spec

\* The golden version of a table is the very snapshot that its last golden
\* command or commit reported, and a cleared one stays cleared, whatever
\* happens meanwhile to the pointers of other tables (golden set and clear).
THEOREM GoldenAsReported == Spec => []GoldenIsAsReported
<1>1. PointersAre => GoldenIsAsReported
  BY GoldenAgrees DEF PointersAre
<1>2. PointersAre /\ [Next]_vars => PointersAre'
  BY PointersNext
<1>3. QED  BY <1>1, <1>2, PointersInit, PTL DEF Spec
=============================================================================
