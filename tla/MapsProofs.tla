----------------------------- MODULE MapsProofs -----------------------------
(***************************************************************************)
(* The types of the map operators, cited by the proofs about the modules   *)
(* that use them.                                                          *)
(***************************************************************************)
EXTENDS Maps, TLAPS

\* A partial map is a function into T whose domain lies in S.
LEMMA PartialMapDef ==
    ASSUME NEW S, NEW T, NEW f
    PROVE  f \in PartialMap(S, T) <=> DOMAIN f \subseteq S /\ f \in [DOMAIN f -> T]
<1>1. ASSUME f \in PartialMap(S, T)
      PROVE  DOMAIN f \subseteq S /\ f \in [DOMAIN f -> T]
  <2>1. PICK D \in SUBSET S : f \in [D -> T]
    BY <1>1 DEF PartialMap
  <2>2. QED  BY <2>1
<1>2. ASSUME DOMAIN f \subseteq S, f \in [DOMAIN f -> T]
      PROVE  f \in PartialMap(S, T)
  BY <1>2 DEF PartialMap
<1>3. QED  BY <1>1, <1>2

\* The map with no entry is a partial map.
LEMMA EmptyMapType ==
    ASSUME NEW S, NEW T
    PROVE  EmptyMap \in PartialMap(S, T) /\ DOMAIN EmptyMap = {}
BY PartialMapDef DEF EmptyMap

\* Writing an entry keeps the type.
LEMMA PutType ==
    ASSUME NEW S, NEW T, NEW f \in PartialMap(S, T), NEW k \in S, NEW v \in T
    PROVE  Put(f, k, v) \in PartialMap(S, T)
<1>1. DOMAIN f \subseteq S /\ f \in [DOMAIN f -> T]
  BY PartialMapDef
<1>2. DOMAIN Put(f, k, v) = DOMAIN f \cup {k}
  BY DEF Put
<1>3. Put(f, k, v) \in [DOMAIN f \cup {k} -> T]
  BY <1>1 DEF Put
<1>4. QED  BY <1>1, <1>2, <1>3, PartialMapDef

\* Removing entries keeps the type.
LEMMA DropType ==
    ASSUME NEW S, NEW T, NEW f \in PartialMap(S, T), NEW K
    PROVE  Drop(f, K) \in PartialMap(S, T)
<1>1. DOMAIN f \subseteq S /\ f \in [DOMAIN f -> T]
  BY PartialMapDef
<1>2. DOMAIN Drop(f, K) = DOMAIN f \ K /\ Drop(f, K) \in [DOMAIN f \ K -> T]
  BY <1>1 DEF Drop
<1>3. QED  BY <1>1, <1>2, PartialMapDef

\* Keeping some entries keeps the type.
LEMMA KeepType ==
    ASSUME NEW S, NEW T, NEW f \in PartialMap(S, T), NEW K
    PROVE  Keep(f, K) \in PartialMap(S, T)
<1>1. DOMAIN f \subseteq S /\ f \in [DOMAIN f -> T]
  BY PartialMapDef
<1>2. DOMAIN Keep(f, K) = DOMAIN f \cap K /\ Keep(f, K) \in [DOMAIN f \cap K -> T]
  BY <1>1 DEF Keep
<1>3. QED  BY <1>1, <1>2, PartialMapDef

\* Merging two maps of a type gives a map of the type.
LEMMA OverrideType ==
    ASSUME NEW S, NEW T, NEW f \in PartialMap(S, T), NEW g \in PartialMap(S, T)
    PROVE  Override(f, g) \in PartialMap(S, T)
<1>1. /\ DOMAIN f \subseteq S /\ f \in [DOMAIN f -> T]
      /\ DOMAIN g \subseteq S /\ g \in [DOMAIN g -> T]
  BY PartialMapDef
<1>2. DOMAIN Override(f, g) = DOMAIN f \cup DOMAIN g
  BY DEF Override
<1>3. Override(f, g) \in [DOMAIN f \cup DOMAIN g -> T]
  BY <1>1 DEF Override
<1>4. QED  BY <1>1, <1>2, <1>3, PartialMapDef

\* Moving an entry to another key keeps the type.
LEMMA MoveKeyType ==
    ASSUME NEW S, NEW T, NEW f \in PartialMap(S, T), NEW k, NEW l \in S
    PROVE  MoveKey(f, k, l) \in PartialMap(S, T)
<1>1. CASE k \in DOMAIN f
  <2>1. f[k] \in T
    BY <1>1, PartialMapDef
  <2>2. QED
    BY <1>1, <2>1, DropType, PutType DEF MoveKey
<1>2. CASE k \notin DOMAIN f
  BY <1>2 DEF MoveKey
<1>3. QED  BY <1>1, <1>2

\* The values of a partial map are in its range type.
LEMMA ValuesType ==
    ASSUME NEW S, NEW T, NEW f \in PartialMap(S, T)
    PROVE  ValuesOf(f) \subseteq T
BY PartialMapDef DEF ValuesOf

\* A partial map is a function: it is the map of its values.
LEMMA MapIsFunction ==
    ASSUME NEW S, NEW T, NEW f \in PartialMap(S, T)
    PROVE  f = [x \in DOMAIN f |-> f[x]]
BY PartialMapDef

\* Writing a part of a map over the map changes nothing.
LEMMA OverrideByPart ==
    ASSUME NEW f, f = [x \in DOMAIN f |-> f[x]], NEW K
    PROVE  Override(f, Keep(f, K)) = f
<1>1. DOMAIN Override(f, Keep(f, K)) = DOMAIN f
  BY DEF Override, Keep
<1>2. \A x \in DOMAIN f : Override(f, Keep(f, K))[x] = f[x]
  BY DEF Override, Keep
<1>3. Override(f, Keep(f, K)) = [x \in DOMAIN f |-> Override(f, Keep(f, K))[x]]
  BY <1>1 DEF Override
<1>4. QED  BY <1>2, <1>3

\* Keeping the same keys twice is keeping them once.
LEMMA KeepTwice ==
    ASSUME NEW f, NEW K
    PROVE  Keep(Keep(f, K), K) = Keep(f, K)
BY DEF Keep

\* What is written over a map can be read back: the keys of K are those of g.
LEMMA KeepWritten ==
    ASSUME NEW f, NEW g, g = [x \in DOMAIN g |-> g[x]], NEW K,
           DOMAIN g \subseteq K, DOMAIN f \cap K \subseteq DOMAIN g
    PROVE  Keep(Override(f, g), K) = g
<1>1. DOMAIN Keep(Override(f, g), K) = DOMAIN g
  BY DEF Override, Keep
<1>2. \A x \in DOMAIN g : Keep(Override(f, g), K)[x] = g[x]
  BY DEF Override, Keep
<1>3. Keep(Override(f, g), K) = [x \in DOMAIN g |-> Keep(Override(f, g), K)[x]]
  BY <1>1 DEF Keep
<1>4. QED  BY <1>2, <1>3

\* Writing keys of K leaves the other entries as they are.
LEMMA DropWritten ==
    ASSUME NEW f, NEW g, NEW K, DOMAIN g \subseteq K
    PROVE  Drop(Override(f, g), K) = Drop(f, K)
<1>1. /\ DOMAIN Drop(Override(f, g), K) = DOMAIN f \ K
      /\ DOMAIN Drop(f, K) = DOMAIN f \ K
  BY DEF Override, Drop
<1>2. \A x \in DOMAIN f \ K : Drop(Override(f, g), K)[x] = Drop(f, K)[x]
  BY DEF Override, Drop
<1>3. QED  BY <1>1, <1>2 DEF Drop

\* Maps that agree but for one key differ by writing that key.
LEMMA PutAsFunction ==
    ASSUME NEW f, NEW g, NEW k, NEW v,
           g = [x \in DOMAIN g |-> g[x]],
           DOMAIN g = DOMAIN f \cup {k}, g[k] = v,
           \A x \in DOMAIN f \ {k} : g[x] = f[x]
    PROVE  g = Put(f, k, v)
<1>1. DOMAIN Put(f, k, v) = DOMAIN g /\ \A x \in DOMAIN g : Put(f, k, v)[x] = g[x]
  BY DEF Put
<1>2. Put(f, k, v) = [x \in DOMAIN g |-> Put(f, k, v)[x]]
  BY <1>1 DEF Put
<1>3. QED  BY <1>1, <1>2

\* Maps that agree but for the name of one key.
LEMMA MoveAsFunction ==
    ASSUME NEW f, NEW g, NEW k, NEW l, k \in DOMAIN f, l \notin DOMAIN f,
           g = [x \in DOMAIN g |-> g[x]],
           DOMAIN g = (DOMAIN f \ {k}) \cup {l}, g[l] = f[k],
           \A x \in DOMAIN f \ {k} : g[x] = f[x]
    PROVE  g = MoveKey(f, k, l)
<1> DEFINE d == Drop(f, {k})
<1>1. DOMAIN d = DOMAIN f \ {k} /\ \A x \in DOMAIN d : d[x] = f[x]
  BY DEF Drop
<1> HIDE DEF d
<1>2. g = Put(d, l, f[k])
  BY <1>1, PutAsFunction
<1>3. QED  BY <1>2 DEF d, MoveKey
=============================================================================
