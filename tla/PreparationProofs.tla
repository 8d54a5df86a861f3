------------------------- MODULE PreparationProofs -------------------------
(***************************************************************************)
(* Theorems about Preparation.                                             *)
(***************************************************************************)
EXTENDS Preparation, SequenceTheorems, FiniteSetTheorems, WellFoundedInduction, TLAPS

-----------------------------------------------------------------------------
(* Jobs.                                                                   *)

\* The kinds of files are told apart by their first component.
LEMMA FileKinds ==
    /\ TomlFile[1] = "toml"
    /\ \A t : SidecarFile(t)[1] = "sidecar" /\ SidecarFile(t)[2] = t
    /\ \A f : PluginFile(f)[1] = "plugin" /\ PluginFile(f)[2] = f
BY DEF TomlFile, SidecarFile, PluginFile

\* The sections of table-tool.toml are told apart in the same way.
LEMMA SlotKinds ==
    /\ Global[1] = "global"
    /\ \A k : ClusterSlot(k)[1] = "cluster" /\ ClusterSlot(k)[2] = k
    /\ \A t : BatchSlot(t)[1] = "batch" /\ BatchSlot(t)[2] = t
BY DEF Global, ClusterSlot, BatchSlot

\* What may be written into a file.
IsContentOf(file, x) ==
    \/ file = TomlFile /\ IsToml(x)
    \/ \E t : file = SidecarFile(t) /\ IsTier(x)
    \/ \E f : file = PluginFile(f) /\ IsPluginFile(f, x)

\* A change that a call of a client makes to table-tool.toml once it has read it.
IsTomlEdit(e) ==
    \/ e.how = "tier" /\ IsTier(e.new)
    \/ e.how = "cluster" /\ e.cluster \in Clusters \cup {NoCluster}
    \/ e.how = "tags"
    \/ e.how = "create" /\ IsTier(e.new)
    \/ e.how = "rename"

\* What is in the calls that a job is made of.
IsCall(e) ==
    /\ e.do \in {"write", "fill"} => IsContentOf(e.file, e.new)
    /\ e.do = "write" => e = [do |-> "write", file |-> e.file, new |-> e.new]
    /\ e.do = "edit" =>
          \/ e.file = TomlFile /\ IsTomlEdit(e)
          \/ \E t : e.file = SidecarFile(t) /\ e.how = "tier" /\ IsTier(e.new)
    /\ e.do = "config_set" =>
          (e.file = TomlFile \/ \E t : e.file = SidecarFile(t)) /\ IsTier(e.new)
    /\ e.do = "put" => IsTier(e.new)
    /\ e.do = "unlink" => (\E t : e.file = SidecarFile(t)) \/ \E f : e.file = PluginFile(f)

IsJob(s) == \E S : s \in Seq(S) /\ \A e \in S : IsCall(e)

\* The first call of a job, and what is left after it.
LEMMA JobParts ==
    ASSUME NEW s, IsJob(s), s # <<>>
    PROVE  IsCall(Head(s)) /\ IsJob(Tail(s))
<1>1. PICK S : s \in Seq(S) /\ \A e \in S : IsCall(e)
  BY DEF IsJob
<1>2. Head(s) \in S /\ Tail(s) \in Seq(S)
  BY <1>1
<1>3. QED  BY <1>1, <1>2 DEF IsJob

\* A job with another call before it.
LEMMA JobBefore ==
    ASSUME NEW s, IsJob(s), NEW e, IsCall(e)
    PROVE  /\ IsJob(<<e>> \o s) /\ <<e>> \o s # <<>>
           /\ Head(<<e>> \o s) = e /\ Tail(<<e>> \o s) = s
<1>1. PICK S : s \in Seq(S) /\ \A x \in S : IsCall(x)
  BY DEF IsJob
<1>2. PICK T : T = S \cup {e}
  OBVIOUS
<1>3. s \in Seq(T) /\ <<e>> \in Seq(T) /\ \A x \in T : IsCall(x)
  BY <1>1, <1>2
<1>4. <<e>> \o s \in Seq(T) /\ Head(<<e>> \o s) = e /\ <<e>> \o s # <<>>
  BY <1>3
<1>5. Tail(<<e>> \o s) = s
  BY <1>3
<1>6. QED  BY <1>3, <1>4, <1>5 DEF IsJob

\* The empty job before another changes nothing.
LEMMA NothingBefore ==
    ASSUME NEW s, IsJob(s)
    PROVE  <<>> \o s = s
<1>1. PICK S : s \in Seq(S)
  BY DEF IsJob
<1>2. QED  BY <1>1, ConcatEmptySeq

\* Two calls before two others.
LEMMA TwoAndTwo ==
    ASSUME NEW e, NEW f, NEW g, NEW h
    PROVE  <<e, f>> \o <<g, h>> = <<e, f, g, h>>
<1>1. PICK S : S = {e, f, g, h}
  OBVIOUS
<1>2. PICK x, y, z : x = <<e, f>> /\ y = <<g, h>> /\ z = <<e, f, g, h>>
  OBVIOUS
<1>3. x \in Seq(S) /\ y \in Seq(S) /\ z \in Seq(S) /\ Len(x) = 2 /\ Len(y) = 2 /\ Len(z) = 4
  BY <1>1, <1>2
<1>4. /\ x \o y \in Seq(S) /\ Len(x \o y) = Len(x) + Len(y)
      /\ \A i \in 1..(Len(x) + Len(y)) : (x \o y)[i] = IF i <= Len(x) THEN x[i] ELSE y[i - Len(x)]
  BY <1>3, ConcatProperties
<1>5. \A i \in 1..Len(x \o y) : (x \o y)[i] = z[i]
  <2>1. ASSUME NEW i \in 1..Len(x \o y) PROVE (x \o y)[i] = z[i]
    <3>1. i \in {1, 2, 3, 4}
      BY <1>3, <1>4
    <3>2. /\ (x \o y)[1] = x[1] /\ (x \o y)[2] = x[2]
          /\ (x \o y)[3] = y[1] /\ (x \o y)[4] = y[2]
      BY <1>3, <1>4
    <3>3. QED  BY <1>2, <3>1, <3>2
  <2>2. QED  BY <2>1
<1>6. x \o y = z
  BY <1>3, <1>4, <1>5, SeqEqual
<1>7. QED  BY <1>2, <1>6

\* A job of at most four calls.
LEMMA ShortJobs ==
    /\ IsJob(<<>>)
    /\ \A e : IsCall(e) => IsJob(<<e>>)
    /\ \A e, f : IsCall(e) /\ IsCall(f) => IsJob(<<e, f>>)
    /\ \A e, f, g : IsCall(e) /\ IsCall(f) /\ IsCall(g) => IsJob(<<e, f, g>>)
    /\ \A e, f, g, h : IsCall(e) /\ IsCall(f) /\ IsCall(g) /\ IsCall(h) => IsJob(<<e, f, g, h>>)
<1>1. IsJob(<<>>)
  <2>1. PICK S : S = {}
    OBVIOUS
  <2>2. <<>> \in Seq(S) /\ \A x \in S : IsCall(x)
    BY <2>1
  <2>3. QED  BY <2>2 DEF IsJob
<1>2. ASSUME NEW e, IsCall(e) PROVE IsJob(<<e>>)
  <2>1. PICK S : S = {e}
    OBVIOUS
  <2>2. <<e>> \in Seq(S) /\ \A x \in S : IsCall(x)
    BY <1>2, <2>1
  <2>3. QED  BY <2>2 DEF IsJob
<1>3. ASSUME NEW e, NEW f, IsCall(e), IsCall(f) PROVE IsJob(<<e, f>>)
  <2>1. PICK S : S = {e, f}
    OBVIOUS
  <2>2. <<e, f>> \in Seq(S) /\ \A x \in S : IsCall(x)
    BY <1>3, <2>1
  <2>3. QED  BY <2>2 DEF IsJob
<1>4. ASSUME NEW e, NEW f, NEW g, IsCall(e), IsCall(f), IsCall(g) PROVE IsJob(<<e, f, g>>)
  <2>1. PICK S : S = {e, f, g}
    OBVIOUS
  <2>2. <<e, f, g>> \in Seq(S) /\ \A x \in S : IsCall(x)
    BY <1>4, <2>1
  <2>3. QED  BY <2>2 DEF IsJob
<1>5. ASSUME NEW e, NEW f, NEW g, NEW h, IsCall(e), IsCall(f), IsCall(g), IsCall(h)
      PROVE  IsJob(<<e, f, g, h>>)
  <2>1. PICK S : S = {e, f, g, h}
    OBVIOUS
  <2>2. <<e, f, g, h>> \in Seq(S) /\ \A x \in S : IsCall(x)
    BY <1>5, <2>1
  <2>3. QED  BY <2>2 DEF IsJob
<1>6. QED  BY <1>1, <1>2, <1>3, <1>4, <1>5

-----------------------------------------------------------------------------
(* What is in the files.                                                   *)

\* The edits of a tier keep it a tier.
LEMMA TiersStay ==
    /\ IsTier(EmptyMap)
    /\ \A x, F : IsTier(x) => IsTier(Keep(x, F)) /\ IsTier(Drop(x, F))
    /\ \A x, y : IsTier(x) /\ IsTier(y) => IsTier(Override(x, y))
    /\ \A x, y, F : IsTier(x) /\ IsTier(y) => IsTier(Edited(x, F, y))
    /\ \A d \in Defaults : IsTier(d)
    /\ \A s \in Pipelines : IsTier(Put(EmptyMap, "stages", s))
<1>1. IsTier(EmptyMap)
  BY DEF IsTier, EmptyMap
<1>2. \A x, F : IsTier(x) => IsTier(Keep(x, F)) /\ IsTier(Drop(x, F))
  BY DEF IsTier, Keep, Drop
<1>3. \A x, y : IsTier(x) /\ IsTier(y) => IsTier(Override(x, y))
  BY DEF IsTier, Override
<1>4. \A x, y, F : IsTier(x) /\ IsTier(y) => IsTier(Edited(x, F, y))
  BY <1>2, <1>3 DEF Edited
<1>5. \A d \in Defaults : IsTier(d)
  BY PreparationAssumption DEF IsTier, ValuesOf
<1>6. \A s \in Pipelines : IsTier(Put(EmptyMap, "stages", s))
  BY DEF IsTier, Put, EmptyMap
<1>7. QED  BY <1>1, <1>2, <1>3, <1>4, <1>5, <1>6

\* The clusters that are declared in k.
Declared(k) == {c \in Clusters : ClusterSlot(c) \in DOMAIN k.tiers}

\* IsToml, its last conjunct by the clusters that are declared.
LEMMA TomlDef ==
    ASSUME NEW k
    PROVE  IsToml(k) <=> /\ k = [tiers |-> k.tiers, members |-> k.members]
                         /\ Global \in DOMAIN k.tiers
                         /\ \A s \in DOMAIN k.tiers : IsTier(k.tiers[s])
                         /\ \A t \in DOMAIN k.members : k.members[t] \in Seq(Declared(k)) \ {<<>>}
BY DEF IsToml, Declared

\* A section more, or a section that is replaced.
LEMMA TomlWithTier ==
    ASSUME NEW k, IsToml(k), NEW slot, NEW x, IsTier(x)
    PROVE  IsToml([k EXCEPT !.tiers = Put(@, slot, x)])
<1>1. PICK u : u = [k EXCEPT !.tiers = Put(@, slot, x)]
  OBVIOUS
<1>2. k = [tiers |-> k.tiers, members |-> k.members]
  BY TomlDef
<1>3. u = [tiers |-> Put(k.tiers, slot, x), members |-> k.members]
  BY <1>1, <1>2
<1>4. /\ DOMAIN u.tiers = DOMAIN k.tiers \cup {slot}
      /\ \A s \in DOMAIN u.tiers : u.tiers[s] = IF s = slot THEN x ELSE k.tiers[s]
  BY <1>3 DEF Put
<1>5. Declared(k) \subseteq Declared(u)
  BY <1>4 DEF Declared
<1>6. \A t \in DOMAIN u.members : u.members[t] \in Seq(Declared(u)) \ {<<>>}
  <2>1. ASSUME NEW t \in DOMAIN u.members PROVE u.members[t] \in Seq(Declared(u)) \ {<<>>}
    <3>1. u.members[t] \in Seq(Declared(k)) \ {<<>>}
      BY <1>3, TomlDef
    <3>2. QED  BY <3>1, <1>5
  <2>2. QED  BY <2>1
<1>7. Global \in DOMAIN u.tiers /\ \A s \in DOMAIN u.tiers : IsTier(u.tiers[s])
  BY <1>4, TomlDef
<1>8. IsToml(u)
  BY <1>3, <1>6, <1>7, TomlDef
<1>9. QED  BY <1>1, <1>8

\* Other clusters for the names.
LEMMA TomlWithMembers ==
    ASSUME NEW k, IsToml(k), NEW ms,
           \A t \in DOMAIN ms : ms[t] \in Seq(Declared(k)) \ {<<>>}
    PROVE  IsToml([k EXCEPT !.members = ms])
<1>1. PICK u : u = [k EXCEPT !.members = ms]
  OBVIOUS
<1>2. k = [tiers |-> k.tiers, members |-> k.members]
  BY TomlDef
<1>3. u = [tiers |-> k.tiers, members |-> ms]
  BY <1>1, <1>2
<1>4. Declared(u) = Declared(k)
  BY <1>3 DEF Declared
<1>5. IsToml(u)
  BY <1>3, <1>4, TomlDef
<1>6. QED  BY <1>1, <1>5

\* set_table_cluster keeps to the clusters that are declared.
LEMMA WithClusterType ==
    ASSUME NEW S, NEW ms, \A t \in DOMAIN ms : ms[t] \in Seq(S) \ {<<>>},
           NEW t, NEW k \in S \cup {NoCluster}
    PROVE  \A u \in DOMAIN WithCluster(ms, t, k) : WithCluster(ms, t, k)[u] \in Seq(S) \ {<<>>}
<1>1. PICK now : now = IF t \in DOMAIN ms THEN ms[t] ELSE <<>>
  OBVIOUS
<1>2. now \in Seq(S)
  BY <1>1
<1>3. PICK later : later = IF now = <<>> THEN <<>> ELSE Tail(now)
  OBVIOUS
<1>4. later \in Seq(S)
  BY <1>2, <1>3
<1>5. PICK first : first = IF k = NoCluster THEN <<>> ELSE <<k>>
  OBVIOUS
<1>6. first \in Seq(S)
  BY <1>5
<1>7. PICK new : new = first \o later
  OBVIOUS
<1>8. new \in Seq(S)
  BY <1>4, <1>6, <1>7
<1>9. WithCluster(ms, t, k) = IF new = <<>> THEN Drop(ms, {t}) ELSE Put(ms, t, new)
  BY <1>1, <1>3, <1>5, <1>7 DEF WithCluster
<1>10. CASE new = <<>>
  BY <1>9, <1>10 DEF Drop
<1>11. CASE new # <<>>
  BY <1>8, <1>9, <1>11 DEF Put
<1>12. QED  BY <1>10, <1>11

\* _rewrite_table_name_in_config keeps to them.
LEMMA RenamedMembersType ==
    ASSUME NEW S, NEW ms, \A t \in DOMAIN ms : ms[t] \in Seq(S) \ {<<>>}, NEW old, NEW new
    PROVE  \A u \in DOMAIN RenamedMembers(ms, old, new) :
               RenamedMembers(ms, old, new)[u] \in Seq(S) \ {<<>>}
<1>1. CASE old \notin DOMAIN ms
  BY <1>1 DEF RenamedMembers
<1>2. CASE old \in DOMAIN ms
  <2>1. PICK was : was = IF new \in DOMAIN ms THEN ms[new] ELSE <<>>
    OBVIOUS
  <2>2. was \in Seq(S) /\ ms[old] \in Seq(S) /\ ms[old] # <<>>
    BY <1>2, <2>1
  <2>3. PICK now : now = was \o ms[old]
    OBVIOUS
  <2>4. now \in Seq(S) /\ now # <<>>
    <3>1. now \in Seq(S) /\ Len(now) = Len(was) + Len(ms[old])
      BY <2>2, <2>3
    <3>2. Len(was) \in Nat /\ Len(ms[old]) \in Nat /\ Len(ms[old]) # 0
      BY <2>2
    <3>3. Len(now) # 0
      BY <3>1, <3>2
    <3>4. QED  BY <3>1, <3>3
  <2>5. RenamedMembers(ms, old, new) = Put(Drop(ms, {old}), new, now)
    BY <1>2, <2>1, <2>3 DEF RenamedMembers
  <2>6. QED  BY <2>4, <2>5 DEF Put, Drop
<1>3. QED  BY <1>1, <1>2

\* Every edit of table-tool.toml that is not refused gives one that is valid.
LEMMA TomlStays ==
    ASSUME IsToml(toml), NEW e, IsTomlEdit(e), ~Refused(e)
    PROVE  IsToml(EditedToml(e))
<1>1. toml = [tiers |-> toml.tiers, members |-> toml.members]
  BY TomlDef
<1>2. CASE e.how = "tier" /\ IsTier(e.new)
  <2>1. PICK now : now = IF e.slot \in DOMAIN toml.tiers THEN toml.tiers[e.slot] ELSE EmptyMap
    OBVIOUS
  <2>2. IsTier(now)
    BY <2>1, TiersStay, TomlDef
  <2>3. IsTier(Edited(now, e.fields, e.new))
    BY <1>2, <2>2, TiersStay
  <2>4. EditedToml(e) = [toml EXCEPT !.tiers = Put(@, e.slot, Edited(now, e.fields, e.new))]
    BY <1>2, <2>1 DEF EditedToml
  <2>5. QED  BY <2>3, <2>4, TomlWithTier
<1>3. CASE e.how = "cluster" /\ e.cluster \in Clusters \cup {NoCluster}
  <2>1. e.cluster \in Declared(toml) \cup {NoCluster}
    BY <1>3 DEF Refused, Declared
  <2>2. PICK ms : ms = WithCluster(toml.members, e.table, e.cluster)
    OBVIOUS
  <2>3. \A t \in DOMAIN toml.members : toml.members[t] \in Seq(Declared(toml)) \ {<<>>}
    BY TomlDef
  <2>4. \A t \in DOMAIN ms : ms[t] \in Seq(Declared(toml)) \ {<<>>}
    BY <2>1, <2>2, <2>3, WithClusterType
  <2>5. EditedToml(e) = [toml EXCEPT !.members = ms]
    BY <1>1, <1>3, <2>2 DEF EditedToml
  <2>6. QED  BY <2>4, <2>5, TomlWithMembers
<1>4. CASE e.how = "tags"
  BY <1>4 DEF EditedToml
<1>5. CASE e.how = "create" /\ IsTier(e.new)
  <2>1. EditedToml(e) = [toml EXCEPT !.tiers = Put(@, BatchSlot(e.table), e.new)]
    BY <1>5 DEF EditedToml
  <2>2. QED  BY <1>5, <2>1, TomlWithTier
<1>6. CASE e.how = "rename"
  <2>1. PICK ts : ts = MoveKey(toml.tiers, BatchSlot(e.old), BatchSlot(e.new))
    OBVIOUS
  <2>2. PICK ms : ms = RenamedMembers(toml.members, e.old, e.new)
    OBVIOUS
  <2>3. PICK u : u = [tiers |-> ts, members |-> ms]
    OBVIOUS
  <2>4. EditedToml(e) = u
    BY <1>6, <2>1, <2>2, <2>3 DEF EditedToml
  <2>5. /\ \A s \in DOMAIN ts : IsTier(ts[s])
        /\ \A s \in DOMAIN toml.tiers : s[1] # "batch" => s \in DOMAIN ts
    BY <2>1, TomlDef, SlotKinds DEF MoveKey, Put, Drop
  <2>6. Declared(toml) \subseteq Declared(u)
    BY <2>3, <2>5, SlotKinds DEF Declared
  <2>7. \A t \in DOMAIN toml.members : toml.members[t] \in Seq(Declared(toml)) \ {<<>>}
    BY TomlDef
  <2>8. \A t \in DOMAIN ms : ms[t] \in Seq(Declared(toml)) \ {<<>>}
    BY <2>2, <2>7, RenamedMembersType
  <2>9. \A t \in DOMAIN ms : ms[t] \in Seq(Declared(u)) \ {<<>>}
    BY <2>6, <2>8
  <2>10. Global \in DOMAIN ts
    BY <2>5, TomlDef, SlotKinds
  <2>11. u = [tiers |-> u.tiers, members |-> u.members] /\ u.tiers = ts /\ u.members = ms
    BY <2>3
  <2>12. IsToml(u)
    BY <2>5, <2>9, <2>10, <2>11, TomlDef
  <2>13. QED  BY <2>4, <2>12
<1>7. QED  BY <1>2, <1>3, <1>4, <1>5, <1>6 DEF IsTomlEdit

-----------------------------------------------------------------------------
(* Types.                                                                  *)

FilesTyped ==
    /\ IsToml(toml)
    /\ \A t \in DOMAIN sidecar : IsTier(sidecar[t])
    /\ \A f \in DOMAIN plugins : IsPluginFile(f, plugins[f])

ClientsTyped ==
    /\ DOMAIN job = Clients /\ DOMAIN hand = Clients /\ DOMAIN ask = Clients
    /\ alone \in [Clients -> BOOLEAN]
    /\ \A c \in Clients : IsJob(job[c])

Typed == FilesTyped /\ ClientsTyped

\* The project that is found, and idle clients.
LEMMA TypedInit == Init => Typed
<1>1. SUFFICES ASSUME Init PROVE Typed
  OBVIOUS
<1>2. FilesTyped
  BY <1>1, StartsAreProjects DEF Init, FilesTyped
<1>3. ClientsTyped
  BY <1>1, ShortJobs DEF Init, ClientsTyped
<1>4. QED  BY <1>2, <1>3 DEF Typed

\* A request whose calls are a job.
LEMMA RequestTyped ==
    ASSUME Typed, NEW c \in Clients, NEW a, NEW calls, IsJob(calls), Request(c, a, calls)
    PROVE  Typed'
<1>1. FilesTyped'
  BY DEF Request, Typed, FilesTyped, disk
<1>2. ClientsTyped'
  BY DEF Request, Typed, ClientsTyped
<1>3. QED  BY <1>1, <1>2 DEF Typed

\* Calls that carry no content.
LEMMA PlainCalls ==
    \A e : e.do \notin {"write", "fill", "edit", "config_set", "put", "unlink"} => IsCall(e)
BY DEF IsCall

\* A new section of a file.
LEMMA NewTierCall ==
    ASSUME NEW file, file = TomlFile \/ \E t : file = SidecarFile(t),
           NEW slot, NEW fields, NEW new, IsTier(new)
    PROVE  IsCall(NewTier(file, slot, fields, new))
<1>1. PICK e : e = NewTier(file, slot, fields, new)
  OBVIOUS
<1>2. e.do = "edit" /\ e.file = file /\ e.how = "tier" /\ e.new = new
  BY <1>1 DEF NewTier
<1>3. IsCall(e)
  BY <1>2 DEF IsCall, IsTomlEdit
<1>4. QED  BY <1>1, <1>3

\* The calls of a clone are a job, and which.
LEMMA CloneJob ==
    ASSUME Typed, NEW old \in TableNames, NEW new
    PROVE  IsJob(CloneCalls(old, new))
<1>1. PICK e, f : /\ e = [do |-> "copy", old |-> old, new |-> new]
                  /\ f = [do |-> "copy_sidecar", old |-> old, new |-> new]
  OBVIOUS
<1>2. IsCall(e) /\ IsCall(f)
  BY <1>1, PlainCalls
<1>3. CASE old \notin sources
  <2>1. PICK g : g = [do |-> "edit", file |-> TomlFile, how |-> "create", table |-> new,
                      new |-> toml.tiers[BatchSlot(old)]]
    OBVIOUS
  <2>2. IsBatch(toml, old) /\ IsToml(toml)
    BY <1>3 DEF TableNames, Typed, FilesTyped
  <2>3. IsTier(toml.tiers[BatchSlot(old)])
    BY <2>2, TomlDef DEF IsBatch
  <2>4. IsCall(g)
    BY <2>1, <2>3 DEF IsCall, IsTomlEdit
  <2>5. QED  BY <1>3, <2>1, <2>4, ShortJobs DEF CloneCalls
<1>4. CASE old \in sources /\ (old \notin DOMAIN toml.members \/ ~MetasResolve(toml))
  <2>1. CloneCalls(old, new) = <<e, f>> \o <<>>
    BY <1>1, <1>4 DEF CloneCalls
  <2>2. <<e, f>> \o <<>> = <<e, f>>
    OBVIOUS
  <2>3. QED  BY <1>2, <2>1, <2>2, ShortJobs
<1>5. CASE old \in sources /\ ~(old \notin DOMAIN toml.members \/ ~MetasResolve(toml))
  <2>1. PICK g, h : /\ g = [do |-> "edit", file |-> TomlFile, how |-> "tags"]
                    /\ h = [do |-> "edit", file |-> TomlFile, how |-> "cluster", table |-> new,
                            cluster |-> Head(toml.members[old])]
    OBVIOUS
  <2>2. toml.members[old] \in Seq(Clusters) \ {<<>>}
    <3>1. toml.members[old] \in Seq(Declared(toml)) \ {<<>>}
      BY <1>5, TomlDef DEF Typed, FilesTyped
    <3>2. Declared(toml) \subseteq Clusters
      BY DEF Declared
    <3>3. QED  BY <3>1, <3>2
  <2>3. Head(toml.members[old]) \in Clusters
    BY <2>2
  <2>4. IsCall(g) /\ IsCall(h)
    BY <2>1, <2>3 DEF IsCall, IsTomlEdit
  <2>5. CloneCalls(old, new) = <<e, f>> \o <<g, h>>
    BY <1>1, <1>5, <2>1 DEF CloneCalls
  <2>6. <<e, f>> \o <<g, h>> = <<e, f, g, h>>
    BY TwoAndTwo
  <2>7. IsJob(<<e, f, g, h>>)
    BY <1>2, <2>4, ShortJobs
  <2>8. QED  BY <2>5, <2>6, <2>7
<1>6. QED  BY <1>3, <1>4, <1>5

\* The calls of every request are a job.
LEMMA AskTyped ==
    ASSUME Typed, NEW c \in Clients, Ask(c)
    PROVE  Typed'
<1>1. CASE AskPlan(c)
  <2>1. PICK a, e, f : /\ Request(c, a, <<e, f>>)
                       /\ e = [do |-> "list", strict |-> TRUE]
                       /\ \E t : f = [do |-> "configure", table |-> t]
    BY <1>1 DEF AskPlan
  <2>2. IsCall(e) /\ IsCall(f)
    BY <2>1, PlainCalls
  <2>3. QED  BY <2>1, <2>2, ShortJobs, RequestTyped
<1>2. CASE AskPlugins(c)
  <2>1. PICK a, e : Request(c, a, <<e>>) /\ e = [do |-> "list", strict |-> FALSE]
    BY <1>2 DEF AskPlugins
  <2>2. IsCall(e)
    BY <2>1, PlainCalls
  <2>3. QED  BY <2>1, <2>2, ShortJobs, RequestTyped
<1>3. CASE SaveDefaults(c)
  <2>1. PICK d \in Defaults : \E slot : Request(c, EditOf(TomlFile), <<NewTier(TomlFile, slot, DefaultFields, d)>>)
    BY <1>3 DEF SaveDefaults
  <2>2. PICK slot : Request(c, EditOf(TomlFile), <<NewTier(TomlFile, slot, DefaultFields, d)>>)
    BY <2>1
  <2>3. IsTier(d)
    BY TiersStay
  <2>4. QED  BY <2>2, <2>3, NewTierCall, ShortJobs, RequestTyped
<1>4. CASE SaveSidecar(c)
  <2>1. PICK d \in Defaults : \E t : Request(c, EditOf(SidecarFile(t)), <<NewTier(SidecarFile(t), Global, DefaultFields, d)>>)
    BY <1>4 DEF SaveSidecar
  <2>2. PICK t : Request(c, EditOf(SidecarFile(t)), <<NewTier(SidecarFile(t), Global, DefaultFields, d)>>)
    BY <2>1
  <2>3. IsTier(d)
    BY TiersStay
  <2>4. QED  BY <2>2, <2>3, NewTierCall, ShortJobs, RequestTyped
<1>5. CASE DropSidecar(c)
  <2>1. PICK t : Request(c, Piping("unpipe", t, <<>>, {SidecarFile(t)}),
                       <<[do |-> "unlink", file |-> SidecarFile(t)]>>)
    BY <1>5 DEF DropSidecar
  <2>2. PICK e : e = [do |-> "unlink", file |-> SidecarFile(t)]
    OBVIOUS
  <2>3. IsCall(e)
    BY <2>2 DEF IsCall
  <2>4. QED  BY <2>1, <2>2, <2>3, ShortJobs, RequestTyped
<1>6. CASE ConfigSet(c)
  <2>1. PICK d \in Defaults, f \in DefaultFields, file \in {TomlFile} \cup {SidecarFile(t) : t \in sources} :
          Request(c, EditOf(file),
                  <<[do |-> "config_set", file |-> file, field |-> f, new |-> Keep(d, {f})]>>)
    BY <1>6 DEF ConfigSet
  <2>2. PICK e : e = [do |-> "config_set", file |-> file, field |-> f, new |-> Keep(d, {f})]
    OBVIOUS
  <2>3. IsTier(Keep(d, {f}))
    BY TiersStay
  <2>4. IsCall(e)
    BY <2>2, <2>3, <2>1 DEF IsCall
  <2>5. QED  BY <2>1, <2>2, <2>4, ShortJobs, RequestTyped
<1>7. CASE SaveBatch(c)
  <2>1. PICK t : \/ \E d \in Defaults, f \in DefaultFields :
                        Request(c, EditOf(TomlFile), <<NewTier(TomlFile, BatchSlot(t), {f}, Keep(d, {f}))>>)
                 \/ \E s \in Pipelines :
                        Request(c, Piping("unpipe", t, <<>>, {SidecarFile(t), TomlFile}),
                                <<NewTier(TomlFile, BatchSlot(t), {"stages"}, Put(EmptyMap, "stages", s))>>)
    BY <1>7 DEF SaveBatch
  <2>2. CASE \E d \in Defaults, f \in DefaultFields :
               Request(c, EditOf(TomlFile), <<NewTier(TomlFile, BatchSlot(t), {f}, Keep(d, {f}))>>)
    <3>1. PICK d \in Defaults, f \in DefaultFields :
            Request(c, EditOf(TomlFile), <<NewTier(TomlFile, BatchSlot(t), {f}, Keep(d, {f}))>>)
      BY <2>2
    <3>2. IsTier(Keep(d, {f}))
      BY TiersStay
    <3>3. QED  BY <3>1, <3>2, NewTierCall, ShortJobs, RequestTyped
  <2>3. CASE \E s \in Pipelines :
               Request(c, Piping("unpipe", t, <<>>, {SidecarFile(t), TomlFile}),
                       <<NewTier(TomlFile, BatchSlot(t), {"stages"}, Put(EmptyMap, "stages", s))>>)
    <3>1. PICK s \in Pipelines :
            Request(c, Piping("unpipe", t, <<>>, {SidecarFile(t), TomlFile}),
                    <<NewTier(TomlFile, BatchSlot(t), {"stages"}, Put(EmptyMap, "stages", s))>>)
      BY <2>3
    <3>2. IsTier(Put(EmptyMap, "stages", s))
      BY TiersStay
    <3>3. QED  BY <3>1, <3>2, NewTierCall, ShortJobs, RequestTyped
  <2>4. QED  BY <2>1, <2>2, <2>3
<1>8. CASE SavePipeline(c)
  <2>1. PICK t, a, x, y, z, w :
          /\ x = [do |-> "discover", table |-> t] /\ y = [do |-> "list", strict |-> TRUE]
          /\ \/ /\ \E s \in Pipelines : /\ z = [do |-> "check", stages |-> s]
                                        /\ w = [do |-> "put", table |-> t, new |-> Put(EmptyMap, "stages", s)]
                /\ Request(c, a, <<x, y, z, w>>)
             \/ /\ w = [do |-> "put", table |-> t, new |-> EmptyMap]
                /\ Request(c, a, <<x, w>>)
    BY <1>8 DEF SavePipeline
  <2>2. IsCall(x) /\ IsCall(y)
    BY <2>1, PlainCalls
  <2>3. IsCall(w)
    <3>1. w.do = "put" /\ IsTier(w.new)
      BY <2>1, TiersStay
    <3>2. QED  BY <3>1 DEF IsCall
  <2>4. CASE Request(c, a, <<x, w>>)
    BY <2>2, <2>3, <2>4, ShortJobs, RequestTyped
  <2>5. CASE Request(c, a, <<x, y, z, w>>) /\ \E s \in Pipelines : z = [do |-> "check", stages |-> s]
    <3>1. IsCall(z)
      BY <2>5, PlainCalls
    <3>2. IsJob(<<x, y, z, w>>)
      BY <2>2, <2>3, <3>1, ShortJobs
    <3>3. QED  BY <2>5, <3>2, RequestTyped
  <2>6. QED  BY <2>1, <2>4, <2>5
<1>9. CASE AssignCluster(c)
  <2>1. PICK t \in TableNames, k \in Clusters \cup {NoCluster} :
          Request(c, EditOf(TomlFile),
                  <<[do |-> "edit", file |-> TomlFile, how |-> "cluster", table |-> t, cluster |-> k]>>)
    BY <1>9 DEF AssignCluster
  <2>2. PICK e : e = [do |-> "edit", file |-> TomlFile, how |-> "cluster", table |-> t, cluster |-> k]
    OBVIOUS
  <2>3. IsCall(e)
    BY <2>2 DEF IsCall, IsTomlEdit
  <2>4. QED  BY <2>1, <2>2, <2>3, ShortJobs, RequestTyped
<1>10. CASE SavePlugin(c)
  <2>1. PICK i \in DOMAIN PluginFiles : \E a, e :
          /\ Request(c, a, <<e>>)
          /\ \/ \E k \in Contents : e = [do |-> "write", file |-> PluginFile(PluginFiles[i]), new |-> k]
             \/ e = [do |-> "unlink", file |-> PluginFile(PluginFiles[i])]
    BY <1>10 DEF SavePlugin
  <2>2. PICK a, e :
          /\ Request(c, a, <<e>>)
          /\ \/ \E k \in Contents : e = [do |-> "write", file |-> PluginFile(PluginFiles[i]), new |-> k]
             \/ e = [do |-> "unlink", file |-> PluginFile(PluginFiles[i])]
    BY <2>1
  <2>3. CASE \E k \in Contents : e = [do |-> "write", file |-> PluginFile(PluginFiles[i]), new |-> k]
    <3>1. IsPluginFile(PluginFiles[i], e.new)
      BY <2>3 DEF IsPluginFile
    <3>2. IsContentOf(e.file, e.new)
      BY <2>3, <3>1 DEF IsContentOf
    <3>3. IsCall(e)
      BY <2>3, <3>2 DEF IsCall
    <3>4. QED  BY <2>2, <3>3, ShortJobs, RequestTyped
  <2>4. CASE e = [do |-> "unlink", file |-> PluginFile(PluginFiles[i])]
    <3>1. IsCall(e)
      BY <2>4 DEF IsCall
    <3>2. QED  BY <2>2, <3>1, ShortJobs, RequestTyped
  <2>5. QED  BY <2>2, <2>3, <2>4
<1>11. CASE NewName(c)
  <2>1. PICK old, new, a :
          \/ Request(c, a, RenameCalls(old, new))
          \/ Request(c, a, CloneCalls(old, new)) /\ old \in TableNames
    BY <1>11 DEF NewName
  <2>2. IsJob(RenameCalls(old, new))
    <3>1. IsCall(RenameEdit(old, new))
      BY DEF RenameEdit, IsCall, IsTomlEdit
    <3>2. PICK e, f : /\ e = [do |-> "move", old |-> old, new |-> new]
                      /\ f = [do |-> "move_sidecar", old |-> old, new |-> new]
      OBVIOUS
    <3>3. IsCall(e) /\ IsCall(f)
      BY <3>2, PlainCalls
    <3>4. QED  BY <3>1, <3>2, <3>3, ShortJobs DEF RenameCalls
  <2>3. ASSUME old \in TableNames PROVE IsJob(CloneCalls(old, new))
    BY <2>3, CloneJob
  <2>4. QED  BY <2>1, <2>2, <2>3, RequestTyped
<1>12. QED  BY <1>1, <1>2, <1>3, <1>4, <1>5, <1>6, <1>7, <1>8, <1>9, <1>10, <1>11 DEF Ask

\* The call that a client is at, and what it has left after it.
LEMMA AtCall ==
    ASSUME Typed, NEW c \in Clients, NEW what, IsAt(c, what)
    PROVE  /\ IsCall(Call(c)) /\ Call(c).do = what
           /\ IsJob(Tail(job[c])) /\ job[c] # <<>>
BY JobParts DEF Typed, ClientsTyped, IsAt, Idle, Call

\* A client that goes on with a job, the files being as they should be.
LEMMA GoTyped ==
    ASSUME Typed, NEW c \in Clients, NEW calls, IsJob(calls), Go(c, calls), FilesTyped',
           DOMAIN hand' = Clients, alone' \in [Clients -> BOOLEAN]
    PROVE  Typed'
BY DEF Go, Typed, ClientsTyped

\* A request that fails.
LEMMA RaiseTyped ==
    ASSUME Typed, NEW c \in Clients, Raise(c)
    PROVE  Typed'
<1>1. FilesTyped'
  BY DEF Raise, Typed, FilesTyped, disk
<1>2. ClientsTyped'
  BY ShortJobs DEF Raise, Typed, ClientsTyped
<1>3. QED  BY <1>1, <1>2 DEF Typed

\* A step that reads.
LEMMA ReadsTyped ==
    ASSUME Typed, NEW c \in Clients, NEW h, NEW calls, IsJob(calls), Reads(c, h), Go(c, calls)
    PROVE  Typed'
<1>1. FilesTyped'
  BY DEF Reads, Typed, FilesTyped, disk
<1>2. DOMAIN hand' = Clients /\ alone' \in [Clients -> BOOLEAN]
  BY DEF Reads, Typed, ClientsTyped
<1>3. QED  BY <1>1, <1>2, GoTyped

\* A step that writes.
LEMMA TouchesTyped ==
    ASSUME Typed, NEW c \in Clients, NEW calls, IsJob(calls), FilesTyped', Touches(c), Go(c, calls)
    PROVE  Typed'
<1>1. DOMAIN hand' = Clients /\ alone' \in [Clients -> BOOLEAN]
  BY DEF Touches, Typed, ClientsTyped
<1>2. QED  BY <1>1, GoTyped

\* A file that is given a content that it may have.
LEMMA BecomesTyped ==
    ASSUME FilesTyped, NEW file, NEW x, IsContentOf(file, x), Becomes(file, x)
    PROVE  FilesTyped'
<1>1. CASE file = TomlFile /\ IsToml(x)
  <2>1. toml' = x /\ sidecar' = sidecar /\ plugins' = plugins
    BY <1>1, FileKinds DEF Becomes
  <2>2. QED  BY <1>1, <2>1 DEF FilesTyped
<1>2. CASE \E t : file = SidecarFile(t) /\ IsTier(x)
  <2>1. PICK t : file = SidecarFile(t) /\ IsTier(x)
    BY <1>2
  <2>2. toml' = toml /\ sidecar' = Put(sidecar, t, x) /\ plugins' = plugins
    BY <2>1, FileKinds DEF Becomes
  <2>3. QED  BY <2>1, <2>2 DEF FilesTyped, Put
<1>3. CASE \E f : file = PluginFile(f) /\ IsPluginFile(f, x)
  <2>1. PICK f : file = PluginFile(f) /\ IsPluginFile(f, x)
    BY <1>3
  <2>2. toml' = toml /\ sidecar' = sidecar /\ plugins' = Put(plugins, f, x)
    BY <2>1, FileKinds DEF Becomes
  <2>3. QED  BY <2>1, <2>2 DEF FilesTyped, Put
<1>4. QED  BY <1>1, <1>2, <1>3 DEF IsContentOf

\* So is the truncated file.
LEMMA EmptyFiles ==
    ASSUME NEW file, NEW x, IsContentOf(file, x)
    PROVE  IsContentOf(file, IF file = TomlFile THEN EmptyToml
                             ELSE IF file[1] = "sidecar" THEN EmptyMap ELSE EmptyPlugins)
<1>1. CASE file = TomlFile
  <2>1. IsToml(EmptyToml)
    BY TiersStay DEF IsToml, EmptyToml, EmptyMap
  <2>2. QED  BY <1>1, <2>1 DEF IsContentOf
<1>2. CASE \E t : file = SidecarFile(t)
  BY <1>2, FileKinds, TiersStay DEF IsContentOf
<1>3. CASE \E f : file = PluginFile(f) /\ IsPluginFile(f, x)
  <2>1. PICK f : file = PluginFile(f) /\ IsPluginFile(f, x)
    BY <1>3
  <2>2. IsPluginFile(f, EmptyPlugins)
    BY <2>1 DEF IsPluginFile
  <2>3. QED  BY <2>1, <2>2, FileKinds DEF IsContentOf
<1>4. QED  BY <1>1, <1>2, <1>3 DEF IsContentOf

\* A sidecar that is not there is an empty tier.
LEMMA SidecarTierType ==
    ASSUME FilesTyped, NEW t
    PROVE  IsTier(SidecarTier(t))
BY TiersStay DEF FilesTyped, SidecarTier

\* Every call of a job leaves the files, and the rest of the job, as they should be.
LEMMA StepTyped ==
    ASSUME Typed, NEW c \in Clients, Step(c)
    PROVE  Typed'
<1>1. CASE ListPlugins(c)
  <2>1. PICK e : e = [do |-> "load", files |-> DOMAIN plugins, strict |-> Call(c).strict]
    OBVIOUS
  <2>2. IsCall(e) /\ IsJob(Tail(job[c]))
    BY <1>1, <2>1, PlainCalls, AtCall DEF ListPlugins
  <2>3. IsJob(Loading(DOMAIN plugins, Call(c).strict) \o Tail(job[c]))
    BY <2>1, <2>2, JobBefore, NothingBefore DEF Loading
  <2>4. QED  BY <1>1, <2>3, RaiseTyped, ReadsTyped DEF ListPlugins
<1>2. CASE LoadPluginFile(c)
  <2>1. PICK rest : rest = Call(c).files \ {First(Call(c).files)}
    OBVIOUS
  <2>2. PICK e : e = [do |-> "load", files |-> rest, strict |-> Call(c).strict]
    OBVIOUS
  <2>3. IsCall(e) /\ IsJob(Tail(job[c]))
    BY <1>2, <2>2, PlainCalls, AtCall DEF LoadPluginFile
  <2>4. IsJob(Loading(rest, Call(c).strict) \o Tail(job[c]))
    BY <2>2, <2>3, JobBefore, NothingBefore DEF Loading
  <2>5. QED  BY <1>2, <2>1, <2>4, RaiseTyped, ReadsTyped DEF LoadPluginFile
<1>3. CASE Configure(c)
  <2>1. PICK e : e = [do |-> "sidecar", table |-> Call(c).table]
    OBVIOUS
  <2>2. IsCall(e) /\ IsJob(Tail(job[c]))
    BY <1>3, <2>1, PlainCalls, AtCall DEF Configure
  <2>3. IsJob(<<e>>)
    BY <2>2, ShortJobs
  <2>4. QED  BY <1>3, <2>1, <2>2, <2>3, RaiseTyped, ReadsTyped DEF Configure, Return
<1>4. CASE ReadSidecar(c)
  <2>1. IsJob(Tail(job[c]))
    BY <1>4, AtCall DEF ReadSidecar
  <2>2. QED  BY <1>4, <2>1, ReadsTyped DEF ReadSidecar, Return
<1>5. CASE Discover(c)
  <2>1. IsJob(Tail(job[c]))
    BY <1>5, AtCall DEF Discover
  <2>2. QED  BY <1>5, <2>1, RaiseTyped, ReadsTyped DEF Discover, Return
<1>6. CASE CheckPipeline(c)
  <2>1. IsJob(Tail(job[c]))
    BY <1>6, AtCall DEF CheckPipeline
  <2>2. QED  BY <1>6, <2>1, RaiseTyped, ReadsTyped DEF CheckPipeline, Return
<1>7. CASE PutPipeline(c)
  <2>1. PICK e : e = Call(c)
    OBVIOUS
  <2>2. IsTier(e.new)
    BY <1>7, <2>1, AtCall DEF PutPipeline, IsCall
  <2>3. PICK file, slot :
          /\ file = TomlFile \/ \E t : file = SidecarFile(t)
          /\ Go(c, <<NewTier(file, slot, {"stages"}, e.new)>>)
    BY <1>7, <2>1 DEF PutPipeline
  <2>4. IsJob(<<NewTier(file, slot, {"stages"}, e.new)>>)
    BY <2>2, <2>3, NewTierCall, ShortJobs
  <2>5. QED  BY <1>7, <2>3, <2>4, ReadsTyped DEF PutPipeline
<1>8. CASE ReadDefaults(c)
  <2>1. PICK e : e = Call(c)
    OBVIOUS
  <2>2. (e.file = TomlFile \/ \E t : e.file = SidecarFile(t)) /\ IsTier(e.new)
    BY <1>8, <2>1, AtCall DEF ReadDefaults, IsCall
  <2>3. PICK now : now = IF e.file = TomlFile THEN toml.tiers[Global] ELSE SidecarTier(e.file[2])
    OBVIOUS
  <2>4. IsTier(now)
    BY <2>3, SidecarTierType, TomlDef DEF Typed, FilesTyped
  <2>5. PICK new : new = Override(Keep(now, DefaultFields \ {e.field}), e.new)
    OBVIOUS
  <2>6. IsTier(new)
    BY <2>2, <2>4, <2>5, TiersStay
  <2>7. Go(c, <<NewTier(e.file, Global, DefaultFields, new)>>) /\ Reads(c, hand[c])
    BY <1>8, <2>1, <2>3, <2>5 DEF ReadDefaults
  <2>8. IsJob(<<NewTier(e.file, Global, DefaultFields, new)>>)
    BY <2>2, <2>6, NewTierCall, ShortJobs
  <2>9. QED  BY <2>7, <2>8, ReadsTyped
<1>9. CASE ReadToEdit(c)
  <2>1. PICK e : e = Call(c)
    OBVIOUS
  <2>2. IsCall(e) /\ e.do = "edit" /\ IsJob(Tail(job[c]))
    BY <1>9, <2>1, AtCall DEF ReadToEdit
  <2>3. CASE e.file = TomlFile
    <3>1. IsTomlEdit(e)
      BY <2>2, <2>3, FileKinds DEF IsCall
    <3>2. ASSUME ~Refused(e) PROVE Typed'
      <4>1. PICK w : w = [do |-> "write", file |-> e.file, new |-> EditedToml(e)]
        OBVIOUS
      <4>2. IsToml(EditedToml(e))
        BY <3>1, <3>2, TomlStays DEF Typed, FilesTyped
      <4>3. IsCall(w)
        BY <2>3, <4>1, <4>2 DEF IsCall, IsContentOf
      <4>4. Reads(c, hand[c]) /\ Go(c, <<w>> \o Tail(job[c]))
        BY <1>9, <2>1, <2>3, <3>2, <4>1 DEF ReadToEdit
      <4>5. QED  BY <2>2, <4>3, <4>4, JobBefore, ReadsTyped
    <3>3. ASSUME Refused(e) PROVE Raise(c)
      BY <1>9, <2>1, <2>3, <3>3 DEF ReadToEdit
    <3>4. QED  BY <3>2, <3>3, RaiseTyped
  <2>4. CASE e.file # TomlFile
    <3>1. PICK new : new = Edited(SidecarTier(e.file[2]), e.fields, e.new)
      OBVIOUS
    <3>2. PICK t : e.file = SidecarFile(t) /\ IsTier(e.new)
      BY <2>2, <2>4 DEF IsCall
    <3>3. IsTier(new)
      BY <3>1, <3>2, SidecarTierType, TiersStay DEF Typed
    <3>4. PICK w : w = IF new = EmptyMap THEN [do |-> "unlink", file |-> e.file]
                       ELSE [do |-> "write", file |-> e.file, new |-> new]
      OBVIOUS
    <3>5. IsCall(w)
      BY <3>2, <3>3, <3>4 DEF IsCall, IsContentOf
    <3>6. Reads(c, hand[c]) /\ Go(c, <<w>> \o Tail(job[c]))
      BY <1>9, <2>1, <2>4, <3>1, <3>4 DEF ReadToEdit
    <3>7. QED  BY <2>2, <3>5, <3>6, JobBefore, ReadsTyped
  <2>5. QED  BY <2>3, <2>4
<1>10. CASE Truncate(c)
  <2>1. PICK e : e = Call(c)
    OBVIOUS
  <2>2. /\ IsCall(e) /\ IsJob(Tail(job[c])) /\ IsContentOf(e.file, e.new)
        /\ e = [do |-> "write", file |-> e.file, new |-> e.new]
    BY <1>10, <2>1, AtCall DEF Truncate, IsCall
  <2>3. PICK x : x = IF e.file = TomlFile THEN EmptyToml
                     ELSE IF e.file[1] = "sidecar" THEN EmptyMap ELSE EmptyPlugins
    OBVIOUS
  <2>4. IsContentOf(e.file, x)
    BY <2>2, <2>3, EmptyFiles
  <2>5. Becomes(e.file, x)
    BY <1>10, <2>1, <2>3 DEF Truncate
  <2>6. FilesTyped'
    BY <2>4, <2>5, BecomesTyped DEF Typed
  <2>7. PICK f : f = [e EXCEPT !.do = "fill"]
    OBVIOUS
  <2>8. f = [do |-> "fill", file |-> e.file, new |-> e.new]
    BY <2>2, <2>7
  <2>9. IsCall(f)
    BY <2>2, <2>8 DEF IsCall
  <2>10. Go(c, <<f>> \o Tail(job[c])) /\ Touches(c)
    BY <1>10, <2>1, <2>7 DEF Truncate
  <2>11. QED  BY <2>2, <2>6, <2>9, <2>10, JobBefore, TouchesTyped
<1>11. CASE Fill(c)
  <2>1. PICK e : e = Call(c)
    OBVIOUS
  <2>2. IsJob(Tail(job[c])) /\ IsContentOf(e.file, e.new)
    BY <1>11, <2>1, AtCall DEF Fill, IsCall
  <2>3. Becomes(e.file, e.new)
    BY <1>11, <2>1 DEF Fill
  <2>4. FilesTyped'
    BY <2>2, <2>3, BecomesTyped DEF Typed
  <2>5. QED  BY <1>11, <2>2, <2>4, TouchesTyped DEF Fill, Return
<1>12. CASE Unlink(c)
  <2>1. IsJob(Tail(job[c]))
    BY <1>12, AtCall DEF Unlink
  <2>2. FilesTyped'
    BY <1>12 DEF Unlink, Typed, FilesTyped, Drop
  <2>3. QED  BY <1>12, <2>1, <2>2, TouchesTyped DEF Unlink, Return
<1>13. CASE NameSource(c)
  <2>1. IsJob(Tail(job[c]))
    BY <1>13, AtCall DEF NameSource
  <2>2. CASE Raise(c)
    BY <2>2, RaiseTyped
  <2>3. CASE UNCHANGED <<toml, sidecar, plugins>> /\ Return(c) /\ Touches(c)
    <3>1. FilesTyped'
      BY <2>3 DEF Typed, FilesTyped
    <3>2. QED  BY <2>1, <2>3, <3>1, TouchesTyped DEF Return
  <2>4. QED  BY <1>13, <2>2, <2>3 DEF NameSource
<1>14. CASE MoveSidecar(c)
  <2>1. IsJob(Tail(job[c]))
    BY <1>14, AtCall DEF MoveSidecar
  <2>2. FilesTyped'
    BY <1>14 DEF MoveSidecar, Typed, FilesTyped, MoveKey, Put, Drop
  <2>3. QED  BY <1>14, <2>1, <2>2, TouchesTyped DEF MoveSidecar, Return
<1>15. CASE CopySidecar(c)
  <2>1. PICK e : e = Call(c)
    OBVIOUS
  <2>2. IsJob(Tail(job[c]))
    BY <1>15, AtCall DEF CopySidecar
  <2>3. PICK calls : calls = (IF e.old \in DOMAIN sidecar
                              THEN <<[do |-> "write", file |-> SidecarFile(e.new), new |-> sidecar[e.old]]>>
                              ELSE <<>>) \o Tail(job[c])
    OBVIOUS
  <2>4. CASE e.old \in DOMAIN sidecar
    <3>1. PICK w : w = [do |-> "write", file |-> SidecarFile(e.new), new |-> sidecar[e.old]]
      OBVIOUS
    <3>2. IsCall(w)
      BY <2>4, <3>1 DEF IsCall, IsContentOf, Typed, FilesTyped
    <3>3. calls = <<w>> \o Tail(job[c])
      BY <2>3, <2>4, <3>1
    <3>4. IsJob(calls)
      BY <2>2, <3>2, <3>3, JobBefore
    <3>5. QED  BY <1>15, <2>1, <2>3, <3>4, ReadsTyped DEF CopySidecar
  <2>5. CASE e.old \notin DOMAIN sidecar
    <3>1. IsJob(calls)
      BY <2>2, <2>3, <2>5, NothingBefore
    <3>2. QED  BY <1>15, <2>1, <2>3, <3>1, ReadsTyped DEF CopySidecar
  <2>6. QED  BY <2>4, <2>5
<1>16. QED  BY <1>1, <1>2, <1>3, <1>4, <1>5, <1>6, <1>7, <1>8, <1>9, <1>10, <1>11, <1>12,
               <1>13, <1>14, <1>15 DEF Step

\* Every step keeps the types.
LEMMA TypedStep == Typed /\ [Next]_vars => Typed'
<1>1. ASSUME Typed, Next PROVE Typed'
  BY <1>1, AskTyped, StepTyped DEF Next
<1>2. ASSUME Typed, UNCHANGED vars PROVE Typed'
  BY <1>2 DEF Typed, FilesTyped, ClientsTyped, vars
<1>3. QED  BY <1>1, <1>2

-----------------------------------------------------------------------------
(* What a client does.                                                     *)

\* Every step but a request is a failure, a reading or a change of a file.
LEMMA StepKinds ==
    ASSUME NEW c, Step(c)
    PROVE  \/ Raise(c)
           \/ \E calls : Go(c, calls) /\ \E h : Reads(c, h)
           \/ \E calls : Go(c, calls) /\ Touches(c)
<1>1. CASE ListPlugins(c) \/ LoadPluginFile(c)
  BY <1>1 DEF ListPlugins, LoadPluginFile
<1>2. CASE Configure(c) \/ ReadSidecar(c) \/ Discover(c) \/ CheckPipeline(c)
  BY <1>2 DEF Configure, ReadSidecar, Discover, CheckPipeline, Return
<1>3. CASE PutPipeline(c)
  BY <1>3 DEF PutPipeline
<1>4. CASE ReadDefaults(c)
  BY <1>4 DEF ReadDefaults
<1>5. CASE ReadToEdit(c)
  <2>1. PICK e : e = Call(c)
    OBVIOUS
  <2>2. CASE e.file = TomlFile
    BY <1>5, <2>1, <2>2 DEF ReadToEdit
  <2>3. CASE e.file # TomlFile
    BY <1>5, <2>1, <2>3 DEF ReadToEdit
  <2>4. QED  BY <2>2, <2>3
<1>6. CASE Truncate(c) \/ Fill(c) \/ Unlink(c)
  BY <1>6 DEF Truncate, Fill, Unlink, Return
<1>7. CASE NameSource(c) \/ MoveSidecar(c) \/ CopySidecar(c)
  BY <1>7 DEF NameSource, MoveSidecar, CopySidecar, Return
<1>8. QED  BY <1>1, <1>2, <1>3, <1>4, <1>5, <1>6, <1>7 DEF Step

\* Which step it is, is said by the call.
LEMMA StepByCall ==
    ASSUME NEW c, Step(c)
    PROVE  /\ ~Idle(c)
           /\ Call(c).do = "list" => ListPlugins(c)
           /\ Call(c).do = "load" => LoadPluginFile(c)
           /\ Call(c).do = "configure" => Configure(c)
           /\ Call(c).do = "sidecar" => ReadSidecar(c)
           /\ Call(c).do = "discover" => Discover(c)
           /\ Call(c).do = "check" => CheckPipeline(c)
           /\ Call(c).do = "put" => PutPipeline(c)
           /\ Call(c).do = "config_set" => ReadDefaults(c)
           /\ Call(c).do = "edit" => ReadToEdit(c)
           /\ Call(c).do = "write" => Truncate(c)
           /\ Call(c).do = "fill" => Fill(c)
           /\ Call(c).do = "unlink" => Unlink(c)
           /\ Call(c).do \in {"move", "copy"} => NameSource(c)
           /\ Call(c).do = "move_sidecar" => MoveSidecar(c)
           /\ Call(c).do = "copy_sidecar" => CopySidecar(c)
<1>1. /\ ListPlugins(c) => IsAt(c, "list")
      /\ LoadPluginFile(c) => IsAt(c, "load")
      /\ Configure(c) => IsAt(c, "configure")
      /\ ReadSidecar(c) => IsAt(c, "sidecar")
      /\ Discover(c) => IsAt(c, "discover")
      /\ CheckPipeline(c) => IsAt(c, "check")
      /\ PutPipeline(c) => IsAt(c, "put")
      /\ ReadDefaults(c) => IsAt(c, "config_set")
  BY DEF ListPlugins, LoadPluginFile, Configure, ReadSidecar, Discover, CheckPipeline, PutPipeline, ReadDefaults
<1>2. /\ ReadToEdit(c) => IsAt(c, "edit")
      /\ Truncate(c) => IsAt(c, "write")
      /\ Fill(c) => IsAt(c, "fill")
      /\ Unlink(c) => IsAt(c, "unlink")
      /\ NameSource(c) => IsAt(c, "move") \/ IsAt(c, "copy")
      /\ MoveSidecar(c) => IsAt(c, "move_sidecar")
      /\ CopySidecar(c) => IsAt(c, "copy_sidecar")
  BY DEF ReadToEdit, Truncate, Fill, Unlink, NameSource, MoveSidecar, CopySidecar
<1>3. \A what : IsAt(c, what) => ~Idle(c) /\ Call(c).do = what
  BY DEF IsAt
<1>4. QED  BY <1>1, <1>2, <1>3 DEF Step

\* The requests say what they are.
LEMMA WhatIsAsked ==
    /\ \A file : EditOf(file).what = "edit" /\ EditOf(file).on = {file}
    /\ \A what, t, s, files : /\ Piping(what, t, s, files).what = what
                             /\ Piping(what, t, s, files).table = t
                             /\ Piping(what, t, s, files).stages = s
                             /\ Piping(what, t, s, files).on = files
BY DEF EditOf, Piping

\* A request, and what it is about.
LEMMA AskIsRequest ==
    ASSUME NEW c, Ask(c)
    PROVE  \E a, calls : /\ Request(c, a, calls)
                         /\ a.what \in {"rename", "clone"} => NewName(c)
                         /\ a.what \in {"plan", "list"} => AskPlan(c) \/ AskPlugins(c)
                         /\ a.what \in {"pipe", "unpipe"} =>
                               DropSidecar(c) \/ SaveBatch(c) \/ SavePipeline(c)
                         /\ a.what = "pipe" => SavePipeline(c)
<1>1. CASE AskPlan(c)
  <2>1. PICK a, calls : Request(c, a, calls) /\ a.what = "plan"
    BY <1>1 DEF AskPlan
  <2>2. QED  BY <1>1, <2>1
<1>2. CASE AskPlugins(c)
  <2>1. PICK a, calls : Request(c, a, calls) /\ a.what = "list"
    BY <1>2 DEF AskPlugins
  <2>2. QED  BY <1>2, <2>1
<1>3. CASE SaveDefaults(c)
  <2>1. PICK calls : Request(c, EditOf(TomlFile), calls)
    BY <1>3 DEF SaveDefaults
  <2>2. QED  BY <2>1, WhatIsAsked
<1>4. CASE SaveSidecar(c)
  <2>1. PICK file, calls : Request(c, EditOf(file), calls)
    BY <1>4 DEF SaveSidecar
  <2>2. QED  BY <2>1, WhatIsAsked
<1>5. CASE DropSidecar(c)
  <2>1. PICK t, calls : Request(c, Piping("unpipe", t, <<>>, {SidecarFile(t)}), calls)
    BY <1>5 DEF DropSidecar
  <2>2. QED  BY <1>5, <2>1, WhatIsAsked
<1>6. CASE ConfigSet(c)
  <2>1. PICK file, calls : Request(c, EditOf(file), calls)
    BY <1>6 DEF ConfigSet
  <2>2. QED  BY <2>1, WhatIsAsked
<1>7. CASE SaveBatch(c)
  <2>1. PICK t, calls : \/ Request(c, EditOf(TomlFile), calls)
                        \/ Request(c, Piping("unpipe", t, <<>>, {SidecarFile(t), TomlFile}), calls)
    BY <1>7 DEF SaveBatch
  <2>2. QED  BY <1>7, <2>1, WhatIsAsked
<1>8. CASE SavePipeline(c)
  <2>1. PICK t, s, calls : \/ Request(c, Piping("pipe", t, s, PipelineFiles(t)), calls)
                           \/ Request(c, Piping("unpipe", t, <<>>, PipelineFiles(t)), calls)
    BY <1>8 DEF SavePipeline
  <2>2. QED  BY <1>8, <2>1, WhatIsAsked
<1>9. CASE AssignCluster(c)
  <2>1. PICK calls : Request(c, EditOf(TomlFile), calls)
    BY <1>9 DEF AssignCluster
  <2>2. QED  BY <2>1, WhatIsAsked
<1>10. CASE SavePlugin(c)
  <2>1. PICK file, calls : Request(c, EditOf(file), calls)
    BY <1>10 DEF SavePlugin
  <2>2. QED  BY <2>1, WhatIsAsked
<1>11. CASE NewName(c)
  <2>1. PICK a, calls : Request(c, a, calls) /\ a.what \in {"rename", "clone"}
    BY <1>11 DEF NewName
  <2>2. QED  BY <1>11, <2>1
<1>12. QED  BY <1>1, <1>2, <1>3, <1>4, <1>5, <1>6, <1>7, <1>8, <1>9, <1>10, <1>11 DEF Ask

\* What another client does is of no concern to c, or it has changed a file.
LEMMA OthersStep ==
    ASSUME Typed, NEW c \in Clients, NEW d \in Clients, d # c, Ask(d) \/ Step(d)
    PROVE  \/ alone'[c] = FALSE
           \/ /\ UNCHANGED disk /\ alone'[c] = alone[c]
              /\ job'[c] = job[c] /\ ask'[c] = ask[c] /\ hand'[c] = hand[c]
<1>1. CASE Ask(d)
  <2>1. PICK a, calls : Request(d, a, calls)
    BY <1>1, AskIsRequest
  <2>2. QED  BY <2>1 DEF Request, Typed, ClientsTyped
<1>2. CASE Raise(d)
  BY <1>2 DEF Raise
<1>3. ASSUME NEW calls, Go(d, calls)
      PROVE  job'[c] = job[c] /\ ask'[c] = ask[c]
  BY <1>3 DEF Go
<1>4. CASE \E calls : Go(d, calls) /\ \E h : Reads(d, h)
  <2>1. PICK h : Reads(d, h)
    BY <1>4
  <2>2. QED  BY <1>3, <1>4, <2>1 DEF Reads
<1>5. CASE \E calls : Go(d, calls) /\ Touches(d)
  BY <1>5 DEF Touches
<1>6. QED  BY <1>1, <1>2, <1>4, <1>5, StepKinds

-----------------------------------------------------------------------------
(* A new name.                                                             *)

\* s consists of the call e and of rest.
Consists(s, e, rest) == s # <<>> /\ Head(s) = e /\ Tail(s) = rest

\* What a table t has in table-tool.toml as k, when own is its own tier.
SettingsIn(k, own, t) == Nearest(<<own, ClusterTier(k, t), k.tiers[Global]>>)

\* The table that client c names anew has its settings in k, if own is its own tier, under
\* its old name, and nothing is there under the new one.
Follows(c, own, k) ==
    /\ ask[c].new \notin DOMAIN k.members
    /\ ask[c].was = SettingsIn(k, own, ask[c].table)

\* The table has them under its new name.
Arrived(c, k) ==
    LET t == ask[c].new IN
    /\ t \in sources \/ (t \in Names /\ IsBatch(k, t))
    /\ (ask[c].what = "clone" => MetasResolve(k)) =>
          ask[c].was = SettingsIn(k, IF t \in sources THEN SidecarTier(t) ELSE k.tiers[BatchSlot(t)], t)

\* No sidecar is waiting for the new name, or it will be replaced.
SidecarsFollow(c) == ask[c].new \in DOMAIN sidecar => ask[c].table \in DOMAIN sidecar

Naming(c, do) == [do |-> do, old |-> ask[c].table, new |-> ask[c].new]
Renaming(c) == RenameEdit(ask[c].table, ask[c].new)
Tagging == [do |-> "edit", file |-> TomlFile, how |-> "tags"]
Joining(c, k) == [do |-> "edit", file |-> TomlFile, how |-> "cluster", table |-> ask[c].new, cluster |-> k]
Creating(c, x) == [do |-> "edit", file |-> TomlFile, how |-> "create", table |-> ask[c].new, new |-> x]
Writing(do, file, x) == [do |-> do, file |-> file, new |-> x]

\* What is left to do of a clone after the files have been copied.
Afterwards(c, k, rest) ==
    \/ rest = <<>> /\ (MetasResolve(k) => ask[c].table \notin DOMAIN k.members)
    \/ /\ ask[c].table \in DOMAIN k.members
       /\ Consists(rest, Tagging, <<Joining(c, Head(k.members[ask[c].table]))>>)

\* A single-file table is being renamed,
RenamesFile(c) ==
    /\ ask[c].what = "rename"
    /\ \/ /\ Consists(job[c], Naming(c, "move"), <<Naming(c, "move_sidecar"), Renaming(c)>>)
          /\ SidecarsFollow(c) /\ Follows(c, SidecarTier(ask[c].table), toml)
       \/ /\ Consists(job[c], Naming(c, "move_sidecar"), <<Renaming(c)>>)
          /\ ask[c].new \in sources
          /\ SidecarsFollow(c) /\ Follows(c, SidecarTier(ask[c].table), toml)
       \/ /\ Consists(job[c], Renaming(c), <<>>)
          /\ ask[c].new \in sources
          /\ Follows(c, SidecarTier(ask[c].new), toml)

\* or a batch table,
RenamesBatch(c) ==
    /\ ask[c].what = "rename"
    /\ Consists(job[c], Renaming(c), <<>>)
    /\ ask[c].new \in Names \ sources
    /\ IsBatch(toml, ask[c].table)
    /\ Follows(c, toml.tiers[BatchSlot(ask[c].table)], toml)

\* or the files of a table are being copied,
ClonesFiles(c) ==
    /\ ask[c].what = "clone"
    /\ \E rest : Afterwards(c, toml, rest) /\
          \/ /\ \E more : /\ Consists(job[c], Naming(c, "copy"), more)
                         /\ Consists(more, Naming(c, "copy_sidecar"), rest)
             /\ SidecarsFollow(c) /\ Follows(c, SidecarTier(ask[c].table), toml)
          \/ /\ Consists(job[c], Naming(c, "copy_sidecar"), rest)
             /\ ask[c].new \in sources
             /\ SidecarsFollow(c) /\ Follows(c, SidecarTier(ask[c].table), toml)
          \/ \E x, do : /\ do \in {"write", "fill"}
                        /\ Consists(job[c], Writing(do, SidecarFile(ask[c].new), x), rest)
                        /\ ask[c].new \in sources
                        /\ Follows(c, x, toml)
          \/ /\ job[c] = rest /\ rest # <<>>
             /\ ask[c].new \in sources
             /\ Follows(c, SidecarTier(ask[c].new), toml)

\* or its cluster is to be set, the tags being about to be written as they were,
ClonesCluster(c) ==
    /\ ask[c].what = "clone" /\ ask[c].new \in sources
    /\ \E k : /\ ask[c].table \in DOMAIN k.members
             /\ Follows(c, SidecarTier(ask[c].new), k)
             /\ LET join == Joining(c, Head(k.members[ask[c].table])) IN
                \/ \E do \in {"write", "fill"} :
                       Consists(job[c], Writing(do, TomlFile, k), <<join>>)
                \/ k = toml /\ Consists(job[c], join, <<>>)

\* or a batch table is being copied,
ClonesBatch(c) ==
    /\ ask[c].what = "clone"
    /\ \E x : /\ Consists(job[c], Creating(c, x), <<>>)
             /\ ask[c].was = Nearest(<<x, toml.tiers[Global]>>)
    /\ ask[c].new \in Names \ sources
    /\ ask[c].new \notin DOMAIN toml.members

\* or the last file is being written, or all is done.
Arriving(c) ==
    \/ \E k, do : /\ do \in {"write", "fill"}
                 /\ Consists(job[c], Writing(do, TomlFile, k), <<>>)
                 /\ Arrived(c, k)
    \/ job[c] = <<>> /\ Arrived(c, toml)

OnTheWay(c) ==
    \/ RenamesFile(c) \/ RenamesBatch(c)
    \/ ClonesFiles(c) \/ ClonesCluster(c) \/ ClonesBatch(c)
    \/ Arriving(c)

IsNaming(c) == alone[c] /\ ask[c].what \in {"rename", "clone"} /\ ~ask[c].left

NamesFollow == \A c \in Clients : IsNaming(c) => OnTheWay(c)

\* It is what SettingsFollow asks for.
LEMMA NamesFollowMeans == NamesFollow => SettingsFollow
<1>1. SUFFICES ASSUME NamesFollow, NEW c \in Clients, Idle(c), IsNaming(c)
      PROVE  /\ ask[c].new \in TableNames
             /\ (ask[c].what = "clone" => MetasResolve(toml)) => SettingsOf(ask[c].new) = ask[c].was
  BY DEF SettingsFollow, IsNaming
<1>2. job[c] = <<>>
  BY <1>1 DEF Idle
<1>3. OnTheWay(c)
  BY <1>1 DEF NamesFollow
<1>4. Arrived(c, toml)
  <2>1. ~RenamesFile(c) /\ ~RenamesBatch(c)
    BY <1>2 DEF RenamesFile, RenamesBatch, Consists
  <2>2. ~ClonesFiles(c)
    BY <1>2 DEF ClonesFiles, Consists
  <2>3. ~ClonesCluster(c)
    BY <1>2 DEF ClonesCluster, Consists
  <2>4. ~ClonesBatch(c)
    BY <1>2 DEF ClonesBatch, Consists
  <2>5. Arriving(c)
    BY <1>3, <2>1, <2>2, <2>3, <2>4 DEF OnTheWay
  <2>6. QED  BY <1>2, <2>5 DEF Arriving, Consists
<1>5. OwnTier(ask[c].new) = IF ask[c].new \in sources THEN SidecarTier(ask[c].new)
                            ELSE toml.tiers[BatchSlot(ask[c].new)]
  BY DEF OwnTier, SidecarTier
<1>6. QED  BY <1>4, <1>5 DEF Arrived, SettingsIn, SettingsOf, TableNames

\* What the way of c depends on.
LEMMA OnTheWayDepends ==
    ASSUME NEW c, UNCHANGED disk, job'[c] = job[c], ask'[c] = ask[c], OnTheWay(c)
    PROVE  OnTheWay(c)'
<1>1. UNCHANGED <<sources, toml, sidecar>>
  BY DEF disk
<1>2. /\ Renaming(c)' = Renaming(c) /\ SidecarsFollow(c)' = SidecarsFollow(c)
      /\ \A do : Naming(c, do)' = Naming(c, do)
      /\ \A k : Joining(c, k)' = Joining(c, k)
      /\ \A x : Creating(c, x)' = Creating(c, x)
  BY <1>1 DEF Renaming, RenameEdit, TomlFile, SidecarsFollow, Naming, Joining, Creating
<1>3. /\ \A t : SidecarTier(t)' = SidecarTier(t)
      /\ \A own, k : Follows(c, own, k)' = Follows(c, own, k)
      /\ \A k, rest : Afterwards(c, k, rest)' = Afterwards(c, k, rest)
  BY <1>1, <1>2 DEF SidecarTier, Follows, Afterwards, SettingsIn
<1>4. \A k : Arrived(c, k)' = Arrived(c, k)
  BY <1>1, <1>3 DEF Arrived
<1>5. CASE RenamesFile(c)
  BY <1>1, <1>2, <1>3, <1>5 DEF OnTheWay, RenamesFile
<1>6. CASE RenamesBatch(c)
  BY <1>1, <1>2, <1>3, <1>6 DEF OnTheWay, RenamesBatch, IsBatch
<1>7. CASE ClonesFiles(c)
  BY <1>1, <1>2, <1>3, <1>7 DEF OnTheWay, ClonesFiles
<1>8. CASE ClonesCluster(c)
  BY <1>1, <1>2, <1>3, <1>8 DEF OnTheWay, ClonesCluster
<1>9. CASE ClonesBatch(c)
  BY <1>1, <1>2, <1>3, <1>9 DEF OnTheWay, ClonesBatch
<1>10. CASE Arriving(c)
  BY <1>1, <1>2, <1>3, <1>4, <1>10 DEF OnTheWay, Arriving
<1>11. QED  BY <1>5, <1>6, <1>7, <1>8, <1>9, <1>10 DEF OnTheWay

\* The nearest of three tiers, and of two.
LEMMA NearestOfThree ==
    ASSUME NEW x, NEW y, NEW z
    PROVE  Nearest(<<x, y, z>>) =
              [f \in DOMAIN x \cup DOMAIN y \cup DOMAIN z |->
                  IF f \in DOMAIN x THEN x[f] ELSE IF f \in DOMAIN y THEN y[f] ELSE z[f]]
<1>1. PICK s : s = <<x, y, z>>
  OBVIOUS
<1>2. DOMAIN s = {1, 2, 3} /\ s[1] = x /\ s[2] = y /\ s[3] = z
  BY <1>1
<1>3. UNION {DOMAIN s[i] : i \in DOMAIN s} = DOMAIN x \cup DOMAIN y \cup DOMAIN z
  BY <1>2
<1>4. ASSUME NEW f \in DOMAIN x \cup DOMAIN y \cup DOMAIN z
      PROVE  s[CHOOSE i \in DOMAIN s : f \in DOMAIN s[i] /\ \A j \in 1..(i - 1) : f \notin DOMAIN s[j]]
             = IF f \in DOMAIN x THEN x ELSE IF f \in DOMAIN y THEN y ELSE z
  <2>1. PICK n : n = CHOOSE i \in DOMAIN s : f \in DOMAIN s[i] /\ \A j \in 1..(i - 1) : f \notin DOMAIN s[j]
    OBVIOUS
  <2>2. \E i \in DOMAIN s : f \in DOMAIN s[i] /\ \A j \in 1..(i - 1) : f \notin DOMAIN s[j]
    <3>1. CASE f \in DOMAIN x
      BY <1>2, <3>1
    <3>2. CASE f \notin DOMAIN x /\ f \in DOMAIN y
      <4>1. 2 \in DOMAIN s /\ f \in DOMAIN s[2] /\ 1..(2 - 1) = {1}
        BY <1>2, <3>2
      <4>2. QED  BY <1>2, <3>2, <4>1
    <3>3. CASE f \notin DOMAIN x /\ f \notin DOMAIN y /\ f \in DOMAIN z
      <4>1. 3 \in DOMAIN s /\ f \in DOMAIN s[3] /\ 1..(3 - 1) = {1, 2}
        BY <1>2, <3>3
      <4>2. QED  BY <1>2, <3>3, <4>1
    <3>4. QED  BY <3>1, <3>2, <3>3
  <2>3. /\ n \in {1, 2, 3} /\ f \in DOMAIN s[n]
        /\ \A j \in 1..(n - 1) : f \notin DOMAIN s[j]
    BY <1>2, <2>1, <2>2
  <2>4. n = 1 \/ (n = 2 /\ 1 \in 1..(n - 1)) \/ (n = 3 /\ {1, 2} \subseteq 1..(n - 1))
    BY <2>3
  <2>5. QED  BY <1>2, <2>1, <2>3, <2>4
<1>5. QED  BY <1>1, <1>3, <1>4 DEF Nearest

\* No cluster is an empty tier.
LEMMA NearestOfTwo ==
    ASSUME NEW x, NEW z
    PROVE  Nearest(<<x, z>>) = Nearest(<<x, EmptyMap, z>>)
<1>1. PICK s : s = <<x, z>>
  OBVIOUS
<1>2. DOMAIN s = {1, 2} /\ s[1] = x /\ s[2] = z
  BY <1>1
<1>3. UNION {DOMAIN s[i] : i \in DOMAIN s} = DOMAIN x \cup DOMAIN z
  BY <1>2
<1>4. ASSUME NEW f \in DOMAIN x \cup DOMAIN z
      PROVE  s[CHOOSE i \in DOMAIN s : f \in DOMAIN s[i] /\ \A j \in 1..(i - 1) : f \notin DOMAIN s[j]]
             = IF f \in DOMAIN x THEN x ELSE z
  <2>1. PICK n : n = CHOOSE i \in DOMAIN s : f \in DOMAIN s[i] /\ \A j \in 1..(i - 1) : f \notin DOMAIN s[j]
    OBVIOUS
  <2>2. \E i \in DOMAIN s : f \in DOMAIN s[i] /\ \A j \in 1..(i - 1) : f \notin DOMAIN s[j]
    <3>1. CASE f \in DOMAIN x
      BY <1>2, <3>1
    <3>2. CASE f \notin DOMAIN x /\ f \in DOMAIN z
      <4>1. 2 \in DOMAIN s /\ f \in DOMAIN s[2] /\ 1..(2 - 1) = {1}
        BY <1>2, <3>2
      <4>2. QED  BY <1>2, <3>2, <4>1
    <3>3. QED  BY <3>1, <3>2
  <2>3. /\ n \in {1, 2} /\ f \in DOMAIN s[n]
        /\ \A j \in 1..(n - 1) : f \notin DOMAIN s[j]
    BY <1>2, <2>1, <2>2
  <2>4. n = 1 \/ (n = 2 /\ 1 \in 1..(n - 1))
    BY <2>3
  <2>5. QED  BY <1>2, <2>1, <2>3, <2>4
<1>5. Nearest(s) = [f \in DOMAIN x \cup DOMAIN z |-> IF f \in DOMAIN x THEN x[f] ELSE z[f]]
  BY <1>3, <1>4 DEF Nearest
<1>6. Nearest(<<x, EmptyMap, z>>) =
         [f \in DOMAIN x \cup DOMAIN EmptyMap \cup DOMAIN z |->
             IF f \in DOMAIN x THEN x[f] ELSE IF f \in DOMAIN EmptyMap THEN EmptyMap[f] ELSE z[f]]
  BY NearestOfThree
<1>7. DOMAIN EmptyMap = {}
  BY DEF EmptyMap
<1>8. QED  BY <1>1, <1>5, <1>6, <1>7

-----------------------------------------------------------------------------
(* The request.                                                            *)

\* A request for a new name is at its first call.
LEMMA NewNameStarts ==
    ASSUME Typed, NEW c \in Clients, NewName(c), IsNaming(c)'
    PROVE  OnTheWay(c)'
<1>1. PICK old \in TableNames, new \in Names \ TableNames, what \in {"rename", "clone"} :
         Request(c, [what |-> what, table |-> old, new |-> new,
                     on |-> {TomlFile, SidecarFile(old), SidecarFile(new)},
                     was |-> Following(what, old), left |-> Leftover(old, new)],
                 IF what = "rename" THEN RenameCalls(old, new) ELSE CloneCalls(old, new))
  BY DEF NewName
<1>2. PICK a : a = [what |-> what, table |-> old, new |-> new,
                    on |-> {TomlFile, SidecarFile(old), SidecarFile(new)},
                    was |-> Following(what, old), left |-> Leftover(old, new)]
  OBVIOUS
<1>3. /\ ask'[c] = a
      /\ job'[c] = IF what = "rename" THEN RenameCalls(old, new) ELSE CloneCalls(old, new)
      /\ UNCHANGED <<sources, toml, sidecar, plugins>>
  BY <1>1, <1>2 DEF Request, Typed, ClientsTyped, disk
<1>4. /\ a.what = what /\ a.table = old /\ a.new = new
      /\ a.was = Following(what, old) /\ a.left = Leftover(old, new)
  BY <1>2
<1>5. ~Leftover(old, new)
  BY <1>3, <1>4 DEF IsNaming
<1>6. /\ new \notin sources /\ ~IsBatch(toml, new) /\ old # new
      /\ new \notin DOMAIN toml.members
      /\ old \in sources /\ new \in DOMAIN sidecar => old \in DOMAIN sidecar
  BY <1>5 DEF Leftover, TableNames
<1>7. old \in sources => ~IsBatch(toml, old)
  BY DEF NewName, Discoverable
<1>8. OwnTier(old) = IF old \in sources THEN SidecarTier(old) ELSE toml.tiers[BatchSlot(old)]
  BY DEF OwnTier, SidecarTier
<1>9. SettingsOf(old) = SettingsIn(toml, OwnTier(old), old)
  BY DEF SettingsOf, SettingsIn
<1>10. /\ Naming(c, "move")' = [do |-> "move", old |-> old, new |-> new]
       /\ Naming(c, "move_sidecar")' = [do |-> "move_sidecar", old |-> old, new |-> new]
       /\ Naming(c, "copy")' = [do |-> "copy", old |-> old, new |-> new]
       /\ Naming(c, "copy_sidecar")' = [do |-> "copy_sidecar", old |-> old, new |-> new]
       /\ Renaming(c)' = RenameEdit(old, new)
       /\ SidecarTier(old)' = SidecarTier(old)
  BY <1>3, <1>4 DEF Naming, Renaming, RenameEdit, SidecarTier, TomlFile
<1>11. \A own : a.was = SettingsIn(toml, own, old) => Follows(c, own, toml)'
  BY <1>3, <1>4, <1>6 DEF Follows, SettingsIn
<1>12. CASE what = "rename"
  <2>1. a.was = SettingsIn(toml, OwnTier(old), old)
    BY <1>4, <1>9, <1>12 DEF Following
  <2>2. CASE old \in sources
    <3>1. job'[c] = <<[do |-> "move", old |-> old, new |-> new],
                      [do |-> "move_sidecar", old |-> old, new |-> new], RenameEdit(old, new)>>
      BY <1>3, <1>12, <2>2 DEF RenameCalls
    <3>2. Consists(job[c], Naming(c, "move"), <<Naming(c, "move_sidecar"), Renaming(c)>>)'
      BY <1>10, <3>1 DEF Consists
    <3>3. SidecarsFollow(c)'
      BY <1>3, <1>4, <1>6, <2>2 DEF SidecarsFollow
    <3>4. Follows(c, SidecarTier(ask[c].table), toml)'
      BY <1>3, <1>4, <1>8, <1>10, <1>11, <2>1, <2>2
    <3>5. RenamesFile(c)'
      BY <1>3, <1>4, <1>12, <3>2, <3>3, <3>4 DEF RenamesFile
    <3>6. QED  BY <3>5 DEF OnTheWay
  <2>3. CASE old \notin sources
    <3>1. job'[c] = <<RenameEdit(old, new)>>
      BY <1>3, <1>12, <2>3 DEF RenameCalls
    <3>2. Consists(job[c], Renaming(c), <<>>)'
      BY <1>10, <3>1 DEF Consists
    <3>3. IsBatch(toml, old)
      BY <2>3 DEF TableNames
    <3>4. Follows(c, toml.tiers[BatchSlot(ask[c].table)], toml)'
      BY <1>3, <1>4, <1>8, <1>11, <2>1, <2>3
    <3>5. IsBatch(toml, ask[c].table)'
      BY <1>3, <1>4, <3>3 DEF IsBatch
    <3>6. RenamesBatch(c)'
      BY <1>3, <1>4, <1>6, <1>12, <3>2, <3>4, <3>5 DEF RenamesBatch
    <3>7. QED  BY <3>6 DEF OnTheWay
  <2>4. QED  BY <2>2, <2>3
<1>13. CASE what = "clone"
  <2>1. CASE old \in sources
    <3>1. a.was = SettingsIn(toml, SidecarTier(old), old)
      BY <1>4, <1>7, <1>8, <1>9, <1>13, <2>1 DEF Following
    <3>2. PICK e, f : /\ e = [do |-> "copy", old |-> old, new |-> new]
                      /\ f = [do |-> "copy_sidecar", old |-> old, new |-> new]
      OBVIOUS
    <3>3. PICK rest :
             rest = IF old \notin DOMAIN toml.members \/ ~MetasResolve(toml) THEN <<>>
                    ELSE <<[do |-> "edit", file |-> TomlFile, how |-> "tags"],
                           [do |-> "edit", file |-> TomlFile, how |-> "cluster", table |-> new,
                            cluster |-> Head(toml.members[old])]>>
      OBVIOUS
    <3>4. job'[c] = <<e, f>> \o rest
      BY <1>3, <1>13, <2>1, <3>2, <3>3 DEF CloneCalls
    <3>5. Joining(c, Head(toml.members[old]))' =
             [do |-> "edit", file |-> TomlFile, how |-> "cluster", table |-> new,
              cluster |-> Head(toml.members[old])]
      BY <1>3, <1>4 DEF Joining, TomlFile
    <3>6. Afterwards(c, toml, rest)'
      <4>1. CASE old \notin DOMAIN toml.members \/ ~MetasResolve(toml)
        <5>1. rest = <<>>
          BY <3>3, <4>1
        <5>2. MetasResolve(toml)' => old \notin DOMAIN toml.members
          BY <1>3, <4>1 DEF MetasResolve
        <5>3. QED  BY <1>3, <1>4, <5>1, <5>2 DEF Afterwards
      <4>2. CASE ~(old \notin DOMAIN toml.members \/ ~MetasResolve(toml))
        <5>1. PICK j : j = Joining(c, Head(toml.members[old]))'
          OBVIOUS
        <5>2. rest = <<Tagging, j>>
          BY <3>3, <3>5, <4>2, <5>1 DEF Tagging
        <5>3. Consists(rest, Tagging, <<j>>)
          BY <5>2 DEF Consists
        <5>4. QED  BY <1>3, <1>4, <4>2, <5>1, <5>3 DEF Afterwards, Consists, Tagging, TomlFile
      <4>3. QED  BY <4>1, <4>2
    <3>7. \E more : Consists(job'[c], e, more) /\ Consists(more, f, rest)
      <4>1. CASE rest = <<>>
        <5>1. <<e, f>> \o <<>> = <<e, f>>
          OBVIOUS
        <5>2. Consists(job'[c], e, <<f>>) /\ Consists(<<f>>, f, rest)
          BY <3>4, <4>1, <5>1 DEF Consists
        <5>3. QED  BY <5>2
      <4>2. CASE rest # <<>>
        <5>1. PICK g, h : rest = <<g, h>>
          BY <3>3, <4>2
        <5>2. job'[c] = <<e, f, g, h>>
          BY <3>4, <5>1, TwoAndTwo
        <5>3. Consists(job'[c], e, <<f, g, h>>) /\ Consists(<<f, g, h>>, f, rest)
          BY <5>1, <5>2 DEF Consists
        <5>4. QED  BY <5>3
      <4>3. QED  BY <4>1, <4>2
    <3>8. \E more : /\ Consists(job[c], Naming(c, "copy"), more)'
                    /\ Consists(more, Naming(c, "copy_sidecar"), rest)'
      BY <1>10, <3>2, <3>7 DEF Consists
    <3>9. SidecarsFollow(c)'
      BY <1>3, <1>4, <1>6, <2>1 DEF SidecarsFollow
    <3>10. Follows(c, SidecarTier(ask[c].table), toml)'
      BY <1>3, <1>4, <1>10, <1>11, <3>1
    <3>11. ClonesFiles(c)'
      BY <1>3, <1>4, <1>13, <3>6, <3>8, <3>9, <3>10 DEF ClonesFiles
    <3>12. QED  BY <3>11 DEF OnTheWay
  <2>2. CASE old \notin sources
    <3>1. IsBatch(toml, old)
      BY <2>2 DEF TableNames
    <3>2. PICK x : x = toml.tiers[BatchSlot(old)]
      OBVIOUS
    <3>3. a.was = Nearest(<<x, toml.tiers[Global]>>)
      BY <1>4, <1>8, <1>13, <2>2, <3>1, <3>2 DEF Following
    <3>4. job'[c] = <<Creating(c, x)'>>
      BY <1>3, <1>4, <1>13, <2>2, <3>2 DEF CloneCalls, Creating, TomlFile
    <3>5. Consists(job[c], Creating(c, x), <<>>)'
      BY <3>4 DEF Consists
    <3>6. ClonesBatch(c)'
      BY <1>3, <1>4, <1>6, <1>13, <3>3, <3>5 DEF ClonesBatch
    <3>7. QED  BY <3>6 DEF OnTheWay
  <2>3. QED  BY <2>1, <2>2
<1>14. QED  BY <1>12, <1>13

-----------------------------------------------------------------------------
(* The calls.                                                              *)

\* A job that goes on: what is left of the state of c.
LEMMA GoesOn ==
    ASSUME Typed, NEW c \in Clients, NEW calls, Go(c, calls), ask[c].what \in {"rename", "clone"}
    PROVE  /\ job'[c] = calls /\ ask'[c] = ask[c]
           /\ Renaming(c)' = Renaming(c)
           /\ \A do : Naming(c, do)' = Naming(c, do)
           /\ \A k : Joining(c, k)' = Joining(c, k)
           /\ \A own, k : Follows(c, own, k)' = Follows(c, own, k)
           /\ \A k, rest : Afterwards(c, k, rest)' = Afterwards(c, k, rest)
<1>1. job'[c] = calls /\ ask'[c] = ask[c]
  BY DEF Go, Typed, ClientsTyped
<1>2. /\ Renaming(c)' = Renaming(c)
      /\ \A do : Naming(c, do)' = Naming(c, do)
      /\ \A k : Joining(c, k)' = Joining(c, k)
      /\ \A own, k : Follows(c, own, k)' = Follows(c, own, k)
  BY <1>1 DEF Renaming, RenameEdit, TomlFile, Naming, Joining, Follows, SettingsIn
<1>3. \A k, rest : Afterwards(c, k, rest)' = Afterwards(c, k, rest)
  BY <1>1, <1>2 DEF Afterwards
<1>4. QED  BY <1>1, <1>2, <1>3

\* A request that fails is forgotten.
LEMMA RaiseForgets ==
    ASSUME Typed, NEW c \in Clients, Raise(c), ask[c].what \in {"rename", "clone"}
    PROVE  ~IsNaming(c)'
<1>1. ask'[c] = NoAsk
  BY DEF Raise, Typed, ClientsTyped
<1>2. QED  BY <1>1 DEF IsNaming, NoAsk

\* Another call before what is left.
LEMMA NextCall ==
    ASSUME NEW s, IsJob(s), NEW e
    PROVE  Consists(<<e>> \o s, e, s)
<1>1. PICK S : s \in Seq(S)
  BY DEF IsJob
<1>2. PICK T : T = S \cup {e}
  OBVIOUS
<1>3. s \in Seq(T) /\ <<e>> \in Seq(T)
  BY <1>1, <1>2
<1>4. <<e>> \o s \in Seq(T) /\ Head(<<e>> \o s) = e /\ <<e>> \o s # <<>>
  BY <1>3
<1>5. Tail(<<e>> \o s) = s
  BY <1>3
<1>6. QED  BY <1>4, <1>5 DEF Consists

\* The files are named one after the other.
LEMMA MoveStep ==
    ASSUME Typed, NEW c \in Clients, Step(c), ask[c].what \in {"rename", "clone"},
           NEW e, NEW rest, Consists(job[c], e, rest),
           e = Naming(c, "move") \/ e = Naming(c, "copy")
    PROVE  \/ Raise(c)
           \/ /\ ask[c].new \in sources' /\ Go(c, rest)
              /\ UNCHANGED <<toml, sidecar, plugins>>
<1>1. Call(c) = e /\ e.do \in {"move", "copy"} /\ e.new = ask[c].new
  BY DEF Consists, Call, Naming
<1>2. NameSource(c)
  BY <1>1, StepByCall
<1>3. QED  BY <1>1, <1>2 DEF NameSource, Return, Consists

\* The sidecar is moved, if there is one.
LEMMA MoveSidecarStep ==
    ASSUME Typed, NEW c \in Clients, Step(c), SidecarsFollow(c),
           NEW rest, Consists(job[c], Naming(c, "move_sidecar"), rest)
    PROVE  /\ SidecarTier(ask[c].new)' = SidecarTier(ask[c].table) \/ ask'[c] # ask[c]
           /\ Go(c, rest) /\ UNCHANGED <<sources, toml, plugins>>
<1>1. PICK e : e = Naming(c, "move_sidecar")
  OBVIOUS
<1>2. Call(c) = e /\ e.do = "move_sidecar" /\ e.old = ask[c].table /\ e.new = ask[c].new
  BY <1>1 DEF Consists, Call, Naming
<1>3. MoveSidecar(c)
  BY <1>2, StepByCall
<1>4. sidecar' = MoveKey(sidecar, ask[c].table, ask[c].new)
  BY <1>2, <1>3 DEF MoveSidecar
<1>5. ASSUME ask'[c] = ask[c] PROVE SidecarTier(ask[c].new)' = SidecarTier(ask[c].table)
  <2>1. CASE ask[c].table \in DOMAIN sidecar
    BY <1>4, <1>5, <2>1 DEF SidecarTier, MoveKey, Put
  <2>2. CASE ask[c].table \notin DOMAIN sidecar
    BY <1>4, <1>5, <2>2 DEF SidecarTier, MoveKey, SidecarsFollow
  <2>3. QED  BY <2>1, <2>2
<1>6. QED  BY <1>3, <1>5 DEF MoveSidecar, Return, Consists

\* A file is truncated, and then it has the content.
LEMMA TruncateStep ==
    ASSUME Typed, NEW c \in Clients, Step(c), NEW file, NEW x, NEW rest,
           Consists(job[c], Writing("write", file, x), rest)
    PROVE  /\ \E calls : Go(c, calls) /\ Consists(calls, Writing("fill", file, x), rest)
           /\ sources' = sources
           /\ file # TomlFile => toml' = toml
           /\ file[1] # "sidecar" => sidecar' = sidecar
<1>1. PICK e : e = Writing("write", file, x)
  OBVIOUS
<1>2. Call(c) = e /\ e.do = "write" /\ e.file = file
  BY <1>1 DEF Consists, Call, Writing
<1>3. Truncate(c)
  BY <1>2, StepByCall
<1>4. PICK f : f = [e EXCEPT !.do = "fill"]
  OBVIOUS
<1>5. f = Writing("fill", file, x)
  BY <1>1, <1>4 DEF Writing
<1>6. Go(c, <<f>> \o rest)
  BY <1>2, <1>3, <1>4 DEF Truncate, Consists
<1>7. IsJob(rest)
  BY JobParts DEF Typed, ClientsTyped, Consists
<1>8. Consists(<<f>> \o rest, f, rest)
  BY <1>7, NextCall
<1>9. QED  BY <1>2, <1>3, <1>5, <1>6, <1>8 DEF Truncate, Becomes

\* The file has its content again.
LEMMA FillStep ==
    ASSUME Typed, NEW c \in Clients, Step(c), NEW file, NEW x, NEW rest,
           Consists(job[c], Writing("fill", file, x), rest)
    PROVE  Go(c, rest) /\ Becomes(file, x) /\ sources' = sources
<1>1. PICK e : e = Writing("fill", file, x)
  OBVIOUS
<1>2. Call(c) = e /\ e.do = "fill" /\ e.file = file /\ e.new = x
  BY <1>1 DEF Consists, Call, Writing
<1>3. Fill(c)
  BY <1>2, StepByCall
<1>4. QED  BY <1>2, <1>3 DEF Fill, Return, Consists

\* table-tool.toml is read, changed in memory, and the result is to be written.
LEMMA EditStep ==
    ASSUME Typed, NEW c \in Clients, Step(c), NEW e, NEW rest, Consists(job[c], e, rest),
           e.do = "edit", e.file = TomlFile
    PROVE  \/ Raise(c)
           \/ /\ ~Refused(e) /\ UNCHANGED <<sources, toml, sidecar, plugins>>
              /\ \E calls : Go(c, calls) /\ Consists(calls, Writing("write", TomlFile, EditedToml(e)), rest)
<1>1. Call(c) = e
  BY DEF Consists, Call
<1>2. ReadToEdit(c)
  BY <1>1, StepByCall
<1>3. IsJob(rest)
  BY JobParts DEF Typed, ClientsTyped, Consists
<1>4. PICK w : w = Writing("write", TomlFile, EditedToml(e))
  OBVIOUS
<1>5. Consists(<<w>> \o rest, w, rest)
  BY <1>3, NextCall
<1>6. CASE Refused(e)
  BY <1>1, <1>2, <1>6 DEF ReadToEdit
<1>7. CASE ~Refused(e)
  <2>1. Reads(c, hand[c]) /\ Go(c, <<w>> \o rest)
    BY <1>1, <1>2, <1>4, <1>7 DEF ReadToEdit, Consists, Writing
  <2>2. QED  BY <1>4, <1>5, <1>7, <2>1 DEF Reads, disk
<1>8. QED  BY <1>6, <1>7

\* The rename of a section and of the metadata takes the settings along.
LEMMA RenamedToml ==
    ASSUME IsToml(toml), NEW old, NEW new, new \notin DOMAIN toml.members
    PROVE  LET k == EditedToml(RenameEdit(old, new)) IN
           /\ \A own : SettingsIn(k, own, new) = SettingsIn(toml, own, old)
           /\ IsBatch(toml, old) => IsBatch(k, new) /\ k.tiers[BatchSlot(new)] = toml.tiers[BatchSlot(old)]
<1>1. PICK ts : ts = MoveKey(toml.tiers, BatchSlot(old), BatchSlot(new))
  OBVIOUS
<1>2. PICK ms : ms = RenamedMembers(toml.members, old, new)
  OBVIOUS
<1>3. PICK k : k = EditedToml(RenameEdit(old, new))
  OBVIOUS
<1>4. k = [tiers |-> ts, members |-> ms]
  <2>1. PICK e : e = RenameEdit(old, new)
    OBVIOUS
  <2>2. e.how = "rename" /\ e.old = old /\ e.new = new
    BY <2>1 DEF RenameEdit
  <2>3. QED  BY <1>1, <1>2, <1>3, <2>1, <2>2 DEF EditedToml
<1>5. \A s \in DOMAIN toml.tiers : s[1] # "batch" => ts[s] = toml.tiers[s]
  BY <1>1, SlotKinds DEF MoveKey, Put, Drop
<1>6. Global \in DOMAIN toml.tiers /\ ts[Global] = toml.tiers[Global]
  BY <1>5, SlotKinds, TomlDef
<1>7. ClusterTier(k, new) = ClusterTier(toml, old)
  <2>1. CASE old \in DOMAIN toml.members
    <3>1. toml.members[old] \in Seq(Declared(toml)) \ {<<>>}
      BY <2>1, TomlDef
    <3>2. <<>> \o toml.members[old] = toml.members[old] /\ Head(toml.members[old]) \in Declared(toml)
      BY <3>1, ConcatEmptySeq
    <3>3. new \in DOMAIN ms /\ ms[new] = toml.members[old]
      BY <1>2, <2>1, <3>2 DEF RenamedMembers, Put
    <3>4. PICK s : s = ClusterSlot(Head(toml.members[old]))
      OBVIOUS
    <3>5. s \in DOMAIN toml.tiers /\ s[1] = "cluster"
      BY <3>2, <3>4, SlotKinds DEF Declared
    <3>6. ts[s] = toml.tiers[s]
      BY <1>5, <3>5
    <3>7. QED  BY <1>4, <2>1, <3>3, <3>4, <3>6 DEF ClusterTier
  <2>2. CASE old \notin DOMAIN toml.members
    <3>1. ms = toml.members
      BY <1>2, <2>2 DEF RenamedMembers
    <3>2. QED  BY <1>4, <2>2, <3>1 DEF ClusterTier
  <2>3. QED  BY <2>1, <2>2
<1>8. \A own : SettingsIn(k, own, new) = SettingsIn(toml, own, old)
  BY <1>4, <1>6, <1>7 DEF SettingsIn
<1>9. IsBatch(toml, old) => IsBatch(k, new) /\ k.tiers[BatchSlot(new)] = toml.tiers[BatchSlot(old)]
  BY <1>1, <1>4 DEF IsBatch, MoveKey, Put
<1>10. QED  BY <1>3, <1>8, <1>9

\* A table has arrived, whatever else is read.
LEMMA ArrivedDepends ==
    ASSUME NEW c, NEW k, Arrived(c, k), ask'[c] = ask[c], UNCHANGED <<sources, sidecar>>
    PROVE  Arrived(c, k)'
<1>1. \A t : SidecarTier(t)' = SidecarTier(t)
  BY DEF SidecarTier
<1>2. QED  BY <1>1 DEF Arrived, SettingsIn, MetasResolve

\* A rename goes on.
LEMMA RenamesStep ==
    ASSUME Typed, NEW c \in Clients, Step(c), RenamesFile(c) \/ RenamesBatch(c), IsNaming(c)'
    PROVE  OnTheWay(c)'
<1>1. ask[c].what = "rename" /\ ~Raise(c)
  BY RaiseForgets DEF RenamesFile, RenamesBatch
<1>2. CASE /\ Consists(job[c], Naming(c, "move"), <<Naming(c, "move_sidecar"), Renaming(c)>>)
           /\ SidecarsFollow(c) /\ Follows(c, SidecarTier(ask[c].table), toml)
  <2>1. /\ ask[c].new \in sources' /\ UNCHANGED <<toml, sidecar, plugins>>
        /\ Go(c, <<Naming(c, "move_sidecar"), Renaming(c)>>)
    BY <1>1, <1>2, MoveStep
  <2>2. PICK e, f : e = Naming(c, "move_sidecar") /\ f = Renaming(c)
    OBVIOUS
  <2>3. /\ job'[c] = <<e, f>> /\ ask'[c] = ask[c]
        /\ Naming(c, "move_sidecar")' = e /\ Renaming(c)' = f
    BY <1>1, <2>1, <2>2, GoesOn
  <2>4. Consists(job[c], Naming(c, "move_sidecar"), <<Renaming(c)>>)'
    BY <2>3 DEF Consists
  <2>5. SidecarsFollow(c)' /\ SidecarTier(ask[c].table)' = SidecarTier(ask[c].table)
    BY <1>2, <2>1, <2>3 DEF SidecarsFollow, SidecarTier
  <2>6. Follows(c, SidecarTier(ask[c].table), toml)'
    BY <1>2, <2>1, <2>3, <2>5 DEF Follows
  <2>7. RenamesFile(c)'
    BY <1>1, <2>1, <2>3, <2>4, <2>5, <2>6 DEF RenamesFile
  <2>8. QED  BY <2>7 DEF OnTheWay
<1>3. CASE /\ Consists(job[c], Naming(c, "move_sidecar"), <<Renaming(c)>>)
           /\ ask[c].new \in sources
           /\ SidecarsFollow(c) /\ Follows(c, SidecarTier(ask[c].table), toml)
  <2>1. /\ SidecarTier(ask[c].new)' = SidecarTier(ask[c].table) \/ ask'[c] # ask[c]
        /\ Go(c, <<Renaming(c)>>) /\ UNCHANGED <<sources, toml, plugins>>
    BY <1>3, MoveSidecarStep
  <2>2. PICK f : f = Renaming(c)
    OBVIOUS
  <2>3. job'[c] = <<f>> /\ ask'[c] = ask[c] /\ Renaming(c)' = f
    BY <1>1, <2>1, <2>2, GoesOn
  <2>4. Consists(job[c], Renaming(c), <<>>)'
    BY <2>3 DEF Consists
  <2>5. Follows(c, SidecarTier(ask[c].new), toml)'
    BY <1>3, <2>1, <2>3 DEF Follows
  <2>6. RenamesFile(c)'
    BY <1>1, <1>3, <2>1, <2>3, <2>4, <2>5 DEF RenamesFile
  <2>7. QED  BY <2>6 DEF OnTheWay
<1>4. CASE /\ Consists(job[c], Renaming(c), <<>>)
           /\ \/ /\ ask[c].new \in sources
                 /\ Follows(c, SidecarTier(ask[c].new), toml)
              \/ /\ ask[c].new \in Names \ sources
                 /\ IsBatch(toml, ask[c].table)
                 /\ Follows(c, toml.tiers[BatchSlot(ask[c].table)], toml)
  <2>1. PICK e : e = Renaming(c)
    OBVIOUS
  <2>2. e.do = "edit" /\ e.file = TomlFile
    BY <2>1 DEF Renaming, RenameEdit
  <2>3. PICK k : k = EditedToml(e)
    OBVIOUS
  <2>4. /\ UNCHANGED <<sources, toml, sidecar, plugins>>
        /\ \E calls : Go(c, calls) /\ Consists(calls, Writing("write", TomlFile, k), <<>>)
    BY <1>1, <1>4, <2>1, <2>2, <2>3, EditStep
  <2>5. PICK calls : Go(c, calls) /\ Consists(calls, Writing("write", TomlFile, k), <<>>)
    BY <2>4
  <2>6. job'[c] = calls /\ ask'[c] = ask[c]
    BY <1>1, <2>5, GoesOn
  <2>7. IsToml(toml) /\ ask[c].new \notin DOMAIN toml.members
    BY <1>4 DEF Typed, FilesTyped, Follows
  <2>8. /\ \A own : SettingsIn(k, own, ask[c].new) = SettingsIn(toml, own, ask[c].table)
        /\ IsBatch(toml, ask[c].table) =>
              /\ IsBatch(k, ask[c].new)
              /\ k.tiers[BatchSlot(ask[c].new)] = toml.tiers[BatchSlot(ask[c].table)]
    BY <2>1, <2>3, <2>7, RenamedToml DEF Renaming
  <2>9. Arrived(c, k)
    BY <1>1, <1>4, <2>8 DEF Arrived, Follows
  <2>10. Arrived(c, k)'
    BY <2>4, <2>6, <2>9, ArrivedDepends
  <2>11. Consists(job[c], Writing("write", TomlFile, k), <<>>)'
    BY <2>5, <2>6 DEF Consists, Writing, TomlFile
  <2>12. Arriving(c)'
    BY <2>10, <2>11 DEF Arriving
  <2>13. QED  BY <2>12 DEF OnTheWay
<1>5. QED  BY <1>2, <1>3, <1>4 DEF RenamesFile, RenamesBatch

\* The last content is written, or the client is done.
LEMMA ArrivingStep ==
    ASSUME Typed, NEW c \in Clients, Step(c), Arriving(c), IsNaming(c), IsNaming(c)'
    PROVE  OnTheWay(c)'
<1>1. ask[c].what \in {"rename", "clone"}
  BY DEF IsNaming
<1>2. job[c] # <<>>
  BY StepByCall DEF Idle
<1>3. PICK k, do : /\ do \in {"write", "fill"}
                   /\ Consists(job[c], Writing(do, TomlFile, k), <<>>)
                   /\ Arrived(c, k)
  BY <1>2 DEF Arriving
<1>4. CASE do = "write"
  <2>1. /\ \E calls : Go(c, calls) /\ Consists(calls, Writing("fill", TomlFile, k), <<>>)
        /\ UNCHANGED <<sources, sidecar>>
    BY <1>3, <1>4, TruncateStep, FileKinds
  <2>2. PICK calls : Go(c, calls) /\ Consists(calls, Writing("fill", TomlFile, k), <<>>)
    BY <2>1
  <2>3. job'[c] = calls /\ ask'[c] = ask[c]
    BY <1>1, <2>2, GoesOn
  <2>4. Arrived(c, k)'
    BY <1>3, <2>1, <2>3, ArrivedDepends
  <2>5. Consists(job[c], Writing("fill", TomlFile, k), <<>>)'
    BY <2>2, <2>3 DEF Consists, Writing, TomlFile
  <2>6. Arriving(c)'
    BY <2>4, <2>5 DEF Arriving
  <2>7. QED  BY <2>6 DEF OnTheWay
<1>5. CASE do = "fill"
  <2>1. Go(c, <<>>) /\ Becomes(TomlFile, k) /\ sources' = sources
    BY <1>3, <1>5, FillStep
  <2>2. toml' = k /\ sidecar' = sidecar
    BY <2>1, FileKinds DEF Becomes
  <2>3. job'[c] = <<>> /\ ask'[c] = ask[c]
    BY <1>1, <2>1, GoesOn
  <2>4. Arrived(c, k)'
    BY <1>3, <2>1, <2>2, <2>3, ArrivedDepends
  <2>5. Arrived(c, toml)'
    BY <2>2, <2>4 DEF Arrived
  <2>6. Arriving(c)'
    BY <2>3, <2>5 DEF Arriving
  <2>7. QED  BY <2>6 DEF OnTheWay
<1>6. QED  BY <1>3, <1>4, <1>5

\* The files of a clone are there: what is left is the cluster, or nothing.
LEMMA CopiedFiles ==
    ASSUME NEW c \in Clients, NEW rest, Afterwards(c, toml, rest)', (job[c] = rest)',
           ask'[c].what = "clone", ask'[c].new \in sources',
           Follows(c, SidecarTier(ask[c].new), toml)'
    PROVE  OnTheWay(c)'
<1>1. CASE rest # <<>>
  <2>1. ClonesFiles(c)'
    BY <1>1 DEF ClonesFiles
  <2>2. QED  BY <2>1 DEF OnTheWay
<1>2. CASE rest = <<>>
  <2>1. MetasResolve(toml)' => ask'[c].table \notin DOMAIN toml'.members
    BY <1>2 DEF Afterwards, Consists
  <2>2. MetasResolve(toml)' => ClusterTier(toml, ask[c].table)' = ClusterTier(toml, ask[c].new)'
    BY <2>1 DEF ClusterTier, Follows
  <2>3. Arrived(c, toml)'
    BY <2>2 DEF Arrived, Follows, SettingsIn
  <2>4. Arriving(c)'
    BY <1>2, <2>3 DEF Arriving
  <2>5. QED  BY <2>4 DEF OnTheWay
<1>3. QED  BY <1>1, <1>2

\* The files of a clone are copied one after the other.
LEMMA ClonesFilesStep ==
    ASSUME Typed, NEW c \in Clients, Step(c), ClonesFiles(c), IsNaming(c)'
    PROVE  OnTheWay(c)'
<1>1. ask[c].what = "clone" /\ ~Raise(c)
  BY RaiseForgets DEF ClonesFiles
<1>2. PICK rest : /\ Afterwards(c, toml, rest)
         /\ \/ /\ \E more : /\ Consists(job[c], Naming(c, "copy"), more)
                           /\ Consists(more, Naming(c, "copy_sidecar"), rest)
               /\ SidecarsFollow(c) /\ Follows(c, SidecarTier(ask[c].table), toml)
            \/ /\ Consists(job[c], Naming(c, "copy_sidecar"), rest)
               /\ ask[c].new \in sources
               /\ SidecarsFollow(c) /\ Follows(c, SidecarTier(ask[c].table), toml)
            \/ \E x, do : /\ do \in {"write", "fill"}
                          /\ Consists(job[c], Writing(do, SidecarFile(ask[c].new), x), rest)
                          /\ ask[c].new \in sources
                          /\ Follows(c, x, toml)
            \/ /\ job[c] = rest /\ rest # <<>>
               /\ ask[c].new \in sources
               /\ Follows(c, SidecarTier(ask[c].new), toml)
  BY DEF ClonesFiles
<1>3. CASE /\ \E more : /\ Consists(job[c], Naming(c, "copy"), more)
                        /\ Consists(more, Naming(c, "copy_sidecar"), rest)
           /\ SidecarsFollow(c) /\ Follows(c, SidecarTier(ask[c].table), toml)
  <2>1. PICK more : /\ Consists(job[c], Naming(c, "copy"), more)
                    /\ Consists(more, Naming(c, "copy_sidecar"), rest)
    BY <1>3
  <2>2. ask[c].new \in sources' /\ Go(c, more) /\ UNCHANGED <<toml, sidecar, plugins>>
    BY <1>1, <2>1, MoveStep
  <2>3. /\ job'[c] = more /\ ask'[c] = ask[c]
        /\ Naming(c, "copy_sidecar")' = Naming(c, "copy_sidecar")
        /\ Afterwards(c, toml, rest)'
    BY <1>1, <1>2, <2>2, GoesOn
  <2>4. Consists(job[c], Naming(c, "copy_sidecar"), rest)'
    BY <2>1, <2>3 DEF Consists
  <2>5. SidecarsFollow(c)' /\ SidecarTier(ask[c].table)' = SidecarTier(ask[c].table)
    BY <1>3, <2>2, <2>3 DEF SidecarsFollow, SidecarTier
  <2>6. Follows(c, SidecarTier(ask[c].table), toml)'
    BY <1>3, <2>2, <2>3, <2>5 DEF Follows
  <2>7. ClonesFiles(c)'
    BY <1>1, <2>2, <2>3, <2>4, <2>5, <2>6 DEF ClonesFiles
  <2>8. QED  BY <2>7 DEF OnTheWay
<1>4. CASE /\ Consists(job[c], Naming(c, "copy_sidecar"), rest)
           /\ ask[c].new \in sources
           /\ SidecarsFollow(c) /\ Follows(c, SidecarTier(ask[c].table), toml)
  <2>1. PICK e : e = Naming(c, "copy_sidecar")
    OBVIOUS
  <2>2. /\ Call(c) = e /\ e.do = "copy_sidecar" /\ e.old = ask[c].table /\ e.new = ask[c].new
        /\ Tail(job[c]) = rest /\ IsJob(rest)
    BY <1>4, <2>1, JobParts DEF Consists, Call, Naming, Typed, ClientsTyped
  <2>3. CopySidecar(c)
    BY <2>2, StepByCall
  <2>4. UNCHANGED <<sources, toml, sidecar, plugins>>
    BY <2>3 DEF CopySidecar, Reads, disk
  <2>5. CASE ask[c].table \in DOMAIN sidecar
    <3>1. PICK x : x = sidecar[ask[c].table]
      OBVIOUS
    <3>2. PICK w : w = Writing("write", SidecarFile(ask[c].new), x)
      OBVIOUS
    <3>3. Go(c, <<w>> \o rest)
      BY <2>2, <2>3, <2>5, <3>1, <3>2 DEF CopySidecar, Writing
    <3>4. Consists(<<w>> \o rest, w, rest)
      BY <2>2, NextCall
    <3>5. job'[c] = <<w>> \o rest /\ ask'[c] = ask[c] /\ Afterwards(c, toml, rest)'
      BY <1>1, <1>2, <2>4, <3>3, GoesOn
    <3>6. Consists(job[c], Writing("write", SidecarFile(ask[c].new), x), rest)'
      BY <3>2, <3>4, <3>5 DEF Consists, Writing, SidecarFile
    <3>7. Follows(c, x, toml)'
      BY <1>4, <2>4, <2>5, <3>1, <3>5 DEF Follows, SidecarTier
    <3>8. ClonesFiles(c)'
      BY <1>1, <1>4, <2>4, <3>5, <3>6, <3>7 DEF ClonesFiles
    <3>9. QED  BY <3>8 DEF OnTheWay
  <2>6. CASE ask[c].table \notin DOMAIN sidecar
    <3>1. Go(c, <<>> \o rest) /\ <<>> \o rest = rest
      BY <2>2, <2>3, <2>6, NothingBefore DEF CopySidecar
    <3>2. job'[c] = rest /\ ask'[c] = ask[c] /\ Afterwards(c, toml, rest)'
      BY <1>1, <1>2, <2>4, <3>1, GoesOn
    <3>3. SidecarTier(ask[c].new)' = SidecarTier(ask[c].table)
      BY <1>4, <2>4, <2>6, <3>2 DEF SidecarTier, SidecarsFollow
    <3>4. Follows(c, SidecarTier(ask[c].new), toml)'
      BY <1>4, <2>4, <3>2, <3>3 DEF Follows
    <3>5. QED  BY <1>1, <1>4, <2>4, <3>2, <3>4, CopiedFiles
  <2>7. QED  BY <2>5, <2>6
<1>5. CASE \E x, do : /\ do \in {"write", "fill"}
                     /\ Consists(job[c], Writing(do, SidecarFile(ask[c].new), x), rest)
                     /\ ask[c].new \in sources
                     /\ Follows(c, x, toml)
  <2>1. PICK x, do : /\ do \in {"write", "fill"}
                     /\ Consists(job[c], Writing(do, SidecarFile(ask[c].new), x), rest)
                     /\ ask[c].new \in sources
                     /\ Follows(c, x, toml)
    BY <1>5
  <2>2. SidecarFile(ask[c].new) # TomlFile
    BY FileKinds
  <2>3. CASE do = "write"
    <3>1. /\ \E calls : Go(c, calls) /\ Consists(calls, Writing("fill", SidecarFile(ask[c].new), x), rest)
          /\ UNCHANGED <<sources, toml>>
      BY <2>1, <2>2, <2>3, TruncateStep
    <3>2. PICK calls : Go(c, calls) /\ Consists(calls, Writing("fill", SidecarFile(ask[c].new), x), rest)
      BY <3>1
    <3>3. job'[c] = calls /\ ask'[c] = ask[c] /\ Afterwards(c, toml, rest)'
      BY <1>1, <1>2, <3>1, <3>2, GoesOn
    <3>4. Consists(job[c], Writing("fill", SidecarFile(ask[c].new), x), rest)'
      BY <3>2, <3>3 DEF Consists, Writing, SidecarFile
    <3>5. Follows(c, x, toml)'
      BY <2>1, <3>1, <3>3 DEF Follows
    <3>6. ClonesFiles(c)'
      BY <1>1, <2>1, <3>1, <3>3, <3>4, <3>5 DEF ClonesFiles
    <3>7. QED  BY <3>6 DEF OnTheWay
  <2>4. CASE do = "fill"
    <3>1. Go(c, rest) /\ Becomes(SidecarFile(ask[c].new), x) /\ sources' = sources
      BY <2>1, <2>4, FillStep
    <3>2. toml' = toml /\ sidecar' = Put(sidecar, ask[c].new, x)
      BY <2>2, <3>1, FileKinds DEF Becomes
    <3>3. job'[c] = rest /\ ask'[c] = ask[c] /\ Afterwards(c, toml, rest)'
      BY <1>1, <1>2, <3>1, <3>2, GoesOn
    <3>4. SidecarTier(ask[c].new)' = x
      BY <3>2, <3>3 DEF SidecarTier, Put
    <3>5. Follows(c, SidecarTier(ask[c].new), toml)'
      BY <2>1, <3>2, <3>3, <3>4 DEF Follows
    <3>6. QED  BY <1>1, <2>1, <3>1, <3>3, <3>5, CopiedFiles
  <2>5. QED  BY <2>1, <2>3, <2>4
<1>6. CASE /\ job[c] = rest /\ rest # <<>>
           /\ ask[c].new \in sources
           /\ Follows(c, SidecarTier(ask[c].new), toml)
  <2>1. PICK j : j = Joining(c, Head(toml.members[ask[c].table]))
    OBVIOUS
  <2>2. Consists(job[c], Tagging, <<j>>) /\ ask[c].table \in DOMAIN toml.members
    BY <1>2, <1>6, <2>1 DEF Afterwards
  <2>3. Tagging.do = "edit" /\ Tagging.file = TomlFile /\ Tagging.how = "tags"
    BY DEF Tagging
  <2>4. EditedToml(Tagging) = toml
    BY <2>3 DEF EditedToml
  <2>5. /\ UNCHANGED <<sources, toml, sidecar, plugins>>
        /\ \E calls : Go(c, calls) /\ Consists(calls, Writing("write", TomlFile, toml), <<j>>)
    BY <1>1, <2>2, <2>3, <2>4, EditStep
  <2>6. PICK calls : Go(c, calls) /\ Consists(calls, Writing("write", TomlFile, toml), <<j>>)
    BY <2>5
  <2>7. job'[c] = calls /\ ask'[c] = ask[c] /\ Joining(c, Head(toml.members[ask[c].table]))' = j
    BY <1>1, <2>1, <2>5, <2>6, GoesOn
  <2>8. Consists(job[c], Writing("write", TomlFile, toml), <<j>>)'
    BY <2>5, <2>6, <2>7 DEF Consists, Writing, TomlFile
  <2>9. Follows(c, SidecarTier(ask[c].new), toml)'
    BY <1>6, <2>5, <2>7 DEF Follows, SidecarTier
  <2>10. ClonesCluster(c)'
    BY <1>1, <1>6, <2>2, <2>5, <2>7, <2>8, <2>9 DEF ClonesCluster
  <2>11. QED  BY <2>10 DEF OnTheWay
<1>7. QED  BY <1>2, <1>3, <1>4, <1>5, <1>6

\* A clone is entered under the cluster of the original.
LEMMA ClonesClusterStep ==
    ASSUME Typed, NEW c \in Clients, Step(c), ClonesCluster(c), IsNaming(c)'
    PROVE  OnTheWay(c)'
<1>1. ask[c].what = "clone" /\ ~Raise(c) /\ ask[c].new \in sources
  BY RaiseForgets DEF ClonesCluster
<1>2. PICK k : /\ ask[c].table \in DOMAIN k.members
               /\ Follows(c, SidecarTier(ask[c].new), k)
               /\ LET join == Joining(c, Head(k.members[ask[c].table])) IN
                  \/ \E do \in {"write", "fill"} :
                         Consists(job[c], Writing(do, TomlFile, k), <<join>>)
                  \/ k = toml /\ Consists(job[c], join, <<>>)
  BY DEF ClonesCluster
<1>3. PICK j : j = Joining(c, Head(k.members[ask[c].table]))
  OBVIOUS
<1>4. CASE Consists(job[c], Writing("write", TomlFile, k), <<j>>)
  <2>1. /\ \E calls : Go(c, calls) /\ Consists(calls, Writing("fill", TomlFile, k), <<j>>)
        /\ UNCHANGED <<sources, sidecar>>
    BY <1>4, TruncateStep, FileKinds
  <2>2. PICK calls : Go(c, calls) /\ Consists(calls, Writing("fill", TomlFile, k), <<j>>)
    BY <2>1
  <2>3. /\ job'[c] = calls /\ ask'[c] = ask[c]
        /\ Joining(c, Head(k.members[ask[c].table]))' = j
    BY <1>1, <1>3, <2>2, GoesOn
  <2>4. Consists(job[c], Writing("fill", TomlFile, k), <<j>>)'
    BY <2>2, <2>3 DEF Consists, Writing, TomlFile
  <2>5. Follows(c, SidecarTier(ask[c].new), k)'
    BY <1>2, <2>1, <2>3 DEF Follows, SidecarTier, SettingsIn
  <2>6. ClonesCluster(c)'
    BY <1>1, <1>2, <2>1, <2>3, <2>4, <2>5 DEF ClonesCluster
  <2>7. QED  BY <2>6 DEF OnTheWay
<1>5. CASE Consists(job[c], Writing("fill", TomlFile, k), <<j>>)
  <2>1. Go(c, <<j>>) /\ Becomes(TomlFile, k) /\ sources' = sources
    BY <1>5, FillStep
  <2>2. toml' = k /\ sidecar' = sidecar
    BY <2>1, FileKinds DEF Becomes
  <2>3. /\ job'[c] = <<j>> /\ ask'[c] = ask[c]
        /\ Joining(c, Head(k.members[ask[c].table]))' = j
    BY <1>1, <1>3, <2>1, GoesOn
  <2>4. Consists(job[c], j, <<>>)'
    BY <2>3 DEF Consists
  <2>5. Follows(c, SidecarTier(ask[c].new), k)'
    BY <1>2, <2>2, <2>3 DEF Follows, SidecarTier, SettingsIn
  <2>6. ClonesCluster(c)'
    BY <1>1, <1>2, <2>1, <2>2, <2>3, <2>4, <2>5 DEF ClonesCluster, Consists
  <2>7. QED  BY <2>6 DEF OnTheWay
<1>6. CASE k = toml /\ Consists(job[c], j, <<>>)
  <2>1. PICK cl : cl = Head(toml.members[ask[c].table])
    OBVIOUS
  <2>2. j.do = "edit" /\ j.file = TomlFile /\ j.how = "cluster" /\ j.table = ask[c].new /\ j.cluster = cl
    BY <1>3, <1>6, <2>1 DEF Joining
  <2>3. PICK n : n = EditedToml(j)
    OBVIOUS
  <2>4. /\ UNCHANGED <<sources, toml, sidecar, plugins>>
        /\ \E calls : Go(c, calls) /\ Consists(calls, Writing("write", TomlFile, n), <<>>)
    BY <1>1, <1>6, <2>2, <2>3, EditStep
  <2>5. PICK calls : Go(c, calls) /\ Consists(calls, Writing("write", TomlFile, n), <<>>)
    BY <2>4
  <2>6. job'[c] = calls /\ ask'[c] = ask[c]
    BY <1>1, <2>5, GoesOn
  <2>7. Consists(job[c], Writing("write", TomlFile, n), <<>>)'
    BY <2>5, <2>6 DEF Consists, Writing, TomlFile
  <2>8. cl # NoCluster
    <3>1. toml.members[ask[c].table] \in Seq(Declared(toml)) \ {<<>>}
      BY <1>2, <1>6, TomlDef DEF Typed, FilesTyped
    <3>2. cl \in Declared(toml)
      BY <2>1, <3>1
    <3>3. QED  BY <3>2, PreparationAssumption DEF Declared
  <2>9. ask[c].new \notin DOMAIN toml.members
    BY <1>2, <1>6 DEF Follows
  <2>10. <<cl>> \o <<>> = <<cl>> /\ <<cl>> # <<>>
    OBVIOUS
  <2>11. WithCluster(toml.members, ask[c].new, cl) = Put(toml.members, ask[c].new, <<cl>>)
    BY <2>8, <2>9, <2>10 DEF WithCluster
  <2>12. toml = [tiers |-> toml.tiers, members |-> toml.members]
    BY TomlDef DEF Typed, FilesTyped
  <2>13. n = [tiers |-> toml.tiers, members |-> Put(toml.members, ask[c].new, <<cl>>)]
    BY <2>2, <2>3, <2>11, <2>12 DEF EditedToml
  <2>14. ask[c].new \in DOMAIN n.members /\ Head(n.members[ask[c].new]) = cl
    BY <2>13 DEF Put
  <2>15. ClusterTier(n, ask[c].new) = ClusterTier(toml, ask[c].table)
    BY <1>2, <1>6, <2>1, <2>13, <2>14 DEF ClusterTier
  <2>16. Arrived(c, n)
    BY <1>1, <1>2, <1>6, <2>13, <2>15 DEF Arrived, Follows, SettingsIn
  <2>17. Arrived(c, n)'
    BY <2>4, <2>6, <2>16, ArrivedDepends
  <2>18. Arriving(c)'
    BY <2>7, <2>17 DEF Arriving
  <2>19. QED  BY <2>18 DEF OnTheWay
<1>7. QED  BY <1>2, <1>3, <1>4, <1>5, <1>6

\* The entry of a batch table is written again under the new name.
LEMMA ClonesBatchStep ==
    ASSUME Typed, NEW c \in Clients, Step(c), ClonesBatch(c), IsNaming(c)'
    PROVE  OnTheWay(c)'
<1>1. /\ ask[c].what = "clone" /\ ~Raise(c)
      /\ ask[c].new \in Names \ sources /\ ask[c].new \notin DOMAIN toml.members
  BY RaiseForgets DEF ClonesBatch
<1>2. PICK x : /\ Consists(job[c], Creating(c, x), <<>>)
               /\ ask[c].was = Nearest(<<x, toml.tiers[Global]>>)
  BY DEF ClonesBatch
<1>3. PICK e : e = Creating(c, x)
  OBVIOUS
<1>4. /\ e.do = "edit" /\ e.file = TomlFile /\ e.how = "create"
      /\ e.table = ask[c].new /\ e.new = x
  BY <1>3 DEF Creating
<1>5. PICK k : k = EditedToml(e)
  OBVIOUS
<1>6. /\ UNCHANGED <<sources, toml, sidecar, plugins>>
      /\ \E calls : Go(c, calls) /\ Consists(calls, Writing("write", TomlFile, k), <<>>)
  BY <1>1, <1>2, <1>3, <1>4, <1>5, EditStep
<1>7. PICK calls : Go(c, calls) /\ Consists(calls, Writing("write", TomlFile, k), <<>>)
  BY <1>6
<1>8. job'[c] = calls /\ ask'[c] = ask[c]
  BY <1>1, <1>7, GoesOn
<1>9. Consists(job[c], Writing("write", TomlFile, k), <<>>)'
  BY <1>7, <1>8 DEF Consists, Writing, TomlFile
<1>10. PICK ts : ts = Put(toml.tiers, BatchSlot(ask[c].new), x)
  OBVIOUS
<1>11. toml = [tiers |-> toml.tiers, members |-> toml.members]
  BY TomlDef DEF Typed, FilesTyped
<1>12. k = [tiers |-> ts, members |-> toml.members]
  BY <1>4, <1>5, <1>10, <1>11 DEF EditedToml
<1>13. /\ IsBatch(k, ask[c].new) /\ k.tiers[BatchSlot(ask[c].new)] = x
       /\ k.tiers[Global] = toml.tiers[Global]
  BY <1>10, <1>12, SlotKinds, TomlDef DEF IsBatch, Put, Typed, FilesTyped
<1>14. ClusterTier(k, ask[c].new) = EmptyMap
  BY <1>1, <1>12 DEF ClusterTier
<1>15. ask[c].was = SettingsIn(k, x, ask[c].new)
  BY <1>2, <1>13, <1>14, NearestOfTwo DEF SettingsIn
<1>16. Arrived(c, k)
  BY <1>1, <1>13, <1>15 DEF Arrived
<1>17. Arrived(c, k)'
  BY <1>6, <1>8, <1>16, ArrivedDepends
<1>18. Arriving(c)'
  BY <1>9, <1>17 DEF Arriving
<1>19. QED  BY <1>18 DEF OnTheWay

\* Every step keeps what is known of the new names.
LEMMA NamesFollowStep ==
    ASSUME Typed, NamesFollow, [Next]_vars
    PROVE  NamesFollow'
<1>1. SUFFICES ASSUME NEW c \in Clients, IsNaming(c)' PROVE OnTheWay(c)'
  BY DEF NamesFollow
<1>2. CASE UNCHANGED <<disk, job, ask, alone>>
  <2>1. IsNaming(c)
    BY <1>1, <1>2 DEF IsNaming
  <2>2. OnTheWay(c)
    BY <2>1 DEF NamesFollow
  <2>3. QED  BY <1>2, <2>2, OnTheWayDepends
<1>3. ASSUME NEW d \in Clients, Ask(d) \/ Step(d), d # c
      PROVE  OnTheWay(c)'
  <2>1. /\ UNCHANGED disk /\ alone'[c] = alone[c]
        /\ job'[c] = job[c] /\ ask'[c] = ask[c]
    BY <1>1, <1>3, OthersStep DEF IsNaming
  <2>2. OnTheWay(c)
    BY <1>1, <2>1 DEF NamesFollow, IsNaming
  <2>3. QED  BY <2>1, <2>2, OnTheWayDepends
<1>4. CASE Ask(c)
  <2>1. PICK a, calls : Request(c, a, calls) /\ (a.what \in {"rename", "clone"} => NewName(c))
    BY <1>4, AskIsRequest
  <2>2. ask'[c] = a
    BY <2>1 DEF Request, Typed, ClientsTyped
  <2>3. NewName(c)
    BY <1>1, <2>1, <2>2 DEF IsNaming
  <2>4. QED  BY <1>1, <2>3, NewNameStarts
<1>5. CASE Step(c)
  <2>1. IsNaming(c)
    <3>1. CASE Raise(c)
      BY <1>1, <3>1 DEF Raise, IsNaming, Typed, ClientsTyped, NoAsk
    <3>2. ASSUME NEW calls, Go(c, calls) PROVE ask'[c] \in {ask[c], NoAsk}
      BY <3>2 DEF Go, Typed, ClientsTyped
    <3>3. ASSUME Touches(c) \/ \E h : Reads(c, h) PROVE alone'[c] => alone[c]
      BY <3>3 DEF Touches, Reads
    <3>4. QED  BY <1>1, <1>5, <3>1, <3>2, <3>3, StepKinds DEF IsNaming, NoAsk
  <2>2. OnTheWay(c)
    BY <2>1 DEF NamesFollow
  <2>3. QED  BY <1>1, <1>5, <2>1, <2>2, RenamesStep, ClonesFilesStep, ClonesClusterStep,
                ClonesBatchStep, ArrivingStep DEF OnTheWay
<1>6. QED  BY <1>2, <1>3, <1>4, <1>5 DEF Next, vars, disk

\* A table that was renamed or cloned has the settings of the original, if nobody else has
\* changed a file meanwhile: rename_table and clone_table take along the source, the
\* sidecar, the [[batch_table]] entry and the cluster, in several accesses to the files.
THEOREM NamesKeepSettings == Spec => []SettingsFollow
<1>1. Init => Typed /\ NamesFollow
  <2>1. Init => NamesFollow
    BY DEF Init, NamesFollow, IsNaming, NoAsk
  <2>2. QED  BY <2>1, TypedInit
<1>2. Typed /\ NamesFollow /\ [Next]_vars => (Typed /\ NamesFollow)'
  BY TypedStep, NamesFollowStep
<1>3. Typed /\ NamesFollow => SettingsFollow
  BY NamesFollowMeans
<1>4. QED  BY <1>1, <1>2, <1>3, PTL DEF Spec

\* Induction on naturals, over a set instead of an operator.
LEMMA SetInduction ==
    ASSUME NEW S \in SUBSET Nat, 0 \in S, \A n \in S : n + 1 \in S
    PROVE  \A n \in Nat : n \in S
<1> DEFINE Others == {1..n : n \in Nat \ S}
<1> SUFFICES ASSUME Nat \ S # {} PROVE FALSE
  OBVIOUS
<1>1. Others \subseteq FiniteSubsetsOf(Nat) /\ Others # {}
  <2>1. \A n \in Nat : 1..n \in SUBSET Nat /\ IsFiniteSet(1..n)
    BY FS_Interval
  <2>2. QED  BY <2>1 DEF FiniteSubsetsOf
<1>2. PICK x \in Others : \A y \in Others : ~(<<y, x>> \in StrictSubsetOrdering(Nat))
  BY <1>1, WFMin, FS_StrictSubsetOrderingWellFounded
<1>3. PICK n \in Nat \ S : x = 1..n
  BY <1>2
<1>4. n # 0 /\ n - 1 \in Nat \ S
  OBVIOUS
<1>5. 1..(n - 1) \in Others
  BY <1>4
<1>6. <<1..(n - 1), 1..n>> \in StrictSubsetOrdering(Nat)
  <2>1. 1..(n - 1) \subseteq 1..n /\ n \in 1..n /\ n \notin 1..(n - 1)
    BY <1>4
  <2>2. QED  BY <2>1, <1>4 DEF StrictSubsetOrdering
<1>7. QED  BY <1>2, <1>3, <1>5, <1>6

\* A set of naturals has a least element.
LEMMA NatLeast ==
    ASSUME NEW S \in SUBSET Nat, S # {}
    PROVE  \E n \in S : \A m \in S : n <= m
<1> DEFINE T == {n \in Nat : \A m \in S : n <= m}
<1>1. SUFFICES ASSUME \A n \in S : \E m \in S : ~(n <= m) PROVE FALSE
  OBVIOUS
<1>2. 0 \in T
  OBVIOUS
<1>3. ASSUME NEW n \in T PROVE n + 1 \in T
  <2>1. n \notin S
    BY <1>1
  <2>2. \A m \in S : n <= m /\ n # m
    BY <2>1
  <2>3. QED  BY <2>2
<1>4. PICK m : m \in S
  OBVIOUS
<1>5. T \in SUBSET Nat
  OBVIOUS
<1> HIDE DEF T
<1>6. m + 1 \in T
  BY <1>2, <1>3, <1>4, <1>5, SetInduction
<1>7. QED  BY <1>4, <1>6 DEF T

-----------------------------------------------------------------------------
(* Registration.                                                           *)

\* The first n steps of RegisterAll.
Registering(f, n, reg, ps) ==
    f = [m \in 0..n |-> IF m = 0 THEN reg ELSE Register(f[m - 1], ps[m])]

\* There is one registry after each of the steps.
LEMMA RegisteringExists ==
    ASSUME NEW reg, NEW ps
    PROVE  \A n \in Nat : \E f : Registering(f, n, reg, ps)
<1> DEFINE T == {n \in Nat : \E f : Registering(f, n, reg, ps)}
<1>1. 0 \in T
  <2>1. PICK f : f = [m \in 0..0 |-> reg]
    OBVIOUS
  <2>2. \A m \in 0..0 : m = 0
    OBVIOUS
  <2>3. Registering(f, 0, reg, ps)
    BY <2>1, <2>2 DEF Registering
  <2>4. QED  BY <2>3
<1>2. ASSUME NEW n \in T PROVE n + 1 \in T
  <2>1. PICK f : Registering(f, n, reg, ps)
    BY <1>2
  <2>2. PICK next : next = Register(f[n], ps[n + 1])
    OBVIOUS
  <2>3. PICK g : g = [m \in 0..(n + 1) |-> IF m = n + 1 THEN next ELSE f[m]]
    OBVIOUS
  <2>4. \A m \in 0..n : g[m] = f[m]
    BY <2>3
  <2>5. ASSUME NEW m \in 0..(n + 1) PROVE g[m] = IF m = 0 THEN reg ELSE Register(g[m - 1], ps[m])
    <3>1. CASE m = n + 1
      <4>1. g[m] = next /\ m # 0 /\ m - 1 = n /\ n \in 0..n
        BY <2>3, <3>1
      <4>2. QED  BY <2>2, <2>4, <3>1, <4>1
    <3>2. CASE m # n + 1
      <4>1. m \in 0..n
        BY <3>2
      <4>2. f[m] = IF m = 0 THEN reg ELSE Register(f[m - 1], ps[m])
        BY <2>1, <4>1 DEF Registering
      <4>3. m # 0 => m - 1 \in 0..n
        BY <4>1
      <4>4. QED  BY <4>1, <4>2, <4>3, <2>4
    <3>3. QED  BY <3>1, <3>2
  <2>6. Registering(g, n + 1, reg, ps)
    BY <2>3, <2>5 DEF Registering
  <2>7. QED  BY <2>6
<1> HIDE DEF T
<1>3. T \in SUBSET Nat
  BY DEF T
<1>4. \A n \in Nat : n \in T
  BY <1>1, <1>2, <1>3, SetInduction
<1>5. QED  BY <1>4 DEF T

\* RegisterAll is the last of these steps.
LEMMA RegisterAllDef ==
    ASSUME NEW reg, NEW ps, Len(ps) \in Nat
    PROVE  \E f : Registering(f, Len(ps), reg, ps) /\ RegisterAll(reg, ps) = f[Len(ps)]
<1>1. PICK f : f = CHOOSE g : Registering(g, Len(ps), reg, ps)
  OBVIOUS
<1>2. Registering(f, Len(ps), reg, ps)
  BY <1>1, RegisteringExists
<1>3. RegisterAll(reg, ps) = f[Len(ps)]
  BY <1>1 DEF RegisterAll, Registering
<1>4. QED  BY <1>2, <1>3

\* Plugins are what they are said to be, wherever they are offered.
FilesAre(files) == \A f \in DOMAIN files : IsPluginFile(f, files[f])

\* What a file offers are plugins.
LEMMA OfferingsArePlugins ==
    ASSUME NEW files, FilesAre(files), NEW i
    PROVE  ArePlugins(Offering(files, i))
<1>1. ArePlugins(<<>>)
  BY DEF ArePlugins
<1>2. CASE i = 0
  BY <1>2, PluginShape DEF Offering
<1>3. CASE i # 0
  <2>1. PICK f : f = PluginFiles[i]
    OBVIOUS
  <2>2. CASE f \in DOMAIN files /\ files[f].loads
    <3>1. files[f] \in Contents \cup {EmptyPlugins}
      BY <2>2 DEF FilesAre, IsPluginFile
    <3>2. ArePlugins(files[f].plugins)
      BY <1>1, <3>1, PreparationAssumption DEF EmptyPlugins
    <3>3. QED  BY <1>3, <2>1, <2>2, <3>2 DEF Offering
  <2>3. CASE ~(f \in DOMAIN files /\ files[f].loads)
    BY <1>1, <1>3, <2>1, <2>3 DEF Offering
  <2>4. QED  BY <2>2, <2>3
<1>4. QED  BY <1>2, <1>3

\* The registry after the plugins in these places have been registered, and some files
\* have not loaded.
Registered(reg, files, places, failed) ==
    /\ reg = [of |-> reg.of, failures |-> reg.failures]
    /\ IsFiniteSet(DOMAIN reg.of)
    /\ \A x \in places : Offered(files, x).sound => KeyOf(Offered(files, x)) \in DOMAIN reg.of
    /\ \A k \in DOMAIN reg.of : \E x \in places :
          IsLast(files, places, x) /\ KeyOf(Offered(files, x)) = k /\ reg.of[k] = Offered(files, x)
    /\ reg.failures = failed \cup {KeyOf(Offered(files, x)) : x \in {x \in places : ~Offered(files, x).sound}}

\* One plugin more, after all the others.
LEMMA RegisterOne ==
    ASSUME NEW reg, NEW files, NEW places, NEW failed, Registered(reg, files, places, failed),
           NEW z, \A y \in places \cup {z} : ~After(y, z), \A y \in places : After(z, y),
           Offered(files, z).sound \in BOOLEAN
    PROVE  Registered(Register(reg, Offered(files, z)), files, places \cup {z}, failed)
<1>1. PICK p : p = Offered(files, z)
  OBVIOUS
<1>2. PICK new : new = Register(reg, p)
  OBVIOUS
<1>3. PICK all : all = places \cup {z}
  OBVIOUS
<1>4. reg = [of |-> reg.of, failures |-> reg.failures]
  BY DEF Registered
<1>5. CASE p.sound
  <2>1. new = [of |-> Put(reg.of, KeyOf(p), p), failures |-> reg.failures]
    BY <1>2, <1>4, <1>5 DEF Register
  <2>2. /\ DOMAIN new.of = DOMAIN reg.of \cup {KeyOf(p)} /\ new.of[KeyOf(p)] = p
        /\ \A k \in DOMAIN reg.of : k # KeyOf(p) => new.of[k] = reg.of[k]
    BY <2>1 DEF Put
  <2>3. IsFiniteSet(DOMAIN new.of)
    BY <2>2, FS_AddElement DEF Registered
  <2>4. \A x \in all : Offered(files, x).sound => KeyOf(Offered(files, x)) \in DOMAIN new.of
    BY <1>1, <1>3, <2>2 DEF Registered
  <2>5. ASSUME NEW k \in DOMAIN new.of
        PROVE  \E x \in all : IsLast(files, all, x) /\ KeyOf(Offered(files, x)) = k /\ new.of[k] = Offered(files, x)
    <3>1. CASE k = KeyOf(p)
      <4>1. IsLast(files, all, z)
        BY <1>1, <1>3, <1>5 DEF IsLast
      <4>2. QED  BY <1>1, <1>3, <2>2, <3>1, <4>1
    <3>2. CASE k # KeyOf(p)
      <4>1. PICK x \in places : /\ IsLast(files, places, x) /\ KeyOf(Offered(files, x)) = k
                                /\ reg.of[k] = Offered(files, x)
        BY <2>2, <3>2 DEF Registered
      <4>2. IsLast(files, all, x)
        BY <1>1, <1>3, <3>2, <4>1 DEF IsLast
      <4>3. QED  BY <1>3, <2>2, <3>2, <4>1, <4>2
    <3>3. QED  BY <3>1, <3>2
  <2>6. {x \in all : ~Offered(files, x).sound} = {x \in places : ~Offered(files, x).sound}
    BY <1>1, <1>3, <1>5
  <2>7. new.failures = failed \cup {KeyOf(Offered(files, x)) : x \in {x \in all : ~Offered(files, x).sound}}
    BY <2>1, <2>6 DEF Registered
  <2>8. new = [of |-> new.of, failures |-> new.failures]
    BY <2>1
  <2>9. Registered(new, files, all, failed)
    BY <2>3, <2>4, <2>5, <2>7, <2>8 DEF Registered
  <2>10. QED  BY <1>1, <1>2, <1>3, <2>9
<1>6. CASE ~p.sound
  <2>1. new = [of |-> reg.of, failures |-> reg.failures \cup {KeyOf(p)}]
    BY <1>2, <1>4, <1>6 DEF Register
  <2>2. \A x \in all : Offered(files, x).sound => KeyOf(Offered(files, x)) \in DOMAIN new.of
    BY <1>1, <1>3, <1>6, <2>1 DEF Registered
  <2>3. ASSUME NEW k \in DOMAIN new.of
        PROVE  \E x \in all : IsLast(files, all, x) /\ KeyOf(Offered(files, x)) = k /\ new.of[k] = Offered(files, x)
    <3>1. PICK x \in places : /\ IsLast(files, places, x) /\ KeyOf(Offered(files, x)) = k
                              /\ reg.of[k] = Offered(files, x)
      BY <2>1 DEF Registered
    <3>2. IsLast(files, all, x)
      BY <1>1, <1>3, <1>6, <3>1 DEF IsLast
    <3>3. QED  BY <1>3, <2>1, <3>1, <3>2
  <2>4. {x \in all : ~Offered(files, x).sound} = {x \in places : ~Offered(files, x).sound} \cup {z}
    BY <1>1, <1>3, <1>6
  <2>5. new.failures = failed \cup {KeyOf(Offered(files, x)) : x \in {x \in all : ~Offered(files, x).sound}}
    BY <1>1, <2>1, <2>4 DEF Registered
  <2>6. new = [of |-> new.of, failures |-> new.failures]
    BY <2>1
  <2>7. IsFiniteSet(DOMAIN new.of)
    BY <2>1 DEF Registered
  <2>8. Registered(new, files, all, failed)
    BY <2>2, <2>3, <2>5, <2>6, <2>7 DEF Registered
  <2>9. QED  BY <1>1, <1>2, <1>3, <2>8
<1>7. QED  BY <1>1, <1>5, <1>6

\* All plugins of a file, after those of the files before it.
LEMMA RegisterFile ==
    ASSUME NEW files, FilesAre(files), NEW reg, NEW places \in SUBSET (Nat \X Nat), NEW failed,
           Registered(reg, files, places, failed),
           NEW i \in Nat, \A y \in places : y[1] < i
    PROVE  Registered(RegisterAll(reg, Offering(files, i)), files,
                      places \cup ({i} \X DOMAIN Offering(files, i)), failed)
<1>1. PICK ps : ps = Offering(files, i)
  OBVIOUS
<1>2. ArePlugins(ps)
  BY <1>1, OfferingsArePlugins
<1>3. Len(ps) \in Nat /\ DOMAIN ps = 1..Len(ps) /\ \A k \in DOMAIN ps : ps[k].sound \in BOOLEAN
  BY <1>2 DEF ArePlugins
<1>4. PICK f : Registering(f, Len(ps), reg, ps) /\ RegisterAll(reg, ps) = f[Len(ps)]
  BY <1>3, RegisterAllDef
<1> DEFINE upTo(n) == places \cup ({i} \X (1..n))
           T == {n \in Nat : n <= Len(ps) => Registered(f[n], files, upTo(n), failed)}
<1>5. 0 \in T
  <2>1. f[0] = reg
    BY <1>3, <1>4 DEF Registering
  <2>2. upTo(0) = places
    OBVIOUS
  <2>3. QED  BY <2>1, <2>2
<1>6. ASSUME NEW n \in T PROVE n + 1 \in T
  <2>1. SUFFICES ASSUME n + 1 <= Len(ps) PROVE Registered(f[n + 1], files, upTo(n + 1), failed)
    OBVIOUS
  <2>2. PICK z : z = <<i, n + 1>>
    OBVIOUS
  <2>3. PICK before : before = upTo(n)
    OBVIOUS
  <2>4. Registered(f[n], files, before, failed)
    BY <1>3, <1>6, <2>1, <2>3
  <2>5. Offered(files, z) = ps[n + 1] /\ n + 1 \in DOMAIN ps
    BY <1>1, <1>3, <2>1, <2>2 DEF Offered
  <2>6. f[n + 1] = Register(f[n], Offered(files, z))
    <3>1. n + 1 \in 0..Len(ps) /\ n + 1 # 0 /\ (n + 1) - 1 = n
      BY <1>3, <2>1
    <3>2. QED  BY <1>4, <2>5, <3>1 DEF Registering
  <2>7. upTo(n + 1) = before \cup {z}
    <3>1. 1..(n + 1) = (1..n) \cup {n + 1}
      OBVIOUS
    <3>2. QED  BY <2>2, <2>3, <3>1
  <2>8. \A y \in before : y \in Nat \X Nat /\ (y[1] < i \/ (y[1] = i /\ y[2] < n + 1))
    BY <2>3
  <2>9. \A y \in before : After(z, y) /\ ~After(y, z)
    BY <2>2, <2>8 DEF After
  <2>10. ~After(z, z)
    BY <2>2 DEF After
  <2>11. Offered(files, z).sound \in BOOLEAN
    BY <1>3, <2>5
  <2>12. Registered(Register(f[n], Offered(files, z)), files, before \cup {z}, failed)
    BY <2>4, <2>9, <2>10, <2>11, RegisterOne
  <2>13. QED  BY <2>6, <2>7, <2>12
<1> HIDE DEF T
<1>7. T \in SUBSET Nat
  BY DEF T
<1>8. \A n \in Nat : n \in T
  BY <1>5, <1>6, <1>7, SetInduction
<1>9. Registered(f[Len(ps)], files, upTo(Len(ps)), failed)
  <2>1. PICK n \in Nat : n = Len(ps)
    BY <1>3
  <2>2. n \in T /\ n <= Len(ps)
    BY <1>8, <2>1
  <2>3. QED  BY <2>1, <2>2 DEF T
<1>10. QED  BY <1>1, <1>3, <1>4, <1>9

\* The places of a project.
LEMMA PlacesAre ==
    ASSUME NEW files, FilesAre(files)
    PROVE  /\ Places(files) \subseteq Nat \X Nat
           /\ \A x : x \in Places(files) <=>
                 \E i \in 0..Len(PluginFiles) : \E m \in DOMAIN Offering(files, i) : x = <<i, m>>
           /\ \A x \in Places(files) : Offered(files, x).sound \in BOOLEAN /\ Offered(files, x).name # NoName
<1>1. \A i : DOMAIN Offering(files, i) \subseteq Nat
  <2>1. ASSUME NEW i PROVE DOMAIN Offering(files, i) \subseteq Nat
    <3>1. ArePlugins(Offering(files, i))
      BY OfferingsArePlugins
    <3>2. QED  BY <3>1 DEF ArePlugins
  <2>2. QED  BY <2>1
<1>2. \A x : x \in Places(files) <=>
         \E i \in 0..Len(PluginFiles) : \E m \in DOMAIN Offering(files, i) : x = <<i, m>>
  BY DEF Places
<1>3. Places(files) \subseteq Nat \X Nat
  BY <1>1, <1>2
<1>4. ASSUME NEW x \in Places(files)
      PROVE  Offered(files, x).sound \in BOOLEAN /\ Offered(files, x).name # NoName
  <2>1. PICK i \in 0..Len(PluginFiles) : \E m \in DOMAIN Offering(files, i) : x = <<i, m>>
    BY <1>2
  <2>2. ArePlugins(Offering(files, i))
    BY OfferingsArePlugins
  <2>3. PICK m \in DOMAIN Offering(files, i) : x = <<i, m>>
    BY <2>1
  <2>4. Offered(files, x) = Offering(files, i)[m]
    BY <2>3 DEF Offered
  <2>5. QED  BY <2>2, <2>4 DEF ArePlugins
<1>5. QED  BY <1>2, <1>3, <1>4

-----------------------------------------------------------------------------
(* Loading.                                                                *)

\* The places of the packages and of the files that are not to be loaded any more.
LoadedPlaces(files, fs) == {x \in Places(files) : x[1] = 0 \/ PluginFiles[x[1]] \notin fs}

\* The registry while the files fs are still to be loaded: those before are in it.
LoadedUpTo(reg, files, fs) ==
    /\ fs \subseteq DOMAIN files
    /\ Registered(reg, files, LoadedPlaces(files, fs), {f \in DOMAIN files \ fs : ~files[f].loads})
    /\ \A i, j \in DOMAIN PluginFiles :
          PluginFiles[i] \in fs /\ PluginFiles[j] \in DOMAIN files \ fs => j < i

\* The packages.
LEMMA LoadedInstalled ==
    ASSUME NEW files, FilesAre(files)
    PROVE  LoadedUpTo(LoadInstalled, files, DOMAIN files)
<1>1. PICK reg : reg = EmptyRegistry
  OBVIOUS
<1>2. Registered(reg, files, {}, {})
  <2>1. reg = [of |-> EmptyMap, failures |-> {}] /\ DOMAIN EmptyMap = {}
    BY <1>1 DEF EmptyRegistry, EmptyMap
  <2>2. IsFiniteSet({})
    BY FS_EmptySet
  <2>3. QED  BY <2>1, <2>2 DEF Registered
<1>3. Offering(files, 0) = Installed
  BY DEF Offering
<1>4. Registered(LoadInstalled, files, {} \cup ({0} \X DOMAIN Installed), {})
  BY <1>1, <1>2, <1>3, RegisterFile DEF LoadInstalled
<1>5. LoadedPlaces(files, DOMAIN files) = {0} \X DOMAIN Installed
  <2>1. ASSUME NEW x \in LoadedPlaces(files, DOMAIN files) PROVE x \in {0} \X DOMAIN Installed
    <3>1. PICK i \in 0..Len(PluginFiles) : \E m \in DOMAIN Offering(files, i) : x = <<i, m>>
      BY PlacesAre DEF LoadedPlaces
    <3>2. PICK m \in DOMAIN Offering(files, i) : x = <<i, m>>
      BY <3>1
    <3>3. i = 0
      <4>1. ASSUME i # 0 PROVE FALSE
        <5>1. PluginFiles[i] \notin DOMAIN files
          BY <3>2, <4>1 DEF LoadedPlaces
        <5>2. Offering(files, i) = <<>>
          BY <4>1, <5>1 DEF Offering
        <5>3. QED  BY <3>2, <5>2
      <4>2. QED  BY <4>1
    <3>4. QED  BY <1>3, <3>2, <3>3
  <2>2. ASSUME NEW x \in {0} \X DOMAIN Installed PROVE x \in LoadedPlaces(files, DOMAIN files)
    <3>1. Len(PluginFiles) \in Nat
      BY PluginFilesAreDistinct
    <3>2. PICK m \in DOMAIN Installed : x = <<0, m>>
      BY <2>2
    <3>3. x \in Places(files)
      BY <1>3, <3>1, <3>2, PlacesAre
    <3>4. QED  BY <3>2, <3>3 DEF LoadedPlaces
  <2>3. QED  BY <2>1, <2>2
<1>6. {f \in DOMAIN files \ DOMAIN files : ~files[f].loads} = {}
  OBVIOUS
<1>7. QED  BY <1>4, <1>5, <1>6 DEF LoadedUpTo

\* The next file is the first of those that are left.
LEMMA FirstIsNext ==
    ASSUME NEW files, FilesAre(files), NEW fs, fs \subseteq DOMAIN files, fs # {}
    PROVE  \E i \in DOMAIN PluginFiles :
              /\ First(fs) = PluginFiles[i] /\ PluginFiles[i] \in fs
              /\ \A j \in DOMAIN PluginFiles : j < i => PluginFiles[j] \notin fs
<1>1. DOMAIN PluginFiles = 1..Len(PluginFiles) /\ Len(PluginFiles) \in Nat
  BY PluginFilesAreDistinct
<1>2. PICK S : S = {i \in DOMAIN PluginFiles : PluginFiles[i] \in fs}
  OBVIOUS
<1>3. S \subseteq Nat /\ S # {}
  BY <1>1, <1>2 DEF FilesAre, IsPluginFile
<1>4. PICK n \in S : \A m \in S : n <= m
  BY <1>3, NatLeast
<1>5. \A j \in 1..(n - 1) : PluginFiles[j] \notin fs
  BY <1>1, <1>2, <1>4
<1>6. PICK i : i = CHOOSE k \in DOMAIN PluginFiles :
                      PluginFiles[k] \in fs /\ \A j \in 1..(k - 1) : PluginFiles[j] \notin fs
  OBVIOUS
<1>7. i \in DOMAIN PluginFiles /\ PluginFiles[i] \in fs /\ \A j \in 1..(i - 1) : PluginFiles[j] \notin fs
  BY <1>2, <1>4, <1>5, <1>6
<1>8. First(fs) = PluginFiles[i]
  BY <1>6 DEF First
<1>9. \A j \in DOMAIN PluginFiles : j < i => PluginFiles[j] \notin fs
  BY <1>1, <1>7
<1>10. QED  BY <1>7, <1>8, <1>9

\* One file more.
LEMMA LoadedNext ==
    ASSUME NEW files, FilesAre(files), NEW reg, NEW fs, LoadedUpTo(reg, files, fs), fs # {}
    PROVE  /\ First(fs) \in fs
           /\ LoadedUpTo(LoadFile(reg, First(fs), files[First(fs)]), files, fs \ {First(fs)})
<1>1. PICK i \in DOMAIN PluginFiles :
         /\ First(fs) = PluginFiles[i] /\ PluginFiles[i] \in fs
         /\ \A j \in DOMAIN PluginFiles : j < i => PluginFiles[j] \notin fs
  BY FirstIsNext DEF LoadedUpTo
<1>2. PICK f : f = First(fs)
  OBVIOUS
<1>3. PICK rest : rest = fs \ {f}
  OBVIOUS
<1>4. PICK done : done = LoadedPlaces(files, fs)
  OBVIOUS
<1>5. PICK failed : failed = {g \in DOMAIN files \ fs : ~files[g].loads}
  OBVIOUS
<1>6. DOMAIN PluginFiles = 1..Len(PluginFiles) /\ Len(PluginFiles) \in Nat /\ i \in Nat /\ i # 0
  BY PluginFilesAreDistinct
<1>7. f \in fs /\ f \in DOMAIN files /\ f = PluginFiles[i]
  BY <1>1, <1>2 DEF LoadedUpTo
<1>8. \A j \in DOMAIN PluginFiles : PluginFiles[j] = f => j = i
  BY <1>7, PluginFilesAreDistinct
<1>9. /\ rest \subseteq DOMAIN files
      /\ \A k, j \in DOMAIN PluginFiles :
            PluginFiles[k] \in rest /\ PluginFiles[j] \in DOMAIN files \ rest => j < k
  <2>1. ASSUME NEW k \in DOMAIN PluginFiles, NEW j \in DOMAIN PluginFiles,
               PluginFiles[k] \in rest, PluginFiles[j] \in DOMAIN files \ rest
        PROVE  j < k
    <3>1. CASE PluginFiles[j] \in fs
      <4>1. j = i
        BY <1>3, <1>8, <2>1, <3>1
      <4>2. k # i /\ ~(k < i)
        BY <1>1, <1>3, <1>7, <2>1
      <4>3. QED  BY <1>6, <4>1, <4>2
    <3>2. CASE PluginFiles[j] \notin fs
      BY <1>3, <2>1, <3>2 DEF LoadedUpTo
    <3>3. QED  BY <3>1, <3>2
  <2>2. QED  BY <1>3, <2>1 DEF LoadedUpTo
<1>10. LoadedPlaces(files, rest) = done \cup ({i} \X DOMAIN Offering(files, i))
  <2>1. ASSUME NEW x \in LoadedPlaces(files, rest), x \notin done
        PROVE  x \in {i} \X DOMAIN Offering(files, i)
    <3>1. PICK k \in 0..Len(PluginFiles) : \E m \in DOMAIN Offering(files, k) : x = <<k, m>>
      BY <2>1, PlacesAre DEF LoadedPlaces
    <3>2. k # 0 /\ PluginFiles[k] = f
      BY <1>3, <1>4, <2>1, <3>1 DEF LoadedPlaces
    <3>3. k = i
      BY <1>6, <1>8, <3>2
    <3>4. QED  BY <3>1, <3>3
  <2>2. ASSUME NEW x \in {i} \X DOMAIN Offering(files, i) PROVE x \in LoadedPlaces(files, rest)
    <3>1. PICK m \in DOMAIN Offering(files, i) : x = <<i, m>>
      BY <2>2
    <3>2. x \in Places(files)
      BY <1>6, <3>1, PlacesAre
    <3>3. QED  BY <1>3, <1>7, <3>1, <3>2 DEF LoadedPlaces
  <2>3. done \subseteq LoadedPlaces(files, rest)
    BY <1>3, <1>4 DEF LoadedPlaces
  <2>4. QED  BY <2>1, <2>2, <2>3
<1>11. Registered(reg, files, done, failed)
  BY <1>4, <1>5 DEF LoadedUpTo
<1>12. CASE ~files[f].loads
  <2>1. Offering(files, i) = <<>>
    BY <1>6, <1>7, <1>12 DEF Offering
  <2>2. LoadedPlaces(files, rest) = done
    BY <1>10, <2>1
  <2>3. {g \in DOMAIN files \ rest : ~files[g].loads} = failed \cup {f}
    BY <1>3, <1>5, <1>7, <1>12
  <2>4. LoadFile(reg, f, files[f]) = [reg EXCEPT !.failures = @ \cup {f}]
    BY <1>12 DEF LoadFile
  <2>5. Registered([reg EXCEPT !.failures = @ \cup {f}], files, done, failed \cup {f})
    <3>1. PICK r : r = [reg EXCEPT !.failures = @ \cup {f}]
      OBVIOUS
    <3>2. r = [of |-> reg.of, failures |-> reg.failures \cup {f}]
      BY <1>11, <3>1 DEF Registered
    <3>3. r = [of |-> r.of, failures |-> r.failures] /\ r.of = reg.of
      BY <3>2
    <3>4. r.failures = (failed \cup {f}) \cup {KeyOf(Offered(files, x)) : x \in {x \in done : ~Offered(files, x).sound}}
      BY <1>11, <3>2 DEF Registered
    <3>5. Registered(r, files, done, failed \cup {f})
      BY <1>11, <3>3, <3>4 DEF Registered
    <3>6. QED  BY <3>1, <3>5
  <2>6. QED  BY <1>2, <1>3, <1>7, <1>9, <2>2, <2>3, <2>4, <2>5 DEF LoadedUpTo
<1>13. CASE files[f].loads
  <2>1. Offering(files, i) = files[f].plugins
    BY <1>6, <1>7, <1>13 DEF Offering
  <2>2. {g \in DOMAIN files \ rest : ~files[g].loads} = failed
    BY <1>3, <1>5, <1>7, <1>13
  <2>3. done \in SUBSET (Nat \X Nat)
    BY <1>4, PlacesAre DEF LoadedPlaces
  <2>4. \A y \in done : y[1] < i
    <3>1. ASSUME NEW y \in done PROVE y[1] < i
      <4>1. PICK k \in 0..Len(PluginFiles) : \E m \in DOMAIN Offering(files, k) : y = <<k, m>>
        BY <1>4, PlacesAre DEF LoadedPlaces
      <4>2. CASE k = 0
        BY <1>6, <4>1, <4>2
      <4>3. CASE k # 0
        <5>1. PluginFiles[k] \notin fs /\ k \in DOMAIN PluginFiles
          BY <1>4, <1>6, <4>1, <4>3 DEF LoadedPlaces
        <5>2. PluginFiles[k] \in DOMAIN files
          <6>1. ASSUME PluginFiles[k] \notin DOMAIN files PROVE Offering(files, k) = <<>>
            BY <4>3, <6>1 DEF Offering
          <6>2. QED  BY <4>1, <6>1
        <5>3. QED  BY <1>1, <4>1, <5>1, <5>2 DEF LoadedUpTo
      <4>4. QED  BY <4>2, <4>3
    <3>2. QED  BY <3>1
  <2>5. Registered(RegisterAll(reg, Offering(files, i)), files,
                   done \cup ({i} \X DOMAIN Offering(files, i)), failed)
    BY <1>6, <1>11, <2>3, <2>4, RegisterFile
  <2>6. LoadFile(reg, f, files[f]) = RegisterAll(reg, Offering(files, i))
    BY <1>13, <2>1 DEF LoadFile
  <2>7. QED  BY <1>2, <1>3, <1>7, <1>9, <1>10, <2>2, <2>5, <2>6 DEF LoadedUpTo
<1>14. QED  BY <1>12, <1>13

\* What has failed is broken.
LEMMA FailuresAreBroken ==
    ASSUME NEW files, NEW reg, NEW fs, LoadedUpTo(reg, files, fs)
    PROVE  reg.failures \subseteq Broken(files)
BY DEF LoadedUpTo, Registered, LoadedPlaces, Broken

\* The registry with everything that is available, and nothing else.
HasAll(reg, files) ==
    /\ IsFiniteSet(DOMAIN reg.of)
    /\ \A p \in Available(files) : /\ p.name # NoName
                                  /\ KeyOf(p) \in DOMAIN reg.of /\ reg.of[KeyOf(p)] = p
    /\ \A k \in DOMAIN reg.of : reg.of[k] \in Available(files) /\ KeyOf(reg.of[k]) = k
    /\ reg.failures = Broken(files)

\* When no file is left, everything that is available is in the registry.
LEMMA LoadedHasAll ==
    ASSUME NEW files, FilesAre(files), NEW reg, LoadedUpTo(reg, files, {})
    PROVE  HasAll(reg, files)
<1>1. PICK all : all = Places(files)
  OBVIOUS
<1>2. LoadedPlaces(files, {}) = all
  BY <1>1 DEF LoadedPlaces
<1>3. PICK failed : failed = {f \in DOMAIN files : ~files[f].loads}
  OBVIOUS
<1>4. {f \in DOMAIN files \ {} : ~files[f].loads} = failed
  BY <1>3
<1>5. Registered(reg, files, all, failed)
  BY <1>2, <1>4 DEF LoadedUpTo
<1>6. reg.failures = Broken(files)
  BY <1>1, <1>3, <1>5 DEF Registered, Broken
<1>7. \A k \in DOMAIN reg.of : reg.of[k] \in Available(files) /\ KeyOf(reg.of[k]) = k
  <2>1. ASSUME NEW k \in DOMAIN reg.of PROVE reg.of[k] \in Available(files) /\ KeyOf(reg.of[k]) = k
    <3>1. PICK x \in all : IsLast(files, all, x) /\ KeyOf(Offered(files, x)) = k /\ reg.of[k] = Offered(files, x)
      BY <1>5 DEF Registered
    <3>2. QED  BY <1>1, <3>1 DEF Available
  <2>2. QED  BY <2>1
<1>8. ASSUME NEW p \in Available(files)
      PROVE  p.name # NoName /\ KeyOf(p) \in DOMAIN reg.of /\ reg.of[KeyOf(p)] = p
  <2>1. PICK x \in all : IsLast(files, all, x) /\ p = Offered(files, x)
    BY <1>1 DEF Available
  <2>2. p.name # NoName
    BY <1>1, <2>1, PlacesAre
  <2>3. KeyOf(p) \in DOMAIN reg.of
    BY <1>5, <2>1 DEF Registered, IsLast
  <2>4. PICK y \in all : IsLast(files, all, y) /\ KeyOf(Offered(files, y)) = KeyOf(p)
                         /\ reg.of[KeyOf(p)] = Offered(files, y)
    BY <1>5, <2>3 DEF Registered
  <2>5. ~After(x, y) /\ ~After(y, x)
    BY <2>1, <2>4 DEF IsLast
  <2>6. x \in Nat \X Nat /\ y \in Nat \X Nat
    BY <1>1, PlacesAre
  <2>7. x[1] = y[1] /\ x[2] = y[2]
    BY <2>5, <2>6 DEF After
  <2>8. x = y
    BY <2>6, <2>7
  <2>9. QED  BY <2>1, <2>2, <2>3, <2>4, <2>8
<1>9. IsFiniteSet(DOMAIN reg.of)
  BY <1>5 DEF Registered
<1>10. QED  BY <1>6, <1>7, <1>8, <1>9 DEF HasAll

-----------------------------------------------------------------------------
(* Resolution.                                                             *)

\* A plugin is in the registry if it is available, and it is that one.
LEMMA HasIsOffered ==
    ASSUME NEW files, NEW reg, HasAll(reg, files), NEW kind, NEW name
    PROVE  /\ <<kind, name>> \in DOMAIN reg.of <=> \E p \in Available(files) : p.kind = kind /\ p.name = name
           /\ \A p \in Available(files) : p.kind = kind /\ p.name = name => reg.of[<<kind, name>>] = p
<1>1. \A p \in Available(files) : p.kind = kind /\ p.name = name =>
         <<kind, name>> \in DOMAIN reg.of /\ reg.of[<<kind, name>>] = p
  BY DEF HasAll, KeyOf
<1>2. ASSUME <<kind, name>> \in DOMAIN reg.of
      PROVE  \E p \in Available(files) : p.kind = kind /\ p.name = name
  <2>1. PICK p : p = reg.of[<<kind, name>>]
    OBVIOUS
  <2>2. p \in Available(files) /\ KeyOf(p) = <<kind, name>>
    BY <1>2, <2>1 DEF HasAll
  <2>3. p.kind = kind /\ p.name = name
    BY <2>2 DEF KeyOf
  <2>4. QED  BY <2>2, <2>3
<1>3. QED  BY <1>1, <1>2

\* The check of a pipeline against the registry is the check against what is available.
LEMMA FitsMeansBuildable ==
    ASSUME NEW files, NEW reg, HasAll(reg, files), NEW S, NEW s \in Seq(S), Enforced(s)
    PROVE  FitsRegistry(s, reg) <=> Buildable(s, Available(files))
<1>1. PICK avail : avail = Available(files)
  OBVIOUS
<1>2. DOMAIN s = 1..Len(s) /\ Len(s) \in Nat
  OBVIOUS
<1> DEFINE There == \A i \in DOMAIN s : IsExec(s[i]) \/ \E p \in avail : p.kind = s[i].kind /\ p.name = s[i].name
           Taken == \A i \in DOMAIN s, w \in Writers(avail) :
                       IsWriter(s[i]) /\ w.name = s[i].name =>
                           \A j \in 1..(i - 1) : IsReader(s[j]) /\ AllWriters(s, j + 1, i)
                                                     => s[j].name \in w.accepts
           Accepted == \A x \in ReaderWriterPairs(s) :
                          s[x[1]].name \in reg.of[<<"writer", s[x[2]].name>>].accepts
<1>3. (\A k \in DOMAIN s : ~IsExec(s[k]) => Has(reg, s[k].kind, s[k].name)) <=> There
  <2>1. ASSUME NEW k \in DOMAIN s
        PROVE  Has(reg, s[k].kind, s[k].name) <=> \E p \in avail : p.kind = s[k].kind /\ p.name = s[k].name
    <3>1. PICK kind, name : kind = s[k].kind /\ name = s[k].name
      OBVIOUS
    <3>2. Has(reg, kind, name) <=> \E p \in avail : p.kind = kind /\ p.name = name
      BY <1>1, HasIsOffered DEF Has
    <3>3. QED  BY <3>1, <3>2
  <2>2. QED  BY <2>1
<1>4. ASSUME Taken, There PROVE Accepted
  <2>1. SUFFICES ASSUME NEW x \in ReaderWriterPairs(s)
                 PROVE  s[x[1]].name \in reg.of[<<"writer", s[x[2]].name>>].accepts
    OBVIOUS
  <2>2. PICK j \in DOMAIN s, i \in DOMAIN s : x = <<j, i>> /\ j < i /\ IsReader(s[j]) /\ AllWriters(s, j + 1, i)
    BY DEF ReaderWriterPairs
  <2>3. IsWriter(s[i]) /\ ~IsExec(s[i])
    BY <1>2, <2>2 DEF AllWriters, IsWriter, IsExec
  <2>4. PICK w \in avail : w.kind = s[i].kind /\ w.name = s[i].name
    BY <1>4, <2>3
  <2>5. w \in Writers(avail) /\ reg.of[<<"writer", s[i].name>>] = w
    BY <1>1, <2>3, <2>4, HasIsOffered DEF Writers, IsWriter
  <2>6. j \in 1..(i - 1)
    BY <1>2, <2>2
  <2>7. s[j].name \in w.accepts
    BY <1>4, <2>2, <2>3, <2>4, <2>5, <2>6
  <2>8. QED  BY <2>2, <2>5, <2>7
<1>5. ASSUME Accepted PROVE Taken
  <2>1. SUFFICES ASSUME NEW i \in DOMAIN s, NEW w \in Writers(avail), w.name = s[i].name,
                        NEW j \in 1..(i - 1), IsReader(s[j]), AllWriters(s, j + 1, i)
                 PROVE  s[j].name \in w.accepts
    OBVIOUS
  <2>2. j \in DOMAIN s /\ j < i
    BY <1>2
  <2>3. PICK x : x = <<j, i>>
    OBVIOUS
  <2>4. x \in ReaderWriterPairs(s)
    BY <2>1, <2>2, <2>3 DEF ReaderWriterPairs
  <2>5. s[j].name \in reg.of[<<"writer", s[i].name>>].accepts
    BY <1>5, <2>3, <2>4
  <2>6. reg.of[<<"writer", s[i].name>>] = w
    BY <1>1, <2>1, HasIsOffered DEF Writers
  <2>7. QED  BY <2>5, <2>6
<1>6. FitsRegistry(s, reg) <=> There /\ Accepted
  BY <1>3 DEF FitsRegistry
<1>7. Buildable(s, avail) <=> There /\ Taken
  BY DEF Buildable
<1>8. QED  BY <1>1, <1>4, <1>5, <1>6, <1>7

\* A reader and a writer follow the rules.
LEMMA ImplicitIsSound ==
    ASSUME NEW r, NEW w, NEW s, s = <<StageOf("reader", r), StageOf("writer", w)>>
    PROVE  /\ Enforced(s) /\ s # <<>> /\ s[1].name = r /\ s[2].name = w
           /\ IsReader(s[1]) /\ IsWriter(s[2]) /\ Len(s) = 2
<1>1. /\ Len(s) = 2 /\ s # <<>> /\ s[1] = StageOf("reader", r) /\ s[2] = StageOf("writer", w)
      /\ 1..Len(s) = {1, 2}
  OBVIOUS
<1>2. s[1].kind = "reader" /\ s[2].kind = "writer" /\ s[1].name = r /\ s[2].name = w
  BY <1>1 DEF StageOf
<1>3. StartsWithReader(s) /\ ReadersAreWritten(s) /\ LastExecHasExtension(s)
  BY <1>1, <1>2 DEF StartsWithReader, ReadersAreWritten, LastExecHasExtension, IsReader, IsWriter, IsExec
<1>4. FanOutIsLast(s)
  BY <1>1, <1>2 DEF FanOutIsLast, IsWriter
<1>5. FanOutIsDistinct(s)
  <2>1. ~AllWriters(s, 1, 2)
    BY <1>2 DEF AllWriters, IsWriter
  <2>2. QED  BY <1>1, <2>1 DEF FanOutIsDistinct
<1>6. QED  BY <1>1, <1>2, <1>3, <1>4, <1>5 DEF Enforced, IsReader, IsWriter

\* A reader and a writer fit the registry if they can be built.
LEMMA ImplicitFits ==
    ASSUME NEW files, NEW reg, HasAll(reg, files),
           NEW r, NEW w, NEW s, s = <<StageOf("reader", r), StageOf("writer", w)>>
    PROVE  FitsRegistry(s, reg) <=> Buildable(s, Available(files))
<1>1. PICK S : S = {StageOf("reader", r), StageOf("writer", w)}
  OBVIOUS
<1>2. s \in Seq(S)
  BY <1>1
<1>3. Enforced(s)
  BY ImplicitIsSound
<1>4. QED  BY <1>2, <1>3, FitsMeansBuildable

\* A set has one member.
LEMMA OneMember ==
    ASSUME NEW S, IsFiniteSet(S)
    PROVE  /\ Cardinality(S) \in Nat
           /\ Cardinality(S) = 0 <=> S = {}
           /\ Cardinality(S) = 1 <=> \E x : S = {x}
<1>1. Cardinality(S) \in Nat /\ (Cardinality(S) = 0 <=> S = {})
  BY FS_CardinalityType, FS_EmptySet
<1>2. Cardinality(S) = 1 => \E x : S = {x}
  BY FS_Singleton
<1>3. ASSUME NEW x, S = {x} PROVE Cardinality(S) = 1
  BY <1>3, FS_Singleton
<1>4. QED  BY <1>1, <1>2, <1>3

\* What cfg names, if it does.
Named(cfg, field) == IF field \in DOMAIN cfg THEN cfg[field] ELSE NoName

\* The reader that is found is the one that is named, or the one that is recognised.
LEMMA ReaderFound ==
    ASSUME NEW files, NEW reg, HasAll(reg, files), NEW cfg, IsTier(cfg),
           NEW avail, avail = Available(files), NEW found, found = FindReader(reg, Named(cfg, "reader"))
    PROVE  /\ found = {} \/ \E r \in Readers(avail) : found = {r}
           /\ \A r \in Readers(avail) :
                 found = {r} <=> IF "reader" \in DOMAIN cfg THEN r.name = cfg["reader"]
                                 ELSE Recognised(avail) = {r}
<1>1. ValuesOf(reg.of) = avail
  BY DEF HasAll, ValuesOf
<1>2. CASE "reader" \in DOMAIN cfg
  <2>1. Named(cfg, "reader") = cfg["reader"] /\ cfg["reader"] # NoName
    BY <1>2 DEF Named, IsTier
  <2>2. found = {p \in avail : p.kind = "reader" /\ p.name = cfg["reader"]}
    BY <1>1, <2>1 DEF FindReader
  <2>3. \A p \in found, r \in found : p = r
    <3>1. ASSUME NEW p \in avail, p.kind = "reader", p.name = cfg["reader"]
          PROVE  reg.of[<<"reader", cfg["reader"]>>] = p
      BY <3>1, HasIsOffered
    <3>2. QED  BY <2>2, <3>1
  <2>4. \A r \in Readers(avail) : r \in found <=> r.name = cfg["reader"]
    BY <2>2 DEF Readers
  <2>5. found \subseteq Readers(avail)
    BY <2>2 DEF Readers
  <2>6. QED  BY <1>2, <2>3, <2>4, <2>5
<1>3. CASE "reader" \notin DOMAIN cfg
  <2>1. Named(cfg, "reader") = NoName
    BY <1>3 DEF Named
  <2>2. PICK able : able = {r \in Readers(avail) : r.reads}
    OBVIOUS
  <2>3. Candidates(reg) = able
    BY <1>1, <2>2 DEF Candidates, Readers
  <2>4. PICK sniffed : sniffed = {r \in able : r.sniffs}
    OBVIOUS
  <2>5. found = IF Cardinality(able) = 1 THEN able ELSE IF Cardinality(sniffed) = 1 THEN sniffed ELSE {}
    BY <2>1, <2>3, <2>4 DEF FindReader
  <2>6. Recognised(avail) = IF Cardinality(able) > 1 THEN sniffed ELSE able
    BY <2>2, <2>4 DEF Recognised
  <2>7. IsFiniteSet(able) /\ IsFiniteSet(sniffed)
    <3>1. IsFiniteSet(avail)
      <4>1. PICK f : f = [k \in DOMAIN reg.of |-> reg.of[k]]
        OBVIOUS
      <4>2. f \in Surjection(DOMAIN reg.of, avail)
        BY <1>1, <4>1 DEF Surjection, ValuesOf
      <4>3. QED  BY <4>2, FS_Surjection DEF HasAll
    <3>2. able \subseteq avail /\ sniffed \subseteq avail
      BY <2>2, <2>4 DEF Readers
    <3>3. QED  BY <3>1, <3>2, FS_Subset
  <2>8. able \subseteq Readers(avail) /\ sniffed \subseteq able
    BY <2>2, <2>4
  <2>9. CASE Cardinality(able) = 1
    BY <1>3, <2>5, <2>6, <2>7, <2>8, <2>9, OneMember
  <2>10. CASE Cardinality(able) = 0
    <3>1. able = {} /\ sniffed = {} /\ Cardinality(sniffed) = 0
      BY <2>7, <2>8, <2>10, OneMember
    <3>2. found = {} /\ Recognised(avail) = {}
      BY <2>5, <2>6, <2>10, <3>1
    <3>3. QED  BY <1>3, <3>2
  <2>11. CASE Cardinality(able) > 1
    <3>1. Recognised(avail) = sniffed /\ found = IF Cardinality(sniffed) = 1 THEN sniffed ELSE {}
      BY <2>5, <2>6, <2>11
    <3>2. Cardinality(sniffed) = 1 <=> \E x : sniffed = {x}
      BY <2>7, OneMember
    <3>3. QED  BY <1>3, <2>8, <3>1, <3>2
  <2>12. Cardinality(able) \in Nat
    BY <2>7, OneMember
  <2>13. QED  BY <2>9, <2>10, <2>11, <2>12
<1>4. QED  BY <1>2, <1>3

\* The pipelines that cfg may ask for, with the plugins that are available.
Asked(cfg, avail) ==
    {s \in Pipelines \cup {<<StageOf("reader", r.name), StageOf("writer", w.name)>> :
                              r \in Readers(avail), w \in Writers(avail)} :
        Meets(s, cfg, avail) /\ Buildable(s, avail)}

IsPlan(plan, plans) == IF plans = {} THEN plan = <<>> ELSE plans = {plan}

\* The stages that are declared.
LEMMA DeclaredResolves ==
    ASSUME NEW files, NEW reg, HasAll(reg, files), NEW cfg, IsTier(cfg), "stages" \in DOMAIN cfg
    PROVE  IsPlan(ResolvePipeline(cfg, reg), Asked(cfg, Available(files)))
<1>1. PICK s, avail, plans : /\ s = cfg["stages"] /\ avail = Available(files)
                             /\ plans = Asked(cfg, Available(files))
  OBVIOUS
<1>2. s \in Pipelines /\ s \in Seq(Stage)
  BY <1>1, PreparationAssumption DEF IsTier
<1>3. plans = IF Buildable(s, avail) THEN {s} ELSE {}
  BY <1>1, <1>2 DEF Asked, Meets
<1>4. Buildable(s, avail) <=> Enforced(s) /\ FitsRegistry(s, reg)
  <2>1. CASE Enforced(s)
    BY <1>1, <1>2, <2>1, FitsMeansBuildable
  <2>2. CASE ~Enforced(s)
    BY <2>2 DEF Buildable
  <2>3. QED  BY <2>1, <2>2
<1>5. ResolvePipeline(cfg, reg) = IF Buildable(s, avail) THEN s ELSE <<>>
  BY <1>1, <1>4 DEF ResolvePipeline, Checked
<1>6. QED  BY <1>1, <1>3, <1>5 DEF IsPlan

\* A reader and a writer that are chosen.
LEMMA ChosenResolves ==
    ASSUME NEW files, NEW reg, HasAll(reg, files), NEW cfg, IsTier(cfg), "stages" \notin DOMAIN cfg
    PROVE  IsPlan(ResolvePipeline(cfg, reg), Asked(cfg, Available(files)))
<1>1. PICK avail, plans, plan : /\ avail = Available(files) /\ plans = Asked(cfg, Available(files))
                                /\ plan = ResolvePipeline(cfg, reg)
  OBVIOUS
<1>2. PICK found, wname : found = FindReader(reg, Named(cfg, "reader")) /\ wname = Named(cfg, "writer")
  OBVIOUS
<1>3. plan = IF found = {} THEN <<>>
             ELSE LET spec == Implicit(reg, CHOOSE p \in found : TRUE, wname)
                  IN IF spec # <<>> /\ FitsRegistry(spec, reg) THEN spec ELSE <<>>
  BY <1>1, <1>2 DEF ResolvePipeline, Named
<1>4. /\ found = {} \/ \E r \in Readers(avail) : found = {r}
      /\ \A r \in Readers(avail) :
            found = {r} <=> IF "reader" \in DOMAIN cfg THEN r.name = cfg["reader"]
                            ELSE Recognised(avail) = {r}
  BY <1>1, <1>2, ReaderFound
\* What a plan may be.
<1>5. \A s : s \in plans <=>
         \E r \in Readers(avail), w \in Writers(avail) :
             /\ found = {r} /\ s = <<StageOf("reader", r.name), StageOf("writer", w.name)>>
             /\ w.name = (IF "writer" \in DOMAIN cfg THEN cfg["writer"] ELSE r.suggests)
             /\ Buildable(s, avail)
  <2>1. \A s : Meets(s, cfg, avail) <=>
           \E r \in Readers(avail), w \in Writers(avail) :
               /\ s = <<StageOf("reader", r.name), StageOf("writer", w.name)>> /\ found = {r}
               /\ w.name = (IF "writer" \in DOMAIN cfg THEN cfg["writer"] ELSE r.suggests)
    BY <1>4 DEF Meets
  <2>2. \A s : s \in plans <=>
           /\ \/ s \in Pipelines
              \/ \E r \in Readers(avail), w \in Writers(avail) :
                    s = <<StageOf("reader", r.name), StageOf("writer", w.name)>>
           /\ Meets(s, cfg, avail) /\ Buildable(s, avail)
    BY <1>1 DEF Asked
  <2>3. QED  BY <2>1, <2>2
<1>6. CASE found = {}
  <2>1. plan = <<>>
    BY <1>3, <1>6
  <2>2. plans = {}
    BY <1>5, <1>6
  <2>3. QED  BY <1>1, <2>1, <2>2 DEF IsPlan
<1>7. CASE found # {}
  <2>1. PICK r \in Readers(avail) : found = {r}
    BY <1>4, <1>7
  <2>2. r \in avail /\ r.kind = "reader"
    BY <2>1 DEF Readers
  <2>3. (CHOOSE p \in found : TRUE) = r
    BY <2>1
  <2>4. PICK name : name = IF wname # NoName THEN wname ELSE r.suggests
    OBVIOUS
  <2>5. name = IF "writer" \in DOMAIN cfg THEN cfg["writer"] ELSE r.suggests
    BY <1>2, <2>4 DEF Named, IsTier
  <2>6. PICK s : s = <<StageOf("reader", r.name), StageOf("writer", name)>>
    OBVIOUS
  <2>7. PICK spec : spec = Implicit(reg, r, wname)
    OBVIOUS
  <2>8. spec = IF name # NoName /\ Has(reg, "writer", name) THEN s ELSE <<>>
    BY <2>4, <2>6, <2>7 DEF Implicit
  <2>9. plan = IF spec # <<>> /\ FitsRegistry(spec, reg) THEN spec ELSE <<>>
    BY <1>3, <2>1, <2>3, <2>7
  <2>10. name # NoName /\ Has(reg, "writer", name) <=> \E w \in Writers(avail) : w.name = name
    <3>1. Has(reg, "writer", name) <=> \E p \in avail : p.kind = "writer" /\ p.name = name
      BY <1>1, HasIsOffered DEF Has
    <3>2. \A p \in avail : p.name # NoName
      BY <1>1 DEF HasAll
    <3>3. QED  BY <3>1, <3>2 DEF Writers
  <2>11. \A x : x \in plans <=> x = s /\ Buildable(s, avail) /\ \E w \in Writers(avail) : w.name = name
    <3>1. \A q \in Readers(avail) : found = {q} <=> q = r
      BY <2>1
    <3>2. QED  BY <1>5, <2>1, <2>5, <2>6, <3>1
  <2>12. CASE ~(\E w \in Writers(avail) : w.name = name)
    <3>1. plans = {} /\ spec = <<>>
      BY <2>8, <2>10, <2>11, <2>12
    <3>2. QED  BY <1>1, <2>9, <3>1 DEF IsPlan
  <2>13. CASE \E w \in Writers(avail) : w.name = name
    <3>1. spec = s /\ s # <<>>
      BY <2>6, <2>8, <2>10, <2>13, ImplicitIsSound
    <3>2. plan = IF FitsRegistry(s, reg) THEN s ELSE <<>>
      BY <2>9, <3>1
    <3>3. FitsRegistry(s, reg) <=> Buildable(s, avail)
      BY <1>1, <2>6, ImplicitFits
    <3>4. plans = IF Buildable(s, avail) THEN {s} ELSE {}
      BY <2>11, <2>13
    <3>5. QED  BY <1>1, <3>1, <3>2, <3>3, <3>4 DEF IsPlan
  <2>14. QED  BY <2>12, <2>13
<1>8. QED  BY <1>6, <1>7

-----------------------------------------------------------------------------
(* The way to a plan.                                                      *)

\* The tiers of a table, one over the other, are the nearest of each setting.
LEMMA MergedIsNearest ==
    ASSUME FilesTyped, NEW t \in TableNames, NEW cfg,
           cfg = IF t \in sources
                 THEN WithSidecar(SharedSettings(toml, t), IF t \in DOMAIN sidecar THEN sidecar[t] ELSE EmptyMap)
                 ELSE EffectiveConfig(toml, t)
    PROVE  cfg = SettingsOf(t) /\ IsTier(cfg)
<1>1. PICK own, cl, g : own = OwnTier(t) /\ cl = ClusterTier(toml, t) /\ g = toml.tiers[Global]
  OBVIOUS
<1>2. cfg = Override(Override(g, cl), own)
  <2>1. SharedSettings(toml, t) = Override(g, cl)
    BY <1>1 DEF SharedSettings
  <2>2. QED  BY <1>1, <2>1 DEF WithSidecar, EffectiveConfig, OwnTier
<1>3. SettingsOf(t) = [f \in DOMAIN own \cup DOMAIN cl \cup DOMAIN g |->
                          IF f \in DOMAIN own THEN own[f] ELSE IF f \in DOMAIN cl THEN cl[f] ELSE g[f]]
  BY <1>1, NearestOfThree DEF SettingsOf
<1>4. cfg = [f \in DOMAIN own \cup DOMAIN cl \cup DOMAIN g |->
                IF f \in DOMAIN own THEN own[f] ELSE IF f \in DOMAIN cl THEN cl[f] ELSE g[f]]
  <2>1. PICK both : both = Override(g, cl)
    OBVIOUS
  <2>2. DOMAIN both = DOMAIN g \cup DOMAIN cl
        /\ \A f \in DOMAIN both : both[f] = IF f \in DOMAIN cl THEN cl[f] ELSE g[f]
    BY <2>1 DEF Override
  <2>3. cfg = [f \in DOMAIN both \cup DOMAIN own |-> IF f \in DOMAIN own THEN own[f] ELSE both[f]]
    BY <1>2, <2>1 DEF Override
  <2>4. DOMAIN both \cup DOMAIN own = DOMAIN own \cup DOMAIN cl \cup DOMAIN g
    BY <2>2
  <2>5. QED  BY <2>2, <2>3, <2>4
<1>5. IsTier(EmptyMap)
  BY DEF IsTier, EmptyMap
<1>6. IsTier(g) /\ IsTier(cl) /\ IsTier(own)
  <2>1. IsToml(toml)
    BY DEF FilesTyped
  <2>2. IsTier(g)
    BY <1>1, <2>1 DEF IsToml
  <2>3. IsTier(cl)
    <3>1. CASE t \in DOMAIN toml.members
      <4>1. PICK S : /\ S = {c \in Clusters : ClusterSlot(c) \in DOMAIN toml.tiers}
                     /\ toml.members[t] \in Seq(S) \ {<<>>}
        BY <2>1, <3>1 DEF IsToml
      <4>2. Head(toml.members[t]) \in S
        BY <4>1
      <4>3. QED  BY <1>1, <2>1, <3>1, <4>1, <4>2 DEF ClusterTier, IsToml
    <3>2. CASE t \notin DOMAIN toml.members
      BY <1>1, <1>5, <3>2 DEF ClusterTier
    <3>3. QED  BY <3>1, <3>2
  <2>4. IsTier(own)
    <3>1. CASE t \in sources
      BY <1>1, <1>5, <3>1 DEF OwnTier, FilesTyped
    <3>2. CASE t \notin sources
      BY <1>1, <2>1, <3>2 DEF OwnTier, IsToml, TableNames, IsBatch
    <3>3. QED  BY <3>1, <3>2
  <2>5. QED  BY <2>2, <2>3, <2>4
<1>7. IsTier(cfg)
  BY <1>4, <1>6 DEF IsTier
<1>8. QED  BY <1>3, <1>4, <1>7

\* What a client that makes a table ready, or lists the plugins, has still to do.
Strictly(c) == ask[c].what = "plan"
Calling(c, do) == [do |-> do, table |-> ask[c].table]
Rest(c) == IF Strictly(c) THEN <<Calling(c, "configure")>> ELSE <<>>

\* Everything is loaded, without a failure.
Ready(c) == HasAll(hand[c].reg, plugins) /\ hand[c].reg.failures = {}

IsHand(h) == h = [reg |-> h.reg, cfg |-> h.cfg, batch |-> h.batch, plan |-> h.plan]

\* The phases of the request.
Listing(c) == [do |-> "list", strict |-> Strictly(c)]
LoadingOf(c, fs) == [do |-> "load", files |-> fs, strict |-> Strictly(c)]

Lists(c) == Consists(job[c], Listing(c), Rest(c))

Loads(c) ==
    \E fs : /\ fs # {} /\ Consists(job[c], LoadingOf(c, fs), Rest(c))
            /\ LoadedUpTo(hand[c].reg, plugins, fs)
            /\ Strictly(c) => hand[c].reg.failures = {}

Configures(c) == /\ Strictly(c) /\ Ready(c)
                 /\ Consists(job[c], Calling(c, "configure"), <<>>)

Merges(c) ==
    /\ Strictly(c) /\ Ready(c)
    /\ Consists(job[c], Calling(c, "sidecar"), <<>>)
    /\ ask[c].table \in sources /\ MetasResolve(toml)
    /\ hand[c].cfg = SharedSettings(toml, ask[c].table)

Answered(c) ==
    /\ job[c] = <<>>
    /\ IF Strictly(c) THEN IsPlan(hand[c].plan, PlansFor(ask[c].table))
       ELSE HasAll(hand[c].reg, plugins)

Planned(c) == IsHand(hand[c]) /\ (Lists(c) \/ Loads(c) \/ Configures(c) \/ Merges(c) \/ Answered(c))

IsPlanning(c) == alone[c] /\ ask[c].what \in {"plan", "list"}

PlansFollow == \A c \in Clients : IsPlanning(c) => Planned(c)

\* At the end of its way a plan is the reference.
LEMMA PlansFollowMeans == PlansFollow => PlanIsReference
<1>1. SUFFICES ASSUME PlansFollow, NEW c \in Clients, Idle(c), alone[c], ask[c].what \in {"plan", "list"}
               PROVE  /\ ask[c].what = "plan" =>
                             IF PlansFor(ask[c].table) = {} THEN hand[c].plan = <<>>
                             ELSE PlansFor(ask[c].table) = {hand[c].plan}
                      /\ ask[c].what = "list" => /\ ValuesOf(hand[c].reg.of) = Available(plugins)
                                                 /\ hand[c].reg.failures = Broken(plugins)
  BY DEF PlanIsReference
<1>2. Answered(c)
  <2>1. job[c] = <<>>
    BY <1>1 DEF Idle
  <2>2. QED  BY <1>1, <2>1 DEF PlansFollow, IsPlanning, Planned, Lists, Loads, Configures, Merges, Consists
<1>3. CASE ask[c].what = "plan"
  BY <1>2, <1>3 DEF Answered, Strictly, IsPlan
<1>4. CASE ask[c].what = "list"
  <2>1. HasAll(hand[c].reg, plugins)
    BY <1>2, <1>4 DEF Answered, Strictly
  <2>2. QED  BY <1>4, <2>1 DEF HasAll, ValuesOf
<1>5. QED  BY <1>1, <1>3, <1>4

\* What the files ask for depends on the files.
LEMMA PlansForDepends ==
    ASSUME UNCHANGED disk, NEW t
    PROVE  PlansFor(t)' = PlansFor(t)
<1>1. UNCHANGED <<sources, toml, sidecar, plugins>>
  BY DEF disk
<1>2. SettingsOf(t)' = SettingsOf(t)
  BY <1>1 DEF SettingsOf, OwnTier
<1>3. (t \in TableNames)' <=> t \in TableNames
  BY <1>1 DEF TableNames, IsBatch
<1>4. QED  BY <1>1, <1>2, <1>3 DEF PlansFor

\* What is planned depends on the files and on the state of the client only.
LEMMA PlannedDepends ==
    ASSUME NEW c, UNCHANGED disk, job'[c] = job[c], ask'[c] = ask[c], hand'[c] = hand[c], Planned(c)
    PROVE  Planned(c)'
<1>1. UNCHANGED <<sources, toml, sidecar, plugins>>
  BY DEF disk
<1>2. (Strictly(c)' <=> Strictly(c)) /\ Rest(c)' = Rest(c) /\ \A do : Calling(c, do)' = Calling(c, do)
  BY DEF Strictly, Rest, Calling
<1>3. Listing(c)' = Listing(c) /\ \A fs : LoadingOf(c, fs)' = LoadingOf(c, fs)
  BY DEF Listing, LoadingOf, Strictly
<1>4. Ready(c)' <=> Ready(c)
  BY <1>1 DEF Ready
<1>5. IsHand(hand[c])'
  BY DEF Planned, IsHand
<1>6. ASSUME Lists(c) PROVE Lists(c)'
  BY <1>2, <1>6, <1>3 DEF Lists
<1>7. ASSUME Loads(c) PROVE Loads(c)'
  <2>1. PICK fs : /\ fs # {}
                  /\ Consists(job[c], LoadingOf(c, fs), Rest(c))
                  /\ LoadedUpTo(hand[c].reg, plugins, fs)
                  /\ Strictly(c) => hand[c].reg.failures = {}
    BY <1>7 DEF Loads
  <2>2. QED  BY <1>1, <1>2, <1>3, <2>1 DEF Loads
<1>8. ASSUME Configures(c) PROVE Configures(c)'
  BY <1>2, <1>4, <1>8 DEF Configures
<1>9. ASSUME Merges(c) PROVE Merges(c)'
  BY <1>1, <1>2, <1>4, <1>9 DEF Merges
<1>10. ASSUME Answered(c) PROVE Answered(c)'
  BY <1>1, <1>2, <1>10, PlansForDepends DEF Answered
<1>11. QED  BY <1>5, <1>6, <1>7, <1>8, <1>9, <1>10 DEF Planned

\* A hand with another registry.
LEMMA HandWith ==
    ASSUME NEW h, IsHand(h), NEW reg
    PROVE  /\ IsHand([h EXCEPT !.reg = reg]) /\ [h EXCEPT !.reg = reg].reg = reg
           /\ \A cfg : /\ IsHand([h EXCEPT !.cfg = cfg]) /\ [h EXCEPT !.cfg = cfg].reg = h.reg
                       /\ [h EXCEPT !.cfg = cfg].cfg = cfg
           /\ \A cfg : /\ IsHand(Resolved(h, cfg))
                       /\ Resolved(h, cfg).plan = ResolvePipeline(cfg, h.reg)
<1>1. PICK a, b, d, e : h = [reg |-> a, cfg |-> b, batch |-> d, plan |-> e]
  BY DEF IsHand
<1>2. /\ [h EXCEPT !.reg = reg] = [reg |-> reg, cfg |-> b, batch |-> d, plan |-> e]
      /\ h.reg = a
  BY <1>1
<1>3. \A cfg : [h EXCEPT !.cfg = cfg] = [reg |-> a, cfg |-> cfg, batch |-> d, plan |-> e]
  BY <1>1
<1>4. \A cfg : Resolved(h, cfg) = [reg |-> a, cfg |-> EmptyMap, batch |-> d, plan |-> ResolvePipeline(cfg, a)]
  <2>1. ASSUME NEW cfg
        PROVE  Resolved(h, cfg) = [reg |-> a, cfg |-> EmptyMap, batch |-> d, plan |-> ResolvePipeline(cfg, a)]
    <3>1. PICK plan, empty : plan = ResolvePipeline(cfg, a) /\ empty = EmptyMap
      OBVIOUS
    <3>2. PICK g : g = [h EXCEPT !.cfg = empty, !.plan = plan]
      OBVIOUS
    <3>3. DOMAIN g = {"reg", "cfg", "batch", "plan"} /\ g.reg = a /\ g.cfg = empty /\ g.batch = d /\ g.plan = plan
      BY <1>1, <3>2
    <3>4. g = [f \in {"reg", "cfg", "batch", "plan"} |-> g[f]]
      BY <1>1, <3>2
    <3>5. g = [reg |-> a, cfg |-> empty, batch |-> d, plan |-> plan]
      BY <3>3, <3>4
    <3>6. QED  BY <1>1, <3>1, <3>2, <3>5 DEF Resolved
  <2>2. QED  BY <2>1
<1>5. QED  BY <1>2, <1>3, <1>4 DEF IsHand

\* A request for a plan is at its first call.
LEMMA PlanningStarts ==
    ASSUME Typed, NEW c \in Clients, Ask(c), IsPlanning(c)'
    PROVE  Planned(c)'
<1>1. AskPlan(c) \/ AskPlugins(c)
  <2>1. PICK a, calls : Request(c, a, calls) /\ (a.what \in {"plan", "list"} => AskPlan(c) \/ AskPlugins(c))
    BY AskIsRequest
  <2>2. ask'[c] = a
    BY <2>1 DEF Request, Typed, ClientsTyped
  <2>3. QED  BY <2>1, <2>2 DEF IsPlanning
<1>2. IsHand(InHand)
  BY DEF IsHand, InHand
<1>3. CASE AskPlan(c)
  <2>1. PICK t, a, calls :
           /\ Request(c, a, calls) /\ a = [what |-> "plan", table |-> t, on |-> {}]
           /\ calls = <<[do |-> "list", strict |-> TRUE], [do |-> "configure", table |-> t]>>
    BY <1>3 DEF AskPlan
  <2>2. ask'[c] = a /\ job'[c] = calls /\ hand'[c] = InHand
    BY <2>1 DEF Request, Typed, ClientsTyped
  <2>3. /\ calls # <<>> /\ Head(calls) = [do |-> "list", strict |-> TRUE]
        /\ Tail(calls) = <<[do |-> "configure", table |-> t]>>
    BY <2>1
  <2>4. a.what = "plan" /\ a.table = t
    BY <2>1
  <2>5. Lists(c)'
    BY <2>2, <2>3, <2>4 DEF Lists, Listing, Consists, Strictly, Rest, Calling
  <2>6. QED  BY <1>2, <2>2, <2>5 DEF Planned
<1>4. CASE AskPlugins(c)
  <2>1. PICK a, calls : /\ Request(c, a, calls) /\ a = [what |-> "list", on |-> {}]
                        /\ calls = <<[do |-> "list", strict |-> FALSE]>>
    BY <1>4 DEF AskPlugins
  <2>2. ask'[c] = a /\ job'[c] = calls /\ hand'[c] = InHand
    BY <2>1 DEF Request, Typed, ClientsTyped
  <2>3. calls # <<>> /\ Head(calls) = [do |-> "list", strict |-> FALSE] /\ Tail(calls) = <<>>
    BY <2>1
  <2>4. a.what = "list"
    BY <2>1
  <2>5. Lists(c)'
    BY <2>2, <2>3, <2>4 DEF Lists, Listing, Consists, Strictly, Rest
  <2>6. QED  BY <1>2, <2>2, <2>5 DEF Planned
<1>5. QED  BY <1>1, <1>3, <1>4

\* Something has been loaded.
LEMMA LoadsOn ==
    ASSUME Typed, NEW c \in Clients, ask[c].what \in {"plan", "list"}, IsHand(hand[c]),
           NEW reg, NEW fs, LoadedUpTo(reg, plugins, fs), Strictly(c) => reg.failures = {},
           Reads(c, [hand[c] EXCEPT !.reg = reg]), Go(c, Loading(fs, Strictly(c)) \o Rest(c))
    PROVE  Planned(c)'
<1>1. ask'[c] = ask[c] /\ job'[c] = Loading(fs, Strictly(c)) \o Rest(c)
  BY DEF Go, Typed, ClientsTyped
<1>2. hand'[c].reg = reg /\ IsHand(hand'[c]) /\ plugins' = plugins
  BY HandWith DEF Reads, Typed, ClientsTyped, disk
<1>3. /\ Strictly(c)' <=> Strictly(c)
      /\ Rest(c)' = Rest(c)
      /\ \A do : Calling(c, do)' = Calling(c, do)
      /\ LoadingOf(c, fs)' = LoadingOf(c, fs)
  BY <1>1 DEF Strictly, Rest, Calling, LoadingOf
<1>4. IsJob(Rest(c))
  <2>1. IsCall(Calling(c, "configure"))
    BY PlainCalls DEF Calling
  <2>2. QED  BY <2>1, ShortJobs DEF Rest
<1>5. CASE fs # {}
  <2>1. PICK e : e = LoadingOf(c, fs)
    OBVIOUS
  <2>2. Loading(fs, Strictly(c)) = <<e>>
    BY <1>5, <2>1 DEF Loading, LoadingOf
  <2>3. Consists(job'[c], e, Rest(c))
    BY <1>1, <1>4, <2>2, NextCall
  <2>4. Loads(c)'
    BY <1>2, <1>3, <1>5, <2>1, <2>3 DEF Loads
  <2>5. QED  BY <1>2, <2>4 DEF Planned
<1>6. CASE fs = {}
  <2>1. FilesAre(plugins)
    BY DEF FilesAre, Typed, FilesTyped
  <2>2. HasAll(reg, plugins)
    BY <1>6, <2>1, LoadedHasAll
  <2>3. job'[c] = Rest(c)
    <3>1. PICK S : Rest(c) \in Seq(S)
      BY <1>4 DEF IsJob
    <3>2. <<>> \o Rest(c) = Rest(c)
      BY <3>1
    <3>3. Loading(fs, Strictly(c)) = <<>>
      BY <1>6 DEF Loading
    <3>4. QED  BY <1>1, <3>2, <3>3
  <2>4. CASE Strictly(c)
    <3>1. Consists(job'[c], Calling(c, "configure"), <<>>)
      BY <2>3, <2>4 DEF Rest, Consists
    <3>2. Configures(c)'
      BY <1>2, <1>3, <2>2, <2>4, <3>1 DEF Configures, Ready
    <3>3. QED  BY <1>2, <3>2 DEF Planned
  <2>5. CASE ~Strictly(c)
    <3>1. job'[c] = <<>>
      BY <2>3, <2>5 DEF Rest
    <3>2. Answered(c)'
      BY <1>2, <1>3, <2>2, <2>5, <3>1 DEF Answered
    <3>3. QED  BY <1>2, <3>2 DEF Planned
  <2>6. QED  BY <2>4, <2>5
<1>7. QED  BY <1>5, <1>6

\* A plan that fails because there is none.
LEMMA PlanFails ==
    ASSUME Typed, NEW c \in Clients, Strictly(c), Raise(c), PlansFor(ask[c].table) = {}
    PROVE  Planned(c)'
<1>1. ask'[c] = ask[c] /\ job'[c] = <<>> /\ hand'[c] = InHand /\ UNCHANGED disk
  BY DEF Raise, Strictly, Typed, ClientsTyped
<1>2. PlansFor(ask[c].table)' = {}
  BY <1>1, PlansForDepends
<1>3. Strictly(c)'
  BY <1>1 DEF Strictly
<1>4. InHand.plan = <<>> /\ IsHand(InHand)
  BY DEF InHand, IsHand
<1>5. Answered(c)'
  BY <1>1, <1>2, <1>3, <1>4 DEF Answered, IsPlan
<1>6. QED  BY <1>1, <1>4, <1>5 DEF Planned

\* A hand with the pipeline resolved.
LEMMA ResolvedHand ==
    ASSUME NEW h, IsHand(h), NEW cfg
    PROVE  IsHand(Resolved(h, cfg)) /\ Resolved(h, cfg).plan = ResolvePipeline(cfg, h.reg)
BY HandWith

\* The packages are loaded, and plugins/ is listed.
LEMMA ListsStep ==
    ASSUME Typed, NEW c \in Clients, Step(c), ask[c].what \in {"plan", "list"}, IsHand(hand[c]), Lists(c)
    PROVE  Planned(c)'
<1>1. Call(c) = Listing(c) /\ Call(c).do = "list" /\ Call(c).strict = Strictly(c) /\ Tail(job[c]) = Rest(c)
  BY DEF Lists, Consists, Call, Listing
<1>2. ListPlugins(c)
  BY <1>1, StepByCall
<1>3. FilesAre(plugins)
  BY DEF FilesAre, Typed, FilesTyped
<1>4. LoadedUpTo(LoadInstalled, plugins, DOMAIN plugins)
  BY <1>3, LoadedInstalled
<1>5. CASE Strictly(c) /\ LoadInstalled.failures # {}
  <2>1. Broken(plugins) # {}
    BY <1>4, <1>5, FailuresAreBroken
  <2>2. PlansFor(ask[c].table) = {}
    BY <2>1 DEF PlansFor
  <2>3. Raise(c)
    BY <1>1, <1>2, <1>5 DEF ListPlugins
  <2>4. QED  BY <1>5, <2>2, <2>3, PlanFails
<1>6. CASE ~(Strictly(c) /\ LoadInstalled.failures # {})
  <2>1. Reads(c, [hand[c] EXCEPT !.reg = LoadInstalled])
        /\ Go(c, Loading(DOMAIN plugins, Strictly(c)) \o Rest(c))
    BY <1>1, <1>2, <1>6 DEF ListPlugins
  <2>2. QED  BY <1>4, <1>6, <2>1, LoadsOn
<1>7. QED  BY <1>5, <1>6

\* The next file is loaded.
LEMMA LoadsStep ==
    ASSUME Typed, NEW c \in Clients, Step(c), ask[c].what \in {"plan", "list"}, IsHand(hand[c]), Loads(c)
    PROVE  Planned(c)'
<1>1. PICK fs : /\ fs # {} /\ Consists(job[c], LoadingOf(c, fs), Rest(c))
                /\ LoadedUpTo(hand[c].reg, plugins, fs)
                /\ Strictly(c) => hand[c].reg.failures = {}
  BY DEF Loads
<1>2. /\ Call(c).do = "load" /\ Call(c).strict = Strictly(c) /\ Call(c).files = fs
      /\ Tail(job[c]) = Rest(c)
  BY <1>1 DEF Consists, Call, LoadingOf
<1>3. LoadPluginFile(c)
  BY <1>2, StepByCall
<1>4. FilesAre(plugins)
  BY DEF FilesAre, Typed, FilesTyped
<1>5. PICK f, reg : f = First(fs) /\ reg = LoadFile(hand[c].reg, f, plugins[f])
  OBVIOUS
<1>6. f \in fs /\ LoadedUpTo(reg, plugins, fs \ {f})
  BY <1>1, <1>4, <1>5, LoadedNext
<1>7. f \in DOMAIN plugins
  BY <1>1, <1>6 DEF LoadedUpTo
<1>8. reg = LoadFile(hand[c].reg, f, IF f \in DOMAIN plugins THEN plugins[f] ELSE Unreadable)
  BY <1>5, <1>7
<1>9. CASE Strictly(c) /\ reg.failures # {}
  <2>1. Broken(plugins) # {}
    BY <1>6, <1>9, FailuresAreBroken
  <2>2. PlansFor(ask[c].table) = {}
    BY <2>1 DEF PlansFor
  <2>3. Raise(c)
    BY <1>2, <1>3, <1>5, <1>8, <1>9 DEF LoadPluginFile
  <2>4. QED  BY <1>9, <2>2, <2>3, PlanFails
<1>10. CASE ~(Strictly(c) /\ reg.failures # {})
  <2>1. Reads(c, [hand[c] EXCEPT !.reg = reg]) /\ Go(c, Loading(fs \ {f}, Strictly(c)) \o Rest(c))
    BY <1>2, <1>3, <1>5, <1>8, <1>10 DEF LoadPluginFile
  <2>2. QED  BY <1>6, <1>10, <2>1, LoadsOn
<1>11. QED  BY <1>9, <1>10

\* The pipeline is resolved from the merged settings.
LEMMA ResolvesNow ==
    ASSUME Typed, NEW c \in Clients, Strictly(c), Ready(c), IsHand(hand[c]),
           ask[c].table \in TableNames, MetasResolve(toml),
           NEW cfg, cfg = SettingsOf(ask[c].table), IsTier(cfg),
           Reads(c, Resolved(hand[c], cfg)), Go(c, <<>>)
    PROVE  Planned(c)'
<1>1. PICK t : t = ask[c].table
  OBVIOUS
<1>2. ask'[c] = ask[c] /\ job'[c] = <<>>
  BY DEF Go, Typed, ClientsTyped, Strictly
<1>3. hand'[c] = Resolved(hand[c], cfg) /\ UNCHANGED disk
  BY DEF Reads, Typed, ClientsTyped
<1>4. IsHand(hand'[c]) /\ hand'[c].plan = ResolvePipeline(cfg, hand[c].reg)
  <2>1. PICK h : h = hand[c]
    OBVIOUS
  <2>2. IsHand(Resolved(h, cfg)) /\ Resolved(h, cfg).plan = ResolvePipeline(cfg, h.reg)
    BY <2>1, ResolvedHand
  <2>3. QED  BY <1>3, <2>1, <2>2
<1>5. IsPlan(hand'[c].plan, Asked(cfg, Available(plugins)))
  BY <1>4, DeclaredResolves, ChosenResolves DEF Ready
<1>6. PlansFor(t) = Asked(cfg, Available(plugins))
  <2>1. Broken(plugins) = {}
    BY DEF Ready, HasAll
  <2>2. QED  BY <1>1, <2>1 DEF PlansFor, Asked
<1>7. PlansFor(t)' = PlansFor(t)
  BY <1>3, PlansForDepends
<1>8. Strictly(c)'
  BY <1>2 DEF Strictly
<1>9. Answered(c)'
  BY <1>1, <1>2, <1>5, <1>6, <1>7, <1>8 DEF Answered
<1>10. QED  BY <1>4, <1>9 DEF Planned

\* The settings are merged, up to the sidecar.
LEMMA ConfiguresStep ==
    ASSUME Typed, NEW c \in Clients, Step(c), ask[c].what = "plan", IsHand(hand[c]), Configures(c)
    PROVE  Planned(c)'
<1>1. PICK t : t = ask[c].table
  OBVIOUS
<1>2. Strictly(c) /\ Ready(c) /\ Call(c).do = "configure" /\ Call(c).table = t /\ Tail(job[c]) = <<>>
  BY <1>1 DEF Configures, Consists, Call, Calling
<1>3. Configure(c)
  BY <1>2, StepByCall
<1>4. CASE t \notin TableNames \/ ~MetasResolve(toml)
  <2>1. Raise(c)
    BY <1>2, <1>3, <1>4 DEF Configure
  <2>2. PlansFor(t) = {}
    BY <1>4 DEF PlansFor
  <2>3. QED  BY <1>1, <1>2, <2>1, <2>2, PlanFails
<1>5. CASE t \in TableNames /\ MetasResolve(toml) /\ t \in sources
  <2>1. PICK cfg, calls : cfg = SharedSettings(toml, t) /\ calls = <<[do |-> "sidecar", table |-> t]>>
    OBVIOUS
  <2>2. Reads(c, [hand[c] EXCEPT !.cfg = cfg]) /\ Go(c, calls)
    BY <1>2, <1>3, <1>5, <2>1 DEF Configure
  <2>3. calls # <<>> /\ Consists(calls, Calling(c, "sidecar"), <<>>)
    BY <1>1, <2>1 DEF Consists, Calling
  <2>4. ask'[c] = ask[c] /\ job'[c] = calls
    BY <2>2, <2>3 DEF Go, Typed, ClientsTyped
  <2>5. hand'[c].reg = hand[c].reg /\ hand'[c].cfg = cfg /\ IsHand(hand'[c]) /\ UNCHANGED disk
    BY <2>2, HandWith DEF Reads, Typed, ClientsTyped
  <2>6. UNCHANGED <<sources, toml, plugins>>
    BY <2>5 DEF disk
  <2>7. Strictly(c)' /\ Calling(c, "sidecar")' = Calling(c, "sidecar")
    BY <1>2, <2>4 DEF Strictly, Calling
  <2>8. Merges(c)'
    BY <1>1, <1>2, <1>5, <2>1, <2>3, <2>4, <2>5, <2>6, <2>7 DEF Merges, Ready
  <2>9. QED  BY <2>5, <2>8 DEF Planned
<1>6. CASE t \in TableNames /\ MetasResolve(toml) /\ t \notin sources
  <2>1. PICK cfg : cfg = EffectiveConfig(toml, t)
    OBVIOUS
  <2>2. Reads(c, Resolved(hand[c], cfg)) /\ Go(c, <<>>)
    BY <1>2, <1>3, <1>6, <2>1 DEF Configure, Return
  <2>3. cfg = SettingsOf(t) /\ IsTier(cfg)
    BY <1>6, <2>1, MergedIsNearest DEF Typed
  <2>4. QED  BY <1>1, <1>2, <1>6, <2>2, <2>3, ResolvesNow
<1>7. QED  BY <1>4, <1>5, <1>6

\* The sidecar is merged over them.
LEMMA MergesStep ==
    ASSUME Typed, NEW c \in Clients, Step(c), ask[c].what = "plan", IsHand(hand[c]), Merges(c)
    PROVE  Planned(c)'
<1>1. PICK t : t = ask[c].table
  OBVIOUS
<1>2. /\ Strictly(c) /\ Ready(c) /\ Call(c).do = "sidecar" /\ Call(c).table = t /\ Tail(job[c]) = <<>>
      /\ t \in sources /\ MetasResolve(toml) /\ hand[c].cfg = SharedSettings(toml, t)
  BY <1>1 DEF Merges, Consists, Call, Calling
<1>3. ReadSidecar(c)
  BY <1>2, StepByCall
<1>4. PICK cfg : cfg = WithSidecar(SharedSettings(toml, t), IF t \in DOMAIN sidecar THEN sidecar[t] ELSE EmptyMap)
  OBVIOUS
<1>5. Reads(c, Resolved(hand[c], cfg)) /\ Go(c, <<>>)
  BY <1>2, <1>3, <1>4 DEF ReadSidecar, Return
<1>6. t \in TableNames
  BY <1>2 DEF TableNames
<1>7. cfg = SettingsOf(t) /\ IsTier(cfg)
  BY <1>2, <1>4, <1>6, MergedIsNearest DEF Typed
<1>8. QED  BY <1>1, <1>2, <1>5, <1>6, <1>7, ResolvesNow

\* Every step keeps what is known of the plans.
LEMMA PlansFollowStep ==
    ASSUME Typed, PlansFollow, [Next]_vars
    PROVE  PlansFollow'
<1>1. SUFFICES ASSUME NEW c \in Clients, IsPlanning(c)' PROVE Planned(c)'
  BY DEF PlansFollow
<1>2. CASE UNCHANGED vars
  <2>1. IsPlanning(c) /\ UNCHANGED <<disk, job, ask, hand>>
    BY <1>1, <1>2 DEF IsPlanning, vars, disk
  <2>2. Planned(c)
    BY <2>1 DEF PlansFollow
  <2>3. QED  BY <2>1, <2>2, PlannedDepends
<1>3. ASSUME NEW d \in Clients, Ask(d) \/ Step(d), d # c
      PROVE  Planned(c)'
  <2>1. /\ UNCHANGED disk /\ alone'[c] = alone[c]
        /\ job'[c] = job[c] /\ ask'[c] = ask[c] /\ hand'[c] = hand[c]
    BY <1>1, <1>3, OthersStep DEF IsPlanning
  <2>2. Planned(c)
    BY <1>1, <2>1 DEF PlansFollow, IsPlanning
  <2>3. QED  BY <2>1, <2>2, PlannedDepends
<1>4. CASE Ask(c)
  BY <1>1, <1>4, PlanningStarts
<1>5. CASE Step(c)
  <2>1. IsPlanning(c)
    <3>1. CASE Raise(c)
      BY <1>1, <3>1 DEF Raise, IsPlanning, Typed, ClientsTyped, NoAsk
    <3>2. ASSUME NEW calls, Go(c, calls) PROVE ask'[c] \in {ask[c], NoAsk}
      BY <3>2 DEF Go, Typed, ClientsTyped
    <3>3. ASSUME Touches(c) \/ \E h : Reads(c, h) PROVE alone'[c] => alone[c]
      BY <3>3 DEF Touches, Reads
    <3>4. QED  BY <1>1, <1>5, <3>1, <3>2, <3>3, StepKinds DEF IsPlanning, NoAsk
  <2>2. Planned(c) /\ ask[c].what \in {"plan", "list"}
    BY <2>1 DEF PlansFollow, IsPlanning
  <2>3. ~Answered(c)
    BY <1>5, StepByCall DEF Answered, Idle
  <2>4. Configures(c) \/ Merges(c) => ask[c].what = "plan"
    BY DEF Configures, Merges, Strictly
  <2>5. QED  BY <1>5, <2>2, <2>3, <2>4, ListsStep, LoadsStep, ConfiguresStep, MergesStep DEF Planned
<1>6. QED  BY <1>2, <1>3, <1>4, <1>5 DEF Next

\* A build that nobody disturbs runs the pipeline that the files ask for, and a listing
\* shows the plugins that are available: load_plugins, load_config and
\* resolve_pipeline_spec, in several accesses to the files, give what the declarative
\* reading of the tiers and of the plugin files gives.
THEOREM PlansAreReference == Spec => []PlanIsReference
<1>1. Init => Typed /\ PlansFollow
  <2>1. Init => PlansFollow
    BY DEF Init, PlansFollow, IsPlanning
  <2>2. QED  BY <2>1, TypedInit
<1>2. Typed /\ PlansFollow /\ [Next]_vars => (Typed /\ PlansFollow)'
  BY TypedStep, PlansFollowStep
<1>3. Typed /\ PlansFollow => PlanIsReference
  BY PlansFollowMeans
<1>4. QED  BY <1>1, <1>2, <1>3, PTL DEF Spec

-----------------------------------------------------------------------------
(* An accepted pipeline can be built with the plugins it was accepted with. *)

\* What a request has still to do that sets or removes the pipeline of a table.
NewStages(c) == IF ask[c].what = "pipe" THEN Put(EmptyMap, "stages", ask[c].stages) ELSE EmptyMap
Checking(c) == [do |-> "check", stages |-> ask[c].stages]
Putting(c) == [do |-> "put", table |-> ask[c].table, new |-> NewStages(c)]
LookingUp(c) == [do |-> "discover", table |-> ask[c].table]
ListingAll == [do |-> "list", strict |-> TRUE]
LoadingAll(fs) == [do |-> "load", files |-> fs, strict |-> TRUE]

\* The pipeline is not checked yet; a plugin that has not loaded would have ended the request.
Proposed(c) ==
    /\ IsHand(hand[c]) /\ ask[c].stages \in Pipelines
    /\ \/ Consists(job[c], LookingUp(c), <<ListingAll, Checking(c), Putting(c)>>)
       \/ Consists(job[c], ListingAll, <<Checking(c), Putting(c)>>)
       \/ \E fs : /\ fs # {} /\ Consists(job[c], LoadingAll(fs), <<Checking(c), Putting(c)>>)
                  /\ LoadedUpTo(hand[c].reg, plugins, fs) /\ hand[c].reg.failures = {}
       \/ Consists(job[c], Checking(c), <<Putting(c)>>) /\ Ready(c)

\* It has been checked, and what is left to do changes no plugin.
Approved(c) ==
    /\ Buildable(ask[c].stages, Available(plugins))
    /\ job[c] # <<>> /\ Tail(job[c]) = <<>>
    /\ \/ Call(c).do = "put"
       \/ Call(c).do \in {"edit", "write", "fill", "unlink"} /\ Call(c).file[1] \in {"toml", "sidecar"}

IsPiping(c) == alone[c] /\ ask[c].what = "pipe"

\* It has been accepted with these plugins.
StaysBuildable(t) == \A files \in told[t].plugins : Buildable(told[t].stages, Available(files))

PipelinesBuildable ==
    /\ \A t \in DOMAIN told : StaysBuildable(t)
    /\ \A c \in Clients : IsPiping(c) => Proposed(c) \/ Approved(c)

\* What is said of a request depends on the plugins and on the state of the client only.
LEMMA PipingDepends ==
    ASSUME NEW c, plugins' = plugins, job'[c] = job[c], ask'[c] = ask[c], hand'[c] = hand[c],
           Proposed(c) \/ Approved(c)
    PROVE  (Proposed(c) \/ Approved(c))'
<1>1. /\ LookingUp(c)' = LookingUp(c) /\ Checking(c)' = Checking(c) /\ Putting(c)' = Putting(c)
      /\ IsHand(hand[c])' = IsHand(hand[c]) /\ Ready(c)' = Ready(c) /\ Call(c)' = Call(c)
      /\ ListingAll' = ListingAll /\ \A fs : LoadingAll(fs)' = LoadingAll(fs)
  BY DEF LookingUp, Checking, Putting, NewStages, IsHand, Ready, Call, ListingAll, LoadingAll
<1>2. CASE Approved(c)
  BY <1>1, <1>2 DEF Approved
<1>3. CASE Proposed(c)
  <2>1. CASE \E fs : /\ fs # {} /\ Consists(job[c], LoadingAll(fs), <<Checking(c), Putting(c)>>)
                     /\ LoadedUpTo(hand[c].reg, plugins, fs) /\ hand[c].reg.failures = {}
    <3>1. PICK fs : /\ fs # {} /\ Consists(job[c], LoadingAll(fs), <<Checking(c), Putting(c)>>)
                    /\ LoadedUpTo(hand[c].reg, plugins, fs) /\ hand[c].reg.failures = {}
      BY <2>1
    <3>2. LoadedUpTo(hand[c].reg, plugins, fs)'
      BY <3>1
    <3>3. QED  BY <1>1, <1>3, <3>1, <3>2 DEF Proposed
  <2>2. QED  BY <1>1, <1>3, <2>1 DEF Proposed
<1>4. QED  BY <1>2, <1>3

\* A request to set a pipeline is at its first call.
LEMMA PipingStarts ==
    ASSUME Typed, NEW c \in Clients, Ask(c), IsPiping(c)'
    PROVE  Proposed(c)'
<1>1. SavePipeline(c)
  <2>1. PICK a, calls : Request(c, a, calls) /\ (a.what = "pipe" => SavePipeline(c))
    BY AskIsRequest
  <2>2. ask'[c] = a
    BY <2>1 DEF Request, Typed, ClientsTyped
  <2>3. QED  BY <2>1, <2>2 DEF IsPiping
<1>2. PICK a, calls, t, s :
         /\ Request(c, a, calls)
         /\ \/ /\ s \in Pipelines /\ a = Piping("pipe", t, s, PipelineFiles(t))
               /\ calls = <<[do |-> "discover", table |-> t], [do |-> "list", strict |-> TRUE],
                            [do |-> "check", stages |-> s],
                            [do |-> "put", table |-> t, new |-> Put(EmptyMap, "stages", s)]>>
            \/ a = Piping("unpipe", t, <<>>, PipelineFiles(t))
  BY <1>1 DEF SavePipeline
<1>3. ask'[c] = a /\ job'[c] = calls /\ hand'[c] = InHand
  BY <1>2 DEF Request, Typed, ClientsTyped
<1>4. a.what = "pipe"
  BY <1>3 DEF IsPiping
<1>5. a = Piping("pipe", t, s, PipelineFiles(t)) /\ s \in Pipelines
  BY <1>2, <1>4, WhatIsAsked
<1>6. a.table = t /\ a.stages = s
  BY <1>5, WhatIsAsked
<1>7. PICK x, y, z, w : /\ x = [do |-> "discover", table |-> t] /\ y = [do |-> "list", strict |-> TRUE]
                        /\ z = [do |-> "check", stages |-> s]
                        /\ w = [do |-> "put", table |-> t, new |-> Put(EmptyMap, "stages", s)]
  OBVIOUS
<1>8. calls = <<x, y, z, w>>
  BY <1>2, <1>4, <1>7, WhatIsAsked
<1>9. /\ LookingUp(c)' = x /\ ListingAll' = y /\ Checking(c)' = z /\ Putting(c)' = w
  BY <1>3, <1>4, <1>6, <1>7 DEF LookingUp, ListingAll, Checking, Putting, NewStages
<1>10. Consists(calls, x, <<y, z, w>>)
  BY <1>8 DEF Consists
<1>11. IsHand(InHand)
  BY DEF IsHand, InHand
<1>12. QED  BY <1>3, <1>5, <1>6, <1>9, <1>10, <1>11 DEF Proposed

\* Something has been loaded.
LEMMA PipingLoadsOn ==
    ASSUME Typed, NEW c \in Clients, IsPiping(c), IsHand(hand[c]), ask[c].stages \in Pipelines,
           NEW reg, NEW fs, LoadedUpTo(reg, plugins, fs), reg.failures = {},
           Reads(c, [hand[c] EXCEPT !.reg = reg]), Go(c, Loading(fs, TRUE) \o <<Checking(c), Putting(c)>>)
    PROVE  Proposed(c)' /\ told' = told /\ plugins' = plugins
<1>1. PICK x, y, two : x = Checking(c) /\ y = Putting(c) /\ two = <<x, y>>
  OBVIOUS
<1>2. IsJob(two)
  <2>1. IsCall(x)
    BY <1>1, PlainCalls DEF Checking
  <2>2. IsTier(NewStages(c))
    BY TiersStay DEF NewStages
  <2>3. y.do = "put" /\ y.new = NewStages(c)
    BY <1>1 DEF Putting
  <2>4. IsCall(y)
    BY <2>2, <2>3 DEF IsCall
  <2>5. QED  BY <1>1, <2>1, <2>4, ShortJobs
<1>3. Loading(fs, TRUE) \o two # <<>>
  <2>1. two \in Seq({x, y}) /\ Len(two) = 2
    BY <1>1
  <2>2. CASE fs = {}
    BY <2>1, <2>2 DEF Loading
  <2>3. CASE fs # {}
    BY <1>2, <2>3, NextCall DEF Loading, Consists
  <2>4. QED  BY <2>2, <2>3
<1>4. ask'[c] = ask[c] /\ told' = told /\ job'[c] = Loading(fs, TRUE) \o two
  BY <1>1, <1>3 DEF Go, Typed, ClientsTyped
<1>5. hand'[c].reg = reg /\ IsHand(hand'[c]) /\ plugins' = plugins
  BY HandWith DEF Reads, Typed, ClientsTyped, disk
<1>6. Checking(c)' = x /\ Putting(c)' = y /\ ask'[c].stages \in Pipelines
  BY <1>1, <1>4 DEF Checking, Putting, NewStages
<1>7. CASE fs # {}
  <2>1. Loading(fs, TRUE) = <<LoadingAll(fs)>>
    BY <1>7 DEF Loading, LoadingAll
  <2>2. Consists(job'[c], LoadingAll(fs), two)
    BY <1>2, <1>4, <2>1, NextCall
  <2>3. LoadedUpTo(hand[c].reg, plugins, fs)'
    BY <1>5
  <2>4. QED  BY <1>1, <1>4, <1>5, <1>6, <1>7, <2>2, <2>3 DEF Proposed, LoadingAll
<1>8. CASE fs = {}
  <2>1. FilesAre(plugins)
    BY DEF FilesAre, Typed, FilesTyped
  <2>2. HasAll(reg, plugins)
    BY <1>8, <2>1, LoadedHasAll
  <2>3. job'[c] = two
    <3>1. <<>> \o two = two
      BY <1>1
    <3>2. QED  BY <1>4, <1>8, <3>1 DEF Loading
  <2>4. Consists(two, x, <<y>>)
    BY <1>1 DEF Consists
  <2>5. Ready(c)'
    BY <1>5, <2>2 DEF Ready
  <2>6. QED  BY <1>1, <1>4, <1>5, <1>6, <2>3, <2>4, <2>5 DEF Proposed
<1>9. QED  BY <1>7, <1>8

\* A request that fails is forgotten.
LEMMA PipingRaises ==
    ASSUME Typed, NEW c \in Clients, Raise(c), ask[c].what = "pipe"
    PROVE  ~IsPiping(c)'
<1>1. ask'[c] = NoAsk
  BY DEF Raise, Typed, ClientsTyped
<1>2. QED  BY <1>1 DEF IsPiping, NoAsk

\* The steps up to the check.
LEMMA ProposedStep ==
    ASSUME Typed, NEW c \in Clients, Step(c), IsPiping(c), Proposed(c)
    PROVE  \/ Raise(c)
           \/ (Proposed(c) \/ Approved(c))' /\ told' = told /\ plugins' = plugins
<1>1. PICK x, y : x = Checking(c) /\ y = Putting(c)
  OBVIOUS
<1>2. FilesAre(plugins)
  BY DEF FilesAre, Typed, FilesTyped
<1>3. CASE Consists(job[c], LookingUp(c), <<ListingAll, x, y>>)
  <2>1. Call(c) = LookingUp(c) /\ Call(c).do = "discover" /\ Tail(job[c]) = <<ListingAll, x, y>>
    BY <1>3 DEF Consists, Call, LookingUp
  <2>2. Discover(c)
    BY <2>1, StepByCall
  <2>3. SUFFICES ASSUME ~Raise(c) PROVE Proposed(c)' /\ told' = told /\ plugins' = plugins
    OBVIOUS
  <2>4. PICK b : Reads(c, [hand[c] EXCEPT !.batch = b]) /\ Go(c, <<ListingAll, x, y>>)
    BY <2>1, <2>2, <2>3 DEF Discover, Return
  <2>5. PICK three : three = <<ListingAll, x, y>>
    OBVIOUS
  <2>6. three # <<>> /\ Head(three) = ListingAll /\ Tail(three) = <<x, y>>
    BY <2>5
  <2>7. job'[c] = three /\ ask'[c] = ask[c] /\ told' = told
    BY <2>4, <2>5, <2>6 DEF Go, Typed, ClientsTyped
  <2>8. hand'[c] = [hand[c] EXCEPT !.batch = b] /\ plugins' = plugins
    BY <2>4 DEF Reads, Typed, ClientsTyped, disk
  <2>9. IsHand([hand[c] EXCEPT !.batch = b])
    BY DEF Proposed, IsHand
  <2>10. Checking(c)' = x /\ Putting(c)' = y /\ ListingAll' = ListingAll
    BY <1>1, <2>7 DEF Checking, Putting, NewStages, ListingAll
  <2>11. QED  BY <2>6, <2>7, <2>8, <2>9, <2>10 DEF Proposed, Consists
<1>4. CASE Consists(job[c], ListingAll, <<x, y>>)
  <2>1. Call(c).do = "list" /\ Call(c).strict = TRUE /\ Tail(job[c]) = <<x, y>>
    BY <1>4 DEF Consists, Call, ListingAll
  <2>2. ListPlugins(c)
    BY <2>1, StepByCall
  <2>3. LoadedUpTo(LoadInstalled, plugins, DOMAIN plugins)
    BY <1>2, LoadedInstalled
  <2>4. CASE LoadInstalled.failures # {}
    BY <2>1, <2>2, <2>4 DEF ListPlugins
  <2>5. CASE LoadInstalled.failures = {}
    <3>1. Reads(c, [hand[c] EXCEPT !.reg = LoadInstalled]) /\ Go(c, Loading(DOMAIN plugins, TRUE) \o <<x, y>>)
      BY <2>1, <2>2, <2>5 DEF ListPlugins
    <3>2. QED  BY <1>1, <2>3, <2>5, <3>1, PipingLoadsOn DEF Proposed
  <2>6. QED  BY <2>4, <2>5
<1>5. CASE \E fs : /\ fs # {} /\ Consists(job[c], LoadingAll(fs), <<x, y>>)
                   /\ LoadedUpTo(hand[c].reg, plugins, fs) /\ hand[c].reg.failures = {}
  <2>1. PICK fs : /\ fs # {} /\ Consists(job[c], LoadingAll(fs), <<x, y>>)
                  /\ LoadedUpTo(hand[c].reg, plugins, fs)
    BY <1>5
  <2>2. Call(c).do = "load" /\ Call(c).strict = TRUE /\ Call(c).files = fs /\ Tail(job[c]) = <<x, y>>
    BY <2>1 DEF Consists, Call, LoadingAll
  <2>3. LoadPluginFile(c)
    BY <2>2, StepByCall
  <2>4. PICK f, reg : f = First(fs) /\ reg = LoadFile(hand[c].reg, f, plugins[f])
    OBVIOUS
  <2>5. f \in fs /\ LoadedUpTo(reg, plugins, fs \ {f})
    BY <1>2, <2>1, <2>4, LoadedNext
  <2>6. f \in DOMAIN plugins
    BY <2>1, <2>5 DEF LoadedUpTo
  <2>7. reg = LoadFile(hand[c].reg, f, IF f \in DOMAIN plugins THEN plugins[f] ELSE Unreadable)
    BY <2>4, <2>6
  <2>8. CASE reg.failures # {}
    BY <2>2, <2>3, <2>4, <2>7, <2>8 DEF LoadPluginFile
  <2>9. CASE reg.failures = {}
    <3>1. Reads(c, [hand[c] EXCEPT !.reg = reg]) /\ Go(c, Loading(fs \ {f}, TRUE) \o <<x, y>>)
      BY <2>2, <2>3, <2>4, <2>7, <2>9 DEF LoadPluginFile
    <3>2. QED  BY <1>1, <2>5, <2>9, <3>1, PipingLoadsOn DEF Proposed
  <2>10. QED  BY <2>8, <2>9
<1>6. CASE Consists(job[c], x, <<y>>) /\ Ready(c)
  <2>1. PICK s, reg : s = ask[c].stages /\ reg = hand[c].reg
    OBVIOUS
  <2>2. Call(c).do = "check" /\ Call(c).stages = s /\ Tail(job[c]) = <<y>>
    BY <1>1, <1>6, <2>1 DEF Consists, Call, Checking
  <2>3. CheckPipeline(c)
    BY <2>2, StepByCall
  <2>4. SUFFICES ASSUME ~Raise(c) PROVE Approved(c)' /\ told' = told /\ plugins' = plugins
    OBVIOUS
  <2>5. Checked(s, reg) # <<>> /\ Go(c, <<y>>) /\ plugins' = plugins
    BY <2>1, <2>2, <2>3, <2>4 DEF CheckPipeline, Return, Reads, disk
  <2>6. Enforced(s) /\ FitsRegistry(s, reg)
    BY <2>5 DEF Checked
  <2>7. s \in Seq(Stage)
    BY <2>1, PreparationAssumption DEF Proposed
  <2>8. Buildable(s, Available(plugins))
    BY <1>6, <2>1, <2>6, <2>7, FitsMeansBuildable DEF Ready
  <2>9. ask'[c] = ask[c] /\ job'[c] = <<y>> /\ told' = told
    BY <2>5 DEF Go, Typed, ClientsTyped
  <2>10. y.do = "put"
    BY <1>1 DEF Putting
  <2>11. QED  BY <2>1, <2>5, <2>8, <2>9, <2>10 DEF Approved, Call
<1>7. QED  BY <1>1, <1>3, <1>4, <1>5, <1>6 DEF Proposed

\* What is told at the end of a request can be built.
LEMMA ToldStaysBuildable ==
    ASSUME Typed, NEW c \in Clients, NEW calls, Go(c, calls),
           \A t \in DOMAIN told : StaysBuildable(t),
           IsPiping(c) => Buildable(ask[c].stages, Available(plugins'))
    PROVE  \A t \in DOMAIN told' : StaysBuildable(t)'
<1>1. PICK r, x : r = ask[c] /\ x = [stages |-> r.stages, plugins |-> IF alone[c] THEN {plugins'} ELSE {}]
  OBVIOUS
<1>2. CASE told' = told
  BY <1>2 DEF StaysBuildable
<1>3. CASE told' = EmptyMap
  BY <1>3 DEF EmptyMap
<1>4. CASE told' = ToldBy(c)
  <2>1. CASE r.what = "pipe"
    <3>1. told' = Put(told, r.table, x)
      BY <1>1, <1>4, <2>1 DEF ToldBy
    <3>2. \A files \in x.plugins : Buildable(x.stages, Available(files))
      <4>1. x.stages = r.stages /\ x.plugins = IF alone[c] THEN {plugins'} ELSE {}
        BY <1>1
      <4>2. QED  BY <1>1, <2>1, <4>1 DEF IsPiping
    <3>3. ASSUME NEW t \in DOMAIN told' PROVE told'[t] = x \/ (t \in DOMAIN told /\ told'[t] = told[t])
      BY <3>1, <3>3 DEF Put
    <3>4. QED  BY <3>2, <3>3 DEF StaysBuildable
  <2>2. CASE r.what = "unpipe"
    BY <1>1, <1>4, <2>2 DEF ToldBy, Drop, StaysBuildable
  <2>3. CASE r.what = "rename"
    <3>1. told' = MoveKey(told, r.table, r.new)
      BY <1>1, <1>4, <2>3 DEF ToldBy
    <3>2. ASSUME NEW t \in DOMAIN told' PROVE \E u \in DOMAIN told : told'[t] = told[u]
      BY <3>1, <3>2 DEF MoveKey, Put, Drop
    <3>3. QED  BY <3>2 DEF StaysBuildable
  <2>4. CASE r.what = "clone"
    <3>1. told' = IF r.table \in DOMAIN told THEN Put(told, r.new, told[r.table]) ELSE told
      BY <1>1, <1>4, <2>4 DEF ToldBy
    <3>2. ASSUME NEW t \in DOMAIN told' PROVE \E u \in DOMAIN told : told'[t] = told[u]
      BY <3>1, <3>2 DEF Put
    <3>3. QED  BY <3>2 DEF StaysBuildable
  <2>5. CASE r.what \notin {"pipe", "unpipe", "rename", "clone"}
    <3>1. told' = told
      BY <1>1, <1>4, <2>5 DEF ToldBy
    <3>2. QED  BY <1>2, <3>1
  <2>6. QED  BY <2>1, <2>2, <2>3, <2>4, <2>5
<1>5. QED  BY <1>2, <1>3, <1>4 DEF Go

\* The steps after the check.
LEMMA ApprovedStep ==
    ASSUME Typed, NEW c \in Clients, Step(c), IsPiping(c), Approved(c)
    PROVE  \/ Raise(c)
           \/ \E calls : /\ Go(c, calls) /\ plugins' = plugins
                         /\ calls # <<>> => Approved(c)'
<1>1. PICK e : e = Call(c)
  OBVIOUS
<1>2. SUFFICES ASSUME ~Raise(c)
               PROVE \E calls : /\ Go(c, calls) /\ plugins' = plugins
                                /\ calls = <<>> \/ \E f : /\ calls = <<f>>
                                                          /\ f.do \in {"edit", "write", "fill", "unlink"}
                                                          /\ f.file[1] \in {"toml", "sidecar"}
  <2>1. ASSUME NEW calls, Go(c, calls), plugins' = plugins, NEW f, calls = <<f>>,
               f.do \in {"edit", "write", "fill", "unlink"}, f.file[1] \in {"toml", "sidecar"}
        PROVE  Approved(c)'
    <3>1. job'[c] = <<f>> /\ ask'[c] = ask[c]
      BY <2>1 DEF Go, Typed, ClientsTyped
    <3>2. QED  BY <2>1, <3>1 DEF Approved, Call
  <2>2. QED  BY <2>1
<1>3. CASE e.do = "put"
  <2>1. PutPipeline(c)
    BY <1>1, <1>3, StepByCall
  <2>2. PICK file, slot, new, f : /\ f = NewTier(file, slot, {"stages"}, new) /\ Go(c, <<f>>)
                                  /\ file = TomlFile \/ \E t : file = SidecarFile(t)
                                  /\ Reads(c, InHand)
    BY <2>1 DEF PutPipeline
  <2>3. f.do = "edit" /\ f.file = file /\ file[1] \in {"toml", "sidecar"}
    BY <2>2, FileKinds DEF NewTier
  <2>4. QED  BY <2>2, <2>3 DEF Reads, disk
<1>4. CASE e.do = "edit" /\ e.file[1] \in {"toml", "sidecar"}
  <2>1. ReadToEdit(c)
    BY <1>1, <1>4, StepByCall
  <2>2. PICK f : /\ Reads(c, hand[c]) /\ Go(c, <<f>> \o Tail(job[c]))
                 /\ f.file = e.file /\ f.do \in {"write", "unlink"}
    <3>1. CASE e.file = TomlFile
      <4>1. PICK f : f = [do |-> "write", file |-> e.file, new |-> EditedToml(e)]
        OBVIOUS
      <4>2. Reads(c, hand[c]) /\ Go(c, <<f>> \o Tail(job[c]))
        BY <1>1, <1>2, <2>1, <3>1, <4>1 DEF ReadToEdit
      <4>3. QED  BY <4>1, <4>2
    <3>2. CASE e.file # TomlFile
      <4>1. PICK new : new = Edited(SidecarTier(e.file[2]), e.fields, e.new)
        OBVIOUS
      <4>2. PICK f, g : /\ f = [do |-> "write", file |-> e.file, new |-> new]
                        /\ g = [do |-> "unlink", file |-> e.file]
        OBVIOUS
      <4>3. Reads(c, hand[c]) /\ Go(c, (IF new = EmptyMap THEN <<g>> ELSE <<f>>) \o Tail(job[c]))
        BY <1>1, <2>1, <3>2, <4>1, <4>2 DEF ReadToEdit
      <4>4. QED  BY <4>2, <4>3
    <3>3. QED  BY <3>1, <3>2
  <2>3. <<f>> \o Tail(job[c]) = <<f>>
    <3>1. Tail(job[c]) = <<>>
      BY DEF Approved
    <3>2. <<f>> \o <<>> = <<f>>
      OBVIOUS
    <3>3. QED  BY <3>1, <3>2
  <2>4. QED  BY <1>4, <2>2, <2>3 DEF Reads, disk
<1>5. CASE e.do = "write" /\ e.file[1] \in {"toml", "sidecar"}
  <2>1. PICK f : f = [e EXCEPT !.do = "fill"]
    OBVIOUS
  <2>2. IsCall(e)
    BY <1>1, JobParts DEF Approved, Typed, ClientsTyped, Call
  <2>3. e = [do |-> "write", file |-> e.file, new |-> e.new]
    BY <1>5, <2>2 DEF IsCall
  <2>4. f.do = "fill" /\ f.file = e.file
    BY <2>1, <2>3
  <2>5. Truncate(c)
    BY <1>1, <1>5, StepByCall
  <2>6. Go(c, <<f>> \o Tail(job[c])) /\ plugins' = plugins
    BY <1>1, <1>5, <2>1, <2>5 DEF Truncate, Becomes
  <2>7. <<f>> \o Tail(job[c]) = <<f>>
    <3>1. Tail(job[c]) = <<>>
      BY DEF Approved
    <3>2. <<f>> \o <<>> = <<f>>
      OBVIOUS
    <3>3. QED  BY <3>1, <3>2
  <2>8. QED  BY <1>5, <2>4, <2>6, <2>7
<1>6. CASE e.do = "fill" /\ e.file[1] \in {"toml", "sidecar"}
  <2>1. Fill(c)
    BY <1>1, <1>6, StepByCall
  <2>2. QED  BY <1>1, <1>6, <2>1 DEF Fill, Becomes, Return, Approved
<1>7. CASE e.do = "unlink" /\ e.file[1] \in {"toml", "sidecar"}
  <2>1. Unlink(c)
    BY <1>1, <1>7, StepByCall
  <2>2. QED  BY <1>1, <1>7, <2>1 DEF Unlink, Return, Approved
<1>8. QED  BY <1>1, <1>3, <1>4, <1>5, <1>6, <1>7 DEF Approved

\* Every step keeps this.
LEMMA PipelinesBuildableStep ==
    ASSUME Typed, PipelinesBuildable, [Next]_vars
    PROVE  PipelinesBuildable'
<1>1. CASE UNCHANGED vars
  <2>1. ASSUME NEW c \in Clients, IsPiping(c)' PROVE (Proposed(c) \/ Approved(c))'
    <3>1. IsPiping(c) /\ plugins' = plugins /\ job'[c] = job[c] /\ ask'[c] = ask[c] /\ hand'[c] = hand[c]
      BY <1>1, <2>1 DEF vars, IsPiping, disk
    <3>2. QED  BY <3>1, PipingDepends DEF PipelinesBuildable
  <2>2. QED  BY <1>1, <2>1 DEF PipelinesBuildable, StaysBuildable, vars
<1>2. CASE Next
  <2>1. PICK d \in Clients : Ask(d) \/ Step(d)
    BY <1>2 DEF Next
  <2>2. ASSUME NEW c \in Clients, c # d, IsPiping(c)' PROVE (Proposed(c) \/ Approved(c))'
    <3>1. /\ UNCHANGED disk /\ alone'[c] = alone[c]
          /\ job'[c] = job[c] /\ ask'[c] = ask[c] /\ hand'[c] = hand[c]
      BY <2>1, <2>2, OthersStep DEF IsPiping
    <3>2. IsPiping(c) /\ plugins' = plugins
      BY <2>2, <3>1 DEF IsPiping, disk
    <3>3. QED  BY <3>1, <3>2, PipingDepends DEF PipelinesBuildable
  <2>3. /\ IsPiping(d)' => (Proposed(d) \/ Approved(d))'
        /\ \A t \in DOMAIN told' : StaysBuildable(t)'
    <3>1. CASE Ask(d)
      <4>1. told' = told
        BY <3>1, AskIsRequest DEF Request
      <4>2. QED  BY <3>1, <4>1, PipingStarts DEF PipelinesBuildable, StaysBuildable
    <3>2. CASE Raise(d)
      <4>1. told' = told
        BY <3>2 DEF Raise
      <4>2. ask'[d] = NoAsk \/ (ask'[d] = ask[d] /\ ask[d].what = "plan")
        BY <3>2 DEF Raise, Typed, ClientsTyped
      <4>3. ~IsPiping(d)'
        BY <4>2 DEF IsPiping, NoAsk
      <4>4. QED  BY <4>1, <4>3 DEF PipelinesBuildable, StaysBuildable
    <3>3. CASE Step(d) /\ ~Raise(d)
      <4>1. PICK calls : Go(d, calls) /\ (Touches(d) \/ \E h : Reads(d, h))
        BY <3>3, StepKinds
      <4>2. alone'[d] = alone[d]
        BY <4>1 DEF Touches, Reads, Typed, ClientsTyped
      <4>3. ask'[d] = ask[d] \/ ask'[d] = NoAsk
        BY <4>1 DEF Go, Typed, ClientsTyped
      <4>4. IsPiping(d)' => IsPiping(d)
        BY <4>2, <4>3 DEF IsPiping, NoAsk
      <4>5. CASE ~IsPiping(d)
        BY <4>1, <4>4, <4>5, ToldStaysBuildable DEF PipelinesBuildable
      <4>6. CASE IsPiping(d) /\ Proposed(d)
        <5>1. (Proposed(d) \/ Approved(d))' /\ told' = told
          BY <3>3, <4>6, ProposedStep
        <5>2. QED  BY <5>1 DEF PipelinesBuildable, StaysBuildable
      <4>7. CASE IsPiping(d) /\ Approved(d)
        <5>1. PICK rest : /\ Go(d, rest) /\ plugins' = plugins
                          /\ rest # <<>> => Approved(d)'
          BY <3>3, <4>7, ApprovedStep
        <5>2. Buildable(ask[d].stages, Available(plugins'))
          BY <4>7, <5>1 DEF Approved
        <5>3. \A t \in DOMAIN told' : StaysBuildable(t)'
          BY <5>1, <5>2, ToldStaysBuildable DEF PipelinesBuildable
        <5>4. ASSUME rest = <<>> PROVE ~IsPiping(d)'
          <6>1. ask'[d] = NoAsk
            BY <4>7, <5>1, <5>4 DEF Go, Typed, ClientsTyped, IsPiping
          <6>2. QED  BY <6>1 DEF IsPiping, NoAsk
        <5>5. QED  BY <5>1, <5>3, <5>4
      <4>8. QED  BY <4>5, <4>6, <4>7 DEF PipelinesBuildable
    <3>4. QED  BY <2>1, <3>1, <3>2, <3>3
  <2>4. QED  BY <2>2, <2>3 DEF PipelinesBuildable
<1>3. QED  BY <1>1, <1>2

-----------------------------------------------------------------------------
(* An accepted pipeline stays in force.                                    *)

HasStages(x, s) == "stages" \in DOMAIN x /\ x["stages"] = s

\* The file where the pipeline of a table is.
Home(t) == IF t \in sources THEN SidecarFile(t) ELSE TomlFile

HasEntry(k, t, s) == IsBatch(k, t) /\ HasStages(k.tiers[BatchSlot(t)], s)

\* The pipeline s is that of the table t,
InForce(t, s) ==
    IF t \in sources THEN HasStages(SidecarTier(t), s) ELSE HasEntry(toml, t, s)

\* or will be once x has been written into the file.
ComesInForce(file, x, t, s) ==
    IF Home(t) # file THEN InForce(t, s)
    ELSE IF t \in sources THEN HasStages(x, s) ELSE HasEntry(x, t, s)

\* Of the accepted pipelines in these files, but for the tables in T, all are in force,
Settled(files, T) ==
    \A t \in DOMAIN told \ T : Home(t) \in files => InForce(t, told[t].stages)

\* or will be.
Pending(files, T, file, x) ==
    \A t \in DOMAIN told \ T : Home(t) \in files => ComesInForce(file, x, t, told[t].stages)

\* The client is writing x into the file.
Writes(c, file, x, rest) ==
    \E do \in {"write", "fill"} : Consists(job[c], Writing(do, file, x), rest)

\* Client c makes a plan or a listing,
IsLook(s) == \E S : s \in Seq(S) /\ \A e \in S : e.do \in {"list", "load", "configure", "sidecar"}
Looks(c) == ask[c].what \in {"plan", "list"} /\ ask[c].on = {} /\ IsLook(job[c])

\* or edits something else than a pipeline,
Spares(e) ==
    \/ e.how = "cluster"
    \/ e.how = "tier" /\ "stages" \notin DOMAIN e.new /\ "stages" \notin e.fields

EditsFile(c, file) ==
    \/ /\ \E e : /\ Consists(job[c], e, <<>>) /\ e.file = file
                 /\ \/ e.do = "edit" /\ Spares(e)
                    \/ e.do = "config_set" /\ "stages" \notin DOMAIN e.new
       /\ Settled({file}, {})
    \/ \E x : Writes(c, file, x, <<>>) /\ Pending({file}, {}, file, x)
    \/ /\ Consists(job[c], [do |-> "unlink", file |-> file], <<>>)
       /\ Settled({file}, {}) /\ \A t \in DOMAIN told : Home(t) # file

IsPath(file) ==
    file = TomlFile \/ (\E t : file = SidecarFile(t)) \/ \E f : file = PluginFile(f)

Edits(c) ==
    ask[c].what = "edit" /\ \E file : IsPath(file) /\ ask[c].on = {file} /\ EditsFile(c, file)

\* or the pipeline of a table: it looks the table up and checks the pipeline,
LooksUp(c) ==
    /\ IsHand(hand[c])
    /\ \/ Consists(job[c], LookingUp(c), <<Putting(c)>>)
       \/ Consists(job[c], LookingUp(c), <<ListingAll, Checking(c), Putting(c)>>)

\* knowing where it belongs,
Checks(c) ==
    /\ IsHand(hand[c]) /\ hand[c].batch = (ask[c].table \notin sources)
    /\ \/ Consists(job[c], ListingAll, <<Checking(c), Putting(c)>>)
       \/ \E fs : Consists(job[c], LoadingAll(fs), <<Checking(c), Putting(c)>>)
       \/ Consists(job[c], Checking(c), <<Putting(c)>>)
       \/ Consists(job[c], Putting(c), <<>>)

\* and edits the file;
Puts(c) ==
    LET t == ask[c].table IN
    \E file, slot, new :
        /\ file \in ask[c].on
        /\ Consists(job[c], NewTier(file, slot, {"stages"}, new), <<>>)
        /\ file = SidecarFile(t) \/ (file = TomlFile /\ slot = BatchSlot(t))
        /\ ask[c].what = "pipe" => file = Home(t) /\ new = NewStages(c)

PutsFile(c) ==
    LET t == ask[c].table IN
    \/ \E file, x :
           /\ file \in ask[c].on
           /\ file \in {SidecarFile(t), TomlFile}
           /\ Writes(c, file, x, <<>>) /\ Pending(ask[c].on, {t}, file, x)
           /\ ask[c].what = "pipe" => ComesInForce(file, x, t, ask[c].stages)
    \/ /\ ask[c].what = "unpipe"
       /\ Consists(job[c], [do |-> "unlink", file |-> SidecarFile(t)], <<>>)
       /\ Settled(ask[c].on, {t})

\* The pipeline of t is in these files.
Holds(files, t) == SidecarFile(t) \in files /\ (t \in sources \/ TomlFile \in files)

Pipes(c) ==
    /\ ask[c].what \in {"pipe", "unpipe"}
    /\ ask[c].what = "pipe" => ask[c].table \in Names
    /\ Holds(ask[c].on, ask[c].table)
    /\ \/ Settled(ask[c].on, {}) /\ (LooksUp(c) \/ Checks(c) \/ Puts(c))
       \/ PutsFile(c)

\* or gives a table a new name;
NamesTable(c) ==
    /\ {TomlFile, SidecarFile(ask[c].table), SidecarFile(ask[c].new)} \subseteq ask[c].on
    /\ ask[c].table # ask[c].new
    /\ ask[c].new \in Names \ DOMAIN told

Accepted(c) == ask[c].table \in DOMAIN told
OldStages(c) == told[ask[c].table].stages

\* it renames one: the file, its sidecar,
Moves(c) ==
    /\ Consists(job[c], Naming(c, "move"), <<Naming(c, "move_sidecar"), Renaming(c)>>)
    /\ ask[c].table \in sources /\ ask[c].new \notin sources
    /\ Settled(ask[c].on, {})

MovesSidecar(c) ==
    /\ Consists(job[c], Naming(c, "move_sidecar"), <<Renaming(c)>>)
    /\ ask[c].table \notin sources /\ ask[c].new \in sources
    /\ Settled(ask[c].on, {ask[c].table})
    /\ Accepted(c) => HasStages(SidecarTier(ask[c].table), OldStages(c))

\* and its entry;
RenamesEntry(c) ==
    /\ Consists(job[c], Renaming(c), <<>>)
    /\ ask[c].table \notin sources
    /\ Settled(ask[c].on, {ask[c].table})
    /\ Accepted(c) => InForce(IF ask[c].new \in sources THEN ask[c].new ELSE ask[c].table, OldStages(c))

RenamesToml(c) ==
    \E x : /\ Writes(c, TomlFile, x, <<>>) /\ Pending(ask[c].on, {ask[c].table}, TomlFile, x)
           /\ Accepted(c) => ComesInForce(TomlFile, x, ask[c].new, OldStages(c))

Renames(c) ==
    /\ ask[c].what = "rename" /\ NamesTable(c)
    /\ Moves(c) \/ MovesSidecar(c) \/ RenamesEntry(c) \/ RenamesToml(c)

\* or it clones one: the file, its sidecar,
Metas(c, rest) == rest = <<>> \/ \E k : rest = <<Tagging, Joining(c, k)>>

Copies(c) ==
    /\ \E rest, more : /\ Consists(job[c], Naming(c, "copy"), more)
                       /\ Consists(more, Naming(c, "copy_sidecar"), rest) /\ Metas(c, rest)
    /\ ask[c].table \in sources /\ ask[c].new \notin sources
    /\ Settled(ask[c].on, {})

CopiesSidecar(c) ==
    /\ \E rest : Consists(job[c], Naming(c, "copy_sidecar"), rest) /\ Metas(c, rest)
    /\ {ask[c].table, ask[c].new} \subseteq sources
    /\ Settled(ask[c].on, {})

WritesSidecar(c) ==
    \E x, rest :
        /\ Writes(c, SidecarFile(ask[c].new), x, rest) /\ Metas(c, rest)
        /\ ask[c].new \in sources
        /\ Pending(ask[c].on, {}, SidecarFile(ask[c].new), x)
        /\ Accepted(c) => HasStages(x, OldStages(c))

\* its metadata, or its entry.
Joins(c) ==
    /\ \E k : \/ Consists(job[c], Tagging, <<Joining(c, k)>>)
              \/ Consists(job[c], Joining(c, k), <<>>)
    /\ Settled(ask[c].on, {})
    /\ Accepted(c) => InForce(ask[c].new, OldStages(c))

Creates(c) ==
    \E x : /\ Consists(job[c], Creating(c, x), <<>>)
           /\ ask[c].new \notin sources
           /\ Settled(ask[c].on, {})
           /\ Accepted(c) => HasStages(x, OldStages(c))

ClonesToml(c) ==
    \E x, rest :
        /\ Writes(c, TomlFile, x, rest) /\ (rest = <<>> \/ \E k : rest = <<Joining(c, k)>>)
        /\ Pending(ask[c].on, {}, TomlFile, x)
        /\ Accepted(c) => ComesInForce(TomlFile, x, ask[c].new, OldStages(c))

Clones(c) ==
    /\ ask[c].what = "clone" /\ NamesTable(c)
    /\ \/ Copies(c) \/ CopiesSidecar(c) \/ WritesSidecar(c)
       \/ Joins(c) \/ Creates(c) \/ ClonesToml(c)

Works(c) == Looks(c) \/ Edits(c) \/ Pipes(c) \/ Renames(c) \/ Clones(c)

Apart == \A c, d \in Clients : c # d /\ ~Idle(c) /\ ~Idle(d) => ask[c].on \cap ask[d].on = {}

\* Where nobody is at work, accepted pipelines are in force.
Untouched ==
    \A t \in DOMAIN told :
        (\A c \in Clients : ~Changes(c, Home(t))) => InForce(t, told[t].stages)

PipelinesKept ==
    ~disturbed => /\ DOMAIN told \subseteq Names
                  /\ Apart /\ Untouched
                  /\ \A c \in Clients : ~Idle(c) => Works(c)

-----------------------------------------------------------------------------
(* The files that a step changes.                                          *)

\* Nothing but these files has changed,
DiskFrame(files) ==
    /\ TomlFile \notin files => toml' = toml /\ sources' = sources
    /\ \A t : SidecarFile(t) \notin files => /\ t \in sources' <=> t \in sources
                                             /\ SidecarTier(t)' = SidecarTier(t)

\* and what is told of the pipelines in them.
Frame(files) ==
    /\ DiskFrame(files)
    /\ \A t \in DOMAIN told' : Home(t)' \notin files => t \in DOMAIN told /\ told'[t] = told[t]

\* The homes of two tables are apart, unless it is table-tool.toml.
LEMMA HomesAreApart ==
    /\ \A t, u : SidecarFile(t) # TomlFile /\ (SidecarFile(t) = SidecarFile(u) => t = u)
    /\ \A t, f : SidecarFile(t) # PluginFile(f)
    /\ \A f : PluginFile(f) # TomlFile
    /\ \A t, u : BatchSlot(t) = BatchSlot(u) => t = u
BY FileKinds, SlotKinds

\* A pipeline in another file is not affected.
LEMMA FrameKeeps ==
    ASSUME NEW files, DiskFrame(files), NEW t, Home(t) \notin files
    PROVE  /\ Home(t)' = Home(t)
           /\ \A s : InForce(t, s)' <=> InForce(t, s)
           /\ \A file, x, s : ComesInForce(file, x, t, s)' <=> ComesInForce(file, x, t, s)
<1>1. CASE t \in sources
  <2>1. Home(t) = SidecarFile(t) /\ t \in sources' /\ SidecarTier(t)' = SidecarTier(t)
    BY <1>1 DEF Home, DiskFrame
  <2>2. Home(t)' = SidecarFile(t)
    BY <2>1 DEF Home, SidecarFile
  <2>3. \A s : InForce(t, s)' <=> InForce(t, s)
    BY <1>1, <2>1 DEF InForce, HasStages
  <2>4. QED  BY <1>1, <2>1, <2>2, <2>3 DEF ComesInForce, HasStages
<1>2. CASE t \notin sources
  <2>1. Home(t) = TomlFile /\ t \notin sources' /\ toml' = toml
    BY <1>2 DEF Home, DiskFrame
  <2>2. Home(t)' = TomlFile
    BY <2>1 DEF Home, TomlFile
  <2>3. \A s : InForce(t, s)' <=> InForce(t, s)
    BY <1>2, <2>1 DEF InForce, HasEntry, HasStages, IsBatch
  <2>4. QED  BY <1>2, <2>1, <2>2, <2>3 DEF ComesInForce, HasEntry, HasStages, IsBatch
<1>3. QED  BY <1>1, <1>2

\* A table that is in other files after the step was there before it.
LEMMA FrameBack ==
    ASSUME NEW files, DiskFrame(files), NEW t, Home(t)' \notin files
    PROVE  Home(t) \notin files /\ Home(t)' = Home(t)
<1>1. CASE t \in sources'
  <2>1. SidecarFile(t) \notin files /\ Home(t)' = SidecarFile(t)
    BY <1>1 DEF Home, SidecarFile
  <2>2. QED  BY <1>1, <2>1 DEF DiskFrame, Home
<1>2. CASE t \notin sources'
  <2>1. TomlFile \notin files /\ Home(t)' = TomlFile
    BY <1>2 DEF Home, TomlFile
  <2>2. QED  BY <1>2, <2>1 DEF DiskFrame, Home
<1>3. QED  BY <1>1, <1>2

\* What has been accepted elsewhere stays settled, and pending.
LEMMA FrameSettled ==
    ASSUME NEW files, Frame(files), NEW others, others \cap files = {}, NEW T
    PROVE  /\ Settled(others, T) => Settled(others, T)'
           /\ \A file, x : Pending(others, T, file, x) => Pending(others, T, file, x)'
<1>1. ASSUME NEW t \in DOMAIN told', Home(t)' \in others
      PROVE  /\ t \in DOMAIN told /\ told'[t] = told[t] /\ Home(t) \in others
             /\ \A s : InForce(t, s)' <=> InForce(t, s)
             /\ \A file, x, s : ComesInForce(file, x, t, s)' <=> ComesInForce(file, x, t, s)
  <2>1. Home(t)' \notin files
    BY <1>1
  <2>2. t \in DOMAIN told /\ told'[t] = told[t]
    BY <2>1 DEF Frame
  <2>3. Home(t) \notin files /\ Home(t)' = Home(t)
    BY <2>1, FrameBack DEF Frame
  <2>4. QED  BY <1>1, <2>2, <2>3, FrameKeeps DEF Frame
<1>2. Settled(others, T) => Settled(others, T)'
  BY <1>1 DEF Settled
<1>3. ASSUME NEW file, NEW x, Pending(others, T, file, x) PROVE Pending(others, T, file, x)'
  BY <1>1, <1>3 DEF Pending
<1>4. QED  BY <1>2, <1>3

\* A file that is given some content: nothing else has changed, and what was to come when the
\* right content is written still is.
LEMMA BecomesFrame ==
    ASSUME NEW file, IsPath(file), NEW y, Becomes(file, y), sources' = sources
    PROVE  /\ file # TomlFile => toml' = toml
           /\ \A t : SidecarFile(t) # file => SidecarTier(t)' = SidecarTier(t)
           /\ \A t : file = SidecarFile(t) => SidecarTier(t)' = y
           /\ file = TomlFile => toml' = y
           /\ \A t : Home(t)' = Home(t)
           /\ \A x, t, s : ComesInForce(file, x, t, s) => ComesInForce(file, x, t, s)'
           /\ \A t, s : ComesInForce(file, y, t, s) => InForce(t, s)'
<1>1. ASSUME NEW t, SidecarFile(t) # file PROVE SidecarTier(t)' = SidecarTier(t)
  <2>1. CASE \E u : file = SidecarFile(u)
    <3>1. PICK u : file = SidecarFile(u)
      BY <2>1
    <3>2. sidecar' = Put(sidecar, u, y) /\ u # t
      BY <1>1, <3>1, FileKinds DEF Becomes
    <3>3. QED  BY <3>2 DEF SidecarTier, Put
  <2>2. CASE file = TomlFile \/ \E f : file = PluginFile(f)
    <3>1. file[1] # "sidecar"
      BY <2>2, FileKinds
    <3>2. QED  BY <3>1 DEF Becomes, SidecarTier
  <2>3. QED  BY <2>1, <2>2 DEF IsPath
<1>2. ASSUME NEW t, file = SidecarFile(t) PROVE SidecarTier(t)' = y
  <2>1. sidecar' = Put(sidecar, t, y)
    BY <1>2, FileKinds DEF Becomes
  <2>2. QED  BY <2>1 DEF SidecarTier, Put
<1>3. /\ file # TomlFile => toml' = toml
      /\ file = TomlFile => toml' = y
  BY DEF Becomes
<1>4. \A t : Home(t)' = Home(t)
  BY DEF Home, SidecarFile, TomlFile
<1>5. ASSUME NEW t, NEW s, Home(t) # file PROVE InForce(t, s)' <=> InForce(t, s)
  BY <1>1, <1>3, <1>5 DEF Home, InForce, HasEntry, HasStages, IsBatch
<1>6. ASSUME NEW x, NEW t, NEW s, ComesInForce(file, x, t, s) PROVE ComesInForce(file, x, t, s)'
  <2>1. CASE Home(t) # file
    BY <1>4, <1>5, <1>6, <2>1 DEF ComesInForce
  <2>2. CASE Home(t) = file
    BY <1>4, <1>6, <2>2 DEF ComesInForce, HasEntry, HasStages, IsBatch
  <2>3. QED  BY <2>1, <2>2
<1>7. ASSUME NEW t, NEW s, ComesInForce(file, y, t, s) PROVE InForce(t, s)'
  <2>1. CASE Home(t) # file
    BY <1>5, <1>7, <2>1 DEF ComesInForce
  <2>2. CASE Home(t) = file /\ t \in sources
    <3>1. HasStages(y, s) /\ SidecarTier(t)' = y
      BY <1>2, <1>7, <2>2 DEF ComesInForce, Home
    <3>2. QED  BY <2>2, <3>1 DEF InForce, HasStages
  <2>3. CASE Home(t) = file /\ t \notin sources
    <3>1. HasEntry(y, t, s) /\ toml' = y
      BY <1>3, <1>7, <2>3 DEF ComesInForce, Home
    <3>2. QED  BY <2>3, <3>1 DEF InForce, HasEntry, HasStages, IsBatch
  <2>4. QED  BY <2>1, <2>2, <2>3
<1>8. QED  BY <1>1, <1>2, <1>3, <1>4, <1>6, <1>7

\* Nothing has changed.
LEMMA SameFrame ==
    ASSUME UNCHANGED <<sources, toml, sidecar, told>>
    PROVE  /\ \A files : Frame(files)
           /\ \A t : Home(t)' = Home(t)
           /\ \A t, s : InForce(t, s)' <=> InForce(t, s)
           /\ \A file, x, t, s : ComesInForce(file, x, t, s)' <=> ComesInForce(file, x, t, s)
           /\ \A files, T : Settled(files, T)' <=> Settled(files, T)
           /\ \A files, T, file, x : Pending(files, T, file, x)' <=> Pending(files, T, file, x)
<1>1. \A t : Home(t)' = Home(t) /\ SidecarTier(t)' = SidecarTier(t)
  BY DEF Home, SidecarTier, SidecarFile, TomlFile
<1>2. \A t, s : InForce(t, s)' <=> InForce(t, s)
  BY <1>1 DEF InForce, HasEntry, HasStages, IsBatch
<1>3. \A file, x, t, s : ComesInForce(file, x, t, s)' <=> ComesInForce(file, x, t, s)
  BY <1>1, <1>2 DEF ComesInForce, HasEntry, HasStages, IsBatch
<1>4. \A files : Frame(files)
  BY <1>1 DEF Frame, DiskFrame
<1>5. \A files, T : Settled(files, T)' <=> Settled(files, T)
  BY <1>1, <1>2 DEF Settled
<1>6. \A files, T, file, x : Pending(files, T, file, x)' <=> Pending(files, T, file, x)
  BY <1>1, <1>3 DEF Pending
<1>7. QED  BY <1>1, <1>2, <1>3, <1>4, <1>5, <1>6

\* What is on the disk and told at the end of a step of c, whose request is about these
\* files: the accepted pipelines are in force, or the request goes on.
Onward(c, files) ==
    /\ Frame(files)
    /\ \/ job'[c] = <<>> /\ Settled(files, {})'
       \/ job'[c] # <<>> /\ ask'[c] = ask[c] /\ Works(c)'

\* A request that fails has left nothing undone.
LEMMA RaiseOnward ==
    ASSUME Typed, NEW c \in Clients, Raise(c), NEW files, Settled(files, {})
    PROVE  Onward(c, files)
<1>1. UNCHANGED <<sources, toml, sidecar, told>> /\ job'[c] = <<>>
  BY DEF Raise, disk, Typed, ClientsTyped
<1>2. QED  BY <1>1, SameFrame DEF Onward

\* What has been told.
LEMMA GoTells ==
    ASSUME Typed, NEW c \in Clients, NEW calls, Go(c, calls), ~disturbed
    PROVE  /\ job'[c] = calls
           /\ calls # <<>> => told' = told /\ ask'[c] = ask[c]
           /\ calls = <<>> => told' = ToldBy(c)
           /\ ask[c].what \in {"plan", "list"} => told' = told /\ ask'[c] = ask[c]
           /\ ask[c].what = "edit" => told' = told
<1>1. /\ job'[c] = calls
      /\ calls # <<>> => told' = told /\ ask'[c] = ask[c]
      /\ calls = <<>> => told' = ToldBy(c)
      /\ ask[c].what \in {"plan", "list"} => ask'[c] = ask[c]
  BY DEF Go, Typed, ClientsTyped
<1>2. ask[c].what \in {"plan", "list", "edit"} => ToldBy(c) = told
  BY DEF ToldBy
<1>3. QED  BY <1>1, <1>2

\* What is left of the calls of a plan or of a listing.
LEMMA LookParts ==
    /\ IsLook(<<>>)
    /\ \A s : IsLook(s) => <<>> \o s = s
    /\ \A s : IsLook(s) /\ s # <<>> => IsLook(Tail(s)) /\ Head(s).do \in {"list", "load", "configure", "sidecar"}
    /\ \A e : e.do \in {"list", "load", "configure", "sidecar"} =>
          IsLook(<<e>>) /\ \A s : IsLook(s) => IsLook(<<e>> \o s)
<1>1. IsLook(<<>>)
  <2>1. PICK S : S = {}
    OBVIOUS
  <2>2. <<>> \in Seq(S) /\ \A e \in S : e.do \in {"list", "load", "configure", "sidecar"}
    BY <2>1
  <2>3. QED  BY <2>2 DEF IsLook
<1>2. ASSUME NEW s, IsLook(s)
      PROVE  /\ <<>> \o s = s
             /\ s # <<>> => IsLook(Tail(s)) /\ Head(s).do \in {"list", "load", "configure", "sidecar"}
  <2>1. PICK S : s \in Seq(S) /\ \A e \in S : e.do \in {"list", "load", "configure", "sidecar"}
    BY <1>2 DEF IsLook
  <2>2. ASSUME s # <<>> PROVE Head(s) \in S /\ Tail(s) \in Seq(S)
    BY <2>1, <2>2
  <2>3. <<>> \o s = s
    BY <2>1, ConcatEmptySeq
  <2>4. QED  BY <2>1, <2>2, <2>3 DEF IsLook
<1>3. ASSUME NEW e, e.do \in {"list", "load", "configure", "sidecar"} PROVE IsLook(<<e>>)
  <2>1. PICK S : S = {e}
    OBVIOUS
  <2>2. <<e>> \in Seq(S) /\ \A x \in S : x.do \in {"list", "load", "configure", "sidecar"}
    BY <1>3, <2>1
  <2>3. QED  BY <2>2 DEF IsLook
<1>4. ASSUME NEW e, e.do \in {"list", "load", "configure", "sidecar"}, NEW s, IsLook(s)
      PROVE  IsLook(<<e>> \o s)
  <2>1. PICK S : s \in Seq(S) /\ \A x \in S : x.do \in {"list", "load", "configure", "sidecar"}
    BY <1>4 DEF IsLook
  <2>2. PICK T : T = S \cup {e}
    OBVIOUS
  <2>3. s \in Seq(T) /\ <<e>> \in Seq(T) /\ \A x \in T : x.do \in {"list", "load", "configure", "sidecar"}
    BY <1>4, <2>1, <2>2
  <2>4. <<e>> \o s \in Seq(T)
    BY <2>3
  <2>5. QED  BY <2>3, <2>4 DEF IsLook
<1>5. QED  BY <1>1, <1>2, <1>3, <1>4

\* The files to load are the next call, if there are any.
LEMMA LoadingIs ==
    ASSUME NEW fs, NEW strict
    PROVE  \/ fs = {} /\ Loading(fs, strict) = <<>>
           \/ fs # {} /\ \E e : /\ e = [do |-> "load", files |-> fs, strict |-> strict]
                                /\ Loading(fs, strict) = <<e>>
BY DEF Loading

\* A plan or a listing changes nothing.
LEMMA LooksStep ==
    ASSUME Typed, NEW c \in Clients, Step(c), ~disturbed, Looks(c)
    PROVE  \E files : files = ask[c].on /\ Onward(c, files)
<1>1. PICK files : files = ask[c].on
  OBVIOUS
<1>2. Settled(files, {}) /\ files = {}
  BY <1>1 DEF Looks, Settled
<1>3. job[c] # <<>>
  BY StepByCall DEF Idle
<1>4. IsLook(Tail(job[c])) /\ Call(c).do \in {"list", "load", "configure", "sidecar"}
  BY <1>3, LookParts DEF Looks, Call
<1>5. ASSUME NEW fs, NEW strict PROVE IsLook(Loading(fs, strict) \o Tail(job[c]))
  <2>1. CASE Loading(fs, strict) = <<>>
    BY <1>4, <2>1, LookParts
  <2>2. CASE Loading(fs, strict) # <<>>
    <3>1. PICK e : e.do = "load" /\ Loading(fs, strict) = <<e>>
      BY <2>2, LoadingIs
    <3>2. QED  BY <1>4, <3>1, LookParts
  <2>3. QED  BY <2>1, <2>2
<1>6. CASE Raise(c)
  BY <1>1, <1>2, <1>6, RaiseOnward
<1>7. ASSUME ~Raise(c) PROVE \E calls, h : Go(c, calls) /\ IsLook(calls) /\ Reads(c, h)
  <2>1. CASE Call(c).do = "list"
    <3>1. ListPlugins(c)
      BY <2>1, StepByCall
    <3>2. QED  BY <1>5, <1>7, <3>1 DEF ListPlugins
  <2>2. CASE Call(c).do = "load"
    <3>1. LoadPluginFile(c)
      BY <2>2, StepByCall
    <3>2. PICK fs, h : Reads(c, h) /\ Go(c, Loading(fs, Call(c).strict) \o Tail(job[c]))
      BY <1>7, <3>1 DEF LoadPluginFile
    <3>3. QED  BY <1>5, <3>2
  <2>3. CASE Call(c).do = "configure"
    <3>1. Configure(c)
      BY <2>3, StepByCall
    <3>2. PICK h, e : /\ Reads(c, h) /\ e = [do |-> "sidecar", table |-> Call(c).table]
                      /\ Go(c, <<e>>) \/ Go(c, Tail(job[c]))
      BY <1>7, <3>1 DEF Configure, Return
    <3>3. IsLook(<<e>>)
      BY <3>2, LookParts
    <3>4. QED  BY <1>4, <3>2, <3>3
  <2>4. CASE Call(c).do = "sidecar"
    <3>1. ReadSidecar(c)
      BY <2>4, StepByCall
    <3>2. QED  BY <1>4, <3>1 DEF ReadSidecar, Return
  <2>5. QED  BY <1>4, <2>1, <2>2, <2>3, <2>4
<1>8. CASE ~Raise(c)
  <2>1. PICK calls, h : Go(c, calls) /\ IsLook(calls) /\ Reads(c, h)
    BY <1>7, <1>8
  <2>2. job'[c] = calls /\ told' = told /\ ask'[c] = ask[c]
    BY <2>1, GoTells DEF Looks
  <2>3. UNCHANGED <<sources, toml, sidecar, told>>
    BY <2>1, <2>2 DEF Reads, disk
  <2>4. Looks(c)'
    BY <2>1, <2>2 DEF Looks
  <2>5. Onward(c, files)
    BY <1>2, <2>2, <2>3, <2>4, SameFrame DEF Onward, Works
  <2>6. QED  BY <1>1, <2>5
<1>9. QED  BY <1>6, <1>8

-----------------------------------------------------------------------------
(* The contents of a file are written.                                     *)

\* The file is truncated, and what is to come still is; or it is filled.
LEMMA WritesStep ==
    ASSUME Typed, NEW c \in Clients, Step(c), ~disturbed, NEW file, IsPath(file), NEW x, NEW rest,
           Writes(c, file, x, rest), NEW files, file \in files
    PROVE  /\ DiskFrame(files) /\ sources' = sources
           /\ \A t : Home(t)' = Home(t)
           /\ \/ /\ Writes(c, file, x, rest)' /\ job'[c] # <<>> /\ ask'[c] = ask[c] /\ told' = told
                 /\ Frame(files)
                 /\ \A t, s : ComesInForce(file, x, t, s) => ComesInForce(file, x, t, s)'
                 /\ \A T : Pending(files, T, file, x) => Pending(files, T, file, x)'
              \/ /\ Go(c, rest)
                 /\ \A t, s : ComesInForce(file, x, t, s) => InForce(t, s)'
                 /\ told' = told => \A T : Pending(files, T, file, x) => Settled(files, T)'
                 /\ \A t : file = SidecarFile(t) => SidecarTier(t)' = x
<1>1. PICK do \in {"write", "fill"} : Consists(job[c], Writing(do, file, x), rest)
  BY DEF Writes
<1>2. PICK e : e = Writing(do, file, x)
  OBVIOUS
<1>3. /\ Call(c) = e /\ Tail(job[c]) = rest /\ IsJob(rest)
      /\ e.do = do /\ e.file = file /\ e.new = x
  BY <1>1, <1>2, JobParts DEF Consists, Call, Writing, Typed, ClientsTyped
<1>4. \E y : Becomes(file, y) /\ sources' = sources
  BY <1>3, StepByCall DEF Truncate, Fill
<1>5. PICK y : Becomes(file, y) /\ sources' = sources
  BY <1>4
<1>6. DiskFrame(files) /\ \A t : Home(t)' = Home(t)
  <2>1. /\ TomlFile \notin files => toml' = toml
        /\ \A t : SidecarFile(t) \notin files => SidecarTier(t)' = SidecarTier(t)
        /\ \A t : Home(t)' = Home(t)
    BY <1>5, BecomesFrame
  <2>2. QED  BY <1>5, <2>1 DEF DiskFrame
<1>7. CASE do = "write"
  <2>1. PICK f : f = Writing("fill", file, x)
    OBVIOUS
  <2>2. [e EXCEPT !.do = "fill"] = f
    BY <1>2, <2>1 DEF Writing
  <2>3. PICK calls : calls = <<f>> \o rest
    OBVIOUS
  <2>4. Go(c, calls)
    BY <1>3, <1>7, <2>2, <2>3, StepByCall DEF Truncate
  <2>5. Consists(calls, f, rest)
    BY <1>3, <2>3, NextCall
  <2>6. job'[c] = calls /\ job'[c] # <<>> /\ told' = told /\ ask'[c] = ask[c]
    BY <2>4, <2>5, GoTells DEF Consists
  <2>7. Writes(c, file, x, rest)'
    BY <2>1, <2>5, <2>6 DEF Writes, Consists, Writing
  <2>8. \A t, s : ComesInForce(file, x, t, s) => ComesInForce(file, x, t, s)'
    BY <1>5, BecomesFrame
  <2>9. \A T : Pending(files, T, file, x) => Pending(files, T, file, x)'
    BY <1>6, <2>6, <2>8 DEF Pending
  <2>10. Frame(files)
    BY <1>6, <2>6 DEF Frame
  <2>11. QED  BY <1>5, <1>6, <2>6, <2>7, <2>8, <2>9, <2>10
<1>8. CASE do = "fill"
  <2>1. Becomes(file, x) /\ Go(c, rest)
    BY <1>3, <1>8, StepByCall DEF Fill, Return
  <2>2. \A t, s : ComesInForce(file, x, t, s) => InForce(t, s)'
    BY <1>5, <2>1, BecomesFrame
  <2>3. \A t : file = SidecarFile(t) => SidecarTier(t)' = x
    BY <1>5, <2>1, BecomesFrame
  <2>4. told' = told => \A T : Pending(files, T, file, x) => Settled(files, T)'
    BY <1>6, <2>2 DEF Pending, Settled
  <2>5. QED  BY <1>5, <1>6, <2>1, <2>2, <2>3, <2>4
<1>9. QED  BY <1>7, <1>8

\* A call that has been read for editing is to be written.
LEMMA EditsToml ==
    ASSUME Typed, NEW c \in Clients, Step(c), ~disturbed,
           NEW e, NEW rest, Consists(job[c], e, rest), e.do = "edit", e.file = TomlFile
    PROVE  \/ Raise(c) /\ Refused(e)
           \/ /\ UNCHANGED <<sources, toml, sidecar, told>>
              /\ job'[c] # <<>> /\ ask'[c] = ask[c]
              /\ \E x : x = EditedToml(e) /\ Writes(c, TomlFile, x, rest)'
<1>1. PICK x : x = EditedToml(e)
  OBVIOUS
<1>2. PICK w : w = Writing("write", TomlFile, x)
  OBVIOUS
<1>3. Call(c) = e /\ Tail(job[c]) = rest /\ IsJob(rest) /\ ReadToEdit(c)
  BY JobParts, StepByCall DEF Consists, Call, Typed, ClientsTyped
<1>4. CASE Refused(e)
  BY <1>3, <1>4 DEF ReadToEdit
<1>5. CASE ~Refused(e)
  <2>1. Reads(c, hand[c]) /\ Go(c, <<w>> \o rest)
    BY <1>1, <1>2, <1>3, <1>5 DEF ReadToEdit, Writing
  <2>2. Consists(<<w>> \o rest, w, rest)
    BY <1>3, NextCall
  <2>3. job'[c] = <<w>> \o rest /\ job'[c] # <<>> /\ ask'[c] = ask[c] /\ told' = told
    BY <2>1, <2>2, GoTells DEF Consists
  <2>4. Writes(c, TomlFile, x, rest)'
    BY <1>2, <2>2, <2>3 DEF Writes, Consists, Writing, TomlFile
  <2>5. QED  BY <1>1, <2>1, <2>3, <2>4 DEF Reads, disk
<1>6. QED  BY <1>4, <1>5

\* Likewise of a sidecar, which is removed when nothing is left in it.
LEMMA EditsSidecar ==
    ASSUME Typed, NEW c \in Clients, Step(c), ~disturbed,
           NEW e, Consists(job[c], e, <<>>), e.do = "edit", NEW t, e.file = SidecarFile(t)
    PROVE  /\ UNCHANGED <<sources, toml, sidecar, told>>
           /\ job'[c] # <<>> /\ ask'[c] = ask[c]
           /\ \E x : /\ x = Edited(SidecarTier(t), e.fields, e.new)
                     /\ \/ x = EmptyMap /\ Consists(job'[c], [do |-> "unlink", file |-> SidecarFile(t)], <<>>)
                        \/ Writes(c, SidecarFile(t), x, <<>>)'
<1>1. PICK file, x : file = SidecarFile(t) /\ x = Edited(SidecarTier(t), e.fields, e.new)
  OBVIOUS
<1>2. PICK w, u : w = Writing("write", file, x) /\ u = [do |-> "unlink", file |-> file]
  OBVIOUS
<1>3. Call(c) = e /\ Tail(job[c]) = <<>> /\ ReadToEdit(c)
  BY StepByCall DEF Consists, Call
<1>4. file # TomlFile /\ file[2] = t
  BY <1>1, HomesAreApart, FileKinds
<1>5. Reads(c, hand[c]) /\ Go(c, (IF x = EmptyMap THEN <<u>> ELSE <<w>>) \o <<>>)
  BY <1>1, <1>2, <1>3, <1>4 DEF ReadToEdit, Writing
<1>6. <<u>> \o <<>> = <<u>> /\ <<w>> \o <<>> = <<w>>
  OBVIOUS
<1>7. CASE x = EmptyMap
  <2>1. Go(c, <<u>>)
    BY <1>5, <1>6, <1>7
  <2>2. job'[c] = <<u>> /\ job'[c] # <<>> /\ ask'[c] = ask[c] /\ told' = told
    BY <2>1, GoTells
  <2>3. Consists(job'[c], u, <<>>)
    BY <2>2 DEF Consists
  <2>4. QED  BY <1>1, <1>2, <1>5, <1>7, <2>2, <2>3 DEF Reads, disk
<1>8. CASE x # EmptyMap
  <2>1. Go(c, <<w>>)
    BY <1>5, <1>6, <1>8
  <2>2. job'[c] = <<w>> /\ job'[c] # <<>> /\ ask'[c] = ask[c] /\ told' = told
    BY <2>1, GoTells
  <2>3. Consists(job'[c], w, <<>>)
    BY <2>2 DEF Consists
  <2>4. Writes(c, SidecarFile(t), x, <<>>)'
    BY <1>1, <1>2, <2>3 DEF Writes, Consists, Writing, SidecarFile
  <2>5. QED  BY <1>1, <1>5, <2>2, <2>4 DEF Reads, disk
<1>9. QED  BY <1>7, <1>8

\* A sidecar or a plugin is removed.
LEMMA UnlinkStep ==
    ASSUME Typed, NEW c \in Clients, Step(c), NEW file, IsPath(file), NEW rest,
           Consists(job[c], [do |-> "unlink", file |-> file], rest)
    PROVE  /\ Go(c, rest) /\ sources' = sources
           /\ \A files : file \in files => DiskFrame(files)
           /\ \A t : Home(t)' = Home(t)
           /\ \A t, s : Home(t) # file => (InForce(t, s)' <=> InForce(t, s))
<1>1. PICK e : e = [do |-> "unlink", file |-> file]
  OBVIOUS
<1>2. Call(c) = e /\ Tail(job[c]) = rest /\ e.do = "unlink" /\ e.file = file
  BY <1>1 DEF Consists, Call
<1>3. Unlink(c)
  BY <1>2, StepByCall
<1>4. Go(c, rest) /\ UNCHANGED <<sources, toml>>
  BY <1>2, <1>3 DEF Unlink, Return
<1>5. sidecar' = IF file[1] = "sidecar" THEN Drop(sidecar, {file[2]}) ELSE sidecar
  BY <1>2, <1>3 DEF Unlink
<1>6. ASSUME NEW t, SidecarFile(t) # file PROVE SidecarTier(t)' = SidecarTier(t)
  <2>1. CASE \E u : file = SidecarFile(u)
    <3>1. PICK u : file = SidecarFile(u)
      BY <2>1
    <3>2. sidecar' = Drop(sidecar, {u}) /\ u # t
      BY <1>5, <1>6, <3>1, FileKinds
    <3>3. QED  BY <3>2 DEF SidecarTier, Drop
  <2>2. CASE file = TomlFile \/ \E f : file = PluginFile(f)
    <3>1. file[1] # "sidecar"
      BY <2>2, FileKinds
    <3>2. QED  BY <1>5, <3>1 DEF SidecarTier
  <2>3. QED  BY <2>1, <2>2 DEF IsPath
<1>7. \A t : Home(t)' = Home(t)
  BY <1>4 DEF Home, SidecarFile, TomlFile
<1>8. ASSUME NEW t, NEW s, Home(t) # file PROVE InForce(t, s)' <=> InForce(t, s)
  BY <1>4, <1>6, <1>8 DEF Home, InForce, HasEntry, HasStages, IsBatch
<1>9. ASSUME NEW files, file \in files PROVE DiskFrame(files)
  BY <1>4, <1>6, <1>9 DEF DiskFrame
<1>10. QED  BY <1>4, <1>7, <1>8, <1>9

-----------------------------------------------------------------------------
(* Edits that spare the pipelines.                                         *)

\* The stages of a section after an edit.
LEMMA EditedStages ==
    /\ \A s : ~HasStages(EmptyMap, s)
    /\ \A s : HasStages(Put(EmptyMap, "stages", s), s)
    /\ \A x, fields, new, s :
          /\ HasStages(x, s) /\ "stages" \notin fields /\ "stages" \notin DOMAIN new
                => HasStages(Edited(x, fields, new), s)
          /\ HasStages(new, s) => HasStages(Edited(x, fields, new), s)
BY DEF HasStages, EmptyMap, Put, Edited, Override, Drop

\* The sections of table-tool.toml after an edit.
LEMMA EditedTiers ==
    ASSUME IsToml(toml), NEW e
    PROVE  /\ e.how = "tier" =>
                EditedToml(e).tiers =
                    Put(toml.tiers, e.slot,
                        Edited(IF e.slot \in DOMAIN toml.tiers THEN toml.tiers[e.slot] ELSE EmptyMap,
                               e.fields, e.new))
           /\ e.how \in {"cluster", "tags"} => EditedToml(e).tiers = toml.tiers
           /\ e.how = "create" => EditedToml(e).tiers = Put(toml.tiers, BatchSlot(e.table), e.new)
           /\ e.how = "rename" => EditedToml(e).tiers = MoveKey(toml.tiers, BatchSlot(e.old), BatchSlot(e.new))
<1>1. toml = [tiers |-> toml.tiers, members |-> toml.members]
  BY DEF IsToml
<1>2. ASSUME NEW x PROVE [toml EXCEPT !.tiers = x].tiers = x /\ [toml EXCEPT !.members = x].tiers = toml.tiers
  BY <1>1
<1>3. CASE e.how = "tier"
  BY <1>2, <1>3 DEF EditedToml
<1>4. CASE e.how = "cluster"
  BY <1>2, <1>4 DEF EditedToml
<1>5. CASE e.how = "tags"
  BY <1>5 DEF EditedToml
<1>6. CASE e.how = "create"
  BY <1>2, <1>6 DEF EditedToml
<1>7. CASE e.how = "rename"
  BY <1>7 DEF EditedToml
<1>8. QED  BY <1>3, <1>4, <1>5, <1>6, <1>7

\* The entry of a table keeps its pipeline.
LEMMA SparesKeeps ==
    ASSUME IsToml(toml), NEW e, Spares(e), NEW t, NEW s, HasEntry(toml, t, s)
    PROVE  HasEntry(EditedToml(e), t, s)
<1>1. PICK b, ts : b = BatchSlot(t) /\ ts = toml.tiers
  OBVIOUS
<1>2. b \in DOMAIN ts /\ HasStages(ts[b], s)
  BY <1>1 DEF HasEntry, IsBatch
<1>3. CASE e.how = "cluster"
  BY <1>3, EditedTiers DEF HasEntry, IsBatch
<1>4. CASE e.how = "tier" /\ "stages" \notin DOMAIN e.new /\ "stages" \notin e.fields
  <2>1. PICK x : x = Edited(IF e.slot \in DOMAIN ts THEN ts[e.slot] ELSE EmptyMap, e.fields, e.new)
    OBVIOUS
  <2>2. EditedToml(e).tiers = Put(ts, e.slot, x)
    BY <1>1, <1>4, <2>1, EditedTiers
  <2>3. CASE e.slot = b
    <3>1. HasStages(x, s)
      BY <1>2, <1>4, <2>1, <2>3, EditedStages
    <3>2. QED  BY <1>1, <2>2, <2>3, <3>1 DEF HasEntry, IsBatch, Put, HasStages
  <2>4. CASE e.slot # b
    BY <1>1, <1>2, <2>2, <2>4 DEF HasEntry, IsBatch, Put, HasStages
  <2>5. QED  BY <2>3, <2>4
<1>5. QED  BY <1>3, <1>4 DEF Spares

\* An edit that spares the pipelines.
LEMMA EditsStep ==
    ASSUME Typed, NEW c \in Clients, Step(c), ~disturbed, Edits(c)
    PROVE  \E files : files = ask[c].on /\ Onward(c, files)
<1>1. PICK file : IsPath(file) /\ ask[c].on = {file} /\ EditsFile(c, file)
  BY DEF Edits
<1>2. PICK files : files = {file}
  OBVIOUS
<1>3. SUFFICES Onward(c, files)
  BY <1>1, <1>2
<1>4. ask[c].what = "edit"
  BY DEF Edits
<1>5. ASSUME job'[c] # <<>>, ask'[c] = ask[c], Frame(files), EditsFile(c, file)' PROVE Onward(c, files)
  <2>1. Edits(c)'
    BY <1>1, <1>4, <1>5 DEF Edits, IsPath, TomlFile, SidecarFile, PluginFile
  <2>2. QED  BY <1>5, <2>1 DEF Onward, Works
<1>6. CASE \E x : Writes(c, file, x, <<>>) /\ Pending(files, {}, file, x)
  <2>1. PICK x : Writes(c, file, x, <<>>) /\ Pending(files, {}, file, x)
    BY <1>6
  <2>2. CASE /\ Writes(c, file, x, <<>>)' /\ job'[c] # <<>> /\ ask'[c] = ask[c]
             /\ Frame(files) /\ Pending(files, {}, file, x)'
    <3>1. EditsFile(c, file)'
      BY <1>2, <2>2 DEF EditsFile
    <3>2. QED  BY <1>5, <2>2, <3>1
  <2>3. CASE Go(c, <<>>) /\ DiskFrame(files) /\ (told' = told => Settled(files, {})')
    <3>1. job'[c] = <<>> /\ told' = told
      BY <1>4, <2>3, GoTells
    <3>2. QED  BY <2>3, <3>1 DEF Onward, Frame
  <2>4. file \in files
    BY <1>2
  <2>5. QED  BY <1>1, <2>1, <2>2, <2>3, <2>4, WritesStep
<1>7. CASE /\ Consists(job[c], [do |-> "unlink", file |-> file], <<>>)
           /\ \A t \in DOMAIN told : Home(t) # file
  <2>1. Go(c, <<>>) /\ DiskFrame(files) /\ \A t : Home(t)' = Home(t)
    BY <1>1, <1>2, <1>7, UnlinkStep
  <2>2. job'[c] = <<>> /\ told' = told
    BY <1>4, <2>1, GoTells
  <2>3. Settled(files, {})'
    BY <1>2, <1>7, <2>1, <2>2 DEF Settled
  <2>4. QED  BY <2>1, <2>2, <2>3 DEF Onward, Frame
<1>8. CASE /\ Settled(files, {})
           /\ \E e : Consists(job[c], e, <<>>) /\ e.file = file /\ e.do = "edit" /\ Spares(e)
  <2>1. PICK e : Consists(job[c], e, <<>>) /\ e.file = file /\ e.do = "edit" /\ Spares(e)
    BY <1>8
  <2>2. IsCall(e)
    BY <2>1, JobParts DEF Consists, Typed, ClientsTyped
  <2>3. CASE Raise(c)
    BY <1>8, <2>3, RaiseOnward
  <2>4. CASE file = TomlFile /\ ~Raise(c)
    <3>1. PICK x : x = EditedToml(e) /\ Writes(c, TomlFile, x, <<>>)'
      BY <2>1, <2>4, EditsToml
    <3>2. /\ UNCHANGED <<sources, toml, sidecar, told>>
          /\ job'[c] # <<>> /\ ask'[c] = ask[c]
      BY <2>1, <2>4, EditsToml
    <3>3. Pending(files, {}, file, x)
      <4>1. ASSUME NEW t \in DOMAIN told, Home(t) \in files PROVE ComesInForce(file, x, t, told[t].stages)
        <5>1. t \notin sources /\ HasEntry(toml, t, told[t].stages)
          BY <1>2, <1>8, <2>4, <4>1, HomesAreApart DEF Settled, Home, InForce
        <5>2. HasEntry(x, t, told[t].stages)
          BY <2>1, <3>1, <5>1, SparesKeeps DEF Typed, FilesTyped
        <5>3. QED  BY <1>2, <4>1, <5>1, <5>2 DEF ComesInForce
      <4>2. QED  BY <4>1 DEF Pending
    <3>4. Frame(files) /\ Pending(files, {}, file, x)'
      BY <3>2, <3>3, SameFrame
    <3>5. Writes(c, file, x, <<>>)'
      BY <2>4, <3>1 DEF TomlFile
    <3>6. EditsFile(c, file)'
      BY <1>2, <3>4, <3>5 DEF EditsFile
    <3>7. QED  BY <1>5, <3>2, <3>4, <3>6
  <2>5. CASE \E u : file = SidecarFile(u)
    <3>1. PICK u : file = SidecarFile(u)
      BY <2>5
    <3>2. e.how = "tier"
      BY <2>1, <2>2, <3>1, HomesAreApart DEF IsCall
    <3>3. PICK x, was : was = SidecarTier(u) /\ x = Edited(was, e.fields, e.new)
      OBVIOUS
    <3>4. /\ UNCHANGED <<sources, toml, sidecar, told>>
          /\ job'[c] # <<>> /\ ask'[c] = ask[c]
          /\ \/ x = EmptyMap /\ Consists(job'[c], [do |-> "unlink", file |-> SidecarFile(u)], <<>>)
             \/ Writes(c, SidecarFile(u), x, <<>>)'
      BY <2>1, <3>1, <3>3, EditsSidecar
    <3>5. ASSUME NEW t \in DOMAIN told, Home(t) = file
          PROVE  t \in sources /\ HasStages(x, told[t].stages)
      <4>1. t = u /\ t \in sources
        BY <3>1, <3>5, HomesAreApart DEF Home
      <4>2. HasStages(was, told[t].stages)
        BY <1>2, <1>8, <3>3, <3>5, <4>1 DEF Settled, InForce
      <4>3. QED  BY <2>1, <3>2, <3>3, <4>1, <4>2, EditedStages DEF Spares
    <3>6. Frame(files)
      BY <3>4, SameFrame
    <3>7. CASE x = EmptyMap /\ Consists(job'[c], [do |-> "unlink", file |-> SidecarFile(u)], <<>>)
      <4>1. \A t \in DOMAIN told : Home(t) # file
        BY <3>5, <3>7, EditedStages
      <4>2. \A t \in DOMAIN told' : Home(t)' # file
        BY <3>4, <4>1, SameFrame
      <4>3. Settled({file}, {})'
        BY <4>2 DEF Settled
      <4>4. Consists(job[c], [do |-> "unlink", file |-> file], <<>>)'
        BY <3>1, <3>7 DEF Consists
      <4>5. EditsFile(c, file)'
        BY <4>2, <4>3, <4>4 DEF EditsFile
      <4>6. QED  BY <1>5, <3>4, <3>6, <4>5
    <3>8. CASE Writes(c, SidecarFile(u), x, <<>>)'
      <4>1. Pending(files, {}, file, x)
        BY <1>2, <3>5 DEF Pending, ComesInForce
      <4>2. Pending(files, {}, file, x)'
        BY <3>4, <4>1, SameFrame
      <4>3. Writes(c, file, x, <<>>)'
        BY <3>1, <3>8 DEF SidecarFile
      <4>4. EditsFile(c, file)'
        BY <1>2, <4>2, <4>3 DEF EditsFile
      <4>5. QED  BY <1>5, <3>4, <3>6, <4>4
    <3>9. QED  BY <3>4, <3>7, <3>8
  <2>6. QED  BY <2>1, <2>2, <2>3, <2>4, <2>5 DEF IsCall
<1>9. CASE /\ Settled(files, {})
           /\ \E e : /\ Consists(job[c], e, <<>>) /\ e.file = file
                     /\ e.do = "config_set" /\ "stages" \notin DOMAIN e.new
  <2>1. PICK e : /\ Consists(job[c], e, <<>>) /\ e.file = file
                 /\ e.do = "config_set" /\ "stages" \notin DOMAIN e.new
    BY <1>9
  <2>2. Call(c) = e
    BY <2>1 DEF Consists, Call
  <2>3. ReadDefaults(c)
    BY <2>1, <2>2, StepByCall
  <2>4. PICK now, f : /\ f = NewTier(file, Global, DefaultFields,
                                     Override(Keep(now, DefaultFields \ {e.field}), e.new))
                      /\ Go(c, <<f>>) /\ Reads(c, hand[c])
    BY <2>1, <2>2, <2>3 DEF ReadDefaults
  <2>5. /\ f.do = "edit" /\ f.file = file /\ f.how = "tier" /\ f.fields = DefaultFields
        /\ f.new = Override(Keep(now, DefaultFields \ {e.field}), e.new)
    BY <2>4 DEF NewTier
  <2>6. Spares(f)
    BY <2>1, <2>5 DEF Spares, Override, Keep, DefaultFields
  <2>7. job'[c] = <<f>> /\ job'[c] # <<>> /\ ask'[c] = ask[c] /\ told' = told
    <3>1. PICK calls : calls = <<f>> /\ Go(c, calls) /\ calls # <<>>
      BY <2>4
    <3>2. QED  BY <3>1, GoTells
  <2>8. UNCHANGED <<sources, toml, sidecar, told>>
    BY <2>4, <2>7 DEF Reads, disk
  <2>9. Frame(files) /\ Settled(files, {})'
    BY <1>9, <2>8, SameFrame
  <2>10. Consists(job'[c], f, <<>>)
    BY <2>7 DEF Consists
  <2>11. EditsFile(c, file)'
    BY <1>2, <2>5, <2>6, <2>9, <2>10 DEF EditsFile, Spares, Consists
  <2>12. QED  BY <1>5, <2>7, <2>9, <2>11
<1>10. QED  BY <1>1, <1>2, <1>6, <1>7, <1>8, <1>9 DEF EditsFile

-----------------------------------------------------------------------------
(* The pipeline of a table is set or removed.                              *)

\* A request that goes on, and changes no file.
GoesOnReading(c) ==
    UNCHANGED <<sources, toml, sidecar, told>> /\ job'[c] # <<>> /\ ask'[c] = ask[c]

\* What is known after a read with which the request goes on.
LEMMA ReadsOn ==
    ASSUME Typed, NEW c \in Clients, ~disturbed, NEW calls, NEW h, calls # <<>>, Go(c, calls), Reads(c, h)
    PROVE  /\ GoesOnReading(c) /\ job'[c] = calls /\ hand'[c] = h
           /\ LookingUp(c)' = LookingUp(c) /\ Checking(c)' = Checking(c) /\ Putting(c)' = Putting(c)
<1>1. job'[c] = calls /\ told' = told /\ ask'[c] = ask[c]
  BY GoTells
<1>2. hand'[c] = h /\ UNCHANGED <<sources, toml, sidecar>>
  BY DEF Reads, disk, Typed, ClientsTyped
<1>3. LookingUp(c)' = LookingUp(c) /\ Checking(c)' = Checking(c) /\ Putting(c)' = Putting(c)
  BY <1>1 DEF LookingUp, Checking, Putting, NewStages
<1>4. QED  BY <1>1, <1>2, <1>3 DEF GoesOnReading

\* A hand with another registry, or that says whether the table is a batch table.
LEMMA HandBatch ==
    ASSUME NEW h, IsHand(h), NEW x
    PROVE  /\ IsHand([h EXCEPT !.reg = x]) /\ [h EXCEPT !.reg = x].batch = h.batch
           /\ IsHand([h EXCEPT !.batch = x]) /\ [h EXCEPT !.batch = x].batch = x
<1>1. PICK a, b, d, e : h = [reg |-> a, cfg |-> b, batch |-> d, plan |-> e]
  BY DEF IsHand
<1>2. /\ [h EXCEPT !.reg = x] = [reg |-> x, cfg |-> b, batch |-> d, plan |-> e]
      /\ [h EXCEPT !.batch = x] = [reg |-> a, cfg |-> b, batch |-> x, plan |-> e]
      /\ h.batch = d
  BY <1>1
<1>3. QED  BY <1>2 DEF IsHand

\* The table is looked up.
LEMMA LooksUpStep ==
    ASSUME Typed, NEW c \in Clients, Step(c), ~disturbed, LooksUp(c), ~Raise(c)
    PROVE  GoesOnReading(c) /\ Checks(c)'
<1>1. PICK x, y : x = Checking(c) /\ y = Putting(c)
  OBVIOUS
<1>2. PICK rest : /\ Consists(job[c], LookingUp(c), rest)
                  /\ rest = <<y>> \/ rest = <<ListingAll, x, y>>
  BY <1>1 DEF LooksUp
<1>3. Call(c) = LookingUp(c) /\ Tail(job[c]) = rest
  BY <1>2 DEF Consists, Call
<1>4. Call(c).do = "discover" /\ Call(c).table = ask[c].table
  BY <1>3 DEF LookingUp
<1>5. Discover(c)
  BY <1>4, StepByCall
<1>6. PICK b : b = IsBatch(toml, ask[c].table)
  OBVIOUS
<1>7. /\ Discoverable /\ ask[c].table \in TableNames
      /\ Reads(c, [hand[c] EXCEPT !.batch = b]) /\ Go(c, rest)
  BY <1>3, <1>4, <1>5, <1>6 DEF Discover, Return
<1>8. b = (ask[c].table \notin sources)
  BY <1>6, <1>7 DEF Discoverable, TableNames, IsBatch
<1>9. PICK h : h = [hand[c] EXCEPT !.batch = b]
  OBVIOUS
<1>10. IsHand(h) /\ h.batch = b
  BY <1>9, HandBatch DEF LooksUp
<1>11. rest # <<>>
  BY <1>2
<1>12. /\ GoesOnReading(c) /\ job'[c] = rest /\ hand'[c] = h
       /\ Checking(c)' = x /\ Putting(c)' = y
  BY <1>1, <1>7, <1>9, <1>11, ReadsOn
<1>13. \/ Consists(rest, y, <<>>)
       \/ Consists(rest, ListingAll, <<x, y>>)
  <2>1. PICK l : l = ListingAll
    OBVIOUS
  <2>2. CASE rest = <<y>>
    BY <2>2 DEF Consists
  <2>3. CASE rest = <<l, x, y>>
    BY <2>1, <2>3 DEF Consists
  <2>4. QED  BY <1>2, <2>1, <2>2, <2>3
<1>14. ask'[c].table = ask[c].table /\ sources' = sources
  BY <1>12 DEF GoesOnReading
<1>15. Checks(c)'
  BY <1>8, <1>10, <1>12, <1>13, <1>14 DEF Checks, ListingAll, Consists
<1>16. QED  BY <1>12, <1>15

\* The plugins are loaded, the pipeline is checked, and the edit of its file is chosen.
LEMMA ChecksStep ==
    ASSUME Typed, NEW c \in Clients, Step(c), ~disturbed, Checks(c), ~Raise(c),
           Holds(ask[c].on, ask[c].table)
    PROVE  GoesOnReading(c) /\ (Checks(c) \/ Puts(c))'
<1>1. PICK x, y, t : x = Checking(c) /\ y = Putting(c) /\ t = ask[c].table
  OBVIOUS
<1>2. IsHand(hand[c]) /\ hand[c].batch = (t \notin sources)
  BY <1>1 DEF Checks
<1>3. ASSUME NEW fs, NEW reg, Reads(c, [hand[c] EXCEPT !.reg = reg]), Go(c, Loading(fs, TRUE) \o <<x, y>>)
      PROVE  GoesOnReading(c) /\ Checks(c)'
  <2>1. PICK h : h = [hand[c] EXCEPT !.reg = reg]
    OBVIOUS
  <2>2. IsHand(h) /\ h.batch = (t \notin sources)
    BY <1>2, <2>1, HandBatch
  <2>3. PICK two : two = <<x, y>>
    OBVIOUS
  <2>4. two \in Seq({x, y}) /\ two # <<>>
    BY <2>3
  <2>5. PICK calls : calls = Loading(fs, TRUE) \o two
    OBVIOUS
  <2>6. \/ Consists(calls, LoadingAll(fs), two)
        \/ Consists(calls, x, <<y>>)
    <3>1. CASE Loading(fs, TRUE) = <<>>
      <4>1. <<>> \o two = two
        BY <2>4, ConcatEmptySeq
      <4>2. calls = two
        BY <2>5, <3>1, <4>1
      <4>3. QED  BY <2>3, <4>2 DEF Consists
    <3>2. CASE Loading(fs, TRUE) # <<>>
      <4>1. PICK e : e = LoadingAll(fs) /\ Loading(fs, TRUE) = <<e>>
        BY <3>2, LoadingIs DEF LoadingAll
      <4>2. PICK S : S = {x, y, e}
        OBVIOUS
      <4>3. <<e>> \in Seq(S) /\ two \in Seq(S)
        BY <2>3, <4>2
      <4>4. <<e>> \o two # <<>> /\ Head(<<e>> \o two) = e
        BY <4>3
      <4>5. Tail(<<e>> \o two) = two
        BY <4>3
      <4>6. QED  BY <2>5, <4>1, <4>4, <4>5 DEF Consists
    <3>3. QED  BY <3>1, <3>2
  <2>7. calls # <<>>
    BY <2>6 DEF Consists
  <2>8. /\ GoesOnReading(c) /\ job'[c] = calls /\ hand'[c] = h
        /\ Checking(c)' = x /\ Putting(c)' = y
    BY <1>1, <1>3, <2>1, <2>3, <2>5, <2>7, ReadsOn
  <2>9. ask'[c].table = t /\ sources' = sources
    BY <1>1, <2>8 DEF GoesOnReading
  <2>10. Checks(c)'
    BY <2>2, <2>3, <2>6, <2>8, <2>9 DEF Checks, Consists, LoadingAll
  <2>11. QED  BY <2>8, <2>10
<1>4. CASE Consists(job[c], ListingAll, <<x, y>>)
  <2>1. Call(c).do = "list" /\ Call(c).strict = TRUE /\ Tail(job[c]) = <<x, y>>
    BY <1>4 DEF Consists, Call, ListingAll
  <2>2. ListPlugins(c)
    BY <2>1, StepByCall
  <2>3. Reads(c, [hand[c] EXCEPT !.reg = LoadInstalled]) /\ Go(c, Loading(DOMAIN plugins, TRUE) \o <<x, y>>)
    BY <2>1, <2>2 DEF ListPlugins
  <2>4. PICK fs, reg : fs = DOMAIN plugins /\ reg = LoadInstalled
    OBVIOUS
  <2>5. Reads(c, [hand[c] EXCEPT !.reg = reg]) /\ Go(c, Loading(fs, TRUE) \o <<x, y>>)
    BY <2>3, <2>4
  <2>6. QED  BY <1>3, <2>5
<1>5. CASE \E fs : Consists(job[c], LoadingAll(fs), <<x, y>>)
  <2>1. PICK fs : Consists(job[c], LoadingAll(fs), <<x, y>>)
    BY <1>5
  <2>2. Call(c).do = "load" /\ Call(c).strict = TRUE /\ Tail(job[c]) = <<x, y>>
    BY <2>1 DEF Consists, Call, LoadingAll
  <2>3. LoadPluginFile(c)
    BY <2>2, StepByCall
  <2>4. PICK reg, gs : Reads(c, [hand[c] EXCEPT !.reg = reg]) /\ Go(c, Loading(gs, TRUE) \o <<x, y>>)
    BY <2>2, <2>3 DEF LoadPluginFile
  <2>5. QED  BY <1>3, <2>4
<1>6. CASE Consists(job[c], x, <<y>>)
  <2>1. Call(c).do = "check" /\ Tail(job[c]) = <<y>>
    BY <1>1, <1>6 DEF Consists, Call, Checking
  <2>2. CheckPipeline(c)
    BY <2>1, StepByCall
  <2>3. PICK h, calls : /\ h = [hand[c] EXCEPT !.reg = EmptyRegistry] /\ calls = <<y>>
                        /\ Reads(c, h) /\ Go(c, calls)
    BY <2>1, <2>2 DEF CheckPipeline, Return
  <2>4. IsHand(h) /\ h.batch = (t \notin sources)
    BY <1>2, <2>3, HandBatch
  <2>5. calls # <<>> /\ Consists(calls, y, <<>>)
    BY <2>3 DEF Consists
  <2>6. /\ GoesOnReading(c) /\ job'[c] = calls /\ hand'[c] = h
        /\ Checking(c)' = x /\ Putting(c)' = y
    BY <1>1, <2>3, <2>5, ReadsOn
  <2>7. ask'[c].table = t /\ sources' = sources
    BY <1>1, <2>6 DEF GoesOnReading
  <2>8. Checks(c)'
    BY <2>4, <2>5, <2>6, <2>7 DEF Checks, Consists
  <2>9. QED  BY <2>6, <2>8
<1>7. CASE Consists(job[c], y, <<>>)
  <2>1. /\ Call(c).do = "put" /\ Tail(job[c]) = <<>>
        /\ Call(c).table = t /\ Call(c).new = NewStages(c)
    BY <1>1, <1>7 DEF Consists, Call, Putting
  <2>2. PutPipeline(c)
    BY <2>1, StepByCall
  <2>3. PICK file, slot : /\ file = IF t \in sources THEN SidecarFile(t) ELSE TomlFile
                          /\ slot = IF t \in sources THEN Global ELSE BatchSlot(t)
    OBVIOUS
  <2>4. PICK e, new : e = NewTier(file, slot, {"stages"}, new) /\ new = NewStages(c)
    OBVIOUS
  <2>5. Go(c, <<e>>) /\ Reads(c, InHand)
    BY <1>2, <2>1, <2>2, <2>3, <2>4 DEF PutPipeline
  <2>6. PICK calls : calls = <<e>> /\ Go(c, calls) /\ calls # <<>>
    BY <2>5
  <2>7. GoesOnReading(c) /\ job'[c] = calls
    BY <2>5, <2>6, ReadsOn
  <2>8. ask'[c] = ask[c] /\ sources' = sources
    BY <2>7 DEF GoesOnReading
  <2>9. file \in ask[c].on /\ file = Home(t)
    BY <1>1, <2>3 DEF Holds, Home
  <2>10. Home(t)' = Home(t) /\ NewStages(c)' = NewStages(c)
    BY <2>8 DEF Home, NewStages, SidecarFile, TomlFile
  <2>11. Consists(calls, e, <<>>)
    BY <2>6 DEF Consists
  <2>12. file = SidecarFile(t) \/ (file = TomlFile /\ slot = BatchSlot(t))
    BY <2>3
  <2>13. Consists(job[c], NewTier(file, slot, {"stages"}, new), <<>>)'
    BY <2>4, <2>7, <2>11 DEF Consists, NewTier
  <2>14. Puts(c)'
    BY <1>1, <2>4, <2>8, <2>9, <2>10, <2>12, <2>13 DEF Puts, SidecarFile, TomlFile, BatchSlot
  <2>15. QED  BY <2>7, <2>14
<1>8. QED  BY <1>1, <1>4, <1>5, <1>6, <1>7 DEF Checks

\* The stages of the table t are edited, in its sidecar or in its entry.
LEMMA PutsStep ==
    ASSUME Typed, NEW c \in Clients, Step(c), ~disturbed, Puts(c), ~Raise(c),
           ask[c].what \in {"pipe", "unpipe"}, Settled(ask[c].on, {})
    PROVE  GoesOnReading(c) /\ PutsFile(c)'
<1>1. PICK files, t : files = ask[c].on /\ t = ask[c].table
  OBVIOUS
<1>2. PICK file, slot, new :
         /\ file \in files
         /\ Consists(job[c], NewTier(file, slot, {"stages"}, new), <<>>)
         /\ file = SidecarFile(t) \/ (file = TomlFile /\ slot = BatchSlot(t))
         /\ ask[c].what = "pipe" => file = Home(t) /\ new = NewStages(c)
  BY <1>1 DEF Puts
<1>3. PICK e : e = NewTier(file, slot, {"stages"}, new)
  OBVIOUS
<1>4. /\ e.do = "edit" /\ e.file = file /\ e.how = "tier" /\ e.slot = slot
      /\ e.fields = {"stages"} /\ e.new = new
  BY <1>3 DEF NewTier
<1>5. ask[c].what = "pipe" => HasStages(new, ask[c].stages)
  BY <1>2, EditedStages DEF NewStages
<1>6. ASSUME GoesOnReading(c), NEW x, Writes(c, file, x, <<>>)', Pending(files, {t}, file, x),
             ask[c].what = "pipe" => ComesInForce(file, x, t, ask[c].stages)
      PROVE  PutsFile(c)'
  <2>1. UNCHANGED <<sources, toml, sidecar, told>> /\ ask'[c] = ask[c]
    BY <1>6 DEF GoesOnReading
  <2>2. /\ Pending(files, {t}, file, x)'
        /\ ask[c].what = "pipe" => ComesInForce(file, x, t, ask[c].stages)'
    BY <1>6, <2>1, SameFrame
  <2>3. file \in {SidecarFile(t), TomlFile}
    BY <1>2
  <2>4. QED  BY <1>1, <1>2, <1>6, <2>1, <2>2, <2>3 DEF PutsFile, SidecarFile, TomlFile
<1>7. CASE file = TomlFile
  <2>1. ~(file = SidecarFile(t)) /\ slot = BatchSlot(t) /\ e.slot[1] # "cluster"
    BY <1>2, <1>4, <1>7, HomesAreApart, SlotKinds
  <2>2. ~Refused(e)
    BY <1>4, <2>1 DEF Refused
  <2>3. PICK x : x = EditedToml(e) /\ Writes(c, TomlFile, x, <<>>)'
    BY <1>2, <1>3, <1>4, <1>7, <2>2, EditsToml
  <2>4. GoesOnReading(c)
    BY <1>2, <1>3, <1>4, <1>7, <2>2, EditsToml DEF GoesOnReading
  <2>5. PICK y : y = Edited(IF slot \in DOMAIN toml.tiers THEN toml.tiers[slot] ELSE EmptyMap, {"stages"}, new)
    OBVIOUS
  <2>6. x.tiers = Put(toml.tiers, slot, y)
    BY <1>4, <2>3, <2>5, EditedTiers DEF Typed, FilesTyped
  <2>7. ASSUME NEW u, NEW s, u # t, HasEntry(toml, u, s) PROVE HasEntry(x, u, s)
    <3>1. BatchSlot(u) # slot
      BY <2>1, <2>7, HomesAreApart
    <3>2. QED  BY <2>6, <2>7, <3>1 DEF HasEntry, IsBatch, HasStages, Put
  <2>8. ASSUME NEW u \in DOMAIN told \ {t}, Home(u) \in files
        PROVE  ComesInForce(file, x, u, told[u].stages)
    <3>1. InForce(u, told[u].stages)
      BY <1>1, <2>8 DEF Settled
    <3>2. CASE Home(u) = file
      <4>1. u \notin sources
        BY <1>7, <3>2, HomesAreApart DEF Home
      <4>2. QED  BY <2>7, <2>8, <3>1, <3>2, <4>1 DEF InForce, ComesInForce
    <3>3. QED  BY <3>1, <3>2 DEF ComesInForce
  <2>9. ASSUME ask[c].what = "pipe" PROVE ComesInForce(file, x, t, ask[c].stages)
    <3>1. HasStages(y, ask[c].stages)
      BY <1>5, <2>5, <2>9, EditedStages
    <3>2. HasEntry(x, t, ask[c].stages)
      BY <2>1, <2>6, <3>1 DEF HasEntry, IsBatch, HasStages, Put
    <3>3. t \notin sources /\ Home(t) = file
      BY <1>2, <1>7, <2>9, HomesAreApart DEF Home
    <3>4. QED  BY <3>2, <3>3 DEF ComesInForce
  <2>10. Pending(files, {t}, file, x)
    BY <2>8 DEF Pending
  <2>11. Writes(c, file, x, <<>>)'
    BY <1>7, <2>3 DEF TomlFile
  <2>12. QED  BY <1>6, <2>4, <2>9, <2>10, <2>11
<1>8. CASE file = SidecarFile(t)
  <2>1. Consists(job[c], e, <<>>) /\ e.do = "edit" /\ e.file = SidecarFile(t)
    BY <1>2, <1>3, <1>4, <1>8
  <2>2. PICK x : /\ UNCHANGED <<sources, toml, sidecar, told>>
                 /\ job'[c] # <<>> /\ ask'[c] = ask[c]
                 /\ x = Edited(SidecarTier(t), e.fields, e.new)
                 /\ \/ x = EmptyMap /\ Consists(job'[c], [do |-> "unlink", file |-> SidecarFile(t)], <<>>)
                    \/ Writes(c, SidecarFile(t), x, <<>>)'
    BY <2>1, EditsSidecar
  <2>3. GoesOnReading(c)
    BY <2>2 DEF GoesOnReading
  <2>4. ASSUME ask[c].what = "pipe"
        PROVE  HasStages(x, ask[c].stages) /\ ComesInForce(file, x, t, ask[c].stages)
    <3>1. HasStages(x, ask[c].stages)
      BY <1>4, <1>5, <2>2, <2>4, EditedStages
    <3>2. Home(t) = file /\ t \in sources
      BY <1>2, <1>8, <2>4, HomesAreApart DEF Home
    <3>3. QED  BY <3>1, <3>2 DEF ComesInForce
  <2>5. Pending(files, {t}, file, x)
    <3>1. ASSUME NEW u \in DOMAIN told \ {t}, Home(u) \in files
          PROVE  Home(u) # file /\ InForce(u, told[u].stages)
      BY <1>1, <1>8, <3>1, HomesAreApart DEF Home, Settled
    <3>2. QED  BY <3>1 DEF Pending, ComesInForce
  <2>6. CASE Writes(c, SidecarFile(t), x, <<>>)'
    <3>1. Writes(c, file, x, <<>>)'
      BY <1>8, <2>6 DEF SidecarFile
    <3>2. QED  BY <1>6, <2>3, <2>4, <2>5, <3>1
  <2>7. CASE x = EmptyMap /\ Consists(job'[c], [do |-> "unlink", file |-> SidecarFile(t)], <<>>)
    <3>1. ask[c].what = "unpipe"
      BY <2>4, <2>7, EditedStages
    <3>2. Settled(files, {t})
      BY <1>1 DEF Settled
    <3>3. Settled(files, {t})'
      BY <2>2, <3>2, SameFrame
    <3>4. PutsFile(c)'
      BY <1>1, <2>2, <2>7, <3>1, <3>3 DEF PutsFile, SidecarFile, Consists
    <3>5. QED  BY <2>3, <3>4
  <2>8. QED  BY <2>2, <2>6, <2>7
<1>9. QED  BY <1>2, <1>7, <1>8

\* The table t is told to have the stages, or to have none.
LEMMA PipeTells ==
    ASSUME Typed, NEW c \in Clients, ~disturbed, Go(c, <<>>), sources' = sources,
           ask[c].what \in {"pipe", "unpipe"}, Holds(ask[c].on, ask[c].table),
           NEW files, files = ask[c].on, DiskFrame(files), NEW t, t = ask[c].table,
           \A u : Home(u)' = Home(u),
           \A u \in DOMAIN told \ {t} : \A s : Home(u) \in files /\ s = told[u].stages => InForce(u, s)',
           \A s : ask[c].what = "pipe" /\ s = ask[c].stages => InForce(t, s)'
    PROVE  Onward(c, files)
<1>1. job'[c] = <<>> /\ told' = ToldBy(c)
  BY GoTells
<1>2. Home(t) \in files
  BY DEF Holds, Home
<1>3. ASSUME NEW u \in DOMAIN told'
      PROVE  \/ u # t /\ u \in DOMAIN told /\ told'[u] = told[u]
             \/ u = t /\ ask[c].what = "pipe" /\ told'[u].stages = ask[c].stages
  <2>1. CASE ask[c].what = "pipe"
    <3>1. PICK x : x = [stages |-> ask[c].stages, plugins |-> IF alone[c] THEN {plugins'} ELSE {}]
      OBVIOUS
    <3>2. told' = Put(told, t, x) /\ x.stages = ask[c].stages
      BY <1>1, <2>1, <3>1 DEF ToldBy
    <3>3. QED  BY <1>3, <2>1, <3>2 DEF Put
  <2>2. CASE ask[c].what = "unpipe"
    <3>1. told' = Drop(told, {t})
      BY <1>1, <2>2 DEF ToldBy
    <3>2. QED  BY <1>3, <3>1 DEF Drop
  <2>3. QED  BY <2>1, <2>2
<1>4. Frame(files)
  BY <1>2, <1>3 DEF Frame
<1>5. Settled(files, {})'
  <2>1. ASSUME NEW u \in DOMAIN told', Home(u)' \in files
        PROVE  \E s : s = told'[u].stages /\ InForce(u, s)'
    BY <1>3, <2>1
  <2>2. QED  BY <2>1 DEF Settled
<1>6. QED  BY <1>1, <1>4, <1>5 DEF Onward

\* A request about the pipeline of a table.
LEMMA PipesStep ==
    ASSUME Typed, NEW c \in Clients, Step(c), ~disturbed, Pipes(c)
    PROVE  \E files : files = ask[c].on /\ Onward(c, files)
<1>1. PICK files, t : files = ask[c].on /\ t = ask[c].table
  OBVIOUS
<1>2. SUFFICES Onward(c, files)
  BY <1>1
<1>3. ask[c].what \in {"pipe", "unpipe"} /\ Holds(files, t)
  BY <1>1 DEF Pipes
<1>4. ASSUME job'[c] # <<>>, ask'[c] = ask[c], sources' = sources, Frame(files),
             (Settled(ask[c].on, {}) /\ (Checks(c) \/ Puts(c)))' \/ PutsFile(c)'
      PROVE  Onward(c, files)
  <2>1. Holds(ask[c].on, ask[c].table)'
    BY <1>1, <1>3, <1>4 DEF Holds, SidecarFile, TomlFile
  <2>2. Pipes(c)'
    BY <1>4, <2>1 DEF Pipes
  <2>3. QED  BY <1>4, <2>2 DEF Onward, Works
<1>5. CASE Settled(files, {}) /\ Raise(c)
  BY <1>5, RaiseOnward
<1>6. CASE Settled(files, {}) /\ ~Raise(c) /\ (LooksUp(c) \/ Checks(c) \/ Puts(c))
  <2>1. GoesOnReading(c) /\ (Checks(c)' \/ Puts(c)' \/ PutsFile(c)')
    BY <1>1, <1>3, <1>6, LooksUpStep, ChecksStep, PutsStep
  <2>2. UNCHANGED <<sources, toml, sidecar, told>> /\ job'[c] # <<>> /\ ask'[c] = ask[c]
    BY <2>1 DEF GoesOnReading
  <2>3. Frame(files) /\ Settled(files, {})'
    BY <1>6, <2>2, SameFrame
  <2>4. Settled(ask[c].on, {})'
    BY <1>1, <2>2, <2>3
  <2>5. QED  BY <1>4, <2>1, <2>2, <2>3, <2>4
<1>7. CASE \E file, x :
             /\ file \in files
             /\ file \in {SidecarFile(t), TomlFile}
             /\ Writes(c, file, x, <<>>) /\ Pending(files, {t}, file, x)
             /\ ask[c].what = "pipe" => ComesInForce(file, x, t, ask[c].stages)
  <2>1. PICK file, x :
             /\ file \in files
             /\ file \in {SidecarFile(t), TomlFile}
             /\ Writes(c, file, x, <<>>) /\ Pending(files, {t}, file, x)
             /\ ask[c].what = "pipe" => ComesInForce(file, x, t, ask[c].stages)
    BY <1>7
  <2>2. IsPath(file)
    BY <2>1 DEF IsPath
  <2>3. DiskFrame(files) /\ sources' = sources /\ \A u : Home(u)' = Home(u)
    BY <2>1, <2>2, WritesStep
  <2>4. CASE /\ Writes(c, file, x, <<>>)' /\ job'[c] # <<>> /\ ask'[c] = ask[c] /\ Frame(files)
             /\ \A u, s : ComesInForce(file, x, u, s) => ComesInForce(file, x, u, s)'
             /\ \A T : Pending(files, T, file, x) => Pending(files, T, file, x)'
    <3>1. /\ Pending(files, {t}, file, x)'
          /\ ask[c].what = "pipe" => ComesInForce(file, x, t, ask[c].stages)'
      BY <2>1, <2>4
    <3>2. PutsFile(c)'
      BY <1>1, <2>1, <2>4, <3>1 DEF PutsFile, SidecarFile, TomlFile
    <3>3. QED  BY <1>4, <2>3, <2>4, <3>2
  <2>5. CASE /\ Go(c, <<>>)
             /\ \A u, s : ComesInForce(file, x, u, s) => InForce(u, s)'
    <3>1. \A u \in DOMAIN told \ {t} : \A s : Home(u) \in files /\ s = told[u].stages => InForce(u, s)'
      BY <2>1, <2>5 DEF Pending
    <3>2. \A s : ask[c].what = "pipe" /\ s = ask[c].stages => InForce(t, s)'
      BY <2>1, <2>5
    <3>3. QED  BY <1>1, <1>3, <2>3, <2>5, <3>1, <3>2, PipeTells
  <2>6. QED  BY <2>1, <2>2, <2>4, <2>5, WritesStep
<1>8. CASE /\ ask[c].what = "unpipe"
           /\ Consists(job[c], [do |-> "unlink", file |-> SidecarFile(t)], <<>>)
           /\ Settled(files, {t})
  <2>1. PICK file : file = SidecarFile(t)
    OBVIOUS
  <2>2. IsPath(file) /\ file \in files
    BY <1>3, <2>1 DEF IsPath, Holds
  <2>3. /\ Go(c, <<>>) /\ sources' = sources /\ DiskFrame(files)
        /\ \A u : Home(u)' = Home(u)
        /\ \A u, s : Home(u) # file => (InForce(u, s)' <=> InForce(u, s))
    BY <1>8, <2>1, <2>2, UnlinkStep
  <2>4. ASSUME NEW u \in DOMAIN told \ {t}, NEW s, Home(u) \in files, s = told[u].stages
        PROVE  InForce(u, s)'
    <3>1. Home(u) # file /\ InForce(u, s)
      BY <1>8, <2>1, <2>4, HomesAreApart DEF Home, Settled
    <3>2. QED  BY <2>3, <3>1
  <2>5. QED  BY <1>1, <1>3, <1>8, <2>3, <2>4, PipeTells
<1>9. QED  BY <1>1, <1>5, <1>6, <1>7, <1>8 DEF Pipes, PutsFile

-----------------------------------------------------------------------------
(* A table is given a new name.                                            *)

\* A source is renamed or copied.
LEMMA NamesSource ==
    ASSUME Typed, NEW c \in Clients, Step(c), ~disturbed, NEW do \in {"move", "copy"}, NEW rest, rest # <<>>,
           Consists(job[c], Naming(c, do), rest), ask[c].table \in sources
    PROVE  /\ sources' = (sources \ (IF do = "move" THEN {ask[c].table} ELSE {})) \cup {ask[c].new}
           /\ UNCHANGED <<toml, sidecar, told>>
           /\ job'[c] = rest /\ ask'[c] = ask[c]
<1>1. PICK e : e = Naming(c, do)
  OBVIOUS
<1>2. /\ Call(c) = e /\ Tail(job[c]) = rest
      /\ e.do = do /\ e.old = ask[c].table /\ e.new = ask[c].new
  BY <1>1 DEF Consists, Call, Naming
<1>3. NameSource(c)
  BY <1>2, StepByCall
<1>4. /\ sources' = (sources \ (IF do = "move" THEN {ask[c].table} ELSE {})) \cup {ask[c].new}
      /\ Go(c, rest) /\ UNCHANGED <<toml, sidecar>>
  BY <1>2, <1>3 DEF NameSource, Return
<1>5. QED  BY <1>4, GoTells

\* The tables of other names are not affected.
LEMMA OthersStay ==
    ASSUME NEW c, NamesTable(c), NEW files, files = ask[c].on, UNCHANGED <<toml, told>>,
           NEW T \in SUBSET {ask[c].table},
           \A t : t # ask[c].new /\ t \notin T =>
               (t \in sources' <=> t \in sources) /\ SidecarTier(t)' = SidecarTier(t)
    PROVE  /\ Frame(files)
           /\ \A t : t # ask[c].new /\ t \notin T =>
                 Home(t)' = Home(t) /\ \A s : InForce(t, s)' <=> InForce(t, s)
           /\ Settled(files, T) => Settled(files, T)'
<1>1. PICK old, new : old = ask[c].table /\ new = ask[c].new
  OBVIOUS
<1>2. TomlFile \in files /\ SidecarFile(old) \in files /\ SidecarFile(new) \in files /\ new \notin DOMAIN told
  BY <1>1 DEF NamesTable
<1>3. Frame(files)
  BY <1>1, <1>2 DEF Frame, DiskFrame
<1>4. ASSUME NEW t, t # new, t \notin T
      PROVE  Home(t)' = Home(t) /\ \A s : InForce(t, s)' <=> InForce(t, s)
  <2>1. (t \in sources' <=> t \in sources) /\ SidecarTier(t)' = SidecarTier(t)
    BY <1>1, <1>4
  <2>2. QED  BY <2>1 DEF Home, InForce, HasEntry, HasStages, IsBatch, SidecarFile, TomlFile
<1>5. ASSUME Settled(files, T) PROVE Settled(files, T)'
  <2>1. ASSUME NEW t \in DOMAIN told' \ T, Home(t)' \in files PROVE InForce(t, told[t].stages)'
    <3>1. t \in DOMAIN told /\ t # new /\ t \notin T
      BY <1>2, <2>1
    <3>2. InForce(t, told[t].stages)
      BY <1>4, <1>5, <2>1, <3>1 DEF Settled
    <3>3. PICK s : s = told[t].stages /\ InForce(t, s)
      BY <3>2
    <3>4. s = told'[t].stages /\ InForce(t, s)'
      BY <1>4, <3>1, <3>3
    <3>5. QED  BY <3>4
  <2>2. QED  BY <2>1 DEF Settled
<1>6. QED  BY <1>1, <1>3, <1>4, <1>5

\* The new name is told to have the pipeline of the table.
LEMMA NameTells ==
    ASSUME Typed, NEW c \in Clients, ~disturbed, Go(c, <<>>), NamesTable(c),
           ask[c].what \in {"rename", "clone"}, NEW files, files = ask[c].on, DiskFrame(files),
           \A u : Home(u)' = Home(u),
           \A u \in DOMAIN told \ (IF ask[c].what = "rename" THEN {ask[c].table} ELSE {}) : \A s :
               Home(u) \in files /\ s = told[u].stages => InForce(u, s)',
           \A s : Accepted(c) /\ s = OldStages(c) => \A u : u = ask[c].new => InForce(u, s)'
    PROVE  Onward(c, files)
<1>1. PICK old, new : old = ask[c].table /\ new = ask[c].new
  OBVIOUS
<1>2. job'[c] = <<>> /\ told' = ToldBy(c)
  BY GoTells
<1>3. Home(new) \in files
  BY <1>1 DEF NamesTable, Home
<1>4. ASSUME NEW u \in DOMAIN told'
      PROVE  \/ /\ u \in DOMAIN told \ (IF ask[c].what = "rename" THEN {ask[c].table} ELSE {})
                /\ told'[u] = told[u]
             \/ u = new /\ Accepted(c) /\ told'[u] = told[old]
  <2>1. CASE ask[c].what = "rename"
    <3>1. told' = MoveKey(told, old, new)
      BY <1>1, <1>2, <2>1 DEF ToldBy
    <3>2. QED  BY <1>1, <1>4, <2>1, <3>1 DEF MoveKey, Put, Drop, Accepted
  <2>2. CASE ask[c].what = "clone"
    <3>1. told' = IF old \in DOMAIN told THEN Put(told, new, told[old]) ELSE told
      BY <1>1, <1>2, <2>2 DEF ToldBy
    <3>2. QED  BY <1>1, <1>4, <2>2, <3>1 DEF Put, Accepted
  <2>3. QED  BY <2>1, <2>2
<1>5. Frame(files)
  BY <1>3, <1>4 DEF Frame
<1>6. Settled(files, {})'
  <2>1. ASSUME NEW u \in DOMAIN told', Home(u)' \in files
        PROVE  \E s : s = told'[u].stages /\ InForce(u, s)'
    <3>1. CASE /\ u \in DOMAIN told \ (IF ask[c].what = "rename" THEN {ask[c].table} ELSE {})
               /\ told'[u] = told[u]
      BY <2>1, <3>1
    <3>2. CASE u = new /\ Accepted(c) /\ told'[u] = told[old]
      <4>1. PICK s : s = OldStages(c)
        OBVIOUS
      <4>2. InForce(u, s)'
        BY <1>1, <3>2, <4>1
      <4>3. QED  BY <1>1, <3>2, <4>1, <4>2 DEF OldStages
    <3>3. QED  BY <1>4, <3>1, <3>2
  <2>2. QED  BY <2>1 DEF Settled
<1>7. QED  BY <1>2, <1>5, <1>6 DEF Onward

\* A table is being renamed.
LEMMA RenamesOnward ==
    ASSUME Typed, NEW c \in Clients, Step(c), ~disturbed, Renames(c)
    PROVE  \E files : files = ask[c].on /\ Onward(c, files)
<1>1. PICK files, old, new : files = ask[c].on /\ old = ask[c].table /\ new = ask[c].new
  OBVIOUS
<1>2. SUFFICES Onward(c, files)
  BY <1>1
<1>3. /\ ask[c].what = "rename" /\ NamesTable(c) /\ TomlFile \in files
      /\ old # new /\ new \notin DOMAIN told
      /\ SidecarFile(old) \in files /\ SidecarFile(new) \in files
  BY <1>1 DEF Renames, NamesTable
<1>4. ASSUME job'[c] # <<>>, ask'[c] = ask[c], told' = told, Frame(files),
             (MovesSidecar(c) \/ RenamesEntry(c) \/ RenamesToml(c))'
      PROVE  Onward(c, files)
  <2>1. NamesTable(c)'
    BY <1>3, <1>4 DEF NamesTable, TomlFile, SidecarFile
  <2>2. Renames(c)'
    BY <1>3, <1>4, <2>1 DEF Renames
  <2>3. QED  BY <1>4, <2>2 DEF Onward, Works
<1>5. ASSUME ask'[c] = ask[c]
      PROVE  Renaming(c)' = Renaming(c) /\ Naming(c, "move_sidecar")' = Naming(c, "move_sidecar")
  BY <1>5 DEF Renaming, RenameEdit, TomlFile, Naming
<1>6. CASE Moves(c)
  <2>1. PICK x, y : x = Naming(c, "move_sidecar") /\ y = Renaming(c)
    OBVIOUS
  <2>2. Consists(job[c], Naming(c, "move"), <<x, y>>) /\ <<x, y>> # <<>> /\ old \in sources /\ new \notin sources
    BY <1>1, <1>6, <2>1 DEF Moves
  <2>3. /\ sources' = (sources \ {old}) \cup {new} /\ UNCHANGED <<toml, sidecar, told>>
        /\ job'[c] = <<x, y>> /\ ask'[c] = ask[c]
    BY <1>1, <2>2, NamesSource
  <2>4. \A t : SidecarTier(t)' = SidecarTier(t)
    BY <2>3 DEF SidecarTier
  <2>5. \A t : t # new /\ t \notin {old} => (t \in sources' <=> t \in sources) /\ SidecarTier(t)' = SidecarTier(t)
    BY <2>3, <2>4
  <2>6. Settled(files, {old})
    BY <1>1, <1>6 DEF Moves, Settled
  <2>7. Frame(files) /\ Settled(files, {old})'
    BY <1>1, <1>3, <2>3, <2>5, <2>6, OthersStay
  <2>8. ASSUME old \in DOMAIN told PROVE HasStages(SidecarTier(old), told[old].stages)
    <3>1. Home(old) \in files
      BY <1>3, <2>2 DEF Home
    <3>2. QED  BY <1>1, <1>6, <2>2, <2>8, <3>1 DEF Moves, Settled, InForce
  <2>9. Consists(<<x, y>>, x, <<y>>)
    BY DEF Consists
  <2>10. /\ Consists(job[c], Naming(c, "move_sidecar"), <<Renaming(c)>>)'
    BY <1>5, <2>1, <2>3, <2>9 DEF Consists
  <2>11. (Accepted(c) => HasStages(SidecarTier(ask[c].table), OldStages(c)))'
    BY <1>1, <2>3, <2>4, <2>8 DEF Accepted, OldStages, HasStages
  <2>12. MovesSidecar(c)'
    BY <1>1, <1>3, <2>3, <2>7, <2>10, <2>11 DEF MovesSidecar
  <2>13. QED  BY <1>4, <2>3, <2>7, <2>12
<1>7. CASE MovesSidecar(c)
  <2>1. PICK e, y : e = Naming(c, "move_sidecar") /\ y = Renaming(c)
    OBVIOUS
  <2>2. /\ Call(c) = e /\ Tail(job[c]) = <<y>>
        /\ e.do = "move_sidecar" /\ e.old = old /\ e.new = new
    BY <1>1, <1>7, <2>1 DEF MovesSidecar, Consists, Call, Naming
  <2>3. MoveSidecar(c)
    BY <2>2, StepByCall
  <2>4. sidecar' = MoveKey(sidecar, old, new) /\ Go(c, <<y>>) /\ UNCHANGED <<sources, toml>>
    BY <2>2, <2>3 DEF MoveSidecar, Return
  <2>5. job'[c] = <<y>> /\ ask'[c] = ask[c] /\ told' = told
    <3>1. PICK calls : calls = <<y>> /\ Go(c, calls) /\ calls # <<>>
      BY <2>4
    <3>2. QED  BY <3>1, GoTells
  <2>6. \A t : t # new /\ t \notin {old} => (t \in sources' <=> t \in sources) /\ SidecarTier(t)' = SidecarTier(t)
    BY <2>4 DEF SidecarTier, MoveKey, Put, Drop
  <2>7. Frame(files) /\ Settled(files, {old})'
    BY <1>1, <1>3, <1>7, <2>4, <2>5, <2>6, OthersStay DEF MovesSidecar
  <2>8. ASSUME old \in DOMAIN told PROVE new \in sources /\ HasStages(SidecarTier(new)', told[old].stages)
    <3>1. HasStages(SidecarTier(old), told[old].stages) /\ new \in sources
      BY <1>1, <1>7, <2>8 DEF MovesSidecar, Accepted, OldStages
    <3>2. old \in DOMAIN sidecar
      BY <3>1, EditedStages DEF SidecarTier
    <3>3. SidecarTier(new)' = SidecarTier(old)
      BY <2>4, <3>2 DEF SidecarTier, MoveKey, Put
    <3>4. QED  BY <3>1, <3>3
  <2>9. Consists(<<y>>, y, <<>>) /\ <<y>> # <<>>
    BY DEF Consists
  <2>10. Consists(job[c], Renaming(c), <<>>)'
    BY <1>5, <2>1, <2>5, <2>9 DEF Consists
  <2>11. (Accepted(c) => InForce(IF ask[c].new \in sources THEN ask[c].new ELSE ask[c].table, OldStages(c)))'
    BY <1>1, <2>4, <2>5, <2>8 DEF Accepted, OldStages, InForce, HasStages
  <2>12. RenamesEntry(c)'
    BY <1>1, <1>7, <2>4, <2>5, <2>7, <2>10, <2>11 DEF MovesSidecar, RenamesEntry
  <2>13. QED  BY <1>4, <2>5, <2>7, <2>9, <2>12
<1>8. CASE RenamesEntry(c)
  <2>1. PICK e : e = Renaming(c)
    OBVIOUS
  <2>2. /\ Consists(job[c], e, <<>>)
        /\ e.do = "edit" /\ e.file = TomlFile /\ e.how = "rename" /\ e.old = old /\ e.new = new
    BY <1>1, <1>8, <2>1 DEF RenamesEntry, Renaming, RenameEdit
  <2>3. ~Refused(e)
    BY <2>2 DEF Refused
  <2>4. PICK x : x = EditedToml(e) /\ Writes(c, TomlFile, x, <<>>)'
    BY <2>2, <2>3, EditsToml
  <2>5. UNCHANGED <<sources, toml, sidecar, told>> /\ job'[c] # <<>> /\ ask'[c] = ask[c]
    BY <2>2, <2>3, EditsToml
  <2>6. x.tiers = MoveKey(toml.tiers, BatchSlot(old), BatchSlot(new))
    BY <2>2, <2>4, EditedTiers DEF Typed, FilesTyped
  <2>7. ASSUME NEW u, NEW s, u \notin {old, new}, HasEntry(toml, u, s) PROVE HasEntry(x, u, s)
    <3>1. BatchSlot(u) # BatchSlot(old) /\ BatchSlot(u) # BatchSlot(new)
      BY <2>7, HomesAreApart
    <3>2. QED  BY <2>6, <2>7, <3>1 DEF HasEntry, IsBatch, HasStages, MoveKey, Put, Drop
  <2>8. \A s : HasEntry(toml, old, s) => HasEntry(x, new, s)
    BY <2>6 DEF HasEntry, IsBatch, HasStages, MoveKey, Put, Drop
  <2>9. ASSUME NEW u \in DOMAIN told \ {old}, Home(u) \in files
        PROVE  ComesInForce(TomlFile, x, u, told[u].stages)
    <3>1. InForce(u, told[u].stages) /\ u \notin {old, new}
      BY <1>1, <1>3, <1>8, <2>9 DEF RenamesEntry, Settled
    <3>2. CASE u \in sources
      BY <3>1, <3>2, HomesAreApart DEF ComesInForce, Home
    <3>3. CASE u \notin sources
      BY <2>7, <3>1, <3>3 DEF ComesInForce, Home, InForce
    <3>4. QED  BY <3>2, <3>3
  <2>10. ASSUME old \in DOMAIN told PROVE ComesInForce(TomlFile, x, new, told[old].stages)
    <3>1. /\ old \notin sources
          /\ InForce(IF new \in sources THEN new ELSE old, told[old].stages)
      BY <1>1, <1>8, <2>10 DEF RenamesEntry, Accepted, OldStages
    <3>2. CASE new \in sources
      BY <3>1, <3>2, HomesAreApart DEF ComesInForce, Home
    <3>3. CASE new \notin sources
      BY <2>8, <3>1, <3>3 DEF ComesInForce, Home, InForce
    <3>4. QED  BY <3>2, <3>3
  <2>11. Frame(files) /\ Pending(files, {old}, TomlFile, x)
    BY <2>5, <2>9, SameFrame DEF Pending
  <2>12. PICK toml1 : toml1 = TomlFile
    OBVIOUS
  <2>13. /\ Pending(files, {old}, toml1, x)'
         /\ old \in DOMAIN told => \A s : s = told[old].stages => ComesInForce(toml1, x, new, s)'
    BY <2>5, <2>10, <2>11, <2>12, SameFrame
  <2>14. (Accepted(c) => ComesInForce(TomlFile, x, ask[c].new, OldStages(c)))'
    BY <1>1, <2>5, <2>12, <2>13 DEF Accepted, OldStages, TomlFile
  <2>15. RenamesToml(c)'
    BY <1>1, <2>4, <2>5, <2>12, <2>13, <2>14 DEF RenamesToml, TomlFile
  <2>16. QED  BY <1>4, <2>5, <2>11, <2>15
<1>9. CASE RenamesToml(c)
  <2>1. PICK file : file = TomlFile
    OBVIOUS
  <2>2. PICK x : /\ Writes(c, file, x, <<>>) /\ Pending(files, {old}, file, x)
                 /\ old \in DOMAIN told => ComesInForce(file, x, new, told[old].stages)
    BY <1>1, <1>9, <2>1 DEF RenamesToml, Accepted, OldStages
  <2>3. IsPath(file) /\ file \in files
    BY <1>3, <2>1 DEF IsPath
  <2>4. CASE /\ Writes(c, file, x, <<>>)' /\ job'[c] # <<>> /\ ask'[c] = ask[c] /\ told' = told
             /\ Frame(files)
             /\ \A u, s : ComesInForce(file, x, u, s) => ComesInForce(file, x, u, s)'
             /\ \A T : Pending(files, T, file, x) => Pending(files, T, file, x)'
    <3>1. (Accepted(c) => ComesInForce(TomlFile, x, ask[c].new, OldStages(c)))'
      <4>1. old \in DOMAIN told => \A s : s = told[old].stages => ComesInForce(file, x, new, s)'
        BY <2>2, <2>4
      <4>2. QED  BY <1>1, <2>1, <2>4, <4>1 DEF Accepted, OldStages, TomlFile
    <3>2. RenamesToml(c)'
      BY <1>1, <2>1, <2>2, <2>4, <3>1 DEF RenamesToml, TomlFile
    <3>3. QED  BY <1>4, <2>4, <3>2
  <2>5. CASE /\ Go(c, <<>>) /\ DiskFrame(files) /\ \A u : Home(u)' = Home(u)
             /\ \A u, s : ComesInForce(file, x, u, s) => InForce(u, s)'
    <3>1. \A u \in DOMAIN told \ (IF ask[c].what = "rename" THEN {ask[c].table} ELSE {}) : \A s :
             Home(u) \in files /\ s = told[u].stages => InForce(u, s)'
      BY <1>1, <1>3, <2>2, <2>5 DEF Pending
    <3>2. \A s : Accepted(c) /\ s = OldStages(c) => \A u : u = ask[c].new => InForce(u, s)'
      BY <1>1, <2>2, <2>5 DEF Accepted, OldStages
    <3>3. QED  BY <1>1, <1>3, <2>5, <3>1, <3>2, NameTells
  <2>6. QED  BY <2>2, <2>3, <2>4, <2>5, WritesStep
<1>10. QED  BY <1>6, <1>7, <1>8, <1>9 DEF Renames

\* A table is being cloned.
LEMMA ClonesOnward ==
    ASSUME Typed, NEW c \in Clients, Step(c), ~disturbed, Clones(c)
    PROVE  \E files : files = ask[c].on /\ Onward(c, files)
<1>1. PICK files, old, new : files = ask[c].on /\ old = ask[c].table /\ new = ask[c].new
  OBVIOUS
<1>2. SUFFICES Onward(c, files)
  BY <1>1
<1>3. /\ ask[c].what = "clone" /\ NamesTable(c) /\ TomlFile \in files
      /\ old # new /\ new \notin DOMAIN told
      /\ SidecarFile(old) \in files /\ SidecarFile(new) \in files
  BY <1>1 DEF Clones, NamesTable
<1>4. ASSUME job'[c] # <<>>, ask'[c] = ask[c], told' = told, Frame(files),
             (CopiesSidecar(c) \/ WritesSidecar(c) \/ Joins(c) \/ ClonesToml(c))'
      PROVE  Onward(c, files)
  <2>1. NamesTable(c)'
    BY <1>3, <1>4 DEF NamesTable, TomlFile, SidecarFile
  <2>2. Clones(c)'
    BY <1>3, <1>4, <2>1 DEF Clones
  <2>3. QED  BY <1>4, <2>2 DEF Onward, Works
<1>5. ASSUME ask'[c] = ask[c]
      PROVE  /\ Naming(c, "copy_sidecar")' = Naming(c, "copy_sidecar") /\ Tagging' = Tagging
             /\ \A k : Joining(c, k)' = Joining(c, k)
             /\ \A rest : Metas(c, rest) => Metas(c, rest)'
  <2>1. /\ Naming(c, "copy_sidecar")' = Naming(c, "copy_sidecar") /\ Tagging' = Tagging
        /\ \A k : Joining(c, k)' = Joining(c, k)
    BY <1>5 DEF Naming, Tagging, Joining, TomlFile
  <2>2. QED  BY <2>1 DEF Metas
<1>6. ASSUME Accepted(c), old \in sources, Settled(files, {})
      PROVE  old \in DOMAIN sidecar /\ HasStages(sidecar[old], OldStages(c))
  <2>1. HasStages(SidecarTier(old), OldStages(c))
    BY <1>1, <1>3, <1>6 DEF Accepted, OldStages, Settled, Home, InForce
  <2>2. QED  BY <2>1, EditedStages DEF SidecarTier
<1>7. CASE Copies(c)
  <2>1. PICK e, rest, more : /\ Consists(job[c], Naming(c, "copy"), more) /\ e = Naming(c, "copy_sidecar")
                             /\ Consists(more, e, rest) /\ Metas(c, rest)
    BY <1>7 DEF Copies
  <2>2. more # <<>> /\ old \in sources /\ new \notin sources /\ Settled(files, {})
    BY <1>1, <1>7, <2>1 DEF Copies, Consists
  <2>3. /\ sources' = sources \cup {new} /\ UNCHANGED <<toml, sidecar, told>>
        /\ job'[c] = more /\ ask'[c] = ask[c]
    BY <1>1, <2>1, <2>2, NamesSource
  <2>4. \A t : t # new => (t \in sources' <=> t \in sources) /\ SidecarTier(t)' = SidecarTier(t)
    BY <2>3 DEF SidecarTier
  <2>5. Frame(files) /\ Settled(files, {})'
    BY <1>1, <1>3, <2>2, <2>3, <2>4, OthersStay
  <2>6. Consists(job[c], Naming(c, "copy_sidecar"), rest)'
    BY <1>5, <2>1, <2>3 DEF Consists
  <2>7. CopiesSidecar(c)'
    BY <1>1, <1>5, <2>1, <2>2, <2>3, <2>5, <2>6 DEF CopiesSidecar
  <2>8. QED  BY <1>4, <2>2, <2>3, <2>5, <2>7
<1>8. ASSUME NEW rest, Metas(c, rest), job'[c] = rest, rest # <<>>, ask'[c] = ask[c], told' = told, Frame(files),
             Settled(files, {})', (Accepted(c) => InForce(ask[c].new, OldStages(c)))'
      PROVE  Onward(c, files)
  <2>1. PICK k : rest = <<Tagging, Joining(c, k)>>
    BY <1>8 DEF Metas
  <2>2. PICK x, y : x = Tagging /\ y = Joining(c, k)
    OBVIOUS
  <2>3. Consists(rest, x, <<y>>)
    BY <2>1, <2>2 DEF Consists
  <2>4. Consists(job[c], Tagging, <<Joining(c, k)>>)'
    BY <1>5, <1>8, <2>2, <2>3 DEF Consists
  <2>5. Joins(c)'
    BY <1>1, <1>8, <2>4 DEF Joins
  <2>6. QED  BY <1>4, <1>8, <2>5
<1>9. CASE CopiesSidecar(c)
  <2>1. PICK e, rest : Consists(job[c], e, rest) /\ Metas(c, rest) /\ e = Naming(c, "copy_sidecar")
    BY <1>9 DEF CopiesSidecar
  <2>2. /\ Call(c) = e /\ Tail(job[c]) = rest /\ IsJob(rest)
        /\ e.do = "copy_sidecar" /\ e.old = old /\ e.new = new
    <3>1. job[c] # <<>> /\ Call(c) = e /\ Tail(job[c]) = rest
      BY <2>1 DEF Consists, Call
    <3>2. IsJob(job[c])
      BY DEF Typed, ClientsTyped
    <3>3. e.do = "copy_sidecar" /\ e.old = old /\ e.new = new
      BY <1>1, <2>1 DEF Naming
    <3>4. QED  BY <3>1, <3>2, <3>3, JobParts
  <2>3. CopySidecar(c)
    BY <2>2, StepByCall
  <2>4. PICK w : w = Writing("write", SidecarFile(new), sidecar[old])
    OBVIOUS
  <2>5. /\ Go(c, (IF old \in DOMAIN sidecar THEN <<w>> ELSE <<>>) \o rest)
        /\ Reads(c, hand[c])
    BY <2>2, <2>3, <2>4 DEF CopySidecar, Writing
  <2>6. old \in sources /\ new \in sources /\ Settled(files, {})
    BY <1>1, <1>9 DEF CopiesSidecar
  <2>7. UNCHANGED <<sources, toml, sidecar>>
    BY <2>5 DEF Reads, disk
  <2>8. CASE old \in DOMAIN sidecar
    <3>1. PICK calls : calls = <<w>> \o rest /\ Go(c, calls)
      BY <2>5, <2>8
    <3>2. Consists(calls, w, rest)
      BY <2>2, <3>1, NextCall
    <3>3. job'[c] = calls /\ calls # <<>> /\ ask'[c] = ask[c] /\ told' = told
      <4>1. calls # <<>>
        BY <3>2 DEF Consists
      <4>2. Go(c, calls)
        BY <3>1
      <4>3. /\ job'[c] = calls
            /\ calls # <<>> => told' = told /\ ask'[c] = ask[c]
        BY <4>2, GoTells
      <4>4. QED  BY <4>1, <4>3
    <3>4. PICK x : x = sidecar[old]
      OBVIOUS
    <3>5. ASSUME NEW t \in DOMAIN told, Home(t) \in files
          PROVE  ComesInForce(SidecarFile(new), x, t, told[t].stages)
      <4>1. Home(t) # SidecarFile(new)
        BY <1>3, <3>5, HomesAreApart DEF Home
      <4>2. InForce(t, told[t].stages)
        BY <2>6, <3>5 DEF Settled
      <4>3. QED  BY <4>1, <4>2 DEF ComesInForce
    <3>6. Frame(files) /\ Pending(files, {}, SidecarFile(new), x)
      BY <2>7, <3>3, <3>5, SameFrame DEF Pending
    <3>7. PICK file : file = SidecarFile(new)
      OBVIOUS
    <3>8. Pending(files, {}, file, x)'
      BY <2>7, <3>3, <3>6, <3>7, SameFrame
    <3>9. (Accepted(c) => HasStages(x, OldStages(c)))'
      BY <1>1, <1>6, <2>6, <3>3, <3>4 DEF Accepted, OldStages, HasStages
    <3>10. Writes(c, file, x, rest)'
      BY <2>4, <3>2, <3>3, <3>4, <3>7 DEF Writes, Consists, Writing
    <3>11. WritesSidecar(c)'
      BY <1>1, <1>5, <2>1, <2>6, <2>7, <3>3, <3>7, <3>8, <3>9, <3>10 DEF WritesSidecar, SidecarFile
    <3>12. QED  BY <1>4, <3>3, <3>6, <3>11
  <2>9. CASE old \notin DOMAIN sidecar
    <3>1. ~Accepted(c)
      BY <1>6, <2>6, <2>9
    <3>2. Go(c, rest)
      <4>1. <<>> \o rest = rest
        BY <2>2, NothingBefore
      <4>2. QED  BY <2>5, <2>9, <4>1
    <3>3. CASE rest = <<>>
      <4>1. told' = told
        <5>1. ToldBy(c) = told
          BY <1>3, <3>1 DEF ToldBy, Accepted
        <5>2. QED  BY <3>2, <3>3, <5>1, GoTells
      <4>2. job'[c] = <<>>
        BY <3>2, <3>3, GoTells
      <4>3. QED  BY <2>6, <2>7, <4>1, <4>2, SameFrame DEF Onward
    <3>4. CASE rest # <<>>
      <4>1. job'[c] = rest /\ ask'[c] = ask[c] /\ told' = told
        BY <3>2, <3>4, GoTells
      <4>2. Frame(files) /\ Settled(files, {})'
        BY <2>6, <2>7, <4>1, SameFrame
      <4>3. ~Accepted(c)'
        BY <3>1, <4>1 DEF Accepted
      <4>4. QED  BY <1>8, <2>1, <3>4, <4>1, <4>2, <4>3
    <3>5. QED  BY <3>3, <3>4
  <2>10. QED  BY <2>8, <2>9
<1>10. CASE WritesSidecar(c)
  <2>1. PICK file : file = SidecarFile(new)
    OBVIOUS
  <2>2. PICK x, rest : /\ Writes(c, file, x, rest) /\ Metas(c, rest)
                       /\ new \in sources /\ Pending(files, {}, file, x)
                       /\ Accepted(c) => HasStages(x, OldStages(c))
    BY <1>1, <1>10, <2>1 DEF WritesSidecar
  <2>3. IsPath(file) /\ file \in files
    BY <1>3, <2>1 DEF IsPath
  <2>4. DiskFrame(files) /\ sources' = sources /\ \A u : Home(u)' = Home(u)
    BY <2>2, <2>3, WritesStep
  <2>5. CASE /\ Writes(c, file, x, rest)' /\ job'[c] # <<>> /\ ask'[c] = ask[c] /\ told' = told
             /\ Frame(files)
             /\ \A T : Pending(files, T, file, x) => Pending(files, T, file, x)'
    <3>1. (Accepted(c) => HasStages(x, OldStages(c)))'
      BY <2>2, <2>5 DEF Accepted, OldStages, HasStages
    <3>2. WritesSidecar(c)'
      BY <1>1, <1>5, <2>1, <2>2, <2>4, <2>5, <3>1 DEF WritesSidecar, SidecarFile
    <3>3. QED  BY <1>4, <2>5, <3>2
  <2>6. CASE /\ Go(c, rest)
             /\ \A u, s : ComesInForce(file, x, u, s) => InForce(u, s)'
             /\ told' = told => \A T : Pending(files, T, file, x) => Settled(files, T)'
    <3>1. \A s : Accepted(c) /\ s = OldStages(c) => \A u : u = new => InForce(u, s)'
      <4>1. \A s : HasStages(x, s) => ComesInForce(file, x, new, s)
        BY <2>1, <2>2 DEF ComesInForce, Home
      <4>2. QED  BY <2>2, <2>6, <4>1
    <3>2. CASE rest = <<>>
      <4>1. \A u \in DOMAIN told \ (IF ask[c].what = "rename" THEN {ask[c].table} ELSE {}) : \A s :
               Home(u) \in files /\ s = told[u].stages => InForce(u, s)'
        BY <1>3, <2>2, <2>6 DEF Pending
      <4>2. QED  BY <1>1, <1>3, <2>4, <2>6, <3>1, <3>2, <4>1, NameTells
    <3>3. CASE rest # <<>>
      <4>1. job'[c] = rest /\ ask'[c] = ask[c] /\ told' = told
        BY <2>6, <3>3, GoTells
      <4>2. Frame(files) /\ Settled(files, {})'
        BY <2>2, <2>4, <2>6, <4>1 DEF Frame
      <4>3. (Accepted(c) => InForce(ask[c].new, OldStages(c)))'
        BY <1>1, <3>1, <4>1 DEF Accepted, OldStages
      <4>4. QED  BY <1>8, <2>2, <3>3, <4>1, <4>2, <4>3
    <3>4. QED  BY <3>2, <3>3
  <2>7. QED  BY <2>2, <2>3, <2>5, <2>6, WritesStep
<1>11. ASSUME NEW x, NEW rest, UNCHANGED <<sources, toml, sidecar, told>>, job'[c] # <<>>, ask'[c] = ask[c],
              Writes(c, TomlFile, x, rest)', rest = <<>> \/ \E k : rest = <<Joining(c, k)>>,
              \A t, s : t # new /\ HasEntry(toml, t, s) => HasEntry(x, t, s),
              Settled(files, {}),
              Accepted(c) => ComesInForce(TomlFile, x, new, OldStages(c))
       PROVE  Onward(c, files)
  <2>1. PICK file : file = TomlFile
    OBVIOUS
  <2>2. ASSUME NEW t \in DOMAIN told, Home(t) \in files PROVE ComesInForce(file, x, t, told[t].stages)
    <3>1. t # new /\ InForce(t, told[t].stages)
      BY <1>3, <1>11, <2>2 DEF Settled
    <3>2. CASE t \in sources
      BY <2>1, <3>1, <3>2, HomesAreApart DEF ComesInForce, Home
    <3>3. CASE t \notin sources
      BY <1>11, <2>1, <3>1, <3>3 DEF ComesInForce, Home, InForce
    <3>4. QED  BY <3>2, <3>3
  <2>3. Frame(files) /\ Pending(files, {}, file, x)
    BY <1>11, <2>2, SameFrame DEF Pending
  <2>4. Pending(files, {}, file, x)'
    BY <1>11, <2>3, SameFrame
  <2>5. \A s : Accepted(c) /\ s = OldStages(c) => ComesInForce(file, x, new, s)'
    BY <1>11, <2>1, SameFrame
  <2>6. (Accepted(c) => ComesInForce(TomlFile, x, ask[c].new, OldStages(c)))'
    BY <1>1, <1>11, <2>1, <2>5 DEF Accepted, OldStages, TomlFile
  <2>7. rest = <<>> \/ \E k : rest = <<Joining(c, k)'>>
    BY <1>5, <1>11
  <2>8. ClonesToml(c)'
    BY <1>1, <1>11, <2>1, <2>4, <2>6, <2>7 DEF ClonesToml, TomlFile
  <2>9. QED  BY <1>4, <1>11, <2>3, <2>8
<1>12. CASE Joins(c)
  <2>1. PICK e, rest : /\ Consists(job[c], e, rest) /\ (rest = <<>> \/ \E k : rest = <<Joining(c, k)>>)
                       /\ e = Tagging \/ \E k : e = Joining(c, k)
    BY <1>12 DEF Joins
  <2>2. e.do = "edit" /\ e.file = TomlFile /\ e.how \in {"tags", "cluster"}
    BY <2>1 DEF Tagging, Joining
  <2>3. Settled(files, {}) /\ (Accepted(c) => InForce(new, OldStages(c)))
    BY <1>1, <1>12 DEF Joins
  <2>4. CASE Raise(c)
    BY <2>3, <2>4, RaiseOnward
  <2>5. CASE ~Raise(c)
    <3>1. PICK x : x = EditedToml(e) /\ Writes(c, TomlFile, x, rest)'
      BY <2>1, <2>2, <2>5, EditsToml
    <3>2. UNCHANGED <<sources, toml, sidecar, told>> /\ job'[c] # <<>> /\ ask'[c] = ask[c]
      BY <2>1, <2>2, <2>5, EditsToml
    <3>3. x.tiers = toml.tiers
      BY <2>2, <3>1, EditedTiers DEF Typed, FilesTyped
    <3>4. \A t, s : HasEntry(toml, t, s) => HasEntry(x, t, s)
      BY <3>3 DEF HasEntry, IsBatch
    <3>5. ASSUME Accepted(c) PROVE ComesInForce(TomlFile, x, new, OldStages(c))
      <4>1. CASE new \in sources
        BY <2>3, <3>5, <4>1, HomesAreApart DEF ComesInForce, Home
      <4>2. CASE new \notin sources
        BY <2>3, <3>4, <3>5, <4>2 DEF ComesInForce, Home, InForce
      <4>3. QED  BY <4>1, <4>2
    <3>6. QED  BY <1>11, <2>1, <2>3, <3>1, <3>2, <3>4, <3>5
  <2>6. QED  BY <2>4, <2>5
<1>13. CASE Creates(c)
  <2>1. PICK y, e : /\ Consists(job[c], e, <<>>) /\ e = Creating(c, y) /\ new \notin sources
                    /\ Settled(files, {}) /\ (Accepted(c) => HasStages(y, OldStages(c)))
    BY <1>1, <1>13 DEF Creates
  <2>2. e.do = "edit" /\ e.file = TomlFile /\ e.how = "create" /\ e.table = new /\ e.new = y
    BY <1>1, <2>1 DEF Creating
  <2>3. CASE Raise(c)
    BY <2>1, <2>3, RaiseOnward
  <2>4. CASE ~Raise(c)
    <3>1. PICK x : x = EditedToml(e) /\ Writes(c, TomlFile, x, <<>>)'
      BY <2>1, <2>2, <2>4, EditsToml
    <3>2. UNCHANGED <<sources, toml, sidecar, told>> /\ job'[c] # <<>> /\ ask'[c] = ask[c]
      BY <2>1, <2>2, <2>4, EditsToml
    <3>3. x.tiers = Put(toml.tiers, BatchSlot(new), y)
      BY <2>2, <3>1, EditedTiers DEF Typed, FilesTyped
    <3>4. ASSUME NEW t, NEW s, t # new, HasEntry(toml, t, s) PROVE HasEntry(x, t, s)
      <4>1. BatchSlot(t) # BatchSlot(new)
        BY <3>4, HomesAreApart
      <4>2. QED  BY <3>3, <3>4, <4>1 DEF HasEntry, IsBatch, HasStages, Put
    <3>5. ASSUME Accepted(c) PROVE ComesInForce(TomlFile, x, new, OldStages(c))
      <4>1. HasEntry(x, new, OldStages(c))
        BY <2>1, <3>3, <3>5 DEF HasEntry, IsBatch, HasStages, Put
      <4>2. QED  BY <2>1, <4>1 DEF ComesInForce, Home
    <3>6. QED  BY <1>11, <2>1, <3>1, <3>2, <3>4, <3>5
  <2>5. QED  BY <2>3, <2>4
<1>14. CASE ClonesToml(c)
  <2>1. PICK file : file = TomlFile
    OBVIOUS
  <2>2. PICK x, rest : /\ Writes(c, file, x, rest) /\ (rest = <<>> \/ \E k : rest = <<Joining(c, k)>>)
                       /\ Pending(files, {}, file, x)
                       /\ Accepted(c) => ComesInForce(file, x, new, OldStages(c))
    BY <1>1, <1>14, <2>1 DEF ClonesToml
  <2>3. IsPath(file) /\ file \in files
    BY <1>3, <2>1 DEF IsPath
  <2>4. DiskFrame(files) /\ sources' = sources /\ \A u : Home(u)' = Home(u)
    BY <2>2, <2>3, WritesStep
  <2>5. CASE /\ Writes(c, file, x, rest)' /\ job'[c] # <<>> /\ ask'[c] = ask[c] /\ told' = told
             /\ Frame(files)
             /\ \A u, s : ComesInForce(file, x, u, s) => ComesInForce(file, x, u, s)'
             /\ \A T : Pending(files, T, file, x) => Pending(files, T, file, x)'
    <3>1. \A s : Accepted(c) /\ s = OldStages(c) => ComesInForce(file, x, new, s)'
      BY <2>2, <2>5
    <3>2. (Accepted(c) => ComesInForce(TomlFile, x, ask[c].new, OldStages(c)))'
      BY <1>1, <2>1, <2>5, <3>1 DEF Accepted, OldStages, TomlFile
    <3>3. rest = <<>> \/ \E k : rest = <<Joining(c, k)'>>
      BY <1>5, <2>2, <2>5
    <3>4. ClonesToml(c)'
      BY <1>1, <2>1, <2>2, <2>5, <3>2, <3>3 DEF ClonesToml, TomlFile
    <3>5. QED  BY <1>4, <2>5, <3>4
  <2>6. CASE /\ Go(c, rest)
             /\ \A u, s : ComesInForce(file, x, u, s) => InForce(u, s)'
             /\ told' = told => \A T : Pending(files, T, file, x) => Settled(files, T)'
    <3>1. \A s : Accepted(c) /\ s = OldStages(c) => \A u : u = new => InForce(u, s)'
      BY <2>2, <2>6
    <3>2. CASE rest = <<>>
      <4>1. \A u \in DOMAIN told \ (IF ask[c].what = "rename" THEN {ask[c].table} ELSE {}) : \A s :
               Home(u) \in files /\ s = told[u].stages => InForce(u, s)'
        BY <1>3, <2>2, <2>6 DEF Pending
      <4>2. QED  BY <1>1, <1>3, <2>4, <2>6, <3>1, <3>2, <4>1, NameTells
    <3>3. CASE rest # <<>>
      <4>1. job'[c] = rest /\ ask'[c] = ask[c] /\ told' = told
        BY <2>6, <3>3, GoTells
      <4>2. Frame(files) /\ Settled(files, {})'
        BY <2>2, <2>4, <2>6, <4>1 DEF Frame
      <4>3. (Accepted(c) => InForce(ask[c].new, OldStages(c)))'
        BY <1>1, <3>1, <4>1 DEF Accepted, OldStages
      <4>4. PICK k : rest = <<Joining(c, k)>>
        BY <2>2, <3>3
      <4>5. PICK y : y = Joining(c, k)
        OBVIOUS
      <4>6. Consists(rest, y, <<>>)
        BY <4>4, <4>5 DEF Consists
      <4>7. Consists(job[c], Joining(c, k), <<>>)'
        BY <1>5, <4>1, <4>5, <4>6 DEF Consists
      <4>8. Joins(c)'
        BY <1>1, <4>1, <4>2, <4>3, <4>7 DEF Joins
      <4>9. QED  BY <1>4, <3>3, <4>1, <4>2, <4>8
    <3>4. QED  BY <3>2, <3>3
  <2>7. QED  BY <2>2, <2>3, <2>5, <2>6, WritesStep
<1>15. QED  BY <1>7, <1>9, <1>10, <1>12, <1>13, <1>14 DEF Clones

\* Clients whose files are left alone work on.
LEMMA FrameWorks ==
    ASSUME NEW files, Frame(files), NEW d \in Clients, ask[d].on \cap files = {},
           job'[d] = job[d], ask'[d] = ask[d], hand'[d] = hand[d], Works(d)
    PROVE  Works(d)'
<1>1. PICK o : o = ask[d].on /\ o = ask'[d].on /\ o \cap files = {}
  OBVIOUS
<1>2. /\ \A T : Settled(o, T) => Settled(o, T)'
      /\ \A T, file, x : Pending(o, T, file, x) => Pending(o, T, file, x)'
  BY <1>1, FrameSettled
<1>3. \A file, x, rest : Writes(d, file, x, rest) => Writes(d, file, x, rest)'
  BY DEF Writes
<1>4. ASSUME NEW t, SidecarFile(t) \in o
      PROVE  /\ t \in sources' <=> t \in sources
             /\ SidecarTier(t)' = SidecarTier(t)
             /\ Home(t)' = Home(t)
  <2>1. (t \in sources' <=> t \in sources) /\ SidecarTier(t)' = SidecarTier(t)
    BY <1>1, <1>4 DEF Frame, DiskFrame
  <2>2. QED  BY <2>1 DEF Home, SidecarFile, TomlFile
<1>5. TomlFile \in o => toml' = toml /\ sources' = sources
  BY <1>1 DEF Frame, DiskFrame
<1>6. ASSUME NEW t, Home(t) \in o
      PROVE  /\ \A s : InForce(t, s)' <=> InForce(t, s)
             /\ \A file, x, s : ComesInForce(file, x, t, s)' <=> ComesInForce(file, x, t, s)
             /\ t \in DOMAIN told' => t \in DOMAIN told /\ told'[t] = told[t]
  <2>1. Home(t) \notin files
    BY <1>1, <1>6
  <2>2. Home(t)' = Home(t)
    BY <2>1, FrameKeeps DEF Frame
  <2>3. t \in DOMAIN told' => t \in DOMAIN told /\ told'[t] = told[t]
    BY <2>1, <2>2 DEF Frame
  <2>4. QED  BY <2>1, <2>3, FrameKeeps DEF Frame
<1>7. CASE Looks(d)
  BY <1>7 DEF Works, Looks
<1>8. CASE Edits(d)
  <2>1. PICK file : ask[d].what = "edit" /\ IsPath(file) /\ o = {file} /\ EditsFile(d, file)
    BY <1>1, <1>8 DEF Edits
  <2>2. EditsFile(d, file)'
    <3>1. (\A t \in DOMAIN told : Home(t) # file) => (\A t \in DOMAIN told : Home(t) # file)'
      <4>1. ASSUME NEW t \in DOMAIN told', Home(t)' = file
            PROVE  t \in DOMAIN told /\ Home(t) = file
        <5>1. Home(t)' \notin files
          BY <1>1, <2>1, <4>1
        <5>2. Home(t) = file
          BY <4>1, <5>1, FrameBack DEF Frame
        <5>3. QED  BY <5>1, <5>2, <4>1 DEF Frame
      <4>2. QED  BY <4>1
    <3>2. QED  BY <1>2, <1>3, <2>1, <3>1 DEF EditsFile
  <2>3. QED  BY <1>1, <2>1, <2>2 DEF Works, Edits
<1>9. CASE Pipes(d)
  <2>1. PICK t : t = ask[d].table
    OBVIOUS
  <2>2. SidecarFile(t) \in o /\ Home(t) \in o
    BY <1>1, <1>9, <2>1 DEF Pipes, Holds, Home
  <2>3. /\ LookingUp(d)' = LookingUp(d) /\ Checking(d)' = Checking(d) /\ Putting(d)' = Putting(d)
        /\ NewStages(d)' = NewStages(d)
    BY DEF LookingUp, Checking, Putting, NewStages
  <2>4. LooksUp(d) => LooksUp(d)'
    BY <2>3 DEF LooksUp, ListingAll
  <2>5. Checks(d) => Checks(d)'
    <3>1. t \in sources' <=> t \in sources
      BY <1>4, <2>2
    <3>2. QED  BY <2>1, <2>3, <3>1 DEF Checks, ListingAll
  <2>6. Puts(d) => Puts(d)'
    <3>1. Home(t)' = Home(t)
      BY <1>4, <2>2
    <3>2. QED  BY <2>1, <2>3, <3>1 DEF Puts, SidecarFile, TomlFile, BatchSlot
  <2>7. PutsFile(d) => PutsFile(d)'
    <3>1. CASE \E file, x :
                  /\ file \in ask[d].on
                  /\ file \in {SidecarFile(ask[d].table), TomlFile}
                  /\ Writes(d, file, x, <<>>) /\ Pending(ask[d].on, {ask[d].table}, file, x)
                  /\ ask[d].what = "pipe" => ComesInForce(file, x, ask[d].table, ask[d].stages)
      <4>1. PICK file, x :
                  /\ file \in ask[d].on
                  /\ file \in {SidecarFile(ask[d].table), TomlFile}
                  /\ Writes(d, file, x, <<>>) /\ Pending(ask[d].on, {ask[d].table}, file, x)
                  /\ ask[d].what = "pipe" => ComesInForce(file, x, ask[d].table, ask[d].stages)
        BY <3>1
      <4>2. Pending(o, {t}, file, x)
        BY <1>1, <2>1, <4>1
      <4>3. Writes(d, file, x, <<>>)' /\ Pending(o, {t}, file, x)'
        BY <1>2, <1>3, <4>1, <4>2
      <4>4. \A s : s = ask[d].stages /\ ask[d].what = "pipe" => ComesInForce(file, x, t, s)'
        BY <1>6, <2>1, <2>2, <4>1
      <4>5. QED  BY <1>1, <2>1, <4>1, <4>3, <4>4 DEF PutsFile, SidecarFile, TomlFile
    <3>2. CASE /\ ask[d].what = "unpipe" /\ Settled(ask[d].on, {ask[d].table})
               /\ Consists(job[d], [do |-> "unlink", file |-> SidecarFile(ask[d].table)], <<>>)
      <4>1. Settled(o, {t})
        BY <1>1, <2>1, <3>2
      <4>2. Settled(o, {t})'
        BY <1>2, <4>1
      <4>3. QED  BY <1>1, <2>1, <3>2, <4>2 DEF PutsFile, SidecarFile
    <3>3. ASSUME PutsFile(d)
          PROVE  \/ \E file, x :
                       /\ file \in ask[d].on
                       /\ file \in {SidecarFile(ask[d].table), TomlFile}
                       /\ Writes(d, file, x, <<>>) /\ Pending(ask[d].on, {ask[d].table}, file, x)
                       /\ ask[d].what = "pipe" => ComesInForce(file, x, ask[d].table, ask[d].stages)
                 \/ /\ ask[d].what = "unpipe" /\ Settled(ask[d].on, {ask[d].table})
                    /\ Consists(job[d], [do |-> "unlink", file |-> SidecarFile(ask[d].table)], <<>>)
      BY <3>3 DEF PutsFile
    <3>4. QED  BY <3>1, <3>2, <3>3
  <2>8. Holds(o, t)'
    BY <1>1, <1>4, <1>9, <2>1, <2>2 DEF Pipes, Holds, SidecarFile, TomlFile
  <2>9. QED  BY <1>1, <1>2, <1>9, <2>1, <2>4, <2>5, <2>6, <2>7, <2>8 DEF Works, Pipes
<1>10. ASSUME NamesTable(d)
       PROVE  /\ NamesTable(d)' /\ UNCHANGED <<toml, sources>>
              /\ Accepted(d)' => Accepted(d) /\ OldStages(d)' = OldStages(d)
              /\ \A do : Naming(d, do)' = Naming(d, do)
              /\ Renaming(d)' = Renaming(d) /\ Tagging' = Tagging
              /\ \A k : Joining(d, k)' = Joining(d, k) /\ Creating(d, k)' = Creating(d, k)
              /\ \A rest : Metas(d, rest) => Metas(d, rest)'
  <2>1. PICK old, new : old = ask[d].table /\ new = ask[d].new
    OBVIOUS
  <2>2. TomlFile \in o /\ SidecarFile(old) \in o /\ SidecarFile(new) \in o /\ new \in Names \ DOMAIN told /\ old # new
    BY <1>1, <1>10, <2>1 DEF NamesTable
  <2>3. Home(old) \in o /\ Home(new) \in o
    BY <2>2 DEF Home
  <2>4. /\ new \notin DOMAIN told'
        /\ old \in DOMAIN told' => old \in DOMAIN told /\ told'[old] = told[old]
    BY <1>6, <2>2, <2>3
  <2>5. NamesTable(d)'
    BY <1>1, <2>1, <2>2, <2>4 DEF NamesTable, TomlFile, SidecarFile
  <2>6. Accepted(d)' => Accepted(d) /\ OldStages(d)' = OldStages(d)
    BY <2>1, <2>4 DEF Accepted, OldStages
  <2>7. /\ \A do : Naming(d, do)' = Naming(d, do)
        /\ Renaming(d)' = Renaming(d) /\ Tagging' = Tagging
        /\ \A k : Joining(d, k)' = Joining(d, k) /\ Creating(d, k)' = Creating(d, k)
    BY DEF Naming, Renaming, RenameEdit, Tagging, Joining, Creating, TomlFile, SidecarFile
  <2>8. \A rest : Metas(d, rest) => Metas(d, rest)'
    BY <2>7 DEF Metas
  <2>9. QED  BY <1>5, <2>2, <2>5, <2>6, <2>7, <2>8
<1>11. ASSUME NamesTable(d)
       PROVE  \A t \in {ask[d].table, ask[d].new} :
                 /\ SidecarTier(t)' = SidecarTier(t)
                 /\ \A s : InForce(t, s)' <=> InForce(t, s)
                 /\ \A file, x, s : ComesInForce(file, x, t, s)' <=> ComesInForce(file, x, t, s)
  <2>1. \A t \in {ask[d].table, ask[d].new} : SidecarFile(t) \in o /\ Home(t) \in o
    BY <1>1, <1>11 DEF NamesTable, Home
  <2>2. QED  BY <1>4, <1>6, <2>1
<1>12. CASE Renames(d)
  <2>1. PICK old, new : old = ask[d].table /\ new = ask[d].new
    OBVIOUS
  <2>2. NamesTable(d)
    BY <1>12 DEF Renames
  <2>3. Moves(d) => Moves(d)'
    BY <1>1, <1>2, <1>10, <2>2 DEF Moves
  <2>4. MovesSidecar(d) => MovesSidecar(d)'
    <3>1. \A s : Accepted(d) /\ s = OldStages(d) /\ HasStages(SidecarTier(old), s) => HasStages(SidecarTier(old), s)'
      BY <1>11, <2>1, <2>2 DEF HasStages
    <3>2. ASSUME MovesSidecar(d), Accepted(d)' PROVE HasStages(SidecarTier(ask[d].table), OldStages(d))'
      <4>1. \E s : s = OldStages(d) /\ s = OldStages(d)' /\ HasStages(SidecarTier(old), s)'
        BY <1>10, <2>1, <2>2, <3>1, <3>2 DEF MovesSidecar
      <4>2. QED  BY <2>1, <4>1 DEF HasStages, SidecarTier
    <3>3. Settled(o, {old}) => Settled(o, {old})'
      BY <1>2
    <3>4. QED  BY <1>1, <1>10, <2>1, <2>2, <3>2, <3>3 DEF MovesSidecar
  <2>5. RenamesEntry(d) => RenamesEntry(d)'
    <3>1. PICK t : t = IF new \in sources THEN new ELSE old
      OBVIOUS
    <3>2. ASSUME RenamesEntry(d), Accepted(d)'
          PROVE  \E s : s = OldStages(d)' /\ InForce(t, s)'
      <4>1. PICK s : s = OldStages(d) /\ InForce(t, s)
        BY <1>10, <2>1, <2>2, <3>1, <3>2 DEF RenamesEntry
      <4>2. InForce(t, s)'
        BY <1>11, <2>1, <2>2, <3>1, <4>1
      <4>3. QED  BY <1>10, <2>2, <3>2, <4>1, <4>2
    <3>3. t = IF new \in sources' THEN new ELSE old
      BY <1>10, <2>2, <3>1
    <3>4. RenamesEntry(d) /\ Accepted(d)' =>
             InForce(IF ask[d].new \in sources THEN ask[d].new ELSE ask[d].table, OldStages(d))'
      BY <2>1, <3>2, <3>3
    <3>5. Settled(o, {old}) => Settled(o, {old})'
      BY <1>2
    <3>6. QED  BY <1>1, <1>10, <2>1, <2>2, <3>4, <3>5 DEF RenamesEntry
  <2>6. RenamesToml(d) => RenamesToml(d)'
    <3>1. ASSUME RenamesToml(d) PROVE RenamesToml(d)'
      <4>1. PICK file : file = TomlFile
        OBVIOUS
      <4>2. PICK x : /\ Writes(d, file, x, <<>>) /\ Pending(o, {old}, file, x)
                     /\ Accepted(d) => ComesInForce(file, x, new, OldStages(d))
        BY <1>1, <2>1, <3>1, <4>1 DEF RenamesToml
      <4>3. Writes(d, file, x, <<>>)' /\ Pending(o, {old}, file, x)'
        BY <1>2, <1>3, <4>2
      <4>4. ASSUME Accepted(d)' PROVE \E s : s = OldStages(d)' /\ ComesInForce(file, x, new, s)'
        BY <1>10, <1>11, <2>1, <2>2, <4>2, <4>4
      <4>5. Accepted(d)' => ComesInForce(file, x, new, OldStages(d))'
        BY <4>4
      <4>6. QED  BY <1>1, <2>1, <4>1, <4>3, <4>5 DEF RenamesToml, TomlFile
    <3>2. QED  BY <3>1
  <2>7. QED  BY <1>10, <1>12, <2>2, <2>3, <2>4, <2>5, <2>6 DEF Works, Renames
<1>13. CASE Clones(d)
  <2>1. PICK old, new : old = ask[d].table /\ new = ask[d].new
    OBVIOUS
  <2>2. NamesTable(d)
    BY <1>13 DEF Clones
  <2>3. Copies(d) => Copies(d)'
    BY <1>1, <1>2, <1>10, <2>2 DEF Copies
  <2>4. CopiesSidecar(d) => CopiesSidecar(d)'
    BY <1>1, <1>2, <1>10, <2>2 DEF CopiesSidecar
  <2>5. WritesSidecar(d) => WritesSidecar(d)'
    <3>1. ASSUME WritesSidecar(d) PROVE WritesSidecar(d)'
      <4>1. PICK file : file = SidecarFile(new)
        OBVIOUS
      <4>2. PICK x, rest : /\ Writes(d, file, x, rest) /\ Metas(d, rest) /\ new \in sources
                           /\ Pending(o, {}, file, x)
                           /\ Accepted(d) => HasStages(x, OldStages(d))
        BY <1>1, <2>1, <3>1, <4>1 DEF WritesSidecar
      <4>3. Writes(d, file, x, rest)' /\ Pending(o, {}, file, x)' /\ Metas(d, rest)' /\ new \in sources'
        BY <1>2, <1>3, <1>10, <2>2, <4>2
      <4>4. Accepted(d)' => HasStages(x, OldStages(d)')
        BY <1>10, <2>2, <4>2
      <4>5. QED  BY <1>1, <2>1, <4>1, <4>3, <4>4 DEF WritesSidecar, SidecarFile
    <3>2. QED  BY <3>1
  <2>6. Joins(d) => Joins(d)'
    <3>1. ASSUME Joins(d), Accepted(d)' PROVE \E s : s = OldStages(d)' /\ InForce(new, s)'
      BY <1>10, <1>11, <2>1, <2>2, <3>1 DEF Joins
    <3>2. Joins(d) /\ Accepted(d)' => InForce(ask[d].new, OldStages(d))'
      BY <2>1, <3>1
    <3>3. Settled(o, {}) => Settled(o, {})'
      BY <1>2
    <3>4. QED  BY <1>1, <1>10, <2>2, <3>2, <3>3 DEF Joins
  <2>7. Creates(d) => Creates(d)'
    <3>1. Settled(o, {}) => Settled(o, {})'
      BY <1>2
    <3>2. QED  BY <1>1, <1>10, <2>2, <3>1 DEF Creates, HasStages
  <2>8. ClonesToml(d) => ClonesToml(d)'
    <3>1. ASSUME ClonesToml(d) PROVE ClonesToml(d)'
      <4>1. PICK file : file = TomlFile
        OBVIOUS
      <4>2. PICK x, rest : /\ Writes(d, file, x, rest) /\ (rest = <<>> \/ \E k : rest = <<Joining(d, k)>>)
                           /\ Pending(o, {}, file, x)
                           /\ Accepted(d) => ComesInForce(file, x, new, OldStages(d))
        BY <1>1, <2>1, <3>1, <4>1 DEF ClonesToml
      <4>3. Writes(d, file, x, rest)' /\ Pending(o, {}, file, x)'
        BY <1>2, <1>3, <4>2
      <4>4. ASSUME Accepted(d)' PROVE \E s : s = OldStages(d)' /\ ComesInForce(file, x, new, s)'
        BY <1>10, <1>11, <2>1, <2>2, <4>2, <4>4
      <4>5. Accepted(d)' => ComesInForce(file, x, new, OldStages(d))'
        BY <4>4
      <4>6. rest = <<>> \/ \E k : rest = <<Joining(d, k)'>>
        BY <1>10, <2>2, <4>2
      <4>7. QED  BY <1>1, <2>1, <4>1, <4>3, <4>5, <4>6 DEF ClonesToml, TomlFile
    <3>2. QED  BY <3>1
  <2>9. QED  BY <1>10, <1>13, <2>2, <2>3, <2>4, <2>5, <2>6, <2>7, <2>8 DEF Works, Clones
<1>14. QED  BY <1>7, <1>8, <1>9, <1>12, <1>13 DEF Works

-----------------------------------------------------------------------------
(* A request begins.                                                       *)

\* What a request finds, when nobody changes the files it is about.
LEMMA StartIs ==
    ASSUME Typed, PipelinesKept, NEW c \in Clients, NEW a, NEW calls, Request(c, a, calls), ~disturbed'
    PROVE  /\ ~disturbed /\ UNCHANGED <<sources, toml, sidecar, plugins, told>>
           /\ job'[c] = calls /\ ask'[c] = a /\ hand'[c] = InHand
           /\ \A d \in Clients \ {c} : job'[d] = job[d] /\ ask'[d] = ask[d] /\ hand'[d] = hand[d]
           /\ \A d \in Clients, f \in a.on : ~Changes(d, f)
           /\ \A T : Settled(a.on, T)
           /\ \A T, files : files = a.on => Settled(files, T)'
<1>1. /\ ~disturbed /\ UNCHANGED <<sources, toml, sidecar, plugins, told>>
      /\ job'[c] = calls /\ ask'[c] = a /\ hand'[c] = InHand
      /\ \A d \in Clients \ {c} : job'[d] = job[d] /\ ask'[d] = ask[d] /\ hand'[d] = hand[d]
      /\ \A d \in Clients, f \in a.on : ~Changes(d, f)
  BY DEF Request, Typed, ClientsTyped, disk
<1>2. \A T : Settled(a.on, T)
  BY <1>1 DEF PipelinesKept, Untouched, Settled
<1>3. \A T, files : files = a.on => Settled(files, T)'
  BY <1>1, <1>2, SameFrame
<1>4. QED  BY <1>1, <1>2, <1>3

\* An edit that leaves the pipelines alone.
LEMMA EditStarts ==
    ASSUME Typed, PipelinesKept, NEW c \in Clients, NEW file, IsPath(file), NEW e,
           e.file = file,
           \/ e.do = "edit" /\ Spares(e)
           \/ e.do = "config_set" /\ "stages" \notin DOMAIN e.new,
           Request(c, EditOf(file), <<e>>), ~disturbed'
    PROVE  Works(c)'
<1>1. PICK a, calls : a = EditOf(file) /\ calls = <<e>>
  OBVIOUS
<1>2. a.what = "edit" /\ a.on = {file}
  BY <1>1, WhatIsAsked
<1>3. Request(c, a, calls)
  BY <1>1
<1>4. job'[c] = calls /\ ask'[c] = a /\ \A T, files : files = a.on => Settled(files, T)'
  BY <1>3, StartIs
<1>5. Settled({file}, {})'
  BY <1>2, <1>4
<1>6. Consists(job'[c], e, <<>>)
  BY <1>1, <1>4 DEF Consists
<1>7. EditsFile(c, file)'
  BY <1>5, <1>6 DEF EditsFile
<1>8. QED  BY <1>2, <1>4, <1>7 DEF Works, Edits

\* A plan and a listing.
LEMMA LookStarts ==
    ASSUME Typed, PipelinesKept, NEW c \in Clients, AskPlan(c) \/ AskPlugins(c), ~disturbed'
    PROVE  Works(c)'
<1>1. CASE AskPlan(c)
  <2>1. PICK a, calls, x, y :
           /\ Request(c, a, calls) /\ a.what = "plan" /\ a.on = {}
           /\ calls = <<x, y>> /\ x.do = "list" /\ y.do = "configure"
    BY <1>1 DEF AskPlan
  <2>2. job'[c] = calls /\ ask'[c] = a
    BY <2>1, StartIs
  <2>3. calls \in Seq({x, y}) /\ \A e \in {x, y} : e.do \in {"list", "load", "configure", "sidecar"}
    BY <2>1
  <2>4. IsLook(calls)
    BY <2>3 DEF IsLook
  <2>5. QED  BY <2>1, <2>2, <2>4 DEF Works, Looks
<1>2. CASE AskPlugins(c)
  <2>1. PICK a, calls, x :
           Request(c, a, calls) /\ a.what = "list" /\ a.on = {} /\ calls = <<x>> /\ x.do = "list"
    BY <1>2 DEF AskPlugins
  <2>2. job'[c] = calls /\ ask'[c] = a
    BY <2>1, StartIs
  <2>3. IsLook(calls)
    BY <2>1, LookParts
  <2>4. QED  BY <2>1, <2>2, <2>3 DEF Works, Looks
<1>3. QED  BY <1>1, <1>2

\* What is edited beside the pipelines.
LEMMA PlainEditStarts ==
    ASSUME Typed, PipelinesKept, NEW c \in Clients, ~disturbed',
           SaveDefaults(c) \/ SaveSidecar(c) \/ ConfigSet(c) \/ AssignCluster(c)
    PROVE  Works(c)'
<1>1. \A d \in Defaults : "stages" \notin DOMAIN d
  BY PreparationAssumption
<1>2. ASSUME NEW file, IsPath(file), NEW slot, NEW d \in Defaults,
             Request(c, EditOf(file), <<NewTier(file, slot, DefaultFields, d)>>)
      PROVE  Works(c)'
  <2>1. PICK e : e = NewTier(file, slot, DefaultFields, d)
    OBVIOUS
  <2>2. e.do = "edit" /\ e.file = file /\ e.how = "tier" /\ e.new = d /\ e.fields = DefaultFields
    BY <2>1 DEF NewTier
  <2>3. Spares(e)
    BY <1>1, <2>2 DEF Spares, DefaultFields
  <2>4. QED  BY <1>2, <2>1, <2>2, <2>3, EditStarts
<1>3. CASE SaveDefaults(c)
  BY <1>2, <1>3 DEF SaveDefaults, IsPath
<1>4. CASE SaveSidecar(c)
  BY <1>2, <1>4 DEF SaveSidecar, IsPath
<1>5. CASE ConfigSet(c)
  <2>1. PICK d, f, file, e :
           /\ d \in Defaults /\ f \in DefaultFields
           /\ IsPath(file) /\ Request(c, EditOf(file), <<e>>)
           /\ e = [do |-> "config_set", file |-> file, field |-> f, new |-> Keep(d, {f})]
    BY <1>5 DEF ConfigSet, IsPath
  <2>2. e.file = file /\ e.do = "config_set" /\ e.new = Keep(d, {f})
    BY <2>1
  <2>3. "stages" \notin DOMAIN e.new
    BY <1>1, <2>1, <2>2 DEF Keep
  <2>4. QED  BY <2>1, <2>2, <2>3, EditStarts
<1>6. CASE AssignCluster(c)
  <2>1. PICK t, k, e :
           /\ Request(c, EditOf(TomlFile), <<e>>)
           /\ e = [do |-> "edit", file |-> TomlFile, how |-> "cluster", table |-> t, cluster |-> k]
    BY <1>6 DEF AssignCluster
  <2>2. e.file = TomlFile /\ e.do = "edit" /\ Spares(e) /\ IsPath(TomlFile)
    BY <2>1 DEF Spares, IsPath
  <2>3. QED  BY <2>1, <2>2, EditStarts
<1>7. QED  BY <1>3, <1>4, <1>5, <1>6

\* Plugin files.
LEMMA PluginStarts ==
    ASSUME Typed, PipelinesKept, NEW c \in Clients, ~disturbed', SavePlugin(c)
    PROVE  Works(c)'
<1>1. PICK f, file, k, calls :
         /\ file = PluginFile(f) /\ Request(c, EditOf(file), calls)
         /\ \/ calls = <<[do |-> "write", file |-> file, new |-> k]>>
            \/ calls = <<[do |-> "unlink", file |-> file]>>
  BY DEF SavePlugin
<1>2. PICK a : a = EditOf(file)
  OBVIOUS
<1>3. a.what = "edit" /\ a.on = {file}
  BY <1>2, WhatIsAsked
<1>4. Request(c, a, calls)
  BY <1>1, <1>2
<1>5. job'[c] = calls /\ ask'[c] = a /\ \A T, files : files = a.on => Settled(files, T)'
  BY <1>4, StartIs
<1>6. \A t : Home(t)' # file
  BY <1>1, HomesAreApart DEF Home, SidecarFile, TomlFile
<1>7. EditsFile(c, file)'
  <2>1. CASE calls = <<[do |-> "write", file |-> file, new |-> k]>>
    <3>1. Consists(job'[c], Writing("write", file, k), <<>>)
      BY <1>5, <2>1 DEF Consists, Writing
    <3>2. Writes(c, file, k, <<>>)'
      BY <3>1 DEF Writes
    <3>3. Pending({file}, {}, file, k)'
      BY <1>6 DEF Pending
    <3>4. QED  BY <3>2, <3>3 DEF EditsFile
  <2>2. CASE calls = <<[do |-> "unlink", file |-> file]>>
    <3>1. Consists(job'[c], [do |-> "unlink", file |-> file], <<>>)
      BY <1>5, <2>2 DEF Consists
    <3>2. Settled({file}, {})'
      BY <1>3, <1>5
    <3>3. QED  BY <1>6, <3>1, <3>2 DEF EditsFile
  <2>3. QED  BY <1>1, <2>1, <2>2
<1>8. QED  BY <1>1, <1>3, <1>5, <1>7 DEF Works, Edits, IsPath

\* A pipeline is removed with its sidecar.
LEMMA DropStarts ==
    ASSUME Typed, PipelinesKept, NEW c \in Clients, ~disturbed', DropSidecar(c)
    PROVE  Works(c)'
<1>1. PICK t, a, calls :
         /\ t \in sources /\ a = Piping("unpipe", t, <<>>, {SidecarFile(t)})
         /\ Request(c, a, calls) /\ calls = <<[do |-> "unlink", file |-> SidecarFile(t)]>>
  BY DEF DropSidecar
<1>2. a.what = "unpipe" /\ a.table = t /\ a.on = {SidecarFile(t)}
  BY <1>1, WhatIsAsked
<1>3. job'[c] = calls /\ ask'[c] = a /\ sources' = sources /\ \A T, files : files = a.on => Settled(files, T)'
  BY <1>1, StartIs
<1>4. PICK files : files = a.on /\ Settled(files, {t})'
  BY <1>3
<1>5. Consists(job'[c], [do |-> "unlink", file |-> SidecarFile(t)], <<>>)
  BY <1>1, <1>3 DEF Consists
<1>6. PutsFile(c)'
  BY <1>2, <1>3, <1>4, <1>5 DEF PutsFile, SidecarFile
<1>7. Holds(ask[c].on, ask[c].table)'
  BY <1>1, <1>2, <1>3 DEF Holds, SidecarFile
<1>8. QED  BY <1>2, <1>3, <1>6, <1>7 DEF Works, Pipes

\* The settings and the pipeline of a batch table are set without a check.
LEMMA BatchStarts ==
    ASSUME Typed, PipelinesKept, NEW c \in Clients, ~disturbed', SaveBatch(c)
    PROVE  Works(c)'
<1>1. PICK t : \/ \E d \in Defaults, f \in DefaultFields :
                     Request(c, EditOf(TomlFile), <<NewTier(TomlFile, BatchSlot(t), {f}, Keep(d, {f}))>>)
               \/ \E s \in Pipelines :
                     Request(c, Piping("unpipe", t, <<>>, {SidecarFile(t), TomlFile}),
                             <<NewTier(TomlFile, BatchSlot(t), {"stages"}, Put(EmptyMap, "stages", s))>>)
  BY DEF SaveBatch
<1>2. CASE \E d \in Defaults, f \in DefaultFields :
              Request(c, EditOf(TomlFile), <<NewTier(TomlFile, BatchSlot(t), {f}, Keep(d, {f}))>>)
  <2>1. PICK d, f, e :
           /\ d \in Defaults /\ f \in DefaultFields
           /\ Request(c, EditOf(TomlFile), <<e>>)
           /\ e = NewTier(TomlFile, BatchSlot(t), {f}, Keep(d, {f}))
    BY <1>2
  <2>2. e.do = "edit" /\ e.file = TomlFile /\ e.how = "tier" /\ e.new = Keep(d, {f}) /\ e.fields = {f}
    BY <2>1 DEF NewTier
  <2>3. "stages" \notin DOMAIN e.new /\ "stages" \notin e.fields
    BY <2>1, <2>2, PreparationAssumption DEF Keep, DefaultFields
  <2>4. Spares(e) /\ IsPath(TomlFile)
    BY <2>2, <2>3 DEF Spares, IsPath
  <2>5. QED  BY <2>1, <2>2, <2>4, EditStarts
<1>3. CASE \E s \in Pipelines :
              Request(c, Piping("unpipe", t, <<>>, {SidecarFile(t), TomlFile}),
                      <<NewTier(TomlFile, BatchSlot(t), {"stages"}, Put(EmptyMap, "stages", s))>>)
  <2>1. PICK s, a, calls, new, e :
           /\ Request(c, a, calls) /\ a = Piping("unpipe", t, <<>>, {SidecarFile(t), TomlFile})
           /\ calls = <<e>> /\ e = NewTier(TomlFile, BatchSlot(t), {"stages"}, new)
    BY <1>3
  <2>2. a.what = "unpipe" /\ a.table = t /\ a.on = {SidecarFile(t), TomlFile}
    BY <2>1, WhatIsAsked
  <2>3. job'[c] = calls /\ ask'[c] = a /\ \A T, files : files = a.on => Settled(files, T)'
    BY <2>1, StartIs
  <2>4. PICK files : files = a.on /\ Settled(files, {})'
    BY <2>3
  <2>5. Consists(job'[c], NewTier(TomlFile, BatchSlot(t), {"stages"}, new), <<>>)
    BY <2>1, <2>3 DEF Consists
  <2>6. PICK file : file = TomlFile
    OBVIOUS
  <2>7. Consists(job'[c], NewTier(file, BatchSlot(t), {"stages"}, new), <<>>)
    BY <2>5, <2>6
  <2>8. Puts(c)'
    BY <2>2, <2>3, <2>6, <2>7 DEF Puts, SidecarFile, TomlFile, BatchSlot
  <2>9. Holds(ask[c].on, ask[c].table)'
    BY <2>2, <2>3 DEF Holds, SidecarFile, TomlFile
  <2>10. QED  BY <2>2, <2>3, <2>4, <2>8, <2>9 DEF Works, Pipes
<1>4. QED  BY <1>1, <1>2, <1>3

\* A pipeline is saved, or removed.
LEMMA PipelineStarts ==
    ASSUME Typed, PipelinesKept, NEW c \in Clients, ~disturbed', SavePipeline(c)
    PROVE  Works(c)'
<1>1. PICK t, a, calls, s :
         /\ t \in Names
         /\ Request(c, a, calls)
         /\ \/ /\ a = Piping("pipe", t, s, PipelineFiles(t))
               /\ calls = <<[do |-> "discover", table |-> t], [do |-> "list", strict |-> TRUE],
                            [do |-> "check", stages |-> s],
                            [do |-> "put", table |-> t, new |-> Put(EmptyMap, "stages", s)]>>
            \/ /\ a = Piping("unpipe", t, <<>>, PipelineFiles(t))
               /\ calls = <<[do |-> "discover", table |-> t], [do |-> "put", table |-> t, new |-> EmptyMap]>>
  BY DEF SavePipeline
<1>2. a.what \in {"pipe", "unpipe"} /\ a.table = t /\ a.on = PipelineFiles(t)
  BY <1>1, WhatIsAsked
<1>3. /\ job'[c] = calls /\ ask'[c] = a /\ hand'[c] = InHand /\ sources' = sources
      /\ \A T, files : files = a.on => Settled(files, T)'
  BY <1>1, StartIs
<1>4. PICK files : files = a.on /\ Settled(files, {})'
  BY <1>3
<1>5. Holds(ask[c].on, ask[c].table)'
  BY <1>2, <1>3 DEF Holds, PipelineFiles, SidecarFile, TomlFile
<1>6. IsHand(InHand)
  BY DEF IsHand, InHand
<1>7. LooksUp(c)'
  <2>1. CASE a.what = "pipe"
    <3>1. a = Piping("pipe", t, s, PipelineFiles(t)) /\ a.stages = s
      BY <1>1, <2>1, WhatIsAsked
    <3>2. PICK x, y, z, w : /\ x = [do |-> "discover", table |-> t] /\ y = [do |-> "list", strict |-> TRUE]
                            /\ z = [do |-> "check", stages |-> s]
                            /\ w = [do |-> "put", table |-> t, new |-> Put(EmptyMap, "stages", s)]
      OBVIOUS
    <3>3. calls = <<x, y, z, w>>
      BY <1>1, <2>1, <3>2, WhatIsAsked
    <3>4. /\ LookingUp(c)' = x /\ ListingAll' = y /\ Checking(c)' = z /\ Putting(c)' = w
      BY <1>2, <1>3, <2>1, <3>1, <3>2 DEF LookingUp, ListingAll, Checking, Putting, NewStages
    <3>5. Consists(calls, x, <<y, z, w>>)
      BY <3>3 DEF Consists
    <3>6. QED  BY <1>3, <1>6, <3>4, <3>5 DEF LooksUp
  <2>2. CASE a.what = "unpipe"
    <3>1. PICK x, w : x = [do |-> "discover", table |-> t] /\ w = [do |-> "put", table |-> t, new |-> EmptyMap]
      OBVIOUS
    <3>2. calls = <<x, w>>
      BY <1>1, <2>2, <3>1, WhatIsAsked
    <3>3. LookingUp(c)' = x /\ Putting(c)' = w
      BY <1>2, <1>3, <2>2, <3>1 DEF LookingUp, Putting, NewStages
    <3>4. Consists(calls, x, <<w>>)
      BY <3>2 DEF Consists
    <3>5. QED  BY <1>3, <1>6, <3>3, <3>4 DEF LooksUp
  <2>3. QED  BY <1>2, <2>1, <2>2
<1>8. QED  BY <1>1, <1>2, <1>3, <1>4, <1>5, <1>7 DEF Works, Pipes

\* A new name for a table.
LEMMA NamingStarts ==
    ASSUME Typed, PipelinesKept, NEW c \in Clients, ~disturbed', NewName(c)
    PROVE  Works(c)'
<1>1. PICK old, new, what, a, calls :
         /\ old \in TableNames /\ new \in Names \ TableNames /\ what \in {"rename", "clone"}
         /\ Request(c, a, calls)
         /\ a = [what |-> what, table |-> old, new |-> new,
                 on |-> {TomlFile, SidecarFile(old), SidecarFile(new)},
                 was |-> Following(what, old), left |-> Leftover(old, new)]
         /\ calls = IF what = "rename" THEN RenameCalls(old, new) ELSE CloneCalls(old, new)
  BY DEF NewName
<1>2. /\ a.what = what /\ a.table = old /\ a.new = new
      /\ a.on = {TomlFile, SidecarFile(old), SidecarFile(new)}
  BY <1>1
<1>3. /\ job'[c] = calls /\ ask'[c] = a /\ UNCHANGED <<sources, toml, sidecar, told>>
      /\ \A T : Settled(a.on, T)
      /\ \A T, files : files = a.on => Settled(files, T)'
  BY <1>1, StartIs
<1>4. PICK files : files = a.on /\ \A T : Settled(files, T)'
  BY <1>3
<1>5. new \in Names /\ new \notin sources /\ ~IsBatch(toml, new) /\ old # new
  BY <1>1 DEF TableNames
<1>6. Home(old) \in a.on /\ Home(new) \in a.on
  BY <1>2 DEF Home
<1>7. new \notin DOMAIN told
  <2>1. ASSUME new \in DOMAIN told PROVE InForce(new, told[new].stages)
    BY <1>3, <1>6, <2>1 DEF Settled
  <2>2. QED  BY <1>5, <2>1 DEF InForce, HasEntry
<1>8. ASSUME old \in DOMAIN told
      PROVE  InForce(old, told[old].stages)
  BY <1>3, <1>6, <1>8 DEF Settled
<1>9. NamesTable(c)'
  BY <1>2, <1>3, <1>5, <1>7 DEF NamesTable, TomlFile, SidecarFile
<1>10. /\ Naming(c, "move")' = [do |-> "move", old |-> old, new |-> new]
       /\ Naming(c, "move_sidecar")' = [do |-> "move_sidecar", old |-> old, new |-> new]
       /\ Naming(c, "copy")' = [do |-> "copy", old |-> old, new |-> new]
       /\ Naming(c, "copy_sidecar")' = [do |-> "copy_sidecar", old |-> old, new |-> new]
       /\ Renaming(c)' = RenameEdit(old, new)
  BY <1>2, <1>3 DEF Naming, Renaming, RenameEdit, TomlFile
<1>11. CASE what = "rename"
  <2>1. CASE old \in sources
    <3>1. calls = <<[do |-> "move", old |-> old, new |-> new],
                    [do |-> "move_sidecar", old |-> old, new |-> new], RenameEdit(old, new)>>
      BY <1>1, <1>11, <2>1 DEF RenameCalls
    <3>2. Consists(job[c], Naming(c, "move"), <<Naming(c, "move_sidecar"), Renaming(c)>>)'
      BY <1>3, <1>10, <3>1 DEF Consists
    <3>3. Moves(c)'
      BY <1>2, <1>3, <1>4, <1>5, <2>1, <3>2 DEF Moves
    <3>4. QED  BY <1>2, <1>3, <1>9, <1>11, <3>3 DEF Works, Renames
  <2>2. CASE old \notin sources
    <3>1. calls = <<RenameEdit(old, new)>>
      BY <1>1, <1>11, <2>2 DEF RenameCalls
    <3>2. Consists(job[c], Renaming(c), <<>>)'
      BY <1>3, <1>10, <3>1 DEF Consists
    <3>3. \A s : old \in DOMAIN told /\ s = told[old].stages => InForce(old, s)'
      BY <1>3, <1>8, SameFrame
    <3>4. ASSUME Accepted(c)'
          PROVE  InForce(IF ask[c].new \in sources THEN ask[c].new ELSE ask[c].table, OldStages(c))'
      <4>1. \E s : s = OldStages(c)' /\ InForce(old, s)'
        BY <1>2, <1>3, <3>3, <3>4 DEF Accepted, OldStages
      <4>2. QED  BY <1>2, <1>3, <1>5, <4>1
    <3>5. RenamesEntry(c)'
      BY <1>2, <1>3, <1>4, <2>2, <3>2, <3>4 DEF RenamesEntry
    <3>6. QED  BY <1>2, <1>3, <1>9, <1>11, <3>5 DEF Works, Renames
  <2>3. QED  BY <2>1, <2>2
<1>12. CASE what = "clone"
  <2>1. CASE old \in sources
    <3>1. PICK e, f : /\ e = [do |-> "copy", old |-> old, new |-> new]
                      /\ f = [do |-> "copy_sidecar", old |-> old, new |-> new]
      OBVIOUS
    <3>2. PICK k : k = Head(toml.members[old])
      OBVIOUS
    <3>3. PICK g, h : /\ g = [do |-> "edit", file |-> TomlFile, how |-> "tags"]
                      /\ h = [do |-> "edit", file |-> TomlFile, how |-> "cluster", table |-> new, cluster |-> k]
      OBVIOUS
    <3>4. Tagging' = g /\ Joining(c, k)' = h
      BY <1>2, <1>3, <3>3 DEF Tagging, Joining, TomlFile
    <3>5. calls = <<e, f>> \o <<>> \/ calls = <<e, f>> \o <<g, h>>
      BY <1>1, <1>12, <2>1, <3>1, <3>2, <3>3 DEF CloneCalls
    <3>6. \E rest, more : /\ Consists(calls, e, more) /\ Consists(more, f, rest)
                          /\ rest = <<>> \/ rest = <<g, h>>
      <4>1. <<e, f>> \o <<>> = <<e, f>> /\ <<e, f>> \o <<g, h>> = <<e, f, g, h>>
        BY TwoAndTwo
      <4>2. CASE calls = <<e, f>>
        <5>1. Consists(calls, e, <<f>>) /\ Consists(<<f>>, f, <<>>)
          BY <4>2 DEF Consists
        <5>2. QED  BY <5>1
      <4>3. CASE calls = <<e, f, g, h>>
        <5>1. Consists(calls, e, <<f, g, h>>) /\ Consists(<<f, g, h>>, f, <<g, h>>)
          BY <4>3 DEF Consists
        <5>2. QED  BY <5>1
      <4>4. QED  BY <3>5, <4>1, <4>2, <4>3
    <3>7. \A rest : rest = <<>> \/ rest = <<g, h>> => Metas(c, rest)'
      BY <3>4 DEF Metas
    <3>8. Naming(c, "copy")' = e /\ Naming(c, "copy_sidecar")' = f
      BY <1>10, <3>1
    <3>9. (\E rest, more : /\ Consists(job[c], Naming(c, "copy"), more)
                           /\ Consists(more, Naming(c, "copy_sidecar"), rest) /\ Metas(c, rest))'
      BY <1>3, <3>6, <3>7, <3>8
    <3>10. Copies(c)'
      BY <1>2, <1>3, <1>4, <1>5, <2>1, <3>9 DEF Copies
    <3>11. QED  BY <1>2, <1>3, <1>9, <1>12, <3>10 DEF Works, Clones
  <2>2. CASE old \notin sources
    <3>1. PICK x : x = toml.tiers[BatchSlot(old)]
      OBVIOUS
    <3>2. calls = <<Creating(c, x)'>>
      BY <1>1, <1>2, <1>3, <1>12, <2>2, <3>1 DEF CloneCalls, Creating, TomlFile
    <3>3. Consists(job[c], Creating(c, x), <<>>)'
      BY <1>3, <3>2 DEF Consists
    <3>4. old \in DOMAIN told => HasStages(x, told[old].stages)
      BY <1>8, <2>2, <3>1 DEF InForce, HasEntry
    <3>5. (Accepted(c) => HasStages(x, OldStages(c)))'
      BY <1>2, <1>3, <3>4 DEF Accepted, OldStages, HasStages
    <3>6. Creates(c)'
      BY <1>2, <1>3, <1>4, <1>5, <3>3, <3>5 DEF Creates
    <3>7. QED  BY <1>2, <1>3, <1>9, <1>12, <3>6 DEF Works, Clones
  <2>3. QED  BY <2>1, <2>2
<1>13. QED  BY <1>1, <1>11, <1>12

\* A request keeps all accepted pipelines, and sets to work.
LEMMA StartKeeps ==
    ASSUME Typed, PipelinesKept, NEW c \in Clients, Ask(c)
    PROVE  PipelinesKept'
<1>1. SUFFICES ASSUME ~disturbed'
      PROVE  /\ (DOMAIN told \subseteq Names)' /\ Apart' /\ Untouched'
             /\ (\A d \in Clients : ~Idle(d) => Works(d))'
  BY DEF PipelinesKept
<1>2. PICK a, calls : Request(c, a, calls)
  BY AskIsRequest
<1>3. /\ ~disturbed /\ UNCHANGED <<sources, toml, sidecar, plugins, told>>
      /\ ask'[c] = a
      /\ \A d \in Clients \ {c} : job'[d] = job[d] /\ ask'[d] = ask[d] /\ hand'[d] = hand[d]
      /\ \A d \in Clients, f \in a.on : ~Changes(d, f)
  BY <1>1, <1>2, StartIs
<1>4. DOMAIN told \subseteq Names /\ Apart /\ Untouched /\ \A d \in Clients : ~Idle(d) => Works(d)
  BY <1>3 DEF PipelinesKept
<1>5. Apart'
  <2>1. \A d \in Clients \ {c} : ~Idle(d)' => ~Idle(d) /\ ask'[d] = ask[d] /\ ask[d].on \cap a.on = {}
    BY <1>3 DEF Idle, Changes
  <2>2. QED  BY <1>3, <1>4, <2>1 DEF Apart
<1>6. Untouched'
  <2>1. ASSUME NEW t \in DOMAIN told', \A d \in Clients : ~Changes(d, Home(t))'
        PROVE  InForce(t, told[t].stages)'
    <3>1. Home(t)' = Home(t)
      BY <1>3, SameFrame
    <3>2. ~Changes(c, Home(t))
      BY <1>2 DEF Request, Changes
    <3>3. \A d \in Clients \ {c} : ~Changes(d, Home(t))
      BY <1>3, <2>1, <3>1 DEF Changes, Idle
    <3>4. InForce(t, told[t].stages)
      BY <1>3, <1>4, <2>1, <3>2, <3>3 DEF Untouched
    <3>5. PICK s : s = told[t].stages /\ s = told'[t].stages /\ InForce(t, s)
      BY <1>3, <3>4
    <3>6. InForce(t, s)'
      BY <1>3, <3>5, SameFrame
    <3>7. QED  BY <3>5, <3>6
  <2>2. QED  BY <2>1 DEF Untouched
<1>7. ASSUME NEW d \in Clients, ~Idle(d)', d # c PROVE Works(d)'
  <2>1. ~Idle(d) /\ job'[d] = job[d] /\ ask'[d] = ask[d] /\ hand'[d] = hand[d]
    BY <1>3, <1>7 DEF Idle
  <2>2. Works(d)
    BY <1>4, <2>1
  <2>3. PICK files : files = {}
    OBVIOUS
  <2>4. Frame(files) /\ ask[d].on \cap files = {}
    BY <1>3, <2>3, SameFrame
  <2>5. QED  BY <2>1, <2>2, <2>4, FrameWorks
<1>8. Works(c)'
  BY <1>1, LookStarts, PlainEditStarts, PluginStarts, DropStarts, BatchStarts, PipelineStarts,
     NamingStarts DEF Ask
<1>9. QED  BY <1>3, <1>4, <1>5, <1>6, <1>7, <1>8

-----------------------------------------------------------------------------
(* A step keeps the accepted pipelines.                                    *)

\* The other clients are where they were.
LEMMA OthersWait ==
    ASSUME Typed, NEW c \in Clients, Step(c)
    PROVE  /\ disturbed' = disturbed
           /\ \A d \in Clients \ {c} : job'[d] = job[d] /\ ask'[d] = ask[d] /\ hand'[d] = hand[d]
<1>1. CASE Raise(c)
  BY <1>1 DEF Raise, Typed, ClientsTyped
<1>2. ASSUME NEW calls, Go(c, calls), Touches(c) \/ \E h : Reads(c, h)
      PROVE  /\ disturbed' = disturbed
             /\ \A d \in Clients \ {c} : job'[d] = job[d] /\ ask'[d] = ask[d] /\ hand'[d] = hand[d]
  BY <1>2 DEF Go, Reads, Touches, Typed, ClientsTyped
<1>3. QED  BY <1>1, <1>2, StepKinds

\* Pipelines are accepted for tables.
LEMMA ToldNames ==
    ASSUME Typed, NEW c \in Clients, Step(c), ~disturbed, Works(c), DOMAIN told \subseteq Names
    PROVE  DOMAIN told' \subseteq Names
<1>1. PICK t, new : t = ask[c].table /\ new = ask[c].new
  OBVIOUS
<1>2. /\ ask[c].what = "pipe" => t \in Names
      /\ ask[c].what \in {"rename", "clone"} => new \in Names
  BY <1>1 DEF Works, Looks, Edits, Pipes, Renames, Clones, NamesTable
<1>3. DOMAIN ToldBy(c) \subseteq Names
  <2>1. CASE ask[c].what = "pipe"
    <3>1. PICK x : ToldBy(c) = Put(told, t, x)
      BY <1>1, <2>1 DEF ToldBy
    <3>2. QED  BY <1>2, <2>1, <3>1 DEF Put
  <2>2. CASE ask[c].what = "unpipe"
    BY <2>2 DEF ToldBy, Drop
  <2>3. CASE ask[c].what = "rename"
    <3>1. ToldBy(c) = MoveKey(told, t, new)
      BY <1>1, <2>3 DEF ToldBy
    <3>2. QED  BY <1>2, <2>3, <3>1 DEF MoveKey, Put, Drop
  <2>4. CASE ask[c].what = "clone"
    <3>1. ToldBy(c) = IF t \in DOMAIN told THEN Put(told, new, told[t]) ELSE told
      BY <1>1, <2>4 DEF ToldBy
    <3>2. QED  BY <1>2, <2>4, <3>1 DEF Put
  <2>5. CASE ask[c].what \notin {"pipe", "unpipe", "rename", "clone"}
    BY <2>5 DEF ToldBy
  <2>6. QED  BY <2>1, <2>2, <2>3, <2>4, <2>5
<1>4. told' \in {told, ToldBy(c)}
  <2>1. ASSUME NEW calls, Go(c, calls) PROVE told' \in {told, ToldBy(c)}
    BY <2>1 DEF Go
  <2>2. QED  BY <2>1, StepKinds DEF Raise
<1>5. QED  BY <1>3, <1>4

\* A step keeps what is known of the accepted pipelines.
LEMMA StepKeeps ==
    ASSUME Typed, PipelinesKept, NEW c \in Clients, Step(c)
    PROVE  PipelinesKept'
<1>1. SUFFICES ASSUME ~disturbed'
      PROVE  /\ (DOMAIN told \subseteq Names)' /\ Apart' /\ Untouched'
             /\ (\A d \in Clients : ~Idle(d) => Works(d))'
  BY DEF PipelinesKept
<1>2. /\ ~disturbed
      /\ \A d \in Clients \ {c} : job'[d] = job[d] /\ ask'[d] = ask[d] /\ hand'[d] = hand[d]
  BY <1>1, OthersWait
<1>3. DOMAIN told \subseteq Names /\ Apart /\ Untouched /\ \A d \in Clients : ~Idle(d) => Works(d)
  BY <1>2 DEF PipelinesKept
<1>4. ~Idle(c) /\ Works(c)
  BY <1>3, StepByCall
<1>5. PICK files : files = ask[c].on /\ Onward(c, files)
  BY <1>2, <1>4, LooksStep, EditsStep, PipesStep, RenamesOnward, ClonesOnward DEF Works
<1>6. Frame(files) /\ (~Idle(c)' => ask'[c] = ask[c] /\ Works(c)')
  BY <1>5 DEF Onward, Idle
<1>7. \A d \in Clients \ {c} : ~Idle(d) => ask[d].on \cap files = {}
  BY <1>3, <1>4, <1>5 DEF Apart
<1>8. \A d \in Clients \ {c} : ~Idle(d)' => ~Idle(d)
  BY <1>2 DEF Idle
<1>9. Apart'
  BY <1>2, <1>3, <1>4, <1>6, <1>8 DEF Apart
<1>10. ASSUME NEW d \in Clients, ~Idle(d)', d # c PROVE Works(d)'
  <2>1. Works(d) /\ ask[d].on \cap files = {} /\ job'[d] = job[d] /\ ask'[d] = ask[d] /\ hand'[d] = hand[d]
    BY <1>2, <1>3, <1>7, <1>8, <1>10
  <2>2. QED  BY <1>6, <2>1, FrameWorks
<1>11. Untouched'
  <2>1. ASSUME NEW t \in DOMAIN told', \A d \in Clients : ~Changes(d, Home(t))'
        PROVE  \E s : s = told'[t].stages /\ InForce(t, s)'
    <3>1. CASE Home(t)' \in files
      <4>1. Idle(c)'
        BY <1>5, <1>6, <2>1, <3>1 DEF Changes
      <4>2. Settled(files, {})'
        BY <1>5, <4>1 DEF Onward, Idle
      <4>3. QED  BY <2>1, <3>1, <4>2 DEF Settled
    <3>2. CASE Home(t)' \notin files
      <4>1. Home(t) \notin files /\ Home(t)' = Home(t)
        BY <1>6, <3>2, FrameBack DEF Frame
      <4>2. t \in DOMAIN told /\ told'[t] = told[t]
        BY <1>6, <2>1, <3>2 DEF Frame
      <4>3. \A d \in Clients : ~Changes(d, Home(t))
        BY <1>2, <1>5, <2>1, <4>1 DEF Changes, Idle
      <4>4. PICK s : s = told[t].stages /\ InForce(t, s)
        BY <1>3, <4>2, <4>3 DEF Untouched
      <4>5. InForce(t, s)'
        BY <1>6, <4>1, <4>4, FrameKeeps DEF Frame
      <4>6. QED  BY <4>2, <4>4, <4>5
    <3>3. QED  BY <3>1, <3>2
  <2>2. QED  BY <2>1 DEF Untouched
<1>12. DOMAIN told' \subseteq Names
  BY <1>2, <1>3, <1>4, ToldNames
<1>13. QED  BY <1>6, <1>9, <1>10, <1>11, <1>12

\* Every step keeps them.
LEMMA PipelinesKeptStep ==
    ASSUME Typed, PipelinesKept, [Next]_vars
    PROVE  PipelinesKept'
<1>1. CASE UNCHANGED vars
  <2>1. SUFFICES ASSUME ~disturbed'
        PROVE  /\ (DOMAIN told \subseteq Names)' /\ Apart' /\ Untouched'
               /\ (\A d \in Clients : ~Idle(d) => Works(d))'
    BY DEF PipelinesKept
  <2>2. UNCHANGED <<sources, toml, sidecar, told>> /\ UNCHANGED <<job, ask, hand, disturbed>>
    BY <1>1 DEF vars
  <2>3. DOMAIN told \subseteq Names /\ Apart /\ Untouched /\ \A d \in Clients : ~Idle(d) => Works(d)
    BY <2>1, <2>2 DEF PipelinesKept
  <2>4. Apart'
    BY <2>2, <2>3 DEF Apart, Idle
  <2>5. ASSUME NEW t \in DOMAIN told', \A d \in Clients : ~Changes(d, Home(t))'
        PROVE  \E s : s = told'[t].stages /\ InForce(t, s)'
    <3>1. \A d \in Clients : ~Changes(d, Home(t))
      BY <2>2, <2>5, SameFrame DEF Changes, Idle
    <3>2. PICK s : s = told[t].stages /\ InForce(t, s)
      BY <2>2, <2>3, <2>5, <3>1 DEF Untouched
    <3>3. QED  BY <2>2, <3>2, SameFrame
  <2>6. ASSUME NEW d \in Clients, ~Idle(d)' PROVE Works(d)'
    <3>1. Works(d) /\ job'[d] = job[d] /\ ask'[d] = ask[d] /\ hand'[d] = hand[d]
      BY <2>2, <2>3, <2>6 DEF Idle
    <3>2. PICK files : files = {}
      OBVIOUS
    <3>3. Frame(files) /\ ask[d].on \cap files = {}
      BY <2>2, <3>2, SameFrame
    <3>4. QED  BY <3>1, <3>3, FrameWorks
  <2>7. QED  BY <2>2, <2>3, <2>4, <2>5, <2>6 DEF Untouched
<1>2. CASE Next
  BY <1>2, StartKeeps, StepKeeps DEF Next
<1>3. QED  BY <1>1, <1>2

\* It is what AcceptedPipelineInForce asks for.
LEMMA PipelinesKeptMeans == PipelinesKept /\ PipelinesBuildable => AcceptedPipelineInForce
<1>1. SUFFICES ASSUME PipelinesKept, PipelinesBuildable, ~disturbed, NEW t \in DOMAIN told,
                      \A c \in Clients, f \in PipelineFiles(t) : ~Changes(c, f)
      PROVE  /\ t \in TableNames
             /\ "stages" \in DOMAIN SettingsOf(t) /\ SettingsOf(t)["stages"] = told[t].stages
             /\ plugins \in told[t].plugins => Buildable(told[t].stages, Available(plugins))
  BY DEF AcceptedPipelineInForce
<1>2. Home(t) \in PipelineFiles(t)
  BY DEF Home, PipelineFiles
<1>3. t \in Names /\ InForce(t, told[t].stages)
  BY <1>1, <1>2 DEF PipelinesKept, Untouched
<1>4. t \in TableNames /\ HasStages(OwnTier(t), told[t].stages)
  BY <1>3 DEF InForce, HasEntry, TableNames, OwnTier, SidecarTier
<1>5. "stages" \in DOMAIN SettingsOf(t) /\ SettingsOf(t)["stages"] = told[t].stages
  <2>1. PICK x, y, z : x = OwnTier(t) /\ y = ClusterTier(toml, t) /\ z = toml.tiers[Global]
    OBVIOUS
  <2>2. SettingsOf(t) = Nearest(<<x, y, z>>)
    BY <2>1 DEF SettingsOf
  <2>3. SettingsOf(t) = [f \in DOMAIN x \cup DOMAIN y \cup DOMAIN z |->
                            IF f \in DOMAIN x THEN x[f] ELSE IF f \in DOMAIN y THEN y[f] ELSE z[f]]
    BY <2>2, NearestOfThree
  <2>4. QED  BY <1>4, <2>1, <2>3 DEF HasStages
<1>6. plugins \in told[t].plugins => Buildable(told[t].stages, Available(plugins))
  BY <1>1 DEF PipelinesBuildable, StaysBuildable
<1>7. QED  BY <1>4, <1>5, <1>6

\* A pipeline that was accepted stays in force whatever else is edited, whoever reads or
\* writes the files meanwhile, through renames and clones: what is told is what the settings
\* say as soon as nobody is at work on the file where the pipeline of the table is.
THEOREM AcceptedStaysInForce == Spec => []AcceptedPipelineInForce
<1>1. Init => Typed /\ PipelinesBuildable /\ PipelinesKept
  <2>1. ASSUME Init PROVE PipelinesBuildable
    BY <2>1 DEF Init, PipelinesBuildable, IsPiping, EmptyMap
  <2>2. ASSUME Init PROVE PipelinesKept
    <3>1. DOMAIN told = {} /\ \A c \in Clients : Idle(c)
      BY <2>2 DEF Init, EmptyMap, Idle
    <3>2. QED  BY <3>1 DEF PipelinesKept, Apart, Untouched
  <2>3. QED  BY <2>1, <2>2, TypedInit
<1>2. Typed /\ PipelinesBuildable /\ PipelinesKept /\ [Next]_vars
         => (Typed /\ PipelinesBuildable /\ PipelinesKept)'
  BY TypedStep, PipelinesBuildableStep, PipelinesKeptStep
<1>3. Typed /\ PipelinesBuildable /\ PipelinesKept => AcceptedPipelineInForce
  BY PipelinesKeptMeans
<1>4. QED  BY <1>1, <1>2, <1>3, PTL DEF Spec
=============================================================================
