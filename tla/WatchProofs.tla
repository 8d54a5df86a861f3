---------------------------- MODULE WatchProofs ----------------------------
(***************************************************************************)
(* Theorems about Watch, for any files, any grouping of them into tables   *)
(* and any number of changes.                                              *)
(***************************************************************************)
EXTENDS Watch, MapsProofs

-----------------------------------------------------------------------------
(* The invariant.                                                          *)

Key(t) == [Members(t) -> Content]
Keys == UNION {Key(t) : t \in Table}

ToHash == {"armed", "due", "hashing"}
InBuild == {"parsing", "emitting", "recording"}

Timer ==
    {Over}
    \cup [path : File, pc : ToHash]
    \cup [path : File, pc : {"parsing"}, key : Keys]
    \cup [path : File, pc : {"emitting", "recording"}, key : Keys, ir : Keys]

TypeOK ==
    /\ source \in [File -> Content \cup {Gone}]
    /\ changes \in Content
    /\ events \in Seq(File)
    /\ DOMAIN registered \subseteq File
    /\ timers \in Seq(Timer)

\* No file has a content that is yet to be written.
Dated == \A f \in File : source[f] # Gone => source[f] <= changes

\* _timers holds timers of the file they are registered under.
RegisteredOwn ==
    \A f \in DOMAIN registered :
        /\ registered[f] \in DOMAIN timers
        /\ timers[registered[f]] = Over \/ timers[registered[f]].path = f

\* What the theorem speaks of: builds in turn, contents that do not come back.
Regular(t) == t \notin overlapped \cup reverted

Older(t, k, l) == \A f \in Members(t) : k[f] <= l[f]

\* k is what the files of t were at some time: what has changed since is newer.
Was(t, k) ==
    /\ k \in Key(t)
    /\ \A f \in Members(t) : k[f] <= changes /\ (source[f] = Gone \/ k[f] <= source[f])

OneBuilder ==
    \A t \in Table : Regular(t) => \A i, j \in Building(t) : i = j

\* A build hashes after the last recorded build did, and reads after it hashed.
BuilderInOrder(t, i) ==
    /\ Was(t, timers[i].key)
    /\ t \in DOMAIN entries => Older(t, entries[t], timers[i].key)
    /\ timers[i].pc # "parsing" =>
          Was(t, timers[i].ir) /\ Older(t, timers[i].key, timers[i].ir)
    /\ timers[i].pc = "recording" => t \in DOMAIN outs /\ outs[t] = timers[i].ir

BuildersInOrder ==
    \A t \in Table : Regular(t) => \A i \in Building(t) : BuilderInOrder(t, i)

\* An entry is never newer than the output beside it.
EntriesInOrder ==
    \A t \in Table : Regular(t) /\ t \in DOMAIN entries =>
        /\ t \in DOMAIN outs
        /\ Was(t, entries[t]) /\ Was(t, outs[t])
        /\ Older(t, entries[t], outs[t])

\* A build of t is on its way that has not hashed yet.
Pending(t) ==
    \/ \E n \in DOMAIN events : TableOf[events[n]] = t
    \/ \E i \in DOMAIN timers : timers[i].pc \in ToHash /\ TableOf[timers[i].path] = t

Covered(t) ==
    \/ Missing(t)
    \/ Pending(t)
    \/ \E i \in Building(t) : timers[i].key = Sources(t)
    \/ Building(t) = {} /\ (t \in failed \/ (t \in DOMAIN outs /\ outs[t] = Sources(t)))

\* Whatever has changed will be hashed, is being built, or was built last.
AllCovered == watching => \A t \in Table : Regular(t) => Covered(t)

Inv == /\ TypeOK /\ Dated /\ RegisteredOwn
       /\ OneBuilder /\ BuildersInOrder /\ EntriesInOrder /\ AllCovered

-----------------------------------------------------------------------------
\* The fields of a timer are those of where it is.
LEMMA TimerFields ==
    ASSUME TypeOK, NEW i \in DOMAIN timers
    PROVE  /\ timers[i] \in Timer
           /\ timers[i].pc \in {"over"} \cup ToHash \cup InBuild
           /\ timers[i].pc = "over" <=> timers[i] = Over
           /\ timers[i].pc # "over" => timers[i].path \in File /\ Own(i) \in Table
           /\ timers[i].pc \in ToHash => timers[i] \in [path : File, pc : ToHash]
           /\ timers[i].pc = "parsing" =>
                 timers[i] \in [path : File, pc : {"parsing"}, key : Keys]
           /\ timers[i].pc \in {"emitting", "recording"} =>
                 timers[i] \in [path : File, pc : {"emitting", "recording"}, key : Keys, ir : Keys]
<1>1. timers[i] \in Timer
  BY DEF TypeOK
<1>2. CASE timers[i] = Over
  BY <1>1, <1>2 DEF Over, ToHash, InBuild
<1>3. CASE timers[i] \in [path : File, pc : ToHash]
  BY <1>1, <1>3 DEF Over, ToHash, InBuild, Own, Table
<1>4. CASE timers[i] \in [path : File, pc : {"parsing"}, key : Keys]
  BY <1>1, <1>4 DEF Over, ToHash, InBuild, Own, Table
<1>5. CASE timers[i] \in [path : File, pc : {"emitting", "recording"}, key : Keys, ir : Keys]
  BY <1>1, <1>5 DEF Over, ToHash, InBuild, Own, Table
<1>6. QED  BY <1>1, <1>2, <1>3, <1>4, <1>5 DEF Timer

\* The members of a table are files.
LEMMA MembersAreFiles == \A t : Members(t) \subseteq File
BY DEF Members

\* Contents are numbers, up to the bound.
LEMMA ContentInt == /\ Content \subseteq Nat
                    /\ \A c \in Content : c <= MaxChanges
                    /\ 0 \in Content
                    /\ \A n \in Nat : n <= MaxChanges => n \in Content
BY BoundIsNat DEF Content

\* The sources of a table none of whose files is missing are a key of it, newer
\* than anything they were before.
LEMMA SourcesAreKey ==
    ASSUME TypeOK, Dated, NEW t \in Table, ~Missing(t)
    PROVE  /\ Sources(t) \in Key(t)
           /\ Was(t, Sources(t))
           /\ \A k : Was(t, k) => Older(t, k, Sources(t))
<1>1. \A f \in Members(t) : f \in File /\ source[f] \in Content /\ source[f] # Gone
                            /\ Sources(t)[f] = source[f]
  BY MembersAreFiles DEF TypeOK, Missing, Sources
<1>2. Sources(t) \in Key(t)
  BY <1>1 DEF Sources, Key
<1>3. Was(t, Sources(t))
  <2>1. ASSUME NEW f \in Members(t)
        PROVE  source[f] <= changes /\ source[f] <= source[f]
    <3>1. source[f] \in Nat
      BY <1>1, ContentInt
    <3>2. source[f] <= changes
      BY <1>1 DEF Dated
    <3>3. QED  BY <3>1, <3>2
  <2>2. QED  BY <1>1, <1>2, <2>1 DEF Was
<1>4. ASSUME NEW k, Was(t, k)
      PROVE  Older(t, k, Sources(t))
  BY <1>1, <1>4 DEF Was, Older
<1>5. QED  BY <1>2, <1>3, <1>4

\* Between a key that is current and the sources there is nothing.
LEMMA Squeeze ==
    ASSUME TypeOK, NEW t \in Table, ~Missing(t),
           NEW k, NEW l, k = Sources(t), Was(t, l), Older(t, k, l)
    PROVE  l = Sources(t)
<1>1. \A f \in Members(t) : f \in File /\ source[f] \in Content /\ source[f] # Gone
                            /\ Sources(t)[f] = source[f]
  BY MembersAreFiles DEF TypeOK, Missing, Sources
<1>2. l \in [Members(t) -> Content]
  BY DEF Was, Key
<1>3. \A f \in Members(t) : l[f] = source[f]
  <2> SUFFICES ASSUME NEW f \in Members(t) PROVE l[f] = source[f]
    OBVIOUS
  <2>1. l[f] \in Nat /\ source[f] \in Nat
    BY <1>1, <1>2, ContentInt
  <2>2. l[f] <= source[f] /\ source[f] <= l[f]
    BY <1>1 DEF Was, Older
  <2>3. QED  BY <2>1, <2>2
<1>4. QED  BY <1>2, <1>3 DEF Sources

-----------------------------------------------------------------------------
(* The initial state, the user and the observer.                           *)

\* The initial build leaves every table current, or none.
LEMMA InitInv == Init => Inv
<1> SUFFICES ASSUME Init PROVE Inv
  OBVIOUS
<1>1. TypeOK /\ Dated /\ RegisteredOwn
  BY ContentInt, EmptyMapType DEF Init, TypeOK, Dated, RegisteredOwn, EmptyMap
<1>2. \A t : Building(t) = {}
  BY DEF Init, Building
<1>3. \A t \in Table : ~Missing(t)
  BY MembersAreFiles, GoneIsNoContent, ContentInt DEF Init, Missing
<1>4. \A t \in Table : t \in DOMAIN outs => outs[t] = Sources(t)
  BY EmptyMapType DEF Init
<1>5. EntriesInOrder
  <2> SUFFICES ASSUME NEW t \in Table, t \in DOMAIN entries
               PROVE  /\ t \in DOMAIN outs /\ Was(t, entries[t]) /\ Was(t, outs[t])
                      /\ Older(t, entries[t], outs[t])
    BY DEF EntriesInOrder
  <2>1. t \in DOMAIN outs /\ entries[t] = Sources(t) /\ outs[t] = Sources(t)
    BY <1>4 DEF Init
  <2>2. QED  BY <1>1, <1>3, <2>1, SourcesAreKey
<1>6. AllCovered
  <2> SUFFICES ASSUME NEW t \in Table PROVE Covered(t)
    BY DEF AllCovered
  <2>1. t \in failed \/ (t \in DOMAIN outs /\ outs[t] = Sources(t))
    BY <1>4 DEF Init
  <2>2. QED  BY <1>2, <2>1 DEF Covered
<1>7. QED
  BY <1>1, <1>2, <1>5, <1>6 DEF Inv, OneBuilder, BuildersInOrder

\* What the table's files were stays so when one of them is saved or deleted,
\* as long as nothing comes back.
LEMMA ChangeKeepsPast ==
    ASSUME Inv, NEW f \in File,
           Delete(f) \/ \E c \in Content : Save(f, c),
           NEW t \in Table, t \notin reverted', NEW k, Was(t, k)
    PROVE  Was(t, k)'
<1>1. /\ k \in Key(t) /\ changes \in Nat /\ changes' = changes + 1
      /\ \A g \in Members(t) : g \in File /\ k[g] \in Nat /\ k[g] <= changes
      /\ \A g \in Members(t) : source[g] = Gone \/ k[g] <= source[g]
  BY MembersAreFiles, ContentInt DEF Was, Key, Inv, TypeOK, Save, Delete
<1>2. ASSUME NEW g \in Members(t)
      PROVE  k[g] <= changes' /\ (source'[g] = Gone \/ k[g] <= source'[g])
  <2>1. k[g] <= changes'
    BY <1>1
  <2>2. CASE g # f
    <3>1. source' = [source EXCEPT ![f] = source'[f]]
      BY DEF Save, Delete, Inv, TypeOK
    <3>2. source'[g] = source[g]
      BY <1>1, <2>2, <3>1 DEF Inv, TypeOK
    <3>3. QED  BY <1>1, <2>1, <3>2
  <2>3. CASE g = f /\ Delete(f)
    BY <2>1, <2>3 DEF Delete, Inv, TypeOK
  <2>4. CASE g = f /\ \E c \in Content : Save(f, c)
    <3>1. PICK c \in Content : Save(f, c)
      BY <2>4
    <3>2. source'[g] = c /\ c \in {changes + 1, 0}
      BY <2>4, <3>1 DEF Save, Inv, TypeOK
    <3>3. TableOf[f] = t
      BY <2>4 DEF Members
    <3>4. c \in {changes + 1, source[g]}
      BY <2>4, <3>1, <3>3 DEF Save
    <3>5. CASE c = changes + 1
      BY <1>1, <2>1, <3>2, <3>5
    <3>6. CASE c = source[g]
      BY <1>1, <2>1, <3>2, <3>6
    <3>7. QED  BY <3>4, <3>5, <3>6
  <2>5. QED  BY <2>2, <2>3, <2>4
<1>3. QED  BY <1>1, <1>2 DEF Was, Key

\* A table that a change leaves alone is covered as it was.
LEMMA CoveredElsewhere ==
    ASSUME NEW f, \A g \in File \ {f} : source'[g] = source[g],
           UNCHANGED <<timers, outs, failed>>,
           NEW t \in Table, TableOf[f] # t, Covered(t),
           Pending(t) => Pending(t)'
    PROVE  Covered(t)'
<1>1. \A g \in Members(t) : source'[g] = source[g]
  BY DEF Members
<1>2. /\ Missing(t)' = Missing(t)
      /\ Sources(t)' = Sources(t)
      /\ Building(t)' = Building(t)
  BY <1>1 DEF Missing, Sources, Building
<1>3. QED  BY <1>2 DEF Covered

\* Builds and entries stay in order when a step does not touch them and the
\* past of the tables stays their past.
LEMMA OrderKept ==
    ASSUME Inv, UNCHANGED <<outs, entries>>,
           overlapped \subseteq overlapped', reverted \subseteq reverted',
           \A t \in Table : Regular(t)' => \A k : Was(t, k) => Was(t, k)',
           \A i : i \in DOMAIN timers' /\ timers'[i].pc \in InBuild =>
                      i \in DOMAIN timers /\ timers'[i] = timers[i]
    PROVE  OneBuilder' /\ BuildersInOrder' /\ EntriesInOrder'
<1>1. \A t : Regular(t)' => Regular(t)
  BY DEF Regular
<1>2. \A t, i : i \in Building(t)' => i \in Building(t) /\ timers'[i] = timers[i]
  BY DEF Building, InBuild
<1>3. OneBuilder'
  BY <1>1, <1>2 DEF Inv, OneBuilder
<1>4. BuildersInOrder'
  BY <1>1, <1>2 DEF Inv, BuildersInOrder, BuilderInOrder, Older
<1>5. EntriesInOrder'
  BY <1>1 DEF Inv, EntriesInOrder, Older
<1>6. QED  BY <1>3, <1>4, <1>5

\* A save makes its file newer than anything that was read, and leaves an event.
LEMMA SaveInv ==
    ASSUME Inv, NEW f \in File, NEW c \in Content, Save(f, c)
    PROVE  Inv'
<1>1. /\ changes' = changes + 1 /\ changes < MaxChanges /\ changes \in Nat
      /\ c \in {changes + 1, 0}
      /\ source' = [source EXCEPT ![f] = c]
      /\ source' \in [File -> Content \cup {Gone}]
      /\ source'[f] = c /\ \A g \in File \ {f} : source'[g] = source[g]
      /\ events' = Notify(f)
      /\ UNCHANGED <<registered, timers, outs, entries, overlapped, failed, watching>>
      /\ reverted \subseteq reverted'
  BY ContentInt DEF Save, Inv, TypeOK
<1>2. /\ events \in Seq(File) /\ events' \in Seq(File)
      /\ \A n \in DOMAIN events : n \in DOMAIN events' /\ events'[n] = events[n]
      /\ \E n \in DOMAIN events' : events'[n] = f
  <2>1. events \in Seq(File)
    BY DEF Inv, TypeOK
  <2>2. CASE events # <<>> /\ events[Len(events)] = f
    <3>1. events' = events /\ Len(events) \in DOMAIN events
      BY <1>1, <2>1, <2>2 DEF Notify
    <3>2. QED  BY <2>1, <2>2, <3>1
  <2>3. CASE ~(events # <<>> /\ events[Len(events)] = f)
    <3>1. events' = Append(events, f)
      BY <1>1, <2>3 DEF Notify
    <3>2. events'[Len(events) + 1] = f /\ Len(events) + 1 \in DOMAIN events'
      BY <2>1, <3>1
    <3>3. QED  BY <2>1, <3>1, <3>2
  <2>4. QED  BY <2>2, <2>3
<1>3. TypeOK'
  BY <1>1, <1>2, BoundIsNat DEF Inv, TypeOK, Content
<1>4. Dated'
  <2> SUFFICES ASSUME NEW g \in File, source'[g] # Gone PROVE source'[g] <= changes'
    BY DEF Dated
  <2>1. CASE g = f
    BY <1>1, <2>1
  <2>2. CASE g # f
    <3>1. source[g] \in Nat /\ source[g] <= changes
      BY <1>1, <2>2, ContentInt DEF Inv, TypeOK, Dated
    <3>2. QED  BY <1>1, <2>2, <3>1
  <2>3. QED  BY <2>1, <2>2
<1>5. RegisteredOwn'
  BY <1>1 DEF Inv, RegisteredOwn
<1>6. OneBuilder' /\ BuildersInOrder' /\ EntriesInOrder'
  <2>1. \A t \in Table : Regular(t)' => \A k : Was(t, k) => Was(t, k)'
    BY ChangeKeepsPast DEF Regular
  <2>2. QED  BY <1>1, <2>1, OrderKept
<1>7. AllCovered'
  <2> SUFFICES ASSUME watching', NEW t \in Table, Regular(t)' PROVE Covered(t)'
    BY DEF AllCovered
  <2>1. CASE TableOf[f] = t
    BY <1>2, <2>1 DEF Covered, Pending
  <2>2. CASE TableOf[f] # t
    <3>1. Covered(t)
      BY <1>1 DEF Inv, AllCovered, Regular
    <3>2. Pending(t) => Pending(t)'
      BY <1>1, <1>2 DEF Pending
    <3>3. QED  BY <1>1, <2>2, <3>1, <3>2, CoveredElsewhere
  <2>3. QED  BY <2>1, <2>2
<1>8. QED  BY <1>3, <1>4, <1>5, <1>6, <1>7 DEF Inv

\* A deletion leaves the table of the file incomplete.
LEMMA DeleteInv ==
    ASSUME Inv, NEW f \in File, Delete(f)
    PROVE  Inv'
<1>1. /\ changes' = changes + 1 /\ changes < MaxChanges /\ changes \in Nat
      /\ source' \in [File -> Content \cup {Gone}]
      /\ source'[f] = Gone /\ \A g \in File \ {f} : source'[g] = source[g]
      /\ UNCHANGED <<events, registered, timers, outs, entries, overlapped, failed,
                     watching, reverted>>
  BY ContentInt DEF Delete, Inv, TypeOK
<1>2. TypeOK'
  BY <1>1, BoundIsNat DEF Inv, TypeOK, Content
<1>3. Dated'
  <2> SUFFICES ASSUME NEW g \in File, source'[g] # Gone PROVE source'[g] <= changes'
    BY DEF Dated
  <2>1. g # f /\ source[g] \in Nat /\ source[g] <= changes
    BY <1>1, ContentInt DEF Inv, TypeOK, Dated
  <2>2. QED  BY <1>1, <2>1
<1>4. RegisteredOwn'
  BY <1>1 DEF Inv, RegisteredOwn
<1>5. OneBuilder' /\ BuildersInOrder' /\ EntriesInOrder'
  <2>1. \A t \in Table : Regular(t)' => \A k : Was(t, k) => Was(t, k)'
    BY ChangeKeepsPast DEF Regular
  <2>2. QED  BY <1>1, <2>1, OrderKept
<1>6. AllCovered'
  <2> SUFFICES ASSUME watching', NEW t \in Table, Regular(t)' PROVE Covered(t)'
    BY DEF AllCovered
  <2>1. CASE TableOf[f] = t
    <3>1. f \in Members(t)
      BY <2>1 DEF Members
    <3>2. Missing(t)'
      BY <1>1, <3>1 DEF Missing
    <3>3. QED  BY <3>2 DEF Covered
  <2>2. CASE TableOf[f] # t
    <3>1. Covered(t)
      BY <1>1 DEF Inv, AllCovered, Regular
    <3>2. Pending(t) => Pending(t)'
      BY <1>1 DEF Pending
    <3>3. QED  BY <1>1, <2>2, <3>1, <3>2, CoveredElsewhere
  <2>3. QED  BY <2>1, <2>2
<1>7. QED  BY <1>2, <1>3, <1>4, <1>5, <1>6 DEF Inv

\* Ctrl+C ends what the invariant promises of the watch.
LEMMA InterruptInv == Inv /\ Interrupt => Inv'
<1> SUFFICES ASSUME Inv, Interrupt PROVE Inv'
  OBVIOUS
<1>1. /\ UNCHANGED <<source, changes, registered, timers, outs, entries, overlapped,
                     reverted, failed>>
      /\ events' \in Seq(File) /\ watching' = FALSE
  BY DEF Interrupt
<1>2. TypeOK' /\ Dated' /\ RegisteredOwn' /\ AllCovered'
  BY <1>1 DEF Inv, TypeOK, Dated, RegisteredOwn, AllCovered
<1>3. OneBuilder' /\ BuildersInOrder' /\ EntriesInOrder'
  <2>1. \A t \in Table : \A k : Was(t, k) => Was(t, k)'
    BY <1>1 DEF Was
  <2>2. QED  BY <1>1, <2>1, OrderKept
<1>4. QED  BY <1>2, <1>3 DEF Inv

-----------------------------------------------------------------------------
(* The timer threads.                                                      *)

\* A step of timer i leaves it over or with the same file, and touches no other
\* timer; what is registered afterwards was registered before.
Steps(i, x) ==
    /\ timers[i].pc # "over"
    /\ x \in Timer /\ (x = Over \/ x.path = timers[i].path)
    /\ timers' = [timers EXCEPT ![i] = x]
    /\ UNCHANGED session
    /\ DOMAIN registered' \subseteq DOMAIN registered
    /\ \A f \in DOMAIN registered' : registered'[f] = registered[f]

\* A timer that goes a step on leaves the other timers and the files alone.
LEMMA StepFrame ==
    ASSUME Inv, NEW i \in DOMAIN timers, NEW x, Steps(i, x)
    PROVE  /\ TypeOK' /\ Dated' /\ RegisteredOwn'
           /\ DOMAIN timers' = DOMAIN timers /\ timers'[i] = x
           /\ \A j \in DOMAIN timers : j # i => timers'[j] = timers[j]
           /\ \A t, k : Was(t, k) => Was(t, k)'
           /\ \A t : Missing(t)' = Missing(t) /\ Sources(t)' = Sources(t)
<1>1. /\ DOMAIN timers' = DOMAIN timers /\ timers'[i] = x
      /\ \A j \in DOMAIN timers : j # i => timers'[j] = timers[j]
      /\ timers' \in Seq(Timer)
  BY DEF Steps, Inv, TypeOK
<1>2. TypeOK' /\ Dated'
  BY <1>1 DEF Steps, session, Inv, TypeOK, Dated
<1>3. RegisteredOwn'
  <2> SUFFICES ASSUME NEW f \in DOMAIN registered'
               PROVE  /\ registered'[f] \in DOMAIN timers'
                      /\ timers'[registered'[f]] = Over \/ timers'[registered'[f]].path = f
    BY DEF RegisteredOwn
  <2>1. PICK r : r = registered[f]
    OBVIOUS
  <2>2. registered'[f] = r /\ r \in DOMAIN timers /\ (timers[r] = Over \/ timers[r].path = f)
    BY <2>1 DEF Steps, Inv, RegisteredOwn
  <2>3. CASE r = i
    BY <1>1, <2>2, <2>3 DEF Steps, Over
  <2>4. CASE r # i
    BY <1>1, <2>2, <2>4
  <2>5. QED  BY <2>3, <2>4
<1>4. \A t, k : Was(t, k) => Was(t, k)'
  BY DEF Was, Steps, session
<1>5. \A t : Missing(t)' = Missing(t) /\ Sources(t)' = Sources(t)
  BY DEF Missing, Sources, Steps, session
<1>6. QED  BY <1>1, <1>2, <1>3, <1>4, <1>5

\* The tables of other files see nothing of a step of i.
LEMMA OthersCovered ==
    ASSUME Inv, NEW i \in DOMAIN timers, NEW x, Steps(i, x),
           NEW t, t # Own(i),
           t \in failed => t \in failed',
           t \in DOMAIN outs => t \in DOMAIN outs' /\ outs'[t] = outs[t],
           Covered(t)
    PROVE  Covered(t)' /\ Building(t)' = Building(t)
<1>1. /\ DOMAIN timers' = DOMAIN timers /\ timers'[i] = x
      /\ \A j \in DOMAIN timers : j # i => timers'[j] = timers[j]
      /\ Missing(t)' = Missing(t) /\ Sources(t)' = Sources(t)
  BY StepFrame
<1>2. TableOf[timers[i].path] # t /\ (x = Over \/ x.path = timers[i].path)
  BY DEF Own, Steps
<1>3. \A j : j \in Building(t) => j \in DOMAIN timers /\ j # i
  BY <1>2 DEF Building
<1>4. \A j : j \in Building(t)' => j \in DOMAIN timers /\ j # i
  BY <1>1, <1>2 DEF Building, Over
<1>5. Building(t)' = Building(t) /\ \A j \in Building(t) : timers'[j] = timers[j]
  BY <1>1, <1>3, <1>4 DEF Building
<1>6. Pending(t) => Pending(t)'
  BY <1>1, <1>2 DEF Pending, Steps, session
<1>7. QED  BY <1>1, <1>5, <1>6 DEF Covered

\* A step that begins no build and leaves outputs and entries alone.
LEMMA QuietStep ==
    ASSUME Inv, NEW i \in DOMAIN timers, NEW x, Steps(i, x), NEW o, o = Own(i),
           x.pc \notin InBuild,
           UNCHANGED <<outs, entries>>, overlapped \subseteq overlapped',
           \A t : t # o /\ t \in failed => t \in failed',
           watching /\ Regular(o) => Covered(o)'
    PROVE  Inv'
<1>1. TypeOK' /\ Dated' /\ RegisteredOwn'
  BY StepFrame
<1>2. OneBuilder' /\ BuildersInOrder' /\ EntriesInOrder'
  <2>1. \A j : j \in DOMAIN timers' /\ timers'[j].pc \in InBuild =>
                   j \in DOMAIN timers /\ timers'[j] = timers[j]
    BY StepFrame
  <2>2. \A t \in Table : Regular(t)' => \A k : Was(t, k) => Was(t, k)'
    BY StepFrame
  <2>3. reverted \subseteq reverted'
    BY DEF Steps, session
  <2>4. QED  BY <2>1, <2>2, <2>3, OrderKept
<1>3. AllCovered'
  <2> SUFFICES ASSUME watching', NEW t \in Table, Regular(t)' PROVE Covered(t)'
    BY DEF AllCovered
  <2>1. watching /\ Regular(t) /\ Covered(t)
    BY DEF Steps, session, Regular, Inv, AllCovered
  <2>2. CASE t = o
    BY <2>1, <2>2
  <2>3. CASE t # o
    BY <2>1, <2>3, OthersCovered
  <2>4. QED  BY <2>2, <2>3
<1>4. QED  BY <1>1, <1>2, <1>3 DEF Inv

\* A timer that has expired is still to hash.
LEMMA ExpireInv ==
    ASSUME Inv, NEW i \in DOMAIN timers, Expire(i)
    PROVE  Inv'
<1> DEFINE x == [timers[i] EXCEPT !.pc = "due"]
<1>1. PICK o : o = Own(i)
  OBVIOUS
<1>2. Steps(i, x) /\ x.pc = "due" /\ x.path = timers[i].path
  <2>1. timers[i] \in [path : File, pc : ToHash]
    BY TimerFields DEF Expire, At, ToHash, Inv
  <2>2. x \in [path : File, pc : ToHash]
    BY <2>1 DEF ToHash
  <2>3. QED  BY <2>1, <2>2 DEF Expire, At, GoTo, Steps, Timer
<1>3. Covered(o)'
  BY <1>1, <1>2, StepFrame DEF Covered, Pending, Own, ToHash
<1> HIDE DEF x
<1>4. QED
  BY <1>1, <1>2, <1>3, QuietStep DEF Expire, InBuild

\* _fire takes the file out of _timers; the table is yet to be hashed, unless the
\* file is gone.
LEMMA FireInv ==
    ASSUME Inv, NEW i \in DOMAIN timers, Fire(i)
    PROVE  Inv'
<1>1. PICK o : o = Own(i)
  OBVIOUS
<1>2. timers[i] \in [path : File, pc : ToHash]
  BY TimerFields DEF Fire, At, ToHash, Inv
<1>3. /\ DOMAIN registered' \subseteq DOMAIN registered
      /\ \A f \in DOMAIN registered' : registered'[f] = registered[f]
  BY DEF Fire, Popped, Drop
<1>4. CASE source[timers[i].path] = Gone
  <2>1. Steps(i, Over) /\ Over.pc = "over"
    BY <1>2, <1>3, <1>4 DEF Fire, At, End, Steps, Timer, Over
  <2>2. Missing(o)
    BY <1>1, <1>2, <1>4 DEF Missing, Members, Own
  <2>3. Covered(o)'
    BY <2>1, <2>2, StepFrame DEF Covered
  <2>4. QED
    BY <1>1, <2>1, <2>3, QuietStep DEF Fire, InBuild
<1>5. CASE source[timers[i].path] # Gone
  <2> DEFINE x == [timers[i] EXCEPT !.pc = "hashing"]
  <2>1. Steps(i, x) /\ x.pc = "hashing" /\ x.path = timers[i].path
    <3>1. x \in [path : File, pc : ToHash]
      BY <1>2 DEF ToHash
    <3>2. QED  BY <1>2, <1>3, <1>5, <3>1 DEF Fire, At, GoTo, Steps, Timer
  <2>2. Covered(o)'
    BY <1>1, <2>1, StepFrame DEF Covered, Pending, Own, ToHash
  <2> HIDE DEF x
  <2>3. QED
    BY <1>1, <2>1, <2>2, QuietStep DEF Fire, InBuild
<1>6. QED  BY <1>4, <1>5

\* A build that ends without a new output: its table is left without a builder.
LEMMA LastBuilderLeaves ==
    ASSUME Inv, NEW i \in DOMAIN timers, NEW x, Steps(i, x), NEW o, o = Own(i),
           x.pc \notin InBuild, \A j \in Building(o) : j = i
    PROVE  Building(o)' = {}
<1>1. DOMAIN timers' = DOMAIN timers /\ timers'[i] = x
      /\ \A j \in DOMAIN timers : j # i => timers'[j] = timers[j]
  BY StepFrame
<1>2. QED  BY <1>1 DEF Building, InBuild

\* A build that fails leaves its table among the failed ones.
LEMMA BuildFailsInv ==
    ASSUME Inv, NEW i \in DOMAIN timers, timers[i].pc \in InBuild, BuildFails(i)
    PROVE  Inv'
<1>1. PICK o : o = Own(i)
  OBVIOUS
<1>2. Steps(i, Over) /\ Over.pc = "over"
  BY DEF BuildFails, End, Steps, Timer, Over, InBuild
<1>3. ASSUME Regular(o)
      PROVE  Covered(o)'
  <2>1. o \in Table /\ i \in Building(o)
    BY <1>1, TimerFields DEF InBuild, Building, Own, Inv
  <2>2. Building(o)' = {}
    BY <1>1, <1>2, <1>3, <2>1, LastBuilderLeaves DEF Inv, OneBuilder, InBuild
  <2>3. o \in failed'
    BY <1>1 DEF BuildFails
  <2>4. QED  BY <2>2, <2>3 DEF Covered
<1>4. QED
  BY <1>1, <1>2, <1>3, QuietStep DEF BuildFails, InBuild

\* The key is the sources: a hit means that the output beside the entry, which lies
\* between the two, is made from them; a miss begins a build.
LEMMA HashInv ==
    ASSUME Inv, NEW i \in DOMAIN timers, Hash(i)
    PROVE  Inv'
<1>1. PICK o : o = Own(i)
  OBVIOUS
<1>2. /\ timers[i] \in [path : File, pc : ToHash] /\ timers[i].pc = "hashing"
      /\ o \in Table
  BY <1>1, TimerFields DEF Hash, At, ToHash, Inv
<1> DEFINE hit == o \in DOMAIN entries /\ entries[o] = Sources(o)
<1>3. /\ failed' = IF Missing(o) THEN failed \cup {o} ELSE IF hit THEN failed \ {o} ELSE failed
      /\ overlapped' = IF Building(o) = {} THEN overlapped ELSE overlapped \cup {o}
      /\ UNCHANGED <<session, registered, outs, entries>>
      /\ IF Missing(o) \/ hit
         THEN End(i)
         ELSE timers' = [timers EXCEPT ![i] =
                            [path |-> timers[i].path, pc |-> "parsing", key |-> Sources(o)]]
  BY <1>1 DEF Hash, Own
<1>4. ASSUME Regular(o)'
      PROVE  Regular(o) /\ Building(o) = {}
  BY <1>3, <1>4 DEF Regular, session
<1>5. CASE Missing(o) \/ hit
  <2>1. Steps(i, Over) /\ Over.pc = "over"
    BY <1>2, <1>3, <1>5 DEF End, Steps, Timer, Over
  <2>2. TypeOK' /\ Dated' /\ RegisteredOwn'
    BY <2>1, StepFrame
  <2>3. OneBuilder' /\ BuildersInOrder' /\ EntriesInOrder'
    <3>1. \A j : j \in DOMAIN timers' /\ timers'[j].pc \in InBuild =>
                     j \in DOMAIN timers /\ timers'[j] = timers[j]
      BY <2>1, StepFrame DEF InBuild
    <3>2. \A t \in Table : Regular(t)' => \A k : Was(t, k) => Was(t, k)'
      BY <2>1, StepFrame
    <3>3. reverted \subseteq reverted' /\ overlapped \subseteq overlapped'
      BY <1>3 DEF session
    <3>4. QED  BY <1>3, <3>1, <3>2, <3>3, OrderKept
  <2>4. AllCovered'
    <3> SUFFICES ASSUME watching', NEW t \in Table, Regular(t)' PROVE Covered(t)'
      BY DEF AllCovered
    <3>1. watching /\ Regular(t) /\ Covered(t)
      BY <1>3 DEF session, Regular, Inv, AllCovered
    <3>2. CASE t # o
      BY <1>1, <1>3, <2>1, <3>1, <3>2, OthersCovered
    <3>3. CASE t = o /\ Missing(o)
      BY <2>1, <3>3, StepFrame DEF Covered
    <3>4. CASE t = o /\ ~Missing(o)
      <4>1. hit
        BY <1>5, <3>4
      <4>2. o \in DOMAIN outs /\ outs[o] = Sources(o)
        <5>1. /\ o \in DOMAIN outs /\ Was(o, outs[o]) /\ Older(o, entries[o], outs[o])
          BY <1>2, <3>1, <3>4, <4>1 DEF Inv, EntriesInOrder
        <5>2. QED  BY <1>2, <3>4, <4>1, <5>1, Squeeze DEF Inv
      <4>3. Building(o)' = {}
        BY <1>1, <1>4, <2>1, <3>4, LastBuilderLeaves DEF InBuild
      <4>4. outs' = outs /\ Sources(o)' = Sources(o)
        BY <1>3, <2>1, StepFrame
      <4>5. QED  BY <3>4, <4>2, <4>3, <4>4 DEF Covered
    <3>5. QED  BY <3>2, <3>3, <3>4
  <2>5. QED  BY <2>2, <2>3, <2>4 DEF Inv
<1>6. CASE ~(Missing(o) \/ hit)
  <2> DEFINE x == [path |-> timers[i].path, pc |-> "parsing", key |-> Sources(o)]
  <2>1. /\ Sources(o) \in Key(o) /\ Was(o, Sources(o))
        /\ \A k : Was(o, k) => Older(o, k, Sources(o))
    BY <1>2, <1>6, SourcesAreKey DEF Inv
  <2>2. Steps(i, x) /\ x.pc = "parsing" /\ x.key = Sources(o) /\ x.path = timers[i].path
    <3>1. x \in Timer
      BY <1>2, <2>1 DEF Timer, Keys
    <3>2. timers' = [timers EXCEPT ![i] = x]
      BY <1>3, <1>6
    <3>3. QED  BY <1>2, <1>3, <3>1, <3>2 DEF Steps
  <2> HIDE DEF x
  <2>3. /\ TypeOK' /\ Dated' /\ RegisteredOwn'
        /\ DOMAIN timers' = DOMAIN timers /\ timers'[i] = x
        /\ \A j \in DOMAIN timers : j # i => timers'[j] = timers[j]
        /\ \A t, k : Was(t, k) => Was(t, k)'
        /\ Sources(o)' = Sources(o)
    BY <2>2, StepFrame
  <2>4. /\ \A j : j \in Building(o)' => j = i \/ j \in Building(o)
        /\ i \in Building(o)'
    BY <1>1, <1>2, <2>2, <2>3 DEF Building, Own, InBuild
  <2>5. \A t : t # o => \A j : j \in Building(t)' => j \in Building(t) /\ timers'[j] = timers[j]
    BY <1>1, <2>2, <2>3 DEF Building, Own
  <2>6. \A t : Regular(t)' => Regular(t)
    BY <1>3 DEF Regular, session
  <2>7. OneBuilder'
    <3> SUFFICES ASSUME NEW t \in Table, Regular(t)', NEW j \in Building(t)', NEW l \in Building(t)'
                 PROVE  j = l
      BY DEF OneBuilder
    <3>1. CASE t = o
      BY <1>4, <2>4, <3>1
    <3>2. CASE t # o
      BY <2>5, <2>6, <3>2 DEF Inv, OneBuilder
    <3>3. QED  BY <3>1, <3>2
  <2>8. BuildersInOrder'
    <3> SUFFICES ASSUME NEW t \in Table, Regular(t)', NEW j \in Building(t)'
                 PROVE  BuilderInOrder(t, j)'
      BY DEF BuildersInOrder
    <3>1. CASE t = o
      <4>1. j = i /\ Regular(o)
        BY <1>4, <2>4, <3>1
      <4>2. timers'[j].key = Sources(o) /\ timers'[j].pc = "parsing"
        BY <2>2, <2>3, <4>1
      <4>3. o \in DOMAIN entries => Was(o, entries[o])
        BY <1>2, <4>1 DEF Inv, EntriesInOrder
      <4>4. Was(o, Sources(o)) /\ (o \in DOMAIN entries => Older(o, entries[o], Sources(o)))
        BY <2>1, <4>3
      <4>5. PICK s : s = Sources(o)
        OBVIOUS
      <4>6. Was(o, s)'
        BY <2>3, <4>4, <4>5
      <4>7. QED
        BY <1>3, <3>1, <4>2, <4>4, <4>5, <4>6 DEF BuilderInOrder, Older, Was
    <3>2. CASE t # o
      <4>1. j \in Building(t) /\ timers'[j] = timers[j] /\ Regular(t)
        BY <2>5, <2>6, <3>2
      <4>2. BuilderInOrder(t, j)
        BY <4>1 DEF Inv, BuildersInOrder
      <4>3. QED
        BY <1>3, <4>1, <4>2 DEF BuilderInOrder, Was, Older, session
    <3>3. QED  BY <3>1, <3>2
  <2>9. EntriesInOrder'
    BY <1>3, <2>3, <2>6 DEF Inv, EntriesInOrder, Older
  <2>10. AllCovered'
    <3> SUFFICES ASSUME watching', NEW t \in Table, Regular(t)' PROVE Covered(t)'
      BY DEF AllCovered
    <3>1. watching /\ Regular(t) /\ Covered(t)
      BY <1>3, <2>6 DEF session, Inv, AllCovered
    <3>2. CASE t # o
      BY <1>1, <1>3, <2>2, <3>1, <3>2, OthersCovered
    <3>3. CASE t = o
      BY <2>2, <2>3, <2>4, <3>3 DEF Covered
    <3>4. QED  BY <3>2, <3>3
  <2>11. QED  BY <2>3, <2>7, <2>8, <2>9, <2>10 DEF Inv
<1>7. QED  BY <1>5, <1>6

\* A build goes on: its table has the same builders and, if it was covered, is
\* covered still.
LEMMA BuildGoesOn ==
    ASSUME Inv, NEW i \in DOMAIN timers, NEW x, Steps(i, x), NEW o, o = Own(i),
           timers[i].pc \in InBuild, x.pc \in InBuild, x.key = timers[i].key
    PROVE  /\ \A t : Building(t)' = Building(t)
           /\ Covered(o) => Covered(o)'
<1>1. /\ DOMAIN timers' = DOMAIN timers /\ timers'[i] = x
      /\ \A j \in DOMAIN timers : j # i => timers'[j] = timers[j]
      /\ Missing(o)' = Missing(o) /\ Sources(o)' = Sources(o)
  BY StepFrame
<1>2. x.path = timers[i].path
  BY DEF Steps, Over, InBuild
<1>3. \A t : Building(t)' = Building(t)
  BY <1>1, <1>2 DEF Building, InBuild
<1>4. i \in Building(o)
  BY DEF Building, InBuild, Own
<1>5. Pending(o) => Pending(o)'
  BY <1>1 DEF Pending, Steps, session, ToHash, InBuild
<1>6. ASSUME NEW j \in Building(o)
      PROVE  timers'[j].key = timers[j].key
  BY <1>1 DEF Building
<1>7. Covered(o) => Covered(o)'
  <2>1. Building(o) # {}
    BY <1>4
  <2>2. QED  BY <1>1, <1>3, <1>5, <1>6, <2>1 DEF Covered
<1>8. QED  BY <1>3, <1>7

\* What the reader reads is not older than the key.
LEMMA ParseInv ==
    ASSUME Inv, NEW i \in DOMAIN timers, Parse(i)
    PROVE  Inv'
<1>1. PICK o : o = Own(i)
  OBVIOUS
<1>2. /\ timers[i] \in [path : File, pc : {"parsing"}, key : Keys]
      /\ o \in Table /\ i \in Building(o)
  BY <1>1, TimerFields DEF Parse, At, Own, Building, InBuild, Inv
<1>3. /\ ~Missing(o)
      /\ UNCHANGED <<session, registered, outs, entries, unseen, overlapped, failed>>
  BY <1>1 DEF Parse
<1>4. /\ Sources(o) \in Key(o) /\ Was(o, Sources(o))
      /\ \A k : Was(o, k) => Older(o, k, Sources(o))
  BY <1>2, <1>3, SourcesAreKey DEF Inv
<1> DEFINE x == [path |-> timers[i].path, pc |-> "emitting", key |-> timers[i].key,
                 ir |-> Sources(o)]
<1>5. Steps(i, x) /\ x.pc = "emitting" /\ x.key = timers[i].key /\ x.ir = Sources(o)
  <2>1. x \in Timer
    BY <1>2, <1>4 DEF Timer, Keys
  <2>2. timers' = [timers EXCEPT ![i] = x]
    BY <1>1 DEF Parse
  <2>3. QED  BY <1>2, <1>3, <2>1, <2>2 DEF Steps
<1> HIDE DEF x
<1>6. /\ TypeOK' /\ Dated' /\ RegisteredOwn'
      /\ DOMAIN timers' = DOMAIN timers /\ timers'[i] = x
      /\ \A j \in DOMAIN timers : j # i => timers'[j] = timers[j]
      /\ \A t, k : Was(t, k) => Was(t, k)'
  BY <1>5, StepFrame
<1>7. /\ \A t : Building(t)' = Building(t)
      /\ Covered(o) => Covered(o)'
  BY <1>1, <1>2, <1>5, BuildGoesOn DEF InBuild
<1>8. \A t : Regular(t)' = Regular(t)
  BY <1>3 DEF Regular, session
<1>9. OneBuilder'
  BY <1>7, <1>8 DEF Inv, OneBuilder
<1>10. BuildersInOrder'
  <2> SUFFICES ASSUME NEW t \in Table, Regular(t), NEW j \in Building(t)
               PROVE  BuilderInOrder(t, j)'
    BY <1>7, <1>8 DEF BuildersInOrder
  <2>1. BuilderInOrder(t, j)
    BY DEF Inv, BuildersInOrder
  <2>2. CASE j = i
    <3>1. t = o
      BY <1>1, <2>2 DEF Building, Own
    <3>2. PICK s, k : s = Sources(o) /\ k = timers[i].key
      OBVIOUS
    <3>3. Was(o, s)' /\ Was(o, k)' /\ Older(o, k, s)
      BY <1>4, <1>6, <2>1, <2>2, <3>1, <3>2 DEF BuilderInOrder
    <3>4. timers'[j].key = k /\ timers'[j].ir = s /\ timers'[j].pc = "emitting"
      BY <1>5, <1>6, <2>2, <3>2
    <3>5. t \in DOMAIN entries' => Older(t, entries'[t], k)
      BY <1>3, <2>1, <2>2, <3>2 DEF BuilderInOrder
    <3>6. QED
      BY <3>1, <3>3, <3>4, <3>5 DEF BuilderInOrder, Older, Was
  <2>3. CASE j # i
    BY <1>3, <1>6, <2>1, <2>3 DEF BuilderInOrder, Was, Older, session, Building
  <2>4. QED  BY <2>2, <2>3
<1>11. EntriesInOrder'
  BY <1>3, <1>6, <1>8 DEF Inv, EntriesInOrder, Older
<1>12. AllCovered'
  <2> SUFFICES ASSUME watching', NEW t \in Table, Regular(t)' PROVE Covered(t)'
    BY DEF AllCovered
  <2>1. Covered(t)
    BY <1>3, <1>8 DEF session, Inv, AllCovered
  <2>2. CASE t # o
    BY <1>1, <1>3, <1>5, <2>1, <2>2, OthersCovered
  <2>3. QED  BY <1>7, <2>1, <2>2
<1>13. QED  BY <1>6, <1>9, <1>10, <1>11, <1>12 DEF Inv

\* Being older is transitive.
LEMMA OlderOlder ==
    ASSUME NEW t, NEW k, NEW l, NEW m, Was(t, k), Was(t, l), Was(t, m),
           Older(t, k, l), Older(t, l, m)
    PROVE  Older(t, k, m)
<1>1. \A f \in Members(t) : k[f] \in Nat /\ l[f] \in Nat /\ m[f] \in Nat
  BY ContentInt DEF Was, Key
<1>2. QED  BY <1>1 DEF Older

\* The output that replaces the old one is newer than the entry beside it.
LEMMA EmitInv ==
    ASSUME Inv, NEW i \in DOMAIN timers, Emit(i)
    PROVE  Inv'
<1>1. PICK o : o = Own(i)
  OBVIOUS
<1>2. /\ timers[i] \in [path : File, pc : {"emitting", "recording"}, key : Keys, ir : Keys]
      /\ timers[i].pc = "emitting"
      /\ o \in Table /\ i \in Building(o)
  BY <1>1, TimerFields DEF Emit, At, Own, Building, InBuild, Inv
<1>3. /\ UNCHANGED <<session, registered, entries, unseen, overlapped, failed>>
      /\ outs' = Put(outs, o, timers[i].ir)
  BY <1>1 DEF Emit
<1>4. /\ DOMAIN outs' = DOMAIN outs \cup {o}
      /\ outs'[o] = timers[i].ir
      /\ \A t \in DOMAIN outs : t # o => outs'[t] = outs[t]
  BY <1>3 DEF Put
<1> DEFINE x == [timers[i] EXCEPT !.pc = "recording"]
<1>5. /\ Steps(i, x) /\ x.pc = "recording"
      /\ x.key = timers[i].key /\ x.ir = timers[i].ir
  <2>1. x \in Timer /\ x.path = timers[i].path
    BY <1>2 DEF Timer
  <2>2. timers' = [timers EXCEPT ![i] = x]
    BY DEF Emit, GoTo
  <2>3. QED  BY <1>2, <1>3, <2>1, <2>2 DEF Steps
<1> HIDE DEF x
<1>6. /\ TypeOK' /\ Dated' /\ RegisteredOwn'
      /\ DOMAIN timers' = DOMAIN timers /\ timers'[i] = x
      /\ \A j \in DOMAIN timers : j # i => timers'[j] = timers[j]
      /\ \A t, k : Was(t, k) => Was(t, k)'
  BY <1>5, StepFrame
<1>7. /\ \A t : Building(t)' = Building(t)
      /\ Covered(o) => Covered(o)'
  BY <1>1, <1>2, <1>5, BuildGoesOn DEF InBuild
<1>8. \A t : Regular(t)' = Regular(t)
  BY <1>3 DEF Regular, session
<1>9. OneBuilder'
  BY <1>7, <1>8 DEF Inv, OneBuilder
<1>10. BuildersInOrder'
  <2> SUFFICES ASSUME NEW t \in Table, Regular(t), NEW j \in Building(t)
               PROVE  BuilderInOrder(t, j)'
    BY <1>7, <1>8 DEF BuildersInOrder
  <2>1. BuilderInOrder(t, j)
    BY DEF Inv, BuildersInOrder
  <2>2. CASE j = i
    BY <1>1, <1>2, <1>3, <1>4, <1>5, <1>6, <2>1, <2>2
    DEF BuilderInOrder, Was, Older, session, Building, Own
  <2>3. CASE j # i
    <3>1. t # o
      BY <1>2, <2>3 DEF Inv, OneBuilder
    <3>2. QED
      BY <1>3, <1>4, <1>6, <2>1, <2>3, <3>1
      DEF BuilderInOrder, Was, Older, session, Building
  <2>4. QED  BY <2>2, <2>3
<1>11. EntriesInOrder'
  <2> SUFFICES ASSUME NEW t \in Table, Regular(t), t \in DOMAIN entries
               PROVE  /\ t \in DOMAIN outs'
                      /\ Was(t, entries[t])' /\ Was(t, outs[t])'
                      /\ Older(t, entries'[t], outs'[t])
    BY <1>3, <1>8 DEF EntriesInOrder, Older
  <2>1. /\ t \in DOMAIN outs /\ Was(t, entries[t]) /\ Was(t, outs[t])
        /\ Older(t, entries[t], outs[t])
    BY DEF Inv, EntriesInOrder
  <2>2. CASE t = o
    <3>1. BuilderInOrder(o, i)
      BY <1>2, <2>2 DEF Inv, BuildersInOrder
    <3>2. Was(o, timers[i].ir) /\ Older(o, entries[o], timers[i].ir)
      BY <1>2, <2>1, <2>2, <3>1, OlderOlder DEF BuilderInOrder
    <3>3. PICK k : k = timers[i].ir
      OBVIOUS
    <3>4. Was(o, k)' /\ outs'[o] = k
      BY <1>4, <1>6, <3>2, <3>3
    <3>5. QED
      BY <1>3, <1>4, <1>6, <2>1, <2>2, <3>2, <3>3, <3>4 DEF Was, Older
  <2>3. CASE t # o
    BY <1>3, <1>4, <1>6, <2>1, <2>3 DEF Was, session
  <2>4. QED  BY <2>2, <2>3
<1>12. AllCovered'
  <2> SUFFICES ASSUME watching', NEW t \in Table, Regular(t)' PROVE Covered(t)'
    BY DEF AllCovered
  <2>1. Covered(t)
    BY <1>3, <1>8 DEF session, Inv, AllCovered
  <2>2. CASE t # o
    BY <1>1, <1>3, <1>4, <1>5, <2>1, <2>2, OthersCovered
  <2>3. QED  BY <1>7, <2>1, <2>2
<1>13. QED  BY <1>6, <1>9, <1>10, <1>11, <1>12 DEF Inv

\* The entry is older than the output; if it is current, so is the output.
LEMMA RecordInv ==
    ASSUME Inv, NEW i \in DOMAIN timers, Record(i)
    PROVE  Inv'
<1>1. PICK o : o = Own(i)
  OBVIOUS
<1>2. /\ timers[i] \in [path : File, pc : {"emitting", "recording"}, key : Keys, ir : Keys]
      /\ timers[i].pc = "recording"
      /\ o \in Table /\ i \in Building(o)
  BY <1>1, TimerFields DEF Record, At, Own, Building, InBuild, Inv
<1>3. /\ UNCHANGED <<session, registered, outs, unseen, overlapped>>
      /\ entries' = Put(entries, o, timers[i].key)
      /\ failed' = failed \ {o}
  BY <1>1 DEF Record, KeyOf
<1>4. /\ DOMAIN entries' = DOMAIN entries \cup {o}
      /\ entries'[o] = timers[i].key
      /\ \A t \in DOMAIN entries : t # o => entries'[t] = entries[t]
  BY <1>3 DEF Put
<1>5. Steps(i, Over) /\ Over.pc = "over"
  BY <1>2, <1>3 DEF Record, End, Steps, Timer, Over
<1>6. /\ TypeOK' /\ Dated' /\ RegisteredOwn'
      /\ DOMAIN timers' = DOMAIN timers /\ timers'[i] = Over
      /\ \A j \in DOMAIN timers : j # i => timers'[j] = timers[j]
      /\ \A t, k : Was(t, k) => Was(t, k)'
      /\ \A t : Missing(t)' = Missing(t) /\ Sources(t)' = Sources(t)
  BY <1>5, StepFrame
<1>7. \A t, j : j \in Building(t)' => j \in Building(t) /\ j # i /\ timers'[j] = timers[j]
  BY <1>5, <1>6 DEF Building
<1>8. \A t : Regular(t)' = Regular(t)
  BY <1>3 DEF Regular, session
<1>9. OneBuilder'
  BY <1>7, <1>8 DEF Inv, OneBuilder
<1>10. BuildersInOrder'
  <2> SUFFICES ASSUME NEW t \in Table, Regular(t), NEW j \in Building(t)'
               PROVE  BuilderInOrder(t, j)'
    BY <1>8 DEF BuildersInOrder
  <2>1. j \in Building(t) /\ j # i /\ timers'[j] = timers[j] /\ BuilderInOrder(t, j)
    BY <1>7 DEF Inv, BuildersInOrder
  <2>2. t # o
    BY <1>2, <2>1 DEF Inv, OneBuilder
  <2>3. QED
    BY <1>3, <1>4, <2>1, <2>2 DEF BuilderInOrder, Was, Older, session
<1>11. ASSUME Regular(o)
       PROVE  BuilderInOrder(o, i) /\ Building(o)' = {}
  <2>1. BuilderInOrder(o, i)
    BY <1>2, <1>11 DEF Inv, BuildersInOrder
  <2>2. Building(o)' = {}
    BY <1>1, <1>2, <1>5, <1>11, LastBuilderLeaves DEF Inv, OneBuilder, InBuild
  <2>3. QED  BY <2>1, <2>2
<1>12. EntriesInOrder'
  <2> SUFFICES ASSUME NEW t \in Table, Regular(t), t \in DOMAIN entries'
               PROVE  /\ t \in DOMAIN outs
                      /\ Was(t, entries[t])' /\ Was(t, outs[t])'
                      /\ Older(t, entries'[t], outs[t])
    BY <1>3, <1>8 DEF EntriesInOrder, Older
  <2>1. CASE t = o
    <3>1. BuilderInOrder(o, i)
      BY <1>11, <2>1
    <3>2. /\ o \in DOMAIN outs /\ outs[o] = timers[i].ir
          /\ Was(o, timers[i].key) /\ Was(o, outs[o]) /\ Older(o, timers[i].key, outs[o])
      BY <1>2, <3>1 DEF BuilderInOrder
    <3>3. QED
      BY <1>3, <1>4, <2>1, <3>2 DEF Was, session
  <2>2. CASE t # o
    <3>1. t \in DOMAIN entries
      BY <1>4, <2>2
    <3>2. /\ t \in DOMAIN outs /\ Was(t, entries[t]) /\ Was(t, outs[t])
          /\ Older(t, entries[t], outs[t])
      BY <3>1 DEF Inv, EntriesInOrder
    <3>3. QED
      BY <1>3, <1>4, <2>2, <3>1, <3>2 DEF Was, session
  <2>3. QED  BY <2>1, <2>2
<1>13. AllCovered'
  <2> SUFFICES ASSUME watching', NEW t \in Table, Regular(t)' PROVE Covered(t)'
    BY DEF AllCovered
  <2>1. watching /\ Covered(t)
    BY <1>3, <1>8 DEF session, Inv, AllCovered
  <2>2. CASE t # o
    BY <1>1, <1>3, <1>5, <2>1, <2>2, OthersCovered
  <2>3. CASE t = o
    <3>1. CASE Missing(o)
      BY <1>6, <2>3, <3>1 DEF Covered
    <3>2. CASE Pending(o)
      <4>1. Pending(o)'
        BY <1>2, <1>3, <1>6, <3>2 DEF Pending, session, ToHash
      <4>2. QED  BY <2>3, <4>1 DEF Covered
    <3>3. CASE ~Missing(o) /\ ~Pending(o)
      <4>1. BuilderInOrder(o, i) /\ Building(o)' = {} /\ \A j \in Building(o) : j = i
        BY <1>2, <1>8, <1>11, <2>3 DEF Inv, OneBuilder
      <4>2. timers[i].key = Sources(o)
        BY <1>2, <2>1, <2>3, <3>3, <4>1 DEF Covered
      <4>3. o \in DOMAIN outs /\ outs[o] = Sources(o)
        BY <1>2, <3>3, <4>1, <4>2, Squeeze DEF BuilderInOrder, Inv
      <4>4. QED  BY <1>3, <1>6, <2>3, <4>1, <4>3 DEF Covered
    <3>4. QED  BY <3>1, <3>2, <3>3
  <2>4. QED  BY <2>2, <2>3
<1>14. QED  BY <1>6, <1>9, <1>10, <1>12, <1>13 DEF Inv

-----------------------------------------------------------------------------
(* The observer hands over an event.                                       *)

\* The timers after a dispatch: those that were there, the file's timer perhaps
\* cancelled, and the new one.
LEMMA Scheduled ==
    ASSUME TypeOK, RegisteredOwn, NEW f \in File, Schedule(f)
    PROVE  /\ timers' \in Seq(Timer)
           /\ DOMAIN timers' = DOMAIN timers \cup {Len(timers) + 1}
           /\ timers'[Len(timers) + 1] = Armed(f)
           /\ \A j \in DOMAIN timers :
                  \/ timers'[j] = timers[j]
                  \/ timers'[j] = Over /\ timers[j].pc = "armed" /\ timers[j].path = f
           /\ DOMAIN registered' = DOMAIN registered \cup {f}
           /\ registered'[f] = Len(timers) + 1
           /\ \A g \in DOMAIN registered \ {f} : registered'[g] = registered[g]
<1> DEFINE before == IF f \in DOMAIN registered THEN Cancelled(registered[f]) ELSE timers
<1>1. timers' = Append(before, Armed(f)) /\ registered' = Put(registered, f, Len(timers) + 1)
  BY DEF Schedule
<1>2. /\ before \in Seq(Timer) /\ Len(before) = Len(timers)
      /\ \A j \in DOMAIN timers :
             \/ before[j] = timers[j]
             \/ before[j] = Over /\ timers[j].pc = "armed" /\ timers[j].path = f
  <2>1. CASE f \in DOMAIN registered
    <3>1. PICK i : i = registered[f]
      OBVIOUS
    <3>2. i \in DOMAIN timers /\ (timers[i] = Over \/ timers[i].path = f)
      BY <2>1, <3>1 DEF RegisteredOwn
    <3>3. before = [timers EXCEPT ![i] = IF timers[i].pc = "armed" THEN Over ELSE timers[i]]
      BY <2>1, <3>1 DEF Cancelled
    <3>4. Over \in Timer /\ Over.pc = "over"
      BY DEF Timer, Over
    <3>5. QED  BY <3>2, <3>3, <3>4 DEF TypeOK
  <2>2. CASE f \notin DOMAIN registered
    BY <2>2 DEF TypeOK
  <2>3. QED  BY <2>1, <2>2
<1>3. Armed(f) \in Timer
  BY DEF Armed, Timer, ToHash
<1> HIDE DEF before
<1>4. /\ timers' \in Seq(Timer)
      /\ DOMAIN timers' = DOMAIN timers \cup {Len(timers) + 1}
      /\ timers'[Len(timers) + 1] = Armed(f)
      /\ \A j \in DOMAIN timers : timers'[j] = before[j]
  BY <1>1, <1>2, <1>3 DEF TypeOK
<1>5. /\ DOMAIN registered' = DOMAIN registered \cup {f}
      /\ registered'[f] = Len(timers) + 1
      /\ \A g \in DOMAIN registered \ {f} : registered'[g] = registered[g]
  BY <1>1 DEF Put
<1>6. QED  BY <1>2, <1>4, <1>5

\* The event of a file becomes a timer of it, in the place of the one that waited.
LEMMA DispatchInv ==
    ASSUME Inv, Dispatch
    PROVE  Inv'
<1>1. /\ events \in Seq(File) /\ events # <<>>
      /\ events' = Tail(events)
      /\ UNCHANGED <<source, changes, watching, outs, entries, overlapped, reverted, failed>>
  BY DEF Dispatch, Inv, TypeOK
<1>2. PICK f \in File : f = Head(events)
  BY <1>1
<1>3. /\ events' \in Seq(File) /\ f = events[1]
      /\ \A n \in DOMAIN events : n # 1 =>
             n - 1 \in DOMAIN events' /\ events'[n - 1] = events[n]
  BY <1>1, <1>2
<1>4. \A t, k : Was(t, k) => Was(t, k)'
  BY <1>1 DEF Was
<1>5. \A t : /\ Missing(t)' = Missing(t) /\ Sources(t)' = Sources(t)
             /\ Regular(t)' = Regular(t)
  BY <1>1 DEF Missing, Sources, Regular
<1>6. CASE source[f] = Gone
  <2>1. UNCHANGED <<timers, registered>>
    BY <1>2, <1>6 DEF Dispatch
  <2>2. TypeOK' /\ Dated' /\ RegisteredOwn'
    BY <1>1, <1>3, <2>1 DEF Inv, TypeOK, Dated, RegisteredOwn
  <2>3. OneBuilder' /\ BuildersInOrder' /\ EntriesInOrder'
    BY <1>1, <1>4, <2>1, OrderKept
  <2>4. AllCovered'
    <3> SUFFICES ASSUME watching', NEW t \in Table, Regular(t)' PROVE Covered(t)'
      BY DEF AllCovered
    <3>1. Covered(t)
      BY <1>1, <1>5 DEF Inv, AllCovered
    <3>2. CASE TableOf[f] = t
      BY <1>5, <1>6, <3>2 DEF Covered, Missing, Members
    <3>3. CASE TableOf[f] # t
      <4>1. Pending(t) => Pending(t)'
        BY <1>3, <2>1, <3>3 DEF Pending
      <4>2. Building(t)' = Building(t)
        BY <2>1 DEF Building
      <4>3. QED  BY <1>1, <1>5, <2>1, <3>1, <4>1, <4>2 DEF Covered
    <3>4. QED  BY <3>2, <3>3
  <2>5. QED  BY <2>2, <2>3, <2>4 DEF Inv
<1>7. CASE source[f] # Gone
  <2>1. Schedule(f)
    BY <1>2, <1>7 DEF Dispatch
  <2>2. PICK new : new = Len(timers) + 1
    OBVIOUS
  <2>3. /\ timers' \in Seq(Timer)
        /\ DOMAIN timers' = DOMAIN timers \cup {new}
        /\ timers'[new] = Armed(f)
        /\ \A j \in DOMAIN timers :
               \/ timers'[j] = timers[j]
               \/ timers'[j] = Over /\ timers[j].pc = "armed" /\ timers[j].path = f
        /\ DOMAIN registered' = DOMAIN registered \cup {f}
        /\ registered'[f] = new
        /\ \A g \in DOMAIN registered \ {f} : registered'[g] = registered[g]
    BY <2>1, <2>2, Scheduled DEF Inv
  <2>4. new \notin DOMAIN timers
    BY <2>2 DEF Inv, TypeOK
  <2>5. TypeOK' /\ Dated'
    BY <1>1, <1>3, <2>3 DEF Inv, TypeOK, Dated
  <2>6. RegisteredOwn'
    <3> SUFFICES ASSUME NEW g \in DOMAIN registered'
                 PROVE  /\ registered'[g] \in DOMAIN timers'
                        /\ timers'[registered'[g]] = Over \/ timers'[registered'[g]].path = g
      BY DEF RegisteredOwn
    <3>1. CASE g = f
      BY <2>3, <3>1 DEF Armed
    <3>2. CASE g # f
      <4>1. PICK r : r = registered[g]
        OBVIOUS
      <4>2. registered'[g] = r /\ r \in DOMAIN timers /\ (timers[r] = Over \/ timers[r].path = g)
        BY <2>3, <3>2, <4>1 DEF Inv, RegisteredOwn
      <4>3. QED  BY <2>3, <4>2
    <3>3. QED  BY <3>1, <3>2
  <2>7. \A j : j \in DOMAIN timers' /\ timers'[j].pc \in InBuild =>
                   j \in DOMAIN timers /\ timers'[j] = timers[j]
    BY <2>3 DEF Armed, Over, InBuild
  <2>8. OneBuilder' /\ BuildersInOrder' /\ EntriesInOrder'
    BY <1>1, <1>4, <2>7, OrderKept
  <2>9. AllCovered'
    <3> SUFFICES ASSUME watching', NEW t \in Table, Regular(t)' PROVE Covered(t)'
      BY DEF AllCovered
    <3>1. Covered(t)
      BY <1>1, <1>5 DEF Inv, AllCovered
    <3>2. CASE TableOf[f] = t
      BY <2>3, <3>2 DEF Covered, Pending, Armed, ToHash
    <3>3. CASE TableOf[f] # t
      <4>1. Pending(t) => Pending(t)'
        BY <1>3, <2>3, <3>3 DEF Pending
      <4>2. /\ Building(t)' = Building(t)
            /\ \A j \in Building(t) : timers'[j] = timers[j]
        BY <2>3, <2>7 DEF Building, InBuild
      <4>3. QED  BY <1>1, <1>5, <3>1, <4>1, <4>2 DEF Covered
    <3>4. QED  BY <3>2, <3>3
  <2>10. QED  BY <2>5, <2>6, <2>8, <2>9 DEF Inv
<1>8. QED  BY <1>6, <1>7

-----------------------------------------------------------------------------
(* The theorem.                                                            *)

\* Every step keeps the invariant.
LEMMA NextInv == Inv /\ [Next]_vars => Inv'
<1> SUFFICES ASSUME Inv, [Next]_vars PROVE Inv'
  OBVIOUS
<1>1. ASSUME NEW f \in File, NEW c \in Content, Save(f, c) PROVE Inv'
  BY <1>1, SaveInv
<1>2. ASSUME NEW f \in File, Delete(f) PROVE Inv'
  BY <1>2, DeleteInv
<1>3. CASE Interrupt
  BY <1>3, InterruptInv
<1>4. CASE Dispatch
  BY <1>4, DispatchInv
<1>5. ASSUME NEW i \in DOMAIN timers, Run(i)
      PROVE  Inv'
  <2>1. CASE Expire(i)
    BY <2>1, ExpireInv
  <2>2. CASE Fire(i)
    BY <2>2, FireInv
  <2>3. CASE Hash(i)
    BY <2>3, HashInv
  <2>4. CASE Parse(i)
    BY <2>4, ParseInv
  <2>5. CASE ParseFails(i)
    BY <2>5, BuildFailsInv DEF ParseFails, At, InBuild
  <2>6. CASE Emit(i)
    BY <2>6, EmitInv
  <2>7. CASE EmitFails(i)
    BY <2>7, BuildFailsInv DEF EmitFails, At, InBuild
  <2>8. CASE Record(i)
    BY <2>8, RecordInv
  <2>9. QED
    BY <1>5, <2>1, <2>2, <2>3, <2>4, <2>5, <2>6, <2>7, <2>8 DEF Run
<1>6. CASE UNCHANGED vars
  <2>1. UNCHANGED <<source, changes, watching, events, registered, timers, outs, entries,
                    overlapped, reverted, failed>>
    BY <1>6 DEF vars
  <2>2. TypeOK' /\ Dated' /\ RegisteredOwn'
    BY <2>1 DEF Inv, TypeOK, Dated, RegisteredOwn
  <2>3. OneBuilder' /\ BuildersInOrder' /\ EntriesInOrder'
    <3>1. \A t, k : Was(t, k) => Was(t, k)'
      BY <2>1 DEF Was
    <3>2. QED  BY <2>1, <3>1, OrderKept
  <2>4. AllCovered'
    BY <2>1 DEF Inv, AllCovered, Covered, Regular, Missing, Pending, Building, Sources
  <2>5. QED  BY <2>2, <2>3, <2>4 DEF Inv
<1>7. QED  BY <1>1, <1>2, <1>3, <1>4, <1>5, <1>6 DEF Next

\* While the watch runs, no timer and no event is left behind without the outputs
\* of every table being those of its sources (_schedule, _fire and on_change, the
\* build of a timer thread, the cache it shares with the others), for any number
\* of files and of changes: unless two builds of the table ran at once, a file of
\* it went back to an older content, or its last build failed.
THEOREM QuietTablesAreCurrent == Spec => []QuietIsCurrent
<1>1. Inv => QuietIsCurrent
  <2> SUFFICES ASSUME Inv, Quiet, NEW t \in Table \ (overlapped \cup reverted \cup failed),
                      ~Missing(t)
               PROVE  t \in DOMAIN outs /\ outs[t] = Sources(t)
    BY DEF QuietIsCurrent
  <2>1. Covered(t)
    BY DEF Inv, AllCovered, Regular, Quiet
  <2>2. ~Pending(t) /\ Building(t) = {}
    BY DEF Quiet, Pending, Building, Over, ToHash
  <2>3. QED  BY <2>1, <2>2 DEF Covered
<1>2. QED
  BY <1>1, InitInv, NextInv, PTL DEF Spec
=============================================================================
