-------------------------------- MODULE Watch --------------------------------
(***************************************************************************)
(* The live part of 'pld watch' (src/payload/watch.py and the on_change of *)
(* cli.py): file events, one debounce timer per file, and the builds that  *)
(* the timer threads run, several at once, over one in-memory cache.       *)
(*                                                                         *)
(* A timer is a thread: it waits, takes itself out of _timers and, if its  *)
(* file is there, builds the file's table.  Timers are numbered in the     *)
(* order they are started.                                                 *)
(***************************************************************************)
EXTENDS Naturals, Sequences, FiniteSets, Maps

CONSTANTS
    File,       \* the source files
    TableOf,    \* the table of a file; the members of a batch table share it
    Gone,       \* no file
    Faults,     \* may stages fail? {} or {"stage"}
    MaxChanges  \* bound: saves and deletions while it watches

ASSUME BoundIsNat == MaxChanges \in Nat

\* The content of a file is the number of the change that first wrote it.
Content == 0..MaxChanges

ASSUME GoneIsNoContent == Gone \notin Content

Table == {TableOf[f] : f \in File}
Members(t) == {f \in File : TableOf[f] = t}

VARIABLES
    source,     \* file -> content or Gone
    changes,    \* number of saves and deletions so far
    watching,   \* FALSE once Ctrl+C has stopped the observer
    events,     \* the observer's queue of files
    registered, \* _timers: file -> timer
    timers,     \* all timers: their file, where they are and what they read
    outs,       \* table -> what its output was made from
    entries,    \* the cache: table -> what its key was computed from
    unseen,     \* history: files saved since their table was last hashed
    overlapped, \* history: tables built, or found in the cache, while a build
                \* of them was under way
    reverted,   \* history: tables a file of which went back to an older content
    failed      \* history: tables whose last build to end failed

vars == <<source, changes, watching, events, registered, timers, outs, entries,
          unseen, overlapped, reverted, failed>>
session == <<changes, watching, events, source, reverted>>

Sources(t) == [f \in Members(t) |-> source[f]]
Missing(t) == \E f \in Members(t) : source[f] = Gone

\* The initial build has built every table or, when it fails, none.
Init ==
    /\ source = [f \in File |-> 0]
    /\ changes = 0 /\ watching = TRUE /\ events = <<>>
    /\ registered = EmptyMap /\ timers = <<>>
    /\ \/ outs = [t \in Table |-> Sources(t)] /\ failed = {}
       \/ outs = EmptyMap /\ failed = Table
    /\ entries = outs
    /\ unseen = {} /\ overlapped = {} /\ reverted = {}

-----------------------------------------------------------------------------
(* The user and the observer.                                              *)

\* The observer's queue skips an event equal to the last one.
Notify(f) ==
    IF events # <<>> /\ events[Len(events)] = f THEN events ELSE Append(events, f)

\* A save of something new or of what was there at the start, and may still be.
Save(f, c) ==
    /\ watching /\ changes < MaxChanges
    /\ c \in {changes + 1, 0}
    /\ reverted' = IF c \in {changes + 1, source[f]} THEN reverted ELSE reverted \cup {TableOf[f]}
    /\ source' = [source EXCEPT ![f] = c]
    /\ changes' = changes + 1
    /\ events' = Notify(f)
    /\ unseen' = unseen \cup {f}
    /\ UNCHANGED <<watching, registered, timers, outs, entries, overlapped, failed>>

\* No handler for deletions.
Delete(f) ==
    /\ watching /\ changes < MaxChanges
    /\ source[f] # Gone
    /\ source' = [source EXCEPT ![f] = Gone]
    /\ changes' = changes + 1
    /\ unseen' = unseen \ {f}
    /\ UNCHANGED <<watching, events, registered, timers, outs, entries, overlapped, reverted,
                   failed>>

\* Ctrl+C stops the observer; the timers are threads of their own and go on.
Interrupt ==
    /\ watching
    /\ watching' = FALSE
    /\ events' = <<>>
    /\ unseen' = {}
    /\ UNCHANGED <<source, changes, registered, timers, outs, entries, overlapped, reverted, failed>>

Armed(f) == [path |-> f, pc |-> "armed"]
Over == [pc |-> "over"]

\* cancel() stops a timer that still waits, and only such a timer.
Cancelled(i) == [timers EXCEPT ![i] = IF @.pc = "armed" THEN Over ELSE @]

Building(t) ==
    {i \in DOMAIN timers : timers[i].pc \in {"parsing", "emitting", "recording"}
                           /\ TableOf[timers[i].path] = t}

\* (mutant: no timer is started while the table is being built)
ScheduleWhenIdle(f) ==
    IF Building(TableOf[f]) # {} THEN UNCHANGED <<timers, registered>>
    ELSE /\ timers' = Append(IF f \in DOMAIN registered THEN Cancelled(registered[f]) ELSE timers,
                             Armed(f))
         /\ registered' = Put(registered, f, Len(timers) + 1)

\* _schedule: the file's timer is cancelled and replaced.
Schedule(f) ==
    /\ timers' = Append(IF f \in DOMAIN registered THEN Cancelled(registered[f]) ELSE timers,
                        Armed(f))
    /\ registered' = Put(registered, f, Len(timers) + 1)

\* on_modified; a file that is gone is no table candidate.
Dispatch ==
    /\ events # <<>>
    /\ events' = Tail(events)
    /\ IF source[Head(events)] = Gone THEN UNCHANGED <<timers, registered>>
       ELSE Schedule(Head(events))
    /\ UNCHANGED <<source, changes, watching, outs, entries, unseen, overlapped, reverted, failed>>

-----------------------------------------------------------------------------
(* A timer thread.                                                         *)

At(i, pc) == timers[i].pc = pc
GoTo(i, pc) == timers' = [timers EXCEPT ![i].pc = pc]
Own(i) == TableOf[timers[i].path]
End(i) == timers' = [timers EXCEPT ![i] = Over]

\* The wait is over: from here on cancel() comes too late.
Expire(i) ==
    /\ At(i, "armed")
    /\ GoTo(i, "due")
    /\ UNCHANGED <<session, registered, outs, entries, unseen, overlapped, failed>>

\* _timers.pop(path), whichever timer is registered there.
Popped(f) == Drop(registered, {f})

\* _fire up to the call of on_change.
Fire(i) ==
    /\ At(i, "due")
    /\ registered' = Popped(timers[i].path)
    /\ IF source[timers[i].path] = Gone THEN End(i) ELSE GoTo(i, "hashing")
    /\ UNCHANGED <<session, outs, entries, unseen, overlapped, failed>>

\* build up to the cache: a missing member ends it, a hit too.
Hash(i) ==
    /\ At(i, "hashing")
    /\ LET t   == Own(i)
           hit == t \in DOMAIN entries /\ entries[t] = Sources(t)
       IN /\ unseen' = unseen \ Members(t)
          /\ failed' = IF Missing(t) THEN failed \cup {t} ELSE IF hit THEN failed \ {t} ELSE failed
          /\ overlapped' = IF Building(t) = {} THEN overlapped ELSE overlapped \cup {t}
          /\ IF Missing(t) \/ hit
             THEN End(i)
             ELSE timers' = [timers EXCEPT ![i] =
                                [path |-> @.path, pc |-> "parsing", key |-> Sources(t)]]
    /\ UNCHANGED <<session, registered, outs, entries>>

BuildFails(i) ==
    /\ End(i)
    /\ failed' = failed \cup {Own(i)}
    /\ UNCHANGED <<session, registered, outs, entries, unseen, overlapped>>

\* The reader reads the files again.
Parse(i) ==
    /\ At(i, "parsing") /\ ~Missing(Own(i))
    /\ timers' = [timers EXCEPT ![i] =
                     [path |-> @.path, pc |-> "emitting", key |-> @.key, ir |-> Sources(Own(i))]]
    /\ UNCHANGED <<session, registered, outs, entries, unseen, overlapped, failed>>

ParseFails(i) == At(i, "parsing") /\ Missing(Own(i)) /\ BuildFails(i)

Emit(i) ==
    /\ At(i, "emitting")
    /\ outs' = Put(outs, Own(i), timers[i].ir)
    /\ GoTo(i, "recording")
    /\ UNCHANGED <<session, registered, entries, unseen, overlapped, failed>>

EmitFails(i) == "stage" \in Faults /\ At(i, "emitting") /\ BuildFails(i)

\* (mutant: the key is computed once the output is there)
KeyAtTheEnd(i) == Sources(Own(i))

KeyOf(i) == timers[i].key

Record(i) ==
    /\ At(i, "recording")
    /\ entries' = Put(entries, Own(i), KeyOf(i))
    /\ failed' = failed \ {Own(i)}
    /\ End(i)
    /\ UNCHANGED <<session, registered, outs, unseen, overlapped>>

Run(i) ==
    \/ Expire(i) \/ Fire(i) \/ Hash(i)
    \/ Parse(i) \/ ParseFails(i) \/ Emit(i) \/ EmitFails(i) \/ Record(i)

Next ==
    \/ \E f \in File, c \in Content : Save(f, c)
    \/ \E f \in File : Delete(f)
    \/ Interrupt
    \/ Dispatch
    \/ \E i \in DOMAIN timers : Run(i)

Spec == Init /\ [][Next]_vars

\* Threads run and timers expire; nobody has to save or to stop the watch.
FairSpec ==
    /\ Spec /\ WF_vars(Dispatch)
    /\ \A i \in 1..MaxChanges : WF_vars(i \in DOMAIN timers /\ Run(i))

-----------------------------------------------------------------------------
(* Properties.                                                             *)

\* Every save is followed by a build of the file's table that hashes it, however
\* timers are cancelled, replaced and popped, unless the watch is stopped.
EverySaveIsSeen ==
    \A f \in File : f \in unseen ~> f \notin unseen

Quiet == watching /\ events = <<>> /\ \A i \in DOMAIN timers : timers[i] = Over

\* Once all is quiet a table has the output of its sources, even of a file saved
\* in the middle of a build, provided that the build after that one waited for
\* it and did not fail and that no file went back to an older content.
QuietIsCurrent ==
    Quiet => \A t \in Table \ (overlapped \cup reverted \cup failed) :
                 Missing(t) \/ (t \in DOMAIN outs /\ outs[t] = Sources(t))
=============================================================================
