---------------------------- MODULE BuildStream ----------------------------
(***************************************************************************)
(* The build-all of the web server (build_all_stream in                    *)
(* src/payload/web/routes/build.py): a worker thread runs the batch build  *)
(* of BatchBuild and puts what happens on a queue, the response takes it   *)
(* from there and sends it to the browser as server-sent events.           *)
(*                                                                         *)
(* One stream at a time: a browser that leaves does not stop its worker,   *)
(* and the next request is made once that worker is through.               *)
(***************************************************************************)
EXTENDS BatchBuild

VARIABLES
    worker,     \* "off", "preparing", "building" or "closing"
    browser,    \* "away", "listening", "closed" (the stream ended) or "gone"
    messages,   \* the queue between the two
    received    \* the events the browser has got

stream == <<worker, browser, messages, received>>
allVars == <<vars, stream>>

Done == [event |-> "done"]
Error == [event |-> "error"]
Progress(t) == [event |-> "progress", source |-> t,
                status |-> IF job[t].result = "errors" THEN "error" ELSE "ok"]
Summary == [event |-> "summary", built |-> Cardinality(summary.built),
            cached |-> Cardinality(summary.cached), errors |-> Cardinality(summary.errors)]

StreamInit ==
    /\ Init
    /\ worker = "off" /\ browser = "away"
    /\ messages = <<>> /\ received = <<>>

Tell(message) == messages' = Append(messages, message)

-----------------------------------------------------------------------------
(* The worker thread.                                                      *)

Request ==
    /\ worker = "off" /\ browser # "listening"
    /\ worker' = "preparing" /\ browser' = "listening"
    /\ messages' = <<>> /\ received' = <<>>
    /\ UNCHANGED vars

\* Plugins, configuration or discovery raise: two handlers, one kind of event.
FailToPrepare ==
    /\ worker = "preparing"
    /\ Tell(Error)
    /\ worker' = "closing"
    /\ UNCHANGED <<vars, browser, received>>

StartBuild ==
    /\ worker = "preparing"
    /\ Start
    /\ worker' = "building"
    /\ UNCHANGED <<browser, messages, received>>

\* (mutant: the table is announced before its result is looked at)
TellAnyway(t) == Tell(Progress(t))

\* on_table_result, once the result has been counted.
TellCounted(t) == IF command' = "raising" THEN UNCHANGED messages ELSE Tell(Progress(t))

GatherOne(t) ==
    /\ Gather(t)
    /\ TellCounted(t)
    /\ UNCHANGED <<worker, browser, received>>

\* (mutant: a summary of what was counted, whatever ended the build)
VerdictOfCounted == Summary

Verdict == IF command = "running" THEN Summary ELSE Error

EndBuild ==
    /\ Return
    /\ Tell(Verdict)
    /\ worker' = "closing"
    /\ UNCHANGED <<browser, received>>

\* (mutant: an error leaves the worker without the finally clause)
CloseAfterSummary ==
    /\ worker = "closing"
    /\ IF messages # <<>> /\ messages[Len(messages)] = Error
       THEN UNCHANGED messages ELSE Tell(Done)
    /\ worker' = "off"
    /\ UNCHANGED <<vars, browser, received>>

Close ==
    /\ worker = "closing"
    /\ Tell(Done)
    /\ worker' = "off"
    /\ UNCHANGED <<vars, browser, received>>

BuildStep == (Take \/ \E t \in Table : Thread(t)) /\ UNCHANGED stream

-----------------------------------------------------------------------------
(* The response and the browser.                                           *)

Deliver ==
    /\ browser = "listening" /\ messages # <<>>
    /\ messages' = Tail(messages)
    /\ IF Head(messages) = Done
       THEN browser' = "closed" /\ UNCHANGED received
       ELSE received' = Append(received, Head(messages)) /\ UNCHANGED browser
    /\ UNCHANGED <<vars, worker>>

\* The browser closes the connection: nobody takes from the queue any more.
Disconnect ==
    /\ browser = "listening"
    /\ browser' = "gone"
    /\ UNCHANGED <<vars, worker, messages, received>>

StreamNext ==
    \/ \E t \in Table, c \in Content : EditSource(t, c) /\ UNCHANGED stream
    \/ Request \/ FailToPrepare \/ StartBuild
    \/ \E t \in Table : GatherOne(t)
    \/ EndBuild \/ Close
    \/ BuildStep
    \/ Deliver \/ Disconnect

StreamSpec == StreamInit /\ [][StreamNext]_allVars

\* The worker, the pool and the response run; the browser does what it likes.
StreamFairness ==
    /\ WF_allVars(FailToPrepare \/ StartBuild \/ EndBuild \/ Close)
    /\ WF_allVars(Take /\ UNCHANGED stream)
    /\ WF_allVars(Deliver)
    /\ \A t \in Table : /\ WF_allVars(GatherOne(t))
                        /\ WF_allVars(Thread(t) /\ UNCHANGED stream)

StreamFairSpec == StreamSpec /\ StreamFairness

-----------------------------------------------------------------------------
(* Properties.                                                             *)

\* A browser that stays gets the end of the stream, whatever the build raises.
StreamEnds == browser = "listening" ~> browser # "listening"

Told(event) == {k \in DOMAIN received : received[k].event = event}
ToldStatus(status) == {k \in Told("progress") : received[k].status = status}

\* The browser is never told of a table that the build has not counted, nor
\* otherwise than it was counted, since it may act on a progress event at once.
\* A stream that ended has said how the build ended, last and once; a summary
\* agrees with the progress of the tables before it, every table once.
StreamTellsAll ==
    /\ \A k \in Told("progress") :
           LET t == received[k].source
           IN t \in Counted /\ (received[k].status = "ok" <=> t \notin summary.errors)
    /\ browser = "closed" =>
           LET last == received[Len(received)]
           IN /\ received # <<>>
              /\ Told("summary") \cup Told("error") = {Len(received)}
              /\ \A j, k \in Told("progress") : received[j].source = received[k].source => j = k
              /\ last.event = "summary" =>
                    /\ Cardinality(Told("progress")) = Cardinality(Table)
                    /\ Cardinality(ToldStatus("ok")) = last.built + last.cached
                    /\ Cardinality(ToldStatus("error")) = last.errors
=============================================================================
