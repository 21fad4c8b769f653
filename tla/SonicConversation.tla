------------------------- MODULE SonicConversation -------------------------
(***************************************************************************)
(* One interview across the Sonic streams it takes.  Bedrock ends a stream *)
(* after some eight minutes, so the conversation opens a replacement on a  *)
(* timer, swaps, and closes the old stream, whose own onClose it ignores   *)
(* while it does so.  The interview's shutdown may come at any moment, and *)
(* closes the conversation only after its own writes.                      *)
(*                                                                         *)
(* Streams are numbered in the order they are opened.  A step is a callback*)
(* of the event loop, with the synchronous code and the resolved awaits    *)
(* that follow it.                                                         *)
(***************************************************************************)
EXTENDS Naturals

CONSTANT MaxStreams   \* bound on the streams one interview opens

ASSUME BoundAssumption == MaxStreams \in Nat \ {0}

VARIABLES
  \* SonicConversation
  current,    \* the stream in use, 0 if null
  renewal,    \* renew(): "none", or awaiting "open" or "drain" (renewing)
  previous,   \* renew()'s local, the stream it replaces
  closed,
  timer,      \* the renewal timer is armed
  retired,    \* streams whose usage is banked in retiredUsage
  \* each SonicSession
  stream, opened,
  \* the interview's connection
  route,      \* "starting", "running", in shutdown: "stopping", then "closing"
  awaited,    \* the stream shutdown's close() is waiting for
  \* history: streams that ended by themselves, those of them whose end was
  \* ignored as a handover's, and the stream whose end shut the interview down
  own, ignored, endedBy

conversation == <<current, renewal, previous, closed, timer, retired>>
history      == <<own, ignored, endedBy>>
vars == <<conversation, stream, opened, route, awaited, history>>

Stream == 1..MaxStreams

TypeOK ==
  /\ current \in 0..MaxStreams /\ previous \in 0..MaxStreams
  /\ renewal \in {"none", "open", "drain"}
  /\ closed \in BOOLEAN /\ timer \in BOOLEAN
  /\ retired \subseteq Stream
  /\ stream \in [Stream -> {"none", "opening", "live", "draining", "ended", "failed"}]
  /\ opened \in Stream
  /\ route \in {"starting", "running", "stopping", "closing", "closed"}
  /\ awaited \in 0..MaxStreams
  /\ own \subseteq Stream /\ ignored \subseteq Stream /\ endedBy \in 0..MaxStreams

\* handleConnection has called start(), which opens the first stream.
Init ==
  /\ current = 0 /\ renewal = "none" /\ previous = 0
  /\ closed = FALSE /\ timer = FALSE /\ retired = {}
  /\ stream = [s \in Stream |-> IF s = 1 THEN "opening" ELSE "none"]
  /\ opened = 1 /\ route = "starting" /\ awaited = 0
  /\ own = {} /\ ignored = {} /\ endedBy = 0

Live(s) == s \in Stream /\ stream[s] = "live"

\* SonicSession.close on s once its stream is in state: a stream still active
\* starts to drain, any other is left alone and the caller does not wait.
Drained(s, state) ==
  IF s \in Stream /\ stream[s] = "live" THEN [state EXCEPT ![s] = "draining"] ELSE state

-----------------------------------------------------------------------------
\* start(): the first stream is up, and its replacement scheduled.
StartSucceeds ==
  /\ route = "starting"
  /\ stream' = [stream EXCEPT ![1] = "live"]
  /\ current' = 1 /\ timer' = TRUE /\ route' = "running"
  /\ UNCHANGED <<renewal, previous, closed, retired, opened, awaited, history>>

\* start() throws; the route's catch shuts the connection down.
StartFails ==
  /\ route = "starting"
  /\ stream' = [stream EXCEPT ![1] = "failed"]
  /\ route' = "stopping"
  /\ UNCHANGED <<conversation, opened, awaited, history>>

\* The renewal timer goes off.  It runs for minutes and a drain for 300 ms, so
\* what was draining when it was armed has ended.
TimerFires ==
  /\ timer
  /\ \A s \in Stream : stream[s] = "draining" => s = current
  /\ timer' = FALSE
  /\ UNCHANGED <<current, closed, retired, route, awaited, history>>

\* renew() up to its await, with the streams in state.
BeginRenewal(state) ==
  /\ opened < MaxStreams
  /\ opened' = opened + 1
  /\ stream' = [state EXCEPT ![opened'] = "opening"]
  /\ renewal' = "open" /\ previous' = current

ReturnAtOnce == UNCHANGED <<renewal, previous, stream, opened>>

\* Wrong on purpose: renew() does not look at closed.
RenewWhenClosed ==
  TimerFires /\ IF renewal # "none" THEN ReturnAtOnce ELSE BeginRenewal(stream)

RenewTimer ==
  TimerFires /\ IF closed \/ renewal # "none" THEN ReturnAtOnce ELSE BeginRenewal(stream)

\* The replacement is open: stream s becomes current, the next renewal is
\* scheduled, the usage of stream t is banked.
SwapTo(s, t) ==
  /\ renewal = "open"
  /\ current' = s /\ timer' = TRUE
  /\ retired' = retired \cup {t}
  /\ UNCHANGED <<previous, closed, opened, route, awaited, history>>

ReplacementUp == [stream EXCEPT ![opened] = "live"]

\* Wrong on purpose: renewing drops before the old stream is closed.
SwapDropsFlagFirst ==
  SwapTo(opened, previous) /\ stream' = Drained(previous, ReplacementUp) /\ renewal' = "none"

\* Wrong on purpose: the replacement is counted twice.
SwapCountsTwice ==
  /\ SwapTo(opened + 1, previous) /\ stream' = Drained(previous, ReplacementUp)
  /\ renewal' = IF Live(previous) THEN "drain" ELSE "none"

\* ... and the old stream's close begins.  One that is already closing is not
\* waited for, and renewing drops at once.
OpenResolves ==
  /\ SwapTo(opened, previous) /\ stream' = Drained(previous, ReplacementUp)
  /\ renewal' = IF Live(previous) THEN "drain" ELSE "none"

\* The replacement failed: the error is reported, the old stream stays current
\* and nothing is scheduled.
OpenRejects ==
  /\ renewal = "open"
  /\ stream' = [stream EXCEPT ![opened] = "failed"]
  /\ renewal' = "none"
  /\ UNCHANGED <<current, previous, closed, timer, retired, opened, route, awaited, history>>

\* A stream ends by itself: its responses end or fail, or its idle or maximum
\* timer fires.
EndsByItself(s) ==
  /\ stream[s] = "live"
  /\ stream' = [stream EXCEPT ![s] = "draining"]
  /\ own' = own \cup {s}
  /\ UNCHANGED <<conversation, opened, route, awaited, ignored, endedBy>>

\* The onClose that open() gives stream s: nothing while a renewal is under way
\* or the conversation is closed, else the interview's shutdown, which runs once.
OnClose(s) ==
  /\ ignored' = IF s \in own /\ renewal # "none" /\ ~closed
                THEN ignored \cup {s} ELSE ignored
  /\ IF renewal = "none" /\ ~closed /\ route = "running"
     THEN route' = "stopping" /\ endedBy' = s
     ELSE /\ route' = IF route = "closing" /\ awaited = s THEN "closed" ELSE route
          /\ UNCHANGED endedBy

\* The 300 ms of SonicSession.close are over: the queue ends, onClose is called
\* and whoever awaited the close goes on.  Drains take the same time, and begin
\* in the order of the streams.
DrainEnds(s) ==
  /\ stream[s] = "draining"
  /\ \A t \in Stream : stream[t] = "draining" => s <= t
  /\ stream' = [stream EXCEPT ![s] = "ended"]
  /\ OnClose(s)
  /\ renewal' = IF renewal = "drain" /\ s = previous THEN "none" ELSE renewal
  /\ UNCHANGED <<current, previous, closed, timer, retired, opened, awaited, own>>

-----------------------------------------------------------------------------
\* The interview ends: the candidate stops or leaves, the interviewer ends it, or
\* the hard stop fires.  shutdown() flushes and writes before it closes Sonic.
Shutdown ==
  /\ route = "running"
  /\ route' = "stopping"
  /\ UNCHANGED <<conversation, stream, opened, awaited, history>>

\* Wrong on purpose: the close waits for a drain even if the stream has ended.
CloseWaitsAlways ==
  /\ route = "stopping"
  /\ closed' = TRUE /\ timer' = FALSE
  /\ stream' = Drained(current, stream)
  /\ awaited' = current
  /\ route' = IF current # 0 THEN "closing" ELSE "closed"
  /\ UNCHANGED <<current, renewal, previous, retired, opened, history>>

\* shutdown() has written: SonicConversation.close clears the renewal timer and
\* closes the current stream, if there is one and it is still active.
Close ==
  /\ route = "stopping"
  /\ closed' = TRUE /\ timer' = FALSE
  /\ stream' = Drained(current, stream)
  /\ awaited' = current
  /\ route' = IF Live(current) THEN "closing" ELSE "closed"
  /\ UNCHANGED <<current, renewal, previous, retired, opened, history>>

Next ==
  \/ StartSucceeds \/ StartFails
  \/ RenewTimer \/ OpenResolves \/ OpenRejects
  \/ \E s \in Stream : EndsByItself(s) \/ DrainEnds(s)
  \/ Shutdown \/ Close

\* Requests settle (the SDK's timeouts), drains end, every stream has a maximum
\* duration, and every interview a hard stop; nothing makes the renewal succeed.
Fairness ==
  /\ WF_vars(StartSucceeds \/ StartFails)
  /\ WF_vars(OpenResolves \/ OpenRejects)
  /\ \A s \in Stream : WF_vars(EndsByItself(s)) /\ WF_vars(DrainEnds(s))
  /\ WF_vars(Shutdown) /\ WF_vars(Close)

SafetySpec == Init /\ [][Next]_vars
Spec       == SafetySpec /\ Fairness

-----------------------------------------------------------------------------
\* Streams that bill.
Billed == {s \in Stream : stream[s] \in {"opening", "live", "draining"}}

\* A handover overlaps two streams and never three, whatever order renewals,
\* streams' own ends and the shutdown come in (sonic.ts:735-743).
AtMostTwoStreams ==
  \A a, b, c \in Billed : a = b \/ b = c \/ a = c

\* A routine handover is never taken for the interview's end: only a stream that
\* ended by itself shuts the interview down (sonic.ts:765-767, 813-817).
HandoverIsNotTheEnd == endedBy # 0 => endedBy \in own

\* Audio has a live stream to land on until the interview ends, unless the stream
\* itself ended and its drain is about to report it, or its end was ignored
\* because a renewal was under way (sonic.ts:662-664, 797-798).
AudioHasAStream ==
  route = "running" =>
    \/ Live(current)
    \/ current \in own /\ stream[current] = "draining"
    \/ current \in ignored

\* The usage reported is each stream's, once: every stream that came up is banked
\* or current, and the current one is not banked (sonic.ts:673-684, 713-731).
UsageCountedOnce ==
  /\ \A s \in Stream :
       stream[s] \in {"live", "draining", "ended"} => s \in retired \cup {current}
  /\ current \notin retired

\* A renewal costs neither a third stream, nor the interview, nor its audio, and
\* what the streams used is reported once.
HandoverIsSeamless ==
  AtMostTwoStreams /\ HandoverIsNotTheEnd /\ AudioHasAStream /\ UsageCountedOnce

\* Nothing reopens behind a close: no stream is opened once the conversation is
\* closed, although a renewal under way schedules the next one
\* (sonicConversation.test.ts:338-339).
NothingReopens == [][closed => opened' = opened]_vars

\* Every interview closes its conversation, however renewals and failures fall,
\* and stops billing for good, even for a replacement that came up behind the
\* close (sonic.ts:24-25).
EverythingEnds == <>[](route = "closed" /\ Billed = {})

\* Violated: no stream is live once the interview is over and no renewal runs
\* (interview.ts:350-351, "Whatever ends first must end the other").
NoStreamOutlivesInterview ==
  route = "closed" /\ renewal = "none" => \A s \in Stream : ~Live(s)
=============================================================================
