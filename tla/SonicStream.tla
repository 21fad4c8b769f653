----------------------------- MODULE SonicStream -----------------------------
(***************************************************************************)
(* What goes over the streams of SonicConversation: the events each stream *)
(* is sent through its queue, and what the events it sends back do to the  *)
(* interview.  Bedrock accepts a setup, one history that begins with a     *)
(* USER turn, and an audio block that stays open, inside which notes and   *)
(* tool results arrive; then the audio, the prompt and the session end.    *)
(*                                                                         *)
(* The notes the server slips in are timed by InterviewClock.  Its clock   *)
(* stands still while the first stream opens, and moves from one instant   *)
(* of interest to the next.                                                *)
(***************************************************************************)
EXTENDS SonicConversation, InterviewClock, Sequences, FiniteSets

CONSTANTS
  PlannedMinutes,
  Instant,        \* the moments, in seconds, at which the clock is looked at
  MaxReplayed,    \* MAX_REPLAYED_EXCHANGES
  MaxQueued,      \* MAX_QUEUED_AUDIO_FRAMES
  MaxTraffic      \* bound on the frames, tool calls and exchanges

ASSUME TrafficAssumption ==
  /\ PlannedMinutes \in Nat \ {0} /\ Instant \subseteq Nat
  /\ {MaxReplayed, MaxQueued, MaxTraffic} \subseteq Nat

VARIABLES
  queue,        \* each stream's EventQueue: what the service has not yet pulled
  heard,        \* what it has pulled, frames apart
  brief,        \* the system prompt each stream was opened with
  kickoffNote,  \* "none" while undefined
  exchanges,    \* the length of state.history
  endRequested, elapsed, nudges, traffic,
  \* history: the stream each exchange was held on, how many there were when a
  \* stream began to open, the notes sent and the exchanges held while a
  \* replacement was opening
  heldOn, born, crossing, missed

streams == <<queue, heard, brief, kickoffNote>>
talk    == <<exchanges, endRequested, elapsed, nudges, traffic, heldOn, born, crossing,
             missed>>
streamVars == <<vars, streams, talk>>

Target == EffectiveTargetMinutes(PlannedMinutes)
Schedule == NudgeSchedule(Target)
Now == InterviewPhase(elapsed, Target)

\* An event, or the three a content block is made of: its kind, what it says,
\* and the exchange or the stream it belongs to.
Event(kind, says, of) == [kind |-> kind, says |-> says, of |-> of]
Frame == Event("audioInput", "none", 0)

\* Whose turn comes i-th: question and answer.
Turn(i) == IF i % 2 = 1 THEN "assistant" ELSE "user"

NoBrief == [phase |-> "none", closing |-> FALSE]

-----------------------------------------------------------------------------
(* SonicSession                                                            *)

\* start(): everything up to the audio block is pushed before the request is
\* made.  The history is exchanges from..to, behind the first note.
Opening(from, to) ==
  LET told == IF from > to THEN <<>> ELSE
        (IF kickoffNote = "none" THEN <<>> ELSE <<Event("user", kickoffNote, 0)>>)
          \o [i \in 1..2 * (to - from + 1) |->
                Event(Turn(i), "none", from + (i - 1) \div 2)]
  IN <<Event("setup", "none", 0)>> \o told \o <<Event("audioStart", "none", 0)>>

\* EventQueue.push
Push(q, s, events) == [q EXCEPT ![s] = @ \o events]

\* Wrong on purpose: a stream that is closing takes what it is sent.
SendAnyway(q, s, event) == IF s = 0 THEN q ELSE Push(q, s, <<event>>)

\* send(), through the conversation's current stream, if there is one: a stream
\* no longer active ignores it.
Send(q, s, event) == IF Live(s) THEN Push(q, s, <<event>>) ELSE q

\* close(): the block, the prompt and the session end, once, behind whatever is
\* still queued.
SessionClosed(q, s) ==
  IF Live(s) THEN Push(q, s, <<Event("audioEnd", "none", 0), Event("promptEnd", "none", 0),
                               Event("sessionEnd", "none", 0)>>)
             ELSE q

\* The iterator the service pulls from: a closed queue is drained first.
ServicePulls(s) ==
  /\ stream[s] \notin {"none", "failed"} /\ queue[s] # <<>>
  /\ queue' = [queue EXCEPT ![s] = Tail(@)]
  /\ heard' = IF Head(queue[s]) = Frame THEN heard
              ELSE [heard EXCEPT ![s] = Append(@, Head(queue[s]))]
  /\ UNCHANGED <<vars, brief, kickoffNote, talk>>

-----------------------------------------------------------------------------
StreamInit ==
  /\ Init
  /\ kickoffNote = "none"
  /\ queue = [s \in Stream |-> IF s = 1 THEN Opening(1, 0) ELSE <<>>]
  /\ heard = [s \in Stream |-> <<>>] /\ brief = [s \in Stream |-> NoBrief]
  /\ exchanges = 0 /\ endRequested = FALSE
  /\ elapsed = 0 /\ nudges = {"wrapUp", "finalCall", "timeUp"} /\ traffic = 0
  /\ heldOn = <<>> /\ born = [s \in Stream |-> 0] /\ crossing = {} /\ missed = {}

\* The steps of SonicConversation, with what they put into the queues.
StartUp ==
  /\ StartSucceeds
  /\ queue' = Push(queue, 1, <<Event("note", "kickoff", 0)>>)
  /\ kickoffNote' = "kickoff"
  /\ UNCHANGED <<heard, brief, talk>>

StartUpFails == StartFails /\ UNCHANGED <<streams, talk>>

\* Wrong on purpose: the oldest exchanges are replayed.
ReplayOldest(n) == [from |-> 1, to |-> IF n < MaxReplayed THEN n ELSE MaxReplayed]

\* getHistory().slice(-MAX_REPLAYED_EXCHANGES)
Replayed(n) == [from |-> IF n > MaxReplayed THEN n - MaxReplayed + 1 ELSE 1, to |-> n]

\* open(), when the renewal does open a stream: it is briefed with the time and
\* the exchanges of this moment.
Renew ==
  /\ RenewTimer
  /\ IF opened' = opened THEN UNCHANGED <<queue, brief, born>>
     ELSE LET told == Replayed(exchanges) IN
          /\ queue' = [queue EXCEPT ![opened'] = Opening(told.from, told.to)]
          /\ brief' = [brief EXCEPT ![opened'] = RenderClock(elapsed, Target)]
          /\ born' = [born EXCEPT ![opened'] = exchanges]
  /\ UNCHANGED <<heard, kickoffNote, exchanges, endRequested, elapsed, nudges, traffic,
                 heldOn, crossing, missed>>

HandOver ==
  /\ OpenResolves /\ queue' = SessionClosed(queue, previous)
  /\ UNCHANGED <<heard, brief, kickoffNote, talk>>

RenewalFails == OpenRejects /\ UNCHANGED <<streams, talk>>

StreamEnds(s) ==
  /\ EndsByItself(s) /\ queue' = SessionClosed(queue, s)
  /\ UNCHANGED <<heard, brief, kickoffNote, talk>>

DrainOver(s) == DrainEnds(s) /\ UNCHANGED <<streams, talk>>

\* The candidate's stop, an oversized message, the socket's close or error, the
\* hard stop.
Stop == Shutdown /\ UNCHANGED <<streams, talk>>

CloseConversation ==
  /\ Close /\ queue' = SessionClosed(queue, current)
  /\ UNCHANGED <<heard, brief, kickoffNote, talk>>

-----------------------------------------------------------------------------
(* The interview's connection                                              *)

Busy == traffic < MaxTraffic /\ traffic' = traffic + 1

\* A frame from the socket: the newest is dropped when the queue is full.
SendAudio ==
  /\ route \in {"running", "stopping"} /\ Live(current) /\ Busy
  /\ IF Len(queue[current]) >= MaxQueued THEN UNCHANGED queue
     ELSE queue' = Send(queue, current, Frame)
  /\ UNCHANGED <<vars, heard, brief, kickoffNote, exchanges, endRequested, elapsed, nudges,
                 heldOn, born, crossing, missed>>

Due(n) == Schedule[n]

\* kickoff(): only the first note is kept.
KeptNote(n) == IF kickoffNote = "none" THEN n ELSE kickoffNote

\* A nudge's timer.  The final call and the end of time are for an interview the
\* interviewer has not ended, the wrap-up is not.
Nudge(n) ==
  /\ route = "running" /\ n \in nudges /\ elapsed >= Due(n)
  /\ \A k \in nudges : Due(n) <= Due(k)
  /\ nudges' = nudges \ {n}
  /\ IF endRequested /\ n # "wrapUp" THEN UNCHANGED <<streams, crossing>>
     ELSE /\ queue' = Send(queue, current, Event("note", n, 0))
          /\ kickoffNote' = KeptNote(n)
          /\ crossing' = IF renewal = "open" THEN crossing \cup {n} ELSE crossing
          /\ UNCHANGED <<heard, brief>>
  /\ UNCHANGED <<vars, exchanges, endRequested, elapsed, traffic, heldOn, born, missed>>

\* No timer is passed over, and none outlives the hard stop.
TimePasses ==
  /\ route = "running"
  /\ \E t \in Instant :
       /\ t > elapsed /\ t <= Schedule.hardStop /\ \A n \in nudges : t <= Due(n)
       /\ elapsed' = t
  /\ UNCHANGED <<vars, streams, exchanges, endRequested, nudges, traffic, heldOn, born, crossing,
                 missed>>

\* runTool: what a call returns; the two that look at the time return the phase.
Returned(tool) ==
  CASE tool \in {"logExchange", "getSessionState"} -> Now
    [] tool = "endInterview" -> "ok"
    [] OTHER -> "error"

Tool == {"logExchange", "getSessionState", "endInterview", "unknown"}

\* A stream calls a tool: the result goes to the current stream.
ToolUse(s, tool) ==
  /\ Live(s) /\ Busy
  /\ queue' = Send(queue, current, Event("result", Returned(tool), s))
  /\ endRequested' = (endRequested \/ tool = "endInterview")
  /\ UNCHANGED <<vars, heard, brief, kickoffNote, exchanges, elapsed, nudges, heldOn, born,
                 crossing, missed>>

\* A stream ends its turn, and an exchange is complete.
ExchangeEnds(s) ==
  /\ Live(s) /\ route = "running" /\ Busy
  /\ exchanges' = exchanges + 1 /\ heldOn' = Append(heldOn, s)
  /\ missed' = IF renewal = "open" THEN missed \cup {exchanges'} ELSE missed
  /\ UNCHANGED <<vars, streams, endRequested, elapsed, nudges, born, crossing>>

\* A completion ends, and the interviewer has asked for the end.
CompletionEnds(s) ==
  /\ Live(s) /\ endRequested
  /\ Shutdown /\ UNCHANGED <<streams, talk>>

StreamNext ==
  \/ StartUp \/ StartUpFails \/ Renew \/ HandOver \/ RenewalFails
  \/ \E s \in Stream : StreamEnds(s) \/ DrainOver(s) \/ ServicePulls(s)
  \/ Stop \/ CloseConversation
  \/ SendAudio \/ TimePasses \/ \E n \in {"wrapUp", "finalCall", "timeUp"} : Nudge(n)
  \/ \E s \in Stream : ExchangeEnds(s) \/ CompletionEnds(s) \/ \E tool \in Tool : ToolUse(s, tool)

\* SonicConversation's fairness; the service need not go on pulling.
StreamFairness ==
  /\ WF_streamVars(StartUp \/ StartUpFails)
  /\ WF_streamVars(HandOver \/ RenewalFails)
  /\ \A s \in Stream : /\ WF_streamVars(StreamEnds(s)) /\ WF_streamVars(DrainOver(s))
  /\ WF_streamVars(Stop) /\ WF_streamVars(CloseConversation)

StreamSpec == StreamInit /\ [][StreamNext]_streamVars /\ StreamFairness

-----------------------------------------------------------------------------
Kind == {"setup", "user", "assistant", "audioStart", "note", "result", "audioInput",
         "audioEnd", "promptEnd", "sessionEnd"}
Sayings == {"none", "kickoff", "wrapUp", "finalCall", "timeUp", "ok", "error"} \cup Phase
Events == [kind : Kind, says : Sayings, of : Nat]

StreamTypeOK ==
  /\ queue \in [Stream -> Seq(Events)] /\ heard \in [Stream -> Seq(Events)]
  /\ brief \in [Stream -> [phase : Phase \cup {"none"}, closing : BOOLEAN]]
  /\ kickoffNote \in {"none", "kickoff"}
  /\ exchanges = Len(heldOn) /\ heldOn \in Seq(Stream) /\ born \in [Stream -> 0..exchanges]
  /\ endRequested \in BOOLEAN /\ elapsed \in Instant \cup {0}
  /\ nudges \subseteq DOMAIN Schedule /\ crossing \subseteq DOMAIN Schedule
  /\ missed \subseteq 1..exchanges

\* What stream s has been sent, but for the frames the service has pulled.
Sent(s) == heard[s] \o queue[s]

\* What may stand in the audio block of stream s: frames, notes, and the results
\* of its own calls.
InBlock(e, s) == e = Frame \/ e.kind = "note" \/ (e.kind = "result" /\ e.of = s)

\* An input Bedrock accepts: the setup; a history that, if there is one, begins
\* with a USER turn and goes on with question and answer; one audio block, up to
\* last; and behind it the three ends, in order, or nothing yet.
Accepted(seq, s, last) ==
  \E audio \in 2..last :
    /\ seq[1].kind = "setup" /\ seq[audio].kind = "audioStart"
    /\ audio > 2 => Turn(audio) = "assistant" /\ seq[2].kind = "user" /\ seq[2].says # "none"
    /\ \A i \in 3..(audio - 1) : seq[i].kind = Turn(i)
    /\ \A i \in (audio + 1)..last : InBlock(seq[i], s)
    /\ last < Len(seq) => /\ seq[last + 1].kind = "audioEnd"
                          /\ seq[last + 2].kind = "promptEnd"
                          /\ seq[last + 3].kind = "sessionEnd"

Ending(s) == stream[s] \in {"draining", "ended"}
WellFormed(s) == Accepted(Sent(s), s, IF Ending(s) THEN Len(Sent(s)) - 3 ELSE Len(Sent(s)))

\* The frames that wait are bounded.
FramesFit(s) == \A i \in DOMAIN queue[s] : queue[s][i] = Frame => i <= MaxQueued

\* Every stream is sent an input Bedrock accepts, whatever closes it while notes,
\* tool results and frames arrive.
StreamsAreWellFormed ==
  StreamTypeOK /\ \A s \in Stream : stream[s] # "none" => WellFormed(s) /\ FramesFit(s)

\* What stream s has been told.
Told(s) == {Sent(s)[i] : i \in DOMAIN Sent(s)}

\* What the stream in use knows of the conversation: each exchange, unless it is
\* older than the window or was finished while the stream was opening; and that it
\* began with the kickoff.
KnowsTheTalk ==
  Live(current) =>
    /\ \A e \in 1..exchanges :
         \/ heldOn[e] = current \/ \E m \in Told(current) : m.kind = "assistant" /\ m.of = e
         \/ e <= born[current] - MaxReplayed \/ e \in missed
    /\ \A m \in Told(current) : m.kind = "user" /\ m.of = 0 => m.says = "kickoff"

\* What it knows of the time: once the final call has gone out, it was sent it,
\* opened after it, or was opening then; so for the wrap-up.  What a stream reads
\* in its prompt agrees with the nudges.
Fired(n) == n \notin nudges
KnowsTheTime ==
  /\ Live(current) /\ route = "running" /\ ~endRequested =>
       \A n \in {"wrapUp", "finalCall"} : Fired(n) =>
         \/ \E m \in Told(current) : m.kind = "note" /\ m.says = n
         \/ brief[current].phase \in (IF n = "wrapUp" THEN {"wrap_up", "closing"} ELSE {"closing"})
         \/ n \in crossing
  /\ PhasesAgree(elapsed, Target)

\* A renewal carries the conversation over: what was said, how it began, and how
\* much time is left.
ConversationIsCarried == KnowsTheTalk /\ KnowsTheTime
=============================================================================
