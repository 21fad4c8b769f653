--------------------------- MODULE InterviewPage ---------------------------
(***************************************************************************)
(* The browser's half of an interview: the hook that owns the microphone,  *)
(* the socket and the interviewer's voice (hooks/useInterview.ts,          *)
(* lib/interviewSocket.ts, lib/audio), on the page that shows its state    *)
(* (pages/interview.tsx), against the server of module Dialogue.           *)
(*                                                                         *)
(* status is the state the hook has set, shown the one React has rendered: *)
(* statusRef, which the callbacks read, follows shown.  start() awaits     *)
(* three times, and other events are handled in between.                   *)
(***************************************************************************)
EXTENDS Dialogue

CONSTANTS
    MaxFaults,      \* bound: prompts refused, worklets, dials and streams that fail
    MaxChunks       \* bound: chunks scheduled and not yet heard

ASSUME PageAssumption == MaxFaults \in Nat /\ MaxChunks \in Nat

VARIABLES
    status, shown,
    reason,     \* of an ended interview
    mounted,
    at,         \* per attempt, where its start() awaits
    dev,        \* microphones open, the three refs, the chunks scheduled
    faults,
    stray,      \* history: microphones whose handle was dropped
    crossed,    \* history: a start while an earlier one had something open
    cut         \* history: per attempt, the last turn the page cut off
pageVars == <<status, shown, reason, mounted, at, dev, faults, stray, crossed, cut>>
vars == <<link, serverVars, pageVars>>

Running == {"requesting-permission", "connecting", "recording", "processing",
            "interviewer-speaking", "interrupting"}
Statuses == Running \cup {"idle", "permission-denied", "error", "ended"}

\* Nothing is set on a page that has been left.
Sets(s) == status' = IF mounted THEN s ELSE status
Fault == faults < MaxFaults /\ faults' = faults + 1

Silenced(d) == IF d.voice = 0 THEN d ELSE [d EXCEPT !.playing[d.voice] = <<>>]
TornDown(d) ==
    [Silenced(d) EXCEPT !.mics = @ \ {d.capture}, !.capture = 0, !.socket = 0, !.voice = 0]
\* A closed WebSocket delivers nothing more but its close event.
HungUp(l) ==
    IF dev.socket = 0 THEN l
    ELSE [l EXCEPT ![dev.socket] =
            [sock |-> IF @.sock = "open" THEN "left" ELSE @.sock, wire |-> <<>>]]
Teardown(l) == dev' = TornDown(dev) /\ link' = HungUp(l)
-----------------------------------------------------------------------------
(* start(), stop() and leaving.                                            *)

\* Start, or Retry after an error: the ref lets nothing else through, so a
\* Retry behind a refused permission does nothing.
Start ==
    /\ mounted /\ shown \in {"idle", "error"}
    /\ \E a \in Attempts :
         /\ at[a] = "none" /\ \A b \in 1..a - 1 : at[b] # "none"
         /\ at' = [at EXCEPT ![a] = "asking"]
    /\ status' = "requesting-permission" /\ shown' = status'
    /\ crossed' = (crossed \/ dev.mics # {}
                     \/ \E a \in Attempts : link[a].sock \in {"open", "left", "shut"})
    /\ UNCHANGED <<link, serverVars, reason, mounted, dev, faults, stray, cut>>

PermissionGranted(a) ==
    /\ at[a] = "asking" /\ at' = [at EXCEPT ![a] = "resuming"]
    /\ dev' = [dev EXCEPT !.mics = @ \cup {a}, !.capture = a]
    /\ stray' = stray \cup (dev.mics \cap {dev.capture})
    /\ Sets("connecting")
    /\ UNCHANGED <<link, serverVars, shown, reason, mounted, faults, crossed, cut>>

\* The prompt is refused, or the worklet does not load: then the stream is
\* open already, and nothing stops it.
StartCaptureFails(a) ==
    /\ at[a] = "asking" /\ at' = [at EXCEPT ![a] = "done"]
    /\ Fault
    /\ \E opened \in {{}, {a}} :
         /\ dev' = [dev EXCEPT !.mics = @ \cup opened]
         /\ stray' = stray \cup opened
    /\ Sets("permission-denied")
    /\ UNCHANGED <<link, serverVars, shown, reason, mounted, crossed, cut>>

VoiceResumes(a) ==
    /\ at[a] = "resuming" /\ at' = [at EXCEPT ![a] = "dialing"]
    /\ dev' = [dev EXCEPT !.voice = a]
    /\ UNCHANGED <<link, serverVars, status, shown, reason, mounted, faults, stray, crossed, cut>>

OpenInterviewSocket(a) ==
    /\ at[a] = "dialing" /\ at' = [at EXCEPT ![a] = "done"]
    /\ link' = [link EXCEPT ![a].sock = "open"]
    /\ srv' = [srv EXCEPT ![a] = "starting"]
    /\ dev' = [dev EXCEPT !.socket = a]
    /\ UNCHANGED <<deaf, turn, buffer, filed, endRequested, said, began, heard,
                   status, shown, reason, mounted, faults, stray, crossed, cut>>

\* Wrong on purpose: the microphone is left to the next attempt.
DialFailsOpen(a) ==
    /\ at[a] = "dialing" /\ at' = [at EXCEPT ![a] = "done"]
    /\ Fault
    /\ dev' = [dev EXCEPT !.capture = 0]
    /\ Sets("error")
    /\ UNCHANGED <<link, serverVars, shown, reason, mounted, stray, crossed, cut>>
\* Wrong on purpose: the microphone is stopped, and its handle kept.
DialFailsHolds(a) ==
    /\ at[a] = "dialing" /\ at' = [at EXCEPT ![a] = "done"]
    /\ Fault
    /\ dev' = [dev EXCEPT !.mics = @ \ {a}]
    /\ Sets("error")
    /\ UNCHANGED <<link, serverVars, shown, reason, mounted, stray, crossed, cut>>
DialFails(a) ==
    /\ at[a] = "dialing" /\ at' = [at EXCEPT ![a] = "done"]
    /\ Fault
    /\ dev' = [dev EXCEPT !.mics = @ \ {a}, !.capture = 0]
    /\ Sets("error")
    /\ UNCHANGED <<link, serverVars, shown, reason, mounted, stray, crossed, cut>>

Stop ==
    /\ mounted /\ shown \in Running
    /\ Teardown(link)
    /\ status' = "ended" /\ shown' = status' /\ reason' = "you"
    /\ UNCHANGED <<serverVars, mounted, at, faults, stray, crossed, cut>>

Leave ==
    /\ mounted /\ mounted' = FALSE
    /\ Teardown(link)
    /\ UNCHANGED <<serverVars, status, shown, reason, at, faults, stray, crossed, cut>>

Render ==
    /\ mounted /\ shown # status /\ shown' = status
    /\ UNCHANGED <<link, serverVars, status, reason, mounted, at, dev, faults, stray, crossed, cut>>
-----------------------------------------------------------------------------
(* What the socket delivers.                                               *)

Delivers(a) == link[a].sock \in {"open", "shut"} /\ link[a].wire # <<>>
First(a) == Head(link[a].wire)
Taken(a) == [link EXCEPT ![a].wire = Tail(@)]
IsPlaying == dev.voice # 0 /\ dev.playing[dev.voice] # <<>>

TurnEnded == IF IsPlaying THEN UNCHANGED status ELSE Sets("recording")

\* Wrong on purpose: what is scheduled is left to play out.
InterruptLater(a) ==
    /\ UNCHANGED dev
    /\ cut' = [cut EXCEPT ![a] = First(a).turn]
    /\ Sets("interrupting")
Interrupt(a) ==
    /\ dev' = Silenced(dev)
    /\ cut' = [cut EXCEPT ![a] = First(a).turn]
    /\ Sets("interrupting")

HandleEvent(a) ==
    /\ Delivers(a)
    /\ First(a).is \notin {"audio", "closed", "interrupted"}
    /\ CASE First(a).is = "ready" -> Sets("recording")
         [] First(a).is = "candidateFinished" ->
              IF shown \in {"recording", "interrupting"} THEN Sets("processing")
              ELSE UNCHANGED status
         [] First(a).is = "interviewerStarted" -> Sets("interviewer-speaking")
         [] First(a).is = "turnEnded" -> TurnEnded
         [] First(a).is = "error" -> Sets("error")
    /\ link' = Taken(a)
    /\ UNCHANGED <<serverVars, shown, reason, mounted, at, dev, faults, stray, crossed, cut>>

HandleInterrupted(a) ==
    /\ Delivers(a) /\ First(a).is = "interrupted"
    /\ Interrupt(a)
    /\ link' = Taken(a)
    /\ UNCHANGED <<serverVars, shown, reason, mounted, at, faults, stray, crossed>>

HandleClosed(a) ==
    /\ Delivers(a) /\ First(a).is = "closed"
    /\ Sets("ended") /\ reason' = IF mounted THEN "told" ELSE reason
    /\ Teardown(Taken(a))
    /\ UNCHANGED <<serverVars, shown, mounted, at, faults, stray, crossed, cut>>

\* The chunk goes to the voice of its own attempt, whatever the ref says.
Enqueue(a) ==
    /\ Delivers(a) /\ First(a).is = "audio" /\ Len(dev.playing[a]) < MaxChunks
    /\ dev' = [dev EXCEPT !.playing[a] = Append(@, First(a).turn)]
    /\ link' = Taken(a)
    /\ UNCHANGED <<serverVars, status, shown, reason, mounted, at, faults, stray, crossed, cut>>

\* A chunk plays to its end.  It lasts longer than a render.
ChunkEnds(a) ==
    /\ dev.playing[a] # <<>> /\ (mounted => shown = status)
    /\ dev' = [dev EXCEPT !.playing[a] = Tail(@)]
    /\ IF Len(dev.playing[a]) = 1 /\ shown = "interviewer-speaking"
       THEN Sets("recording") ELSE UNCHANGED status
    /\ UNCHANGED <<link, serverVars, shown, reason, mounted, at, faults, stray, crossed, cut>>

\* Wrong on purpose: the generic reason takes the place of the server's.
DropAnyway == Sets("ended") /\ reason' = IF mounted THEN "dropped" ELSE reason
Drop ==
    IF status = "ended" THEN UNCHANGED <<status, reason>>
    ELSE Sets("ended") /\ reason' = IF mounted THEN "dropped" ELSE reason
\* The close event, of either side's close.
OnClose(a) ==
    /\ link[a].sock \in {"left", "shut"} /\ link[a].wire = <<>>
    /\ Drop
    /\ Teardown([link EXCEPT ![a].sock = "gone"])
    /\ UNCHANGED <<serverVars, shown, mounted, at, faults, stray, crossed, cut>>
-----------------------------------------------------------------------------
Server(a) ==
    /\ \/ GoLive(a) \/ CandidateLeft(a) \/ TimesOut(a) \/ CompletionEnd(a)
       \/ SaysClosed(a) \/ Refuse(a) \/ InterviewerText(a) \/ InterviewerStarted(a)
       \/ AudioOutput(a) \/ EndTurn(a) \/ Interrupted(a)
       \/ CandidateText(a) \/ EndInterviewTool(a)
    /\ UNCHANGED pageVars
ServerError(a) ==
    /\ StreamError(a) /\ Fault
    /\ UNCHANGED <<status, shown, reason, mounted, at, dev, stray, crossed, cut>>

Starting(a) == PermissionGranted(a) \/ StartCaptureFails(a) \/ VoiceResumes(a)
                 \/ OpenInterviewSocket(a) \/ DialFails(a)
Receiving(a) == HandleEvent(a) \/ HandleInterrupted(a) \/ HandleClosed(a)
                  \/ Enqueue(a) \/ ChunkEnds(a) \/ OnClose(a)

Init ==
    /\ DialogueInit
    /\ status = "idle" /\ shown = "idle" /\ reason = "none" /\ mounted = TRUE
    /\ at = [a \in Attempts |-> "none"]
    /\ dev = [mics |-> {}, capture |-> 0, socket |-> 0, voice |-> 0,
              playing |-> [a \in Attempts |-> <<>>]]
    /\ faults = 0 /\ stray = {} /\ crossed = FALSE
    /\ cut = [a \in Attempts |-> 0]

Next ==
    \/ Start \/ Stop \/ Leave \/ Render
    \/ \E a \in Attempts : Starting(a) \/ Receiving(a) \/ Server(a) \/ ServerError(a)

\* What the browser has begun it finishes, but for the permission prompt,
\* which waits for the candidate; the server's start resolves, its hard stop
\* fires and its shutdown ends; what was sent is delivered.
Fairness ==
    \A a \in Attempts :
      /\ WF_vars(VoiceResumes(a)) /\ WF_vars(OpenInterviewSocket(a) \/ DialFails(a))
      /\ WF_vars(Receiving(a))
      /\ WF_vars((GoLive(a) \/ Refuse(a)) /\ UNCHANGED pageVars)
      /\ WF_vars(TimesOut(a) /\ UNCHANGED pageVars)
      /\ WF_vars(SaysClosed(a) /\ UNCHANGED pageVars)
Spec == Init /\ [][Next]_vars /\ Fairness /\ WF_vars(Render)
-----------------------------------------------------------------------------
Devices == [mics : SUBSET Attempts, capture : {0} \cup Attempts, socket : {0} \cup Attempts,
            voice : {0} \cup Attempts, playing : [Attempts -> Seq(Turns)]]
\* The variables keep their types, and a ref leads to an open microphone.
TypeOK ==
    /\ DialogueTypeOK
    /\ status \in Statuses /\ shown \in Statuses
    /\ reason \in {"none", "you", "told", "dropped"} /\ mounted \in BOOLEAN
    /\ at \in [Attempts -> {"none", "asking", "resuming", "dialing", "done"}]
    /\ dev \in Devices
    /\ dev.capture \in {0} \cup dev.mics
    /\ faults \in 0..MaxFaults /\ stray \subseteq Attempts /\ crossed \in BOOLEAN
    /\ cut \in [Attempts -> Turns]

\* Nothing is left to arrive, to be heard or to be drawn.
Settled(a) == link[a].wire = <<>> /\ dev.playing[a] = <<>> /\ shown = status
\* "audio may outlast the event that describes it": whichever of the two ends
\* last gives the floor back, and a page at rest does not say the interviewer
\* speaks when their turn is over.
FloorIsShown ==
  \A a \in Attempts :
    mounted /\ ~crossed /\ dev.socket = a /\ Settled(a) /\ turn.phase = "quiet"
      => shown # "interviewer-speaking"

\* Once the page has handled a barge-in, nothing of the turn it cut off plays,
\* although the audio runs ahead of what is heard.  Not so for a socket that
\* came up behind a teardown: no ref leads to its voice any more.
VoiceIsCurrent ==
  \A a \in Attempts : dev.socket = a /\ dev.voice = a =>
    \A i \in DOMAIN dev.playing[a] : dev.playing[a][i] > cut[a]

\* What the page says of the turn, and what it plays of it, is the turn's.
TurnIsTheTurns == FloorIsShown /\ VoiceIsCurrent

\* The reason the server gave is not replaced by the generic one.
ReasonIsKept ==
    [][status = "ended" /\ reason \in {"told", "you"} /\ status' = "ended"
         => reason' # "dropped"]_vars

\* A page that is left releases its microphone, also when start() was still
\* waiting and opens it behind the page: at the latest when the server hangs
\* up.  Not so for a handle that was lost.
MicIsReleased ==
    \A a \in Attempts :
      (~mounted /\ a \in dev.mics) ~> (a \notin dev.mics \/ a \in stray)

\* "a navigation away must not leave it running"
NoMicBehindThePage ==
    ~mounted => \A a \in Attempts : at[a] \in {"none", "done"} => a \notin dev.mics
=============================================================================
