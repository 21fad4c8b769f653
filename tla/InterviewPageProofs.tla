------------------------ MODULE InterviewPageProofs ------------------------
(***************************************************************************)
(* Proofs about InterviewPage and the Dialogue it shares its socket with:  *)
(* the types, that every answer is filed once and with its question, that  *)
(* what the page shows and plays of a turn is the turn's, and that an      *)
(* ended interview keeps its reason.  All for any number of attempts,      *)
(* turns, blocks, fragments, messages under way, chunks and faults.        *)
(***************************************************************************)
EXTENDS InterviewPage, TLAPS

\* One more at the end of a sequence.
LEMMA Pushed ==
  ASSUME NEW S, NEW s \in Seq(S), NEW m \in S
  PROVE  /\ s \o <<m>> = Append(s, m)
         /\ Append(s, m) \in Seq(S) /\ Len(Append(s, m)) = Len(s) + 1
         /\ DOMAIN Append(s, m) = 1..Len(s) + 1
         /\ \A i \in 1..Len(s) : Append(s, m)[i] = s[i]
         /\ Append(s, m)[Len(s) + 1] = m
         /\ Last(Append(s, m)) = m /\ Append(s, m) # <<>>
BY DEF Last

\* The first of a sequence taken away.
LEMMA Popped ==
  ASSUME NEW S, NEW s \in Seq(S), s # <<>>
  PROVE  /\ Head(s) = s[1] /\ Head(s) \in S /\ Len(s) \in Nat \ {0}
         /\ Tail(s) \in Seq(S) /\ Len(Tail(s)) = Len(s) - 1
         /\ DOMAIN Tail(s) = 1..Len(s) - 1
         /\ \A i \in 1..Len(s) - 1 : Tail(s)[i] = s[i + 1]
OBVIOUS

\* What a sequence is.
LEMMA Plain ==
  ASSUME NEW S, NEW s \in Seq(S)
  PROVE  /\ Len(s) \in Nat /\ DOMAIN s = 1..Len(s) /\ (s = <<>> <=> Len(s) = 0)
         /\ \A i \in DOMAIN s : s[i] \in S
         /\ s # <<>> => Last(s) = s[Len(s)] /\ Last(s) \in S
BY DEF Last

\* Behind an answer the text is pending, otherwise it is the question.
LEMMA QuestionGrows ==
  ASSUME NEW b \in Buffered, NEW t \in Turns
  PROVE  /\ AppendQuestion(b, t) \in Buffered
         /\ AppendQuestion(b, t).answer = b.answer
         /\ b.answer # <<>> => /\ AppendQuestion(b, t).question = b.question
                               /\ AppendQuestion(b, t).pending # <<>>
                               /\ Last(AppendQuestion(b, t).pending) = t
         /\ b.answer = <<>> => /\ Asked(AppendQuestion(b, t).question) = t
                               /\ AppendQuestion(b, t).pending = b.pending
<1>1. /\ b.question \in Seq(Turns) /\ b.pending \in Seq(Turns) /\ b.answer \in Seq(Words)
      /\ <<>> \in Seq(Turns)
  BY DEF Buffered
<1>2. CASE b.answer # <<>>
  <2>1. AppendQuestion(b, t) = [b EXCEPT !.pending = Append(b.pending, t)]
    BY <1>2 DEF AppendQuestion, HasAnswer
  <2>2. /\ Append(b.pending, t) \in Seq(Turns) /\ Append(b.pending, t) # <<>>
        /\ Last(Append(b.pending, t)) = t
    BY <1>1, Pushed
  <2> HIDE DEF AppendQuestion
  <2> QED
    BY <1>2, <2>1, <2>2 DEF Buffered
<1>3. CASE b.answer = <<>>
  <2> DEFINE before == IF b.questionTurnClosed THEN <<>> ELSE b.question
  <2>1. AppendQuestion(b, t) = [b EXCEPT !.question = Append(before, t), !.questionTurnClosed = FALSE]
    BY <1>3 DEF AppendQuestion, HasAnswer
  <2>2. before \in Seq(Turns)
    BY <1>1
  <2> HIDE DEF before
  <2>3. /\ Append(before, t) \in Seq(Turns) /\ Append(before, t) # <<>>
        /\ Last(Append(before, t)) = t
    BY ONLY <2>2, t \in Turns, Pushed
  <2>4. Asked(Append(before, t)) = t
    BY <2>3 DEF Asked
  <2> QED
    BY <1>3, <2>1, <2>3, <2>4 DEF Buffered
<1> QED
  BY <1>2, <1>3

\* A fragment goes to the end of the answer.
LEMMA AnswerGrows ==
  ASSUME NEW b \in Buffered, NEW w \in Words
  PROVE  /\ AppendAnswer(b, w) \in Buffered
         /\ AppendAnswer(b, w).answer = Append(b.answer, w)
         /\ AppendAnswer(b, w).question = b.question /\ AppendAnswer(b, w).pending = b.pending
<1>1. Append(b.answer, w) \in Seq(Words)
  BY DEF Buffered
<1> QED
  BY <1>1 DEF Buffered, AppendAnswer

\* What a turn's end and a barge-in make of a buffer: Take leaves the pending
\* text as the question, and no answer.
LEMMA TurnsEnd ==
  ASSUME NEW b \in Buffered
  PROVE  /\ Take(b) \in Buffered /\ Exchange(b) \in Exchanged
         /\ NoteTurnEnded(b) \in Buffered /\ TalkedOver(b) \in Buffered
         /\ Take(b).answer = <<>> /\ Take(b).pending = <<>> /\ Take(b).question = b.pending
         /\ Exchange(b).answer = b.answer /\ Exchange(b).question = b.question
         /\ NoteTurnEnded(b).answer = b.answer /\ NoteTurnEnded(b).question = b.question
         /\ NoteTurnEnded(b).pending = b.pending
         /\ TalkedOver(b).answer = b.answer /\ TalkedOver(b).question = b.question
         /\ TalkedOver(b).pending = <<>>
<1>1. <<>> \in Seq(Turns) /\ <<>> \in Seq(Words)
  OBVIOUS
<1> QED
  BY <1>1 DEF Buffered, Exchanged, NoteTurnEnded, TalkedOver, Take, NewBuffer, Exchange

\* What is sent arrives behind what is under way, on an open socket only.
LEMMA SentTypes ==
  ASSUME link \in [Attempts -> Socket], NEW a \in Attempts, NEW msgs \in Seq(Message)
  PROVE  /\ Sent(a, msgs) \in [Attempts -> Socket] /\ Ended(a, msgs) \in [Attempts -> Socket]
         /\ link[a].sock # "open" => Sent(a, msgs) = link /\ Ended(a, msgs) = link
         /\ link[a].sock = "open" =>
              /\ Sent(a, msgs)[a].sock = "open" /\ Sent(a, msgs)[a].wire = link[a].wire \o msgs
              /\ Ended(a, msgs)[a].sock = "shut" /\ Ended(a, msgs)[a].wire = link[a].wire \o msgs
         /\ \A b \in Attempts \ {a} : Sent(a, msgs)[b] = link[b] /\ Ended(a, msgs)[b] = link[b]
<1>1. link[a] \in Socket /\ link[a].wire \in Seq(Message)
  BY DEF Socket
<1>2. link[a].wire \o msgs \in Seq(Message)
  BY <1>1
<1> HIDE DEF Message
<1> QED
  BY <1>1, <1>2 DEF Sent, Ended, Reaches, Socket
-----------------------------------------------------------------------------
(* The types.                                                              *)

\* The fragments said stay within their bound, which DialogueTypeOK needs to
\* keep their numbers.
Types == TypeOK /\ Len(said) <= MaxWords

\* What the messages are.
LEMMA Messages ==
  ASSUME DialogueTypeOK
  PROVE  /\ \A is \in Kinds : [is |-> is, turn |-> turn.n] \in Message /\ Say(is) \in Message
         /\ turn.n \in Turns
BY BoundsAssumption DEF DialogueTypeOK, Message, Say, Turns

\* A message sent leaves the sockets typed.
LEMMA SendTypes ==
  ASSUME DialogueTypeOK, NEW a \in Attempts, NEW is \in Kinds, Send(a, is)
  PROVE  link' \in [Attempts -> Socket]
<1>1. <<[is |-> is, turn |-> turn.n]>> \in Seq(Message)
  BY Messages
<1> QED
  BY <1>1, SentTypes DEF Send, DialogueTypeOK

\* The server's startup and shutdown keep the types.
LEMMA ServerTypes ==
  ASSUME Types, NEW a \in Attempts,
         \/ GoLive(a) \/ CandidateLeft(a) \/ TimesOut(a) \/ CompletionEnd(a)
         \/ SaysClosed(a) \/ Refuse(a)
  PROVE  DialogueTypeOK' /\ Len(said)' <= MaxWords
<1> USE DEF DialogueTypeOK
<1>0. DialogueTypeOK /\ Len(said) <= MaxWords
  BY DEF Types, TypeOK
<1>1. CASE GoLive(a)
  <2>1. link' \in [Attempts -> Socket]
    BY <1>0, <1>1, SendTypes DEF GoLive, Kinds
  <2> QED
    <3>1. deaf' = deaf \/ deaf' = deaf \cup {a}
      BY <1>1 DEF GoLive
    <3>2. deaf' \subseteq Attempts
      BY <1>0, <3>1
    <3> QED
      BY <1>0, <1>1, <2>1, <3>2 DEF GoLive
<1>2. CASE Shutdown(a)
  <2>1. Exchange(buffer) \in Exchanged /\ Take(buffer) \in Buffered
    BY <1>0, TurnsEnd
  <2>2. buffer' \in Buffered /\ filed' \in Seq(Exchanged)
    <3>1. Append(filed, Exchange(buffer)) \in Seq(Exchanged)
      BY <1>0, <2>1, Pushed
    <3> QED
      BY <1>0, <1>2, <2>1, <3>1 DEF Shutdown, FlushExchange
  <2> QED
    BY <1>0, <1>2, <2>2 DEF Shutdown
<1>3. CASE SaysClosed(a)
  <2>1. <<Say("closed")>> \in Seq(Message)
    BY <1>0, Messages DEF Kinds
  <2>2. link' \in [Attempts -> Socket]
    BY <1>0, <1>3, <2>1, SentTypes DEF SaysClosed
  <2> QED
    BY <1>0, <1>3, <2>2 DEF SaysClosed
<1>4. CASE Refuse(a)
  <2>1. Say("error") \in Message /\ Say("closed") \in Message
    BY <1>0, Messages DEF Kinds
  <2>2. \A m, k \in Message : <<m>> \in Seq(Message) /\ <<m, k>> \in Seq(Message)
    OBVIOUS
  <2>3. link' \in [Attempts -> Socket]
    <3>1. PICK msgs \in {<<Say("error")>>, <<Say("error"), Say("closed")>>} :
            link' = Ended(a, msgs)
      BY <1>4 DEF Refuse
    <3>2. msgs \in Seq(Message)
      BY <2>1, <2>2, <3>1
    <3> QED
      BY <1>0, <3>1, <3>2, SentTypes
  <2> QED
    BY <1>0, <1>4, <2>3 DEF Refuse
<1> QED
  BY <1>1, <1>2, <1>3, <1>4 DEF CandidateLeft, TimesOut, CompletionEnd

\* The stream's events keep the types.
LEMMA EventTypes ==
  ASSUME Types, NEW a \in Attempts,
         \/ InterviewerText(a) \/ InterviewerStarted(a) \/ AudioOutput(a) \/ EndTurn(a)
         \/ Interrupted(a) \/ CandidateText(a) \/ EndInterviewTool(a) \/ StreamError(a)
  PROVE  DialogueTypeOK' /\ Len(said)' <= MaxWords
<1> USE DEF DialogueTypeOK
<1>0. DialogueTypeOK /\ Len(said) <= MaxWords
  BY DEF Types, TypeOK
<1>a. Len(said) \in 0..MaxWords
  BY <1>0, Plain, BoundsAssumption
<1>1. CASE InterviewerText(a)
  <2>1. turn' \in [n : Turns, blocks : 0..MaxBlocks, phase : {"quiet", "asking", "speaking"}]
    <3>1. MaxTurns \in Nat /\ MaxBlocks \in Nat \ {0}
      BY BoundsAssumption
    <3>2. CASE turn.n < MaxTurns /\ turn' = [n |-> turn.n + 1, blocks |-> 1, phase |-> "asking"]
      <4>1. 1 \in 0..MaxBlocks
        BY <3>1
      <4> QED
        BY <1>0, <3>1, <3>2, <4>1 DEF Turns
    <3>3. CASE turn.blocks < MaxBlocks
                 /\ turn' = [turn EXCEPT !.blocks = turn.blocks + 1, !.phase = "asking"]
      <4>1. turn \in [n : Turns, blocks : 0..MaxBlocks, phase : {"quiet", "asking", "speaking"}]
        BY <1>0
      <4>2. turn.blocks + 1 \in 0..MaxBlocks
        BY <3>1, <3>3, <4>1
      <4> QED
        BY ONLY <3>3, <4>1, <4>2
    <3> QED
      BY <1>1, <3>2, <3>3 DEF InterviewerText, NextBlock
  <2>2. turn'.n \in Turns
    BY <2>1
  <2>3. buffer' \in Buffered
    BY <1>0, <1>1, <2>2, QuestionGrows DEF InterviewerText
  <2> QED
    BY <1>0, <1>a, <1>1, <2>1, <2>3 DEF InterviewerText, NextBlock
<1>2. CASE InterviewerStarted(a)
  <2>1. link' \in [Attempts -> Socket]
    BY <1>0, <1>2, SendTypes DEF InterviewerStarted, Kinds
  <2> QED
    BY <1>0, <1>2, <2>1 DEF InterviewerStarted
<1>3. CASE AudioOutput(a)
  <2>1. link' \in [Attempts -> Socket]
    BY <1>0, <1>3, SendTypes DEF AudioOutput, Kinds
  <2> QED
    BY <1>0, <1>3, <2>1 DEF AudioOutput, serverVars
<1>4. CASE EndTurn(a)
  <2>1. link' \in [Attempts -> Socket]
    BY <1>0, <1>4, SendTypes DEF EndTurn, Kinds
  <2>2. Exchange(buffer) \in Exchanged /\ Take(buffer) \in Buffered
    BY <1>0, TurnsEnd
  <2>3. buffer' \in Buffered /\ filed' \in Seq(Exchanged)
    BY <1>0, <1>4, <2>2, TurnsEnd DEF EndTurn
  <2> QED
    BY <1>0, <1>a, <1>4, <2>1, <2>3 DEF EndTurn
<1>5. CASE Interrupted(a)
  <2>1. link' \in [Attempts -> Socket]
    BY <1>0, <1>5, SendTypes DEF Interrupted, Kinds
  <2>2. buffer' \in Buffered
    BY <1>0, <1>5, TurnsEnd DEF Interrupted
  <2> QED
    BY <1>0, <1>5, <2>1, <2>2 DEF Interrupted
<1>6. CASE CandidateText(a)
  <2>1. link' \in [Attempts -> Socket]
    BY <1>0, <1>6, SendTypes DEF CandidateText, Kinds
  <2>2. Len(said) + 1 \in Words
    BY <1>a, <1>6, BoundsAssumption DEF CandidateText, Words
  <2>3. buffer' \in Buffered
    BY <1>0, <1>6, <2>2, AnswerGrows DEF CandidateText
  <2>4. \E t \in Turns \cup {TooLate} : said' = Append(said, t)
    <3>1. turn.n \in Turns
      BY <1>0
    <3>2. Len(said) > began => Last(said) \in Turns \cup {TooLate}
      BY <1>0, Plain
    <3> QED
      BY <1>6, <3>1, <3>2 DEF CandidateText
  <2>5. said' \in Seq(Turns \cup {TooLate}) /\ Len(said') = Len(said) + 1
    BY <1>0, <2>4, Pushed
  <2> QED
    BY <1>0, <1>a, <1>6, <2>1, <2>2, <2>3, <2>5 DEF CandidateText, Words
<1>7. CASE EndInterviewTool(a)
  BY <1>0, <1>7 DEF EndInterviewTool
<1>8. CASE StreamError(a)
  <2>1. link' \in [Attempts -> Socket]
    BY <1>0, <1>8, SendTypes DEF StreamError, Kinds
  <2> QED
    BY <1>0, <1>8, <2>1 DEF StreamError, serverVars
<1> QED
  BY <1>1, <1>2, <1>3, <1>4, <1>5, <1>6, <1>7, <1>8

\* A teardown leaves nothing open, and what its voice had scheduled is gone.
LEMMA Teardowns ==
  ASSUME dev \in Devices, NEW l \in [Attempts -> Socket]
  PROVE  /\ TornDown(dev) \in Devices
         /\ TornDown(dev).mics = dev.mics \ {dev.capture}
         /\ TornDown(dev).capture = 0 /\ TornDown(dev).socket = 0 /\ TornDown(dev).voice = 0
         /\ Silenced(dev) \in Devices
         /\ Silenced(dev).mics = dev.mics /\ Silenced(dev).capture = dev.capture
         /\ Silenced(dev).socket = dev.socket /\ Silenced(dev).voice = dev.voice
         /\ Silenced(dev).playing = TornDown(dev).playing
         /\ \A a \in Attempts : TornDown(dev).playing[a] =
              IF a = dev.voice THEN <<>> ELSE dev.playing[a]
         /\ HungUp(l) \in [Attempts -> Socket]
         /\ \A a \in Attempts : a # dev.socket => HungUp(l)[a] = l[a]
         /\ dev.socket # 0 =>
              /\ HungUp(l)[dev.socket].wire = <<>>
              /\ HungUp(l)[dev.socket].sock =
                   IF l[dev.socket].sock = "open" THEN "left" ELSE l[dev.socket].sock
<1>1. <<>> \in Seq(Turns) /\ <<>> \in Seq(Message) /\ 0 \notin Attempts
  BY DEF Attempts
<1>2. [dev.playing EXCEPT ![dev.voice] = <<>>] \in [Attempts -> Seq(Turns)]
  BY <1>1 DEF Devices
<1>3. Silenced(dev) \in Devices
  BY <1>1, <1>2 DEF Silenced, Devices
<1>4. /\ Silenced(dev).mics = dev.mics /\ Silenced(dev).capture = dev.capture
      /\ Silenced(dev).socket = dev.socket /\ Silenced(dev).voice = dev.voice
      /\ \A a \in Attempts : Silenced(dev).playing[a] =
           IF a = dev.voice THEN <<>> ELSE dev.playing[a]
  BY <1>1, <1>2 DEF Silenced, Devices
<1>5. /\ TornDown(dev) \in Devices
      /\ TornDown(dev).mics = Silenced(dev).mics \ {Silenced(dev).capture}
      /\ TornDown(dev).capture = 0 /\ TornDown(dev).socket = 0 /\ TornDown(dev).voice = 0
      /\ TornDown(dev).playing = Silenced(dev).playing
  <2> DEFINE d == Silenced(dev)
  <2>1. TornDown(dev) = [d EXCEPT !.mics = d.mics \ {dev.capture}, !.capture = 0,
                                  !.socket = 0, !.voice = 0]
    BY DEF TornDown
  <2>2. d \in Devices /\ d.capture = dev.capture
    BY <1>3, <1>4
  <2> HIDE DEF d
  <2>3. d.mics \ {dev.capture} \in SUBSET Attempts
    BY <2>2 DEF Devices
  <2>4. /\ TornDown(dev) \in Devices
        /\ TornDown(dev).mics = d.mics \ {d.capture}
        /\ TornDown(dev).capture = 0 /\ TornDown(dev).socket = 0 /\ TornDown(dev).voice = 0
        /\ TornDown(dev).playing = d.playing
    BY ONLY <2>1, <2>2, <2>3 DEF Devices
  <2> QED
    BY <2>4 DEF d
<1>6. /\ HungUp(l) \in [Attempts -> Socket]
      /\ \A a \in Attempts : a # dev.socket => HungUp(l)[a] = l[a]
      /\ dev.socket # 0 =>
           /\ HungUp(l)[dev.socket].wire = <<>>
           /\ HungUp(l)[dev.socket].sock =
                IF l[dev.socket].sock = "open" THEN "left" ELSE l[dev.socket].sock
  <2>1. dev.socket \in Attempts \/ dev.socket = 0
    BY DEF Devices
  <2>2. CASE dev.socket = 0
    BY <2>2 DEF HungUp
  <2>3. CASE dev.socket \in Attempts
    <3> DEFINE s == dev.socket
               hung == [sock |-> IF l[s].sock = "open" THEN "left" ELSE l[s].sock, wire |-> <<>>]
    <3>1. hung \in Socket
      BY <1>1, <2>3 DEF Socket
    <3>2. HungUp(l) = [l EXCEPT ![s] = hung]
      BY <1>1, <2>3 DEF HungUp
    <3>3. hung.wire = <<>> /\ hung.sock = IF l[s].sock = "open" THEN "left" ELSE l[s].sock
      OBVIOUS
    <3> HIDE DEF hung
    <3> QED
      BY <2>3, <3>1, <3>2, <3>3
  <2> QED
    BY <2>1, <2>2, <2>3
<1> QED
  BY <1>3, <1>4, <1>5, <1>6

\* start() keeps the types, stop() and leaving as well.
LEMMA StartTypes ==
  ASSUME Types,
         \/ Start \/ Stop \/ Leave \/ Render \/ \E a \in Attempts : Starting(a)
  PROVE  Types'
<1> USE DEF Types, TypeOK, Statuses, Running
<1>0. dev \in Devices /\ link \in [Attempts -> Socket]
  BY DEF DialogueTypeOK
<1>1. CASE Start
  BY <1>1 DEF Start, serverVars, DialogueTypeOK
<1>2. CASE Stop \/ Leave
  <2>1. dev' = TornDown(dev) /\ link' = HungUp(link)
    BY <1>2 DEF Stop, Leave, Teardown
  <2>2. dev' \in Devices /\ link' \in [Attempts -> Socket] /\ dev'.capture = 0
    BY <1>0, <2>1, Teardowns
  <2>3. DialogueTypeOK' /\ Len(said)' <= MaxWords
    BY <1>2, <2>2 DEF Stop, Leave, serverVars, DialogueTypeOK
  <2> QED
    BY <1>2, <2>2, <2>3 DEF Stop, Leave
<1>3. CASE Render
  BY <1>3 DEF Render, serverVars, DialogueTypeOK
<1>4. ASSUME NEW a \in Attempts, Starting(a) PROVE Types'
  <2>1. CASE PermissionGranted(a) \/ StartCaptureFails(a) \/ VoiceResumes(a) \/ DialFails(a)
    <3>1. DialogueTypeOK' /\ Len(said)' <= MaxWords
      BY <2>1 DEF PermissionGranted, StartCaptureFails, VoiceResumes, DialFails, serverVars,
                  DialogueTypeOK
    <3>2. dev' \in Devices /\ dev'.capture \in {0} \cup dev'.mics
      <4>1. CASE PermissionGranted(a)
        BY <1>0, <4>1 DEF PermissionGranted, Devices
      <4>2. CASE StartCaptureFails(a)
        <5>1. PICK opened \in {{}, {a}} : dev' = [dev EXCEPT !.mics = dev.mics \cup opened]
          BY <4>2 DEF StartCaptureFails
        <5> QED
          BY <1>0, <5>1 DEF Devices
      <4>3. CASE VoiceResumes(a)
        BY <1>0, <4>3 DEF VoiceResumes, Devices
      <4>4. CASE DialFails(a)
        BY <1>0, <4>4 DEF DialFails, Devices
      <4> QED
        BY <2>1, <4>1, <4>2, <4>3, <4>4
    <3>3. status' \in Statuses
      BY <2>1 DEF PermissionGranted, StartCaptureFails, VoiceResumes, DialFails, Sets
    <3>4. at' \in [Attempts -> {"none", "asking", "resuming", "dialing", "done"}]
      BY <2>1 DEF PermissionGranted, StartCaptureFails, VoiceResumes, DialFails
    <3>5. faults' \in 0..MaxFaults
      BY <2>1, PageAssumption DEF PermissionGranted, StartCaptureFails, VoiceResumes, DialFails,
                                  Fault
    <3>6. stray' \subseteq Attempts
      BY <1>0, <2>1 DEF PermissionGranted, StartCaptureFails, VoiceResumes, DialFails, Devices
    <3> QED
      BY <2>1, <3>1, <3>2, <3>3, <3>4, <3>5, <3>6
      DEF PermissionGranted, StartCaptureFails, VoiceResumes, DialFails
  <2>2. CASE OpenInterviewSocket(a)
    <3>1. link' \in [Attempts -> Socket]
      BY <1>0, <2>2 DEF OpenInterviewSocket, Socket
    <3>2. DialogueTypeOK' /\ Len(said)' <= MaxWords
      BY <2>2, <3>1 DEF OpenInterviewSocket, DialogueTypeOK
    <3>3. dev' \in Devices /\ dev'.capture \in {0} \cup dev'.mics
      BY <1>0, <2>2 DEF OpenInterviewSocket, Devices
    <3> QED
      BY <2>2, <3>2, <3>3 DEF OpenInterviewSocket
  <2> QED
    BY <1>4, <2>1, <2>2 DEF Starting
<1> QED
  BY <1>1, <1>2, <1>3, <1>4

\* So does what the socket delivers, and a chunk that ends.
LEMMA ReceiveTypes ==
  ASSUME Types, NEW a \in Attempts, Receiving(a)
  PROVE  Types'
<1> USE DEF Types, TypeOK
<1>0. dev \in Devices /\ link \in [Attempts -> Socket] /\ link[a] \in Socket
      /\ link[a].wire \in Seq(Message) /\ dev.playing[a] \in Seq(Turns)
  BY DEF DialogueTypeOK, Socket, Devices
<1>1. ASSUME link[a].wire # <<>>
      PROVE  Taken(a) \in [Attempts -> Socket] /\ First(a) \in Message /\ First(a).turn \in Turns
  <2>1. Tail(link[a].wire) \in Seq(Message) /\ First(a) \in Message
    BY <1>0, <1>1, Popped DEF First
  <2> QED
    BY <1>0, <2>1 DEF Taken, Socket, Message
<1>2. ASSUME link' \in [Attempts -> Socket], UNCHANGED serverVars
      PROVE  DialogueTypeOK' /\ Len(said)' <= MaxWords
  BY <1>2 DEF serverVars, DialogueTypeOK
<1>3. CASE HandleEvent(a)
  <2>1. link' \in [Attempts -> Socket]
    BY <1>1, <1>3 DEF HandleEvent, Delivers
  <2>2. First(a).is \in {"ready", "candidateFinished", "interviewerStarted", "turnEnded", "error"}
    BY <1>1, <1>3 DEF HandleEvent, Delivers, Message, Kinds
  <2>3. status' \in Statuses
    BY <1>3, <2>2 DEF HandleEvent, Sets, TurnEnded, Statuses, Running
  <2> QED
    BY <1>2, <1>3, <2>1, <2>3 DEF HandleEvent
<1>4. CASE HandleInterrupted(a)
  <2>1. link' \in [Attempts -> Socket] /\ First(a).turn \in Turns
    BY <1>1, <1>4 DEF HandleInterrupted, Delivers
  <2>2. dev' \in Devices /\ dev'.capture \in {0} \cup dev'.mics
    BY <1>0, <1>4, Teardowns DEF HandleInterrupted, Interrupt
  <2>3. status' \in Statuses /\ cut' \in [Attempts -> Turns]
    BY <1>4, <2>1 DEF HandleInterrupted, Interrupt, Sets, Statuses, Running
  <2> QED
    BY <1>2, <1>4, <2>1, <2>2, <2>3 DEF HandleInterrupted
<1>5. CASE HandleClosed(a)
  <2>1. Taken(a) \in [Attempts -> Socket]
    BY <1>1, <1>5 DEF HandleClosed, Delivers
  <2>2. link' \in [Attempts -> Socket] /\ dev' \in Devices /\ dev'.capture = 0
    BY <1>0, <1>5, <2>1, Teardowns DEF HandleClosed, Teardown
  <2> QED
    BY <1>2, <1>5, <2>2 DEF HandleClosed, Sets, Statuses
<1>6. CASE Enqueue(a)
  <2>1. link' \in [Attempts -> Socket] /\ First(a).turn \in Turns
    BY <1>1, <1>6 DEF Enqueue, Delivers
  <2>2. Append(dev.playing[a], First(a).turn) \in Seq(Turns)
    BY <1>0, <2>1, Pushed
  <2>3. dev' \in Devices /\ dev'.capture \in {0} \cup dev'.mics
    BY <1>0, <1>6, <2>2 DEF Enqueue, Devices
  <2> QED
    BY <1>2, <1>6, <2>1, <2>3 DEF Enqueue
<1>7. CASE ChunkEnds(a)
  <2>1. Tail(dev.playing[a]) \in Seq(Turns)
    BY <1>0, <1>7, Popped DEF ChunkEnds
  <2>2. dev' \in Devices /\ dev'.capture \in {0} \cup dev'.mics
    BY <1>0, <1>7, <2>1 DEF ChunkEnds, Devices
  <2>3. status' \in Statuses
    BY <1>7 DEF ChunkEnds, Sets, Statuses, Running
  <2> QED
    BY <1>2, <1>0, <1>7, <2>2, <2>3 DEF ChunkEnds
<1>8. CASE OnClose(a)
  <2>1. [link EXCEPT ![a].sock = "gone"] \in [Attempts -> Socket]
    BY <1>0 DEF Socket
  <2>2. link' \in [Attempts -> Socket] /\ dev' \in Devices /\ dev'.capture = 0
    BY <1>0, <1>8, <2>1, Teardowns DEF OnClose, Teardown
  <2> QED
    BY <1>2, <1>8, <2>2 DEF OnClose, Drop, Sets, Statuses
<1> QED
  BY <1>3, <1>4, <1>5, <1>6, <1>7, <1>8 DEF Receiving

\* No step of the page or of the server leaves the types.
LEMMA TypesStay ==
  ASSUME Types, [Next]_vars
  PROVE  Types'
<1>1. ASSUME NEW a \in Attempts, Server(a) \/ ServerError(a) PROVE Types'
  <2>1. DialogueTypeOK' /\ Len(said)' <= MaxWords
    BY <1>1, ServerTypes, EventTypes DEF Server, ServerError
  <2>2. faults' \in 0..MaxFaults
    BY <1>1, PageAssumption DEF Server, ServerError, Fault, pageVars, Types, TypeOK
  <2> QED
    BY <1>1, <2>1, <2>2 DEF Server, ServerError, pageVars, Types, TypeOK
<1>2. CASE UNCHANGED vars
  BY <1>2 DEF vars, pageVars, serverVars, Types, TypeOK, DialogueTypeOK
<1> QED
  BY <1>1, <1>2, StartTypes, ReceiveTypes DEF Next

\* The types in every reachable state, with the bound they need.
LEMMA TypesHold == Spec => []Types
<1>1. Init => Types
  <2>1. ASSUME Init PROVE DialogueTypeOK /\ Len(said) <= MaxWords
    <3> USE <2>1, BoundsAssumption DEF Init, DialogueInit
    <3>1. /\ 0 \in Turns /\ 0 \in 0..MaxBlocks /\ 0 \in 0..MaxWords
          /\ <<>> \in Seq(Turns) /\ <<>> \in Seq(Words) /\ <<>> \in Seq(Message)
          /\ <<>> \in Seq(Exchanged) /\ <<>> \in Seq(Turns \cup {TooLate}) /\ Len(<<>>) = 0
      BY DEF Turns
    <3>2. buffer \in Buffered
      BY <3>1 DEF Buffered, NewBuffer
    <3>3. link \in [Attempts -> Socket]
      BY <3>1 DEF Socket
    <3>4. turn \in [n : Turns, blocks : 0..MaxBlocks, phase : {"quiet", "asking", "speaking"}]
      BY <3>1
    <3>5. filed \in Seq(Exchanged) /\ said \in Seq(Turns \cup {TooLate}) /\ Len(said) <= MaxWords
      BY <3>1
    <3> QED
      BY <3>1, <3>2, <3>3, <3>4, <3>5 DEF DialogueTypeOK
  <2>2. ASSUME Init PROVE TypeOK
    <3>1. <<>> \in Seq(Turns) /\ 0 \in Turns /\ 0 \in 0..MaxFaults
      BY BoundsAssumption, PageAssumption DEF Turns
    <3>2. dev \in Devices /\ dev.capture = 0
      BY <2>2, <3>1 DEF Init, Devices
    <3> QED
      BY <2>1, <2>2, <3>1, <3>2 DEF Init, TypeOK, Statuses
  <2> QED
    BY <2>1, <2>2 DEF Types
<1>2. Types /\ [Next]_vars => Types'
  BY TypesStay
<1> QED
  BY <1>1, <1>2, PTL DEF Spec

\* TypeOK: the variables are of their types in every reachable state, and the
\* reference to an open microphone leads to one.
THEOREM TypeCorrect == Spec => []TypeOK
<1>1. Types => TypeOK
  BY DEF Types
<1> QED
  BY <1>1, TypesHold, PTL
-----------------------------------------------------------------------------
(* The dialogue: the invariant under AnswersFitTheirQuestions.             *)

\* The shutdown has taken the buffer: nothing said from there on counts.
Over == \E a \in Attempts : srv[a] \in {"closing", "over"}
Engaged(a) == srv[a] \in {"live", "closing", "over"}
OneServer ==
    /\ \A a, b \in Attempts : Engaged(a) /\ Engaged(b) => a = b
    /\ \A a \in Attempts : at[a] # "done" => srv[a] = "none"

\* What the text of the turn under way has become: behind an answer it is
\* pending, and only then the turn's end files an exchange.
PendingFits ==
    /\ heard <= Len(said)
    /\ turn.phase = "quiet" => buffer.pending = <<>>
    /\ turn.phase # "quiet" => (buffer.pending # <<>> <=> heard > began)
    /\ buffer.pending # <<>> => buffer.answer # <<>> /\ Last(buffer.pending) = turn.n

\* The answer under way began where the history says, and answers the question
\* before it; without one, that question is the turn's.
AnswerFits ==
    /\ began = Upto(filed, Len(filed))
    /\ buffer.answer = <<>> => Asked(buffer.question) = turn.n
    /\ buffer.answer # <<>> =>
         \A w \in DOMAIN said : w > began => said[w] = Asked(buffer.question)

\* What is said too late is all that is behind the exchanges filed.
RestIsTooLate == \A w \in DOMAIN said : w > Upto(filed, Len(filed)) => said[w] = TooLate

DialogueIsSound ==
    /\ AnswersFitTheirQuestions
    /\ ~Over => PendingFits /\ AnswerFits
    /\ Over => RestIsTooLate

\* Filing the answer under way leaves none.
LEMMA FilingInOrder ==
  ASSUME NEW f \in Seq(Exchanged), NEW x \in Exchanged, NEW n \in Nat,
         EachOnceInOrder(f, x.answer, n), x.answer # <<>>
  PROVE  /\ EachOnceInOrder(Append(f, x), <<>>, n)
         /\ Upto(Append(f, x), Len(Append(f, x))) = n
<1> DEFINE g == Append(f, x)
<1>1. /\ Len(f) \in Nat /\ Len(g) = Len(f) + 1 /\ DOMAIN f = 1..Len(f) /\ DOMAIN g = 1..Len(f) + 1
      /\ \A i \in 1..Len(f) : g[i] = f[i]
      /\ g[Len(f) + 1] = x
  BY Pushed, Plain
<1>2. x.answer \in Seq(Words)
  BY DEF Exchanged
<1>3. /\ Len(x.answer) \in Nat \ {0} /\ DOMAIN x.answer = 1..Len(x.answer)
      /\ Last(x.answer) = x.answer[Len(x.answer)]
  BY <1>2, Plain
<1>4. Last(x.answer) = n
  BY <1>3 DEF EachOnceInOrder, GoesOn
<1> HIDE DEF g
<1>5. Upto(g, Len(g)) = n
  BY <1>1, <1>4 DEF Upto
<1>6. \A i \in 0..Len(f) : Upto(g, i) = Upto(f, i)
  BY <1>1 DEF Upto
<1>7. ASSUME NEW i \in DOMAIN g
      PROVE  g[i].answer # <<>> /\ GoesOn(g[i].answer, Upto(g, i - 1))
  <2>1. CASE i = Len(f) + 1
    BY <1>1, <1>6, <2>1 DEF EachOnceInOrder
  <2>2. CASE i \in 1..Len(f)
    <3>1. i - 1 \in 0..Len(f)
      BY <1>1, <2>2
    <3> QED
      BY <1>1, <1>6, <2>2, <3>1 DEF EachOnceInOrder
  <2> QED
    BY <1>1, <2>1, <2>2
<1>8. Len(<<>>) = 0 /\ DOMAIN <<>> = {}
  OBVIOUS
<1> QED
  BY <1>5, <1>7, <1>8 DEF EachOnceInOrder, GoesOn, g

\* A fragment said goes on where the others ended.
LEMMA SayingInOrder ==
  ASSUME NEW f, NEW answer \in Seq(Words), NEW n \in Nat, n + 1 \in Words,
         Upto(f, Len(f)) \in Int, EachOnceInOrder(f, answer, n)
  PROVE  EachOnceInOrder(f, Append(answer, n + 1), n + 1)
<1> DEFINE more == Append(answer, n + 1)
<1>1. /\ Len(answer) \in Nat /\ Len(more) = Len(answer) + 1 /\ DOMAIN answer = 1..Len(answer)
      /\ DOMAIN more = 1..Len(answer) + 1 /\ \A j \in 1..Len(answer) : more[j] = answer[j]
      /\ more[Len(answer) + 1] = n + 1
  BY Pushed, Plain
<1> HIDE DEF more
<1>2. n = Upto(f, Len(f)) + Len(answer) /\ GoesOn(answer, Upto(f, Len(f)))
  BY DEF EachOnceInOrder
<1>3. GoesOn(more, Upto(f, Len(f)))
  BY <1>1, <1>2 DEF GoesOn
<1>4. n + 1 = Upto(f, Len(f)) + Len(more)
  BY <1>1, <1>2
<1> QED
  BY <1>3, <1>4 DEF EachOnceInOrder, more

\* The fragments of the answer under way, and how far the filed ones reach.
LEMMA UnderWay ==
  ASSUME NEW f \in Seq(Exchanged), NEW answer \in Seq(Words), NEW n \in Nat,
         EachOnceInOrder(f, answer, n)
  PROVE  /\ Upto(f, Len(f)) \in Nat /\ n = Upto(f, Len(f)) + Len(answer)
         /\ Len(answer) \in Nat /\ (answer = <<>> <=> Upto(f, Len(f)) = n)
         /\ \A w \in ToSet(answer) : w \in 1..n /\ w > Upto(f, Len(f))
<1>1. Len(answer) \in Nat /\ DOMAIN answer = 1..Len(answer) /\ (answer = <<>> <=> Len(answer) = 0)
  BY Plain
<1>2. Len(f) \in Nat /\ DOMAIN f = 1..Len(f)
  BY Plain
<1>3. Upto(f, Len(f)) \in Nat
  <2>1. CASE Len(f) = 0
    BY <2>1 DEF Upto
  <2>2. CASE Len(f) # 0
    <3>1. f[Len(f)] \in Exchanged /\ f[Len(f)].answer # <<>>
      BY <1>2, <2>2 DEF EachOnceInOrder
    <3>2. f[Len(f)].answer \in Seq(Words)
      BY <3>1 DEF Exchanged
    <3>3. Last(f[Len(f)].answer) \in Words
      BY <3>1, <3>2, Plain
    <3> QED
      BY <2>2, <3>3 DEF Upto, Words
  <2> QED
    BY <2>1, <2>2
<1>4. n = Upto(f, Len(f)) + Len(answer) /\ GoesOn(answer, Upto(f, Len(f)))
  BY DEF EachOnceInOrder
<1>5. \A w \in ToSet(answer) : w \in 1..n /\ w > Upto(f, Len(f))
  BY <1>1, <1>3, <1>4 DEF GoesOn, ToSet
<1> QED
  BY <1>1, <1>3, <1>4, <1>5

\* One exchange more, one fragment more.
LEMMA QuestionsKept ==
  ASSUME NEW f \in Seq(Exchanged), NEW s \in Seq(Turns \cup {TooLate}),
         \A i \in DOMAIN f : WithItsQuestion(f[i], s)
  PROVE  /\ \A x \in Exchanged : WithItsQuestion(x, s) =>
              \A i \in DOMAIN Append(f, x) : WithItsQuestion(Append(f, x)[i], s)
         /\ \A t \in Turns \cup {TooLate} :
              \A i \in DOMAIN f : WithItsQuestion(f[i], Append(s, t))
<1>1. ASSUME NEW x \in Exchanged, WithItsQuestion(x, s), NEW i \in DOMAIN Append(f, x)
      PROVE  WithItsQuestion(Append(f, x)[i], s)
  <2>1. /\ Len(f) \in Nat /\ DOMAIN f = 1..Len(f) /\ DOMAIN Append(f, x) = 1..Len(f) + 1
        /\ \A j \in 1..Len(f) : Append(f, x)[j] = f[j]
        /\ Append(f, x)[Len(f) + 1] = x
    BY Pushed, Plain
  <2>2. i = Len(f) + 1 \/ i \in 1..Len(f)
    BY <2>1
  <2> QED
    BY <1>1, <2>1, <2>2
<1>2. ASSUME NEW t \in Turns \cup {TooLate}, NEW i \in DOMAIN f
      PROVE  WithItsQuestion(f[i], Append(s, t))
  <2>1. /\ Len(s) \in Nat /\ DOMAIN s = 1..Len(s) /\ DOMAIN Append(s, t) = 1..Len(s) + 1
        /\ \A j \in 1..Len(s) : Append(s, t)[j] = s[j]
    BY Pushed, Plain
  <2>2. WithItsQuestion(f[i], s)
    BY <1>2
  <2> QED
    BY ONLY <2>1, <2>2 DEF WithItsQuestion
<1> QED
  BY <1>1, <1>2

\* One connection of the session is let in, and none before its socket opens.
LEMMA OneServerStays ==
  ASSUME Types, OneServer, [Next]_vars
  PROVE  OneServer'
<1>0. /\ srv \in [Attempts -> {"none", "starting", "live", "closing", "over", "refused"}]
      /\ at \in [Attempts -> {"none", "asking", "resuming", "dialing", "done"}]
  BY DEF Types, TypeOK, DialogueTypeOK
<1>1. ASSUME srv' = srv, NEW a \in Attempts, NEW s \in {"asking", "resuming", "dialing", "done"},
             at' = at \/ (at' = [at EXCEPT ![a] = s] /\ at[a] # "done")
      PROVE  OneServer'
  BY <1>0, <1>1 DEF OneServer, Engaged
<1>2. ASSUME UNCHANGED <<srv, at>> PROVE OneServer'
  BY <1>2 DEF OneServer, Engaged
<1>3. CASE Start
  <2>1. PICK a \in Attempts : at[a] = "none" /\ at' = [at EXCEPT ![a] = "asking"]
    BY <1>3 DEF Start
  <2> QED
    BY <1>1, <1>3, <2>1 DEF Start, serverVars
<1>4. CASE Stop \/ Leave \/ Render
  BY <1>2, <1>4 DEF Stop, Leave, Render, serverVars
<1>5. ASSUME NEW a \in Attempts, Starting(a) PROVE OneServer'
  <2>1. CASE PermissionGranted(a) \/ StartCaptureFails(a) \/ VoiceResumes(a) \/ DialFails(a)
    BY <1>1, <2>1 DEF PermissionGranted, StartCaptureFails, VoiceResumes, DialFails, serverVars
  <2>2. CASE OpenInterviewSocket(a)
    BY <1>0, <2>2 DEF OpenInterviewSocket, OneServer, Engaged
  <2> QED
    BY <1>5, <2>1, <2>2 DEF Starting
<1>6. ASSUME NEW a \in Attempts, Receiving(a) PROVE OneServer'
  BY <1>2, <1>6 DEF Receiving, HandleEvent, HandleInterrupted, HandleClosed, Enqueue, ChunkEnds,
                    OnClose, serverVars
<1>7. ASSUME NEW a \in Attempts, Server(a) \/ ServerError(a) PROVE OneServer'
  <2>0. at' = at
    BY <1>7 DEF Server, ServerError, pageVars
  <2>1. CASE GoLive(a)
    BY <1>0, <2>0, <2>1 DEF GoLive, OneServer, Engaged
  <2>2. CASE Shutdown(a)
    BY <1>0, <2>0, <2>2 DEF Shutdown, OneServer, Engaged
  <2>3. CASE SaysClosed(a)
    BY <1>0, <2>0, <2>3 DEF SaysClosed, OneServer, Engaged
  <2>4. CASE Refuse(a)
    BY <1>0, <2>0, <2>4 DEF Refuse, OneServer, Engaged
  <2>5. CASE srv' = srv
    BY <1>2, <2>0, <2>5
  <2> QED
    BY <1>7, <2>1, <2>2, <2>3, <2>4, <2>5
    DEF Server, ServerError, CandidateLeft, TimesOut, CompletionEnd, InterviewerText, NextBlock,
        InterviewerStarted, AudioOutput, EndTurn, Interrupted, CandidateText, EndInterviewTool,
        StreamError, serverVars
<1>8. CASE UNCHANGED vars
  BY <1>2, <1>8 DEF vars, serverVars, pageVars
<1> QED
  BY <1>3, <1>4, <1>5, <1>6, <1>7, <1>8 DEF Next

\* Where the servers stand: one that is live is the only one, so nothing is
\* over, and what the others do does not count.
LEMMA WhoServes ==
  ASSUME OneServer, NEW a \in Attempts
  PROVE  srv[a] = "live" => ~Over
BY DEF OneServer, Engaged, Over

\* The exchange under way, filed, has its question.
LEMMA FiledFits ==
  ASSUME Types, DialogueIsSound, buffer.answer # <<>>
  PROVE  /\ WithItsQuestion(Exchange(buffer), said)
         /\ EachOnceInOrder(Append(filed, Exchange(buffer)), <<>>, Len(said))
         /\ Upto(Append(filed, Exchange(buffer)), Len(Append(filed, Exchange(buffer)))) = Len(said)
         /\ \A i \in DOMAIN Append(filed, Exchange(buffer)) :
              WithItsQuestion(Append(filed, Exchange(buffer))[i], said)
<1>0. /\ buffer \in Buffered /\ filed \in Seq(Exchanged) /\ said \in Seq(Turns \cup {TooLate})
      /\ buffer.answer \in Seq(Words)
  BY DEF Types, TypeOK, DialogueTypeOK, Buffered
<1>1. Len(said) \in Nat /\ DOMAIN said = 1..Len(said)
  BY <1>0, Plain
<1>2. /\ Exchange(buffer) \in Exchanged /\ Exchange(buffer).answer = buffer.answer
      /\ Exchange(buffer).question = buffer.question
  BY <1>0, TurnsEnd
<1>3. EachOnceInOrder(filed, buffer.answer, Len(said))
  BY DEF DialogueIsSound, AnswersFitTheirQuestions
<1>4. \A w \in ToSet(buffer.answer) : w \in DOMAIN said /\ w > Upto(filed, Len(filed))
  BY <1>0, <1>1, <1>3, UnderWay
<1>5. \A w \in ToSet(buffer.answer) : said[w] \in {TooLate, Asked(buffer.question)}
  <2>1. CASE Over
    BY <1>4, <2>1 DEF DialogueIsSound, RestIsTooLate
  <2>2. CASE ~Over
    BY <1>4, <2>2 DEF DialogueIsSound, AnswerFits
  <2> QED
    BY <2>1, <2>2
<1>6. WithItsQuestion(Exchange(buffer), said)
  BY <1>2, <1>4, <1>5 DEF WithItsQuestion
<1>7. \A i \in DOMAIN filed : WithItsQuestion(filed[i], said)
  BY DEF DialogueIsSound, AnswersFitTheirQuestions
<1> HIDE DEF WithItsQuestion, EachOnceInOrder
<1> QED
  BY <1>0, <1>1, <1>2, <1>3, <1>6, <1>7, FilingInOrder, QuestionsKept

\* When the shutdown takes the buffer, and when the turn ends behind an answer.
LEMMA FlushIsSound ==
  ASSUME Types, OneServer, DialogueIsSound, NEW a \in Attempts, Shutdown(a)
  PROVE  DialogueIsSound'
<1>0. /\ buffer \in Buffered /\ filed \in Seq(Exchanged) /\ said \in Seq(Turns \cup {TooLate})
      /\ buffer.answer \in Seq(Words) /\ said' = said
      /\ srv \in [Attempts -> {"none", "starting", "live", "closing", "over", "refused"}]
  BY DEF Types, TypeOK, DialogueTypeOK, Buffered, Shutdown
<1>1. Len(said) \in Nat /\ DOMAIN said = 1..Len(said)
  BY <1>0, Plain
<1>2. Over'
  BY <1>0 DEF Shutdown, Over
<1>3. AnswersFitTheirQuestions' /\ Upto(filed', Len(filed')) = Len(said)
  <2>1. CASE HasAnswer(buffer)
    <3>1. buffer.answer # <<>>
      BY <2>1 DEF HasAnswer
    <3>2. /\ filed' = Append(filed, Exchange(buffer)) /\ buffer' = Take(buffer)
          /\ Take(buffer).answer = <<>>
      BY <1>0, <2>1, TurnsEnd DEF Shutdown, FlushExchange
    <3> QED
      BY <1>0, <3>1, <3>2, FiledFits DEF AnswersFitTheirQuestions
  <2>2. CASE ~HasAnswer(buffer)
    <3>1. filed' = filed /\ buffer' = buffer /\ buffer.answer = <<>>
      BY <2>2 DEF Shutdown, FlushExchange, HasAnswer
    <3>2. EachOnceInOrder(filed, buffer.answer, Len(said))
      BY DEF DialogueIsSound, AnswersFitTheirQuestions
    <3>3. Upto(filed, Len(filed)) = Len(said)
      BY <1>0, <1>1, <3>1, <3>2, UnderWay
    <3> QED
      BY <1>0, <3>1, <3>3 DEF DialogueIsSound, AnswersFitTheirQuestions
  <2> QED
    BY <2>1, <2>2
<1>4. RestIsTooLate'
  BY <1>0, <1>1, <1>3 DEF RestIsTooLate
<1> QED
  BY <1>2, <1>3, <1>4 DEF DialogueIsSound

LEMMA TurnEndIsSound ==
  ASSUME Types, DialogueIsSound, NEW a \in Attempts, EndTurn(a)
  PROVE  DialogueIsSound'
<1>0. /\ buffer \in Buffered /\ filed \in Seq(Exchanged) /\ said \in Seq(Turns \cup {TooLate})
      /\ buffer.answer \in Seq(Words) /\ buffer.pending \in Seq(Turns)
      /\ said' = said /\ heard' = heard /\ Over' = Over
      /\ turn.n \in Turns /\ turn' = [turn EXCEPT !.phase = "quiet"] /\ turn.phase = "speaking"
      /\ began \in Int /\ heard \in Int
  BY DEF Types, TypeOK, DialogueTypeOK, Buffered, EndTurn, Over
<1>1. Len(said) \in Nat /\ DOMAIN said = 1..Len(said)
  BY <1>0, Plain
<1>2. turn'.phase = "quiet" /\ turn'.n = turn.n
  BY <1>0 DEF Types, TypeOK, DialogueTypeOK
<1>3. CASE IsComplete(buffer)
  <2>1. buffer.answer # <<>> /\ buffer.pending # <<>>
    BY <1>3 DEF IsComplete, HasAnswer
  <2>2. /\ filed' = Append(filed, Exchange(buffer)) /\ buffer' = NoteTurnEnded(Take(buffer))
        /\ buffer'.answer = <<>> /\ buffer'.pending = <<>> /\ buffer'.question = buffer.pending
    <3>1. Take(buffer) \in Buffered
      BY <1>0, TurnsEnd
    <3> QED
      BY <1>0, <1>3, <3>1, TurnsEnd DEF EndTurn
  <2>3. AnswersFitTheirQuestions' /\ Upto(filed', Len(filed')) = Len(said)
    BY <1>0, <2>1, <2>2, FiledFits DEF AnswersFitTheirQuestions
  <2>4. ASSUME Over PROVE RestIsTooLate'
    BY <1>0, <1>1, <2>3 DEF RestIsTooLate
  <2>5. ASSUME ~Over PROVE PendingFits' /\ AnswerFits'
    <3>1. PendingFits /\ AnswerFits
      BY <2>5 DEF DialogueIsSound
    <3>2. heard > began /\ Last(buffer.pending) = turn.n /\ heard <= Len(said)
      BY <1>0, <2>1, <3>1 DEF PendingFits
    <3>3. began' = Len(said)
      BY <3>2 DEF EndTurn
    <3>4. Asked(buffer'.question) = turn'.n
      BY <1>2, <2>1, <2>2, <3>2 DEF Asked
    <3> QED
      BY <1>0, <1>2, <2>2, <2>3, <3>2, <3>3, <3>4 DEF PendingFits, AnswerFits
  <2> QED
    BY <1>0, <2>3, <2>4, <2>5 DEF DialogueIsSound
<1>4. CASE ~IsComplete(buffer)
  <2>1. /\ filed' = filed /\ buffer' = NoteTurnEnded(buffer)
        /\ buffer'.answer = buffer.answer /\ buffer'.pending = buffer.pending
        /\ buffer'.question = buffer.question
    BY <1>0, <1>4, TurnsEnd DEF EndTurn
  <2>2. AnswersFitTheirQuestions'
    BY <1>0, <2>1 DEF DialogueIsSound, AnswersFitTheirQuestions
  <2>3. ASSUME Over PROVE RestIsTooLate'
    BY <1>0, <2>1, <2>3 DEF DialogueIsSound, RestIsTooLate
  <2>4. ASSUME ~Over PROVE PendingFits' /\ AnswerFits'
    <3>1. PendingFits /\ AnswerFits
      BY <2>4 DEF DialogueIsSound
    <3>2. buffer.pending = <<>> /\ ~(heard > began)
      BY <1>0, <1>4, <3>1 DEF PendingFits, IsComplete, HasAnswer
    <3>3. began' = began
      BY <3>2 DEF EndTurn
    <3> QED
      BY <1>0, <1>2, <2>1, <3>1, <3>2, <3>3 DEF PendingFits, AnswerFits
  <2> QED
    BY <1>0, <2>2, <2>3, <2>4 DEF DialogueIsSound
<1> QED
  BY <1>3, <1>4

\* A block of text is the next question, or pending behind an answer.
LEMMA TextIsSound ==
  ASSUME Types, DialogueIsSound, NEW a \in Attempts, InterviewerText(a)
  PROVE  DialogueIsSound'
<1>0. /\ buffer \in Buffered /\ filed \in Seq(Exchanged) /\ said \in Seq(Turns \cup {TooLate})
      /\ buffer.answer \in Seq(Words) /\ began \in Int
      /\ said' = said /\ filed' = filed /\ heard' = Len(said) /\ began' = began /\ Over' = Over
  BY DEF Types, TypeOK, DialogueTypeOK, Buffered, InterviewerText, NextBlock, Over
<1>1. Len(said) \in Nat /\ DOMAIN said = 1..Len(said)
  BY <1>0, Plain
<1>2. turn'.phase = "asking" /\ turn'.n \in Turns
  <2>1. turn' \in [n : Turns, blocks : 0..MaxBlocks, phase : {"quiet", "asking", "speaking"}]
    BY EventTypes DEF DialogueTypeOK
  <2>2. turn \in [n : Turns, blocks : 0..MaxBlocks, phase : {"quiet", "asking", "speaking"}]
    BY DEF Types, TypeOK, DialogueTypeOK
  <2> QED
    <3>1. \/ turn' = [n |-> turn.n + 1, blocks |-> 1, phase |-> "asking"]
          \/ turn' = [turn EXCEPT !.blocks = turn.blocks + 1, !.phase = "asking"]
      BY DEF InterviewerText, NextBlock
    <3>2. turn'.phase = "asking"
      <4>1. CASE turn' = [n |-> turn.n + 1, blocks |-> 1, phase |-> "asking"]
        BY ONLY <4>1
      <4>2. CASE turn' = [turn EXCEPT !.blocks = turn.blocks + 1, !.phase = "asking"]
        BY ONLY <2>2, <4>2
      <4> QED
        BY <3>1, <4>1, <4>2
    <3> QED
      BY <2>1, <3>2
<1>3. /\ buffer'.answer = buffer.answer
      /\ buffer.answer # <<>> => /\ buffer'.question = buffer.question
                                 /\ buffer'.pending # <<>> /\ Last(buffer'.pending) = turn'.n
      /\ buffer.answer = <<>> => /\ Asked(buffer'.question) = turn'.n
                                 /\ buffer'.pending = buffer.pending
  <2>1. buffer' = AppendQuestion(buffer, turn'.n)
    BY DEF InterviewerText
  <2> QED
    BY <1>0, <1>2, <2>1, QuestionGrows
<1>4. EachOnceInOrder(filed, buffer.answer, Len(said))
  BY DEF DialogueIsSound, AnswersFitTheirQuestions
<1>5. buffer.answer = <<>> <=> Upto(filed, Len(filed)) = Len(said)
  BY <1>0, <1>1, <1>4, UnderWay
<1>6. Upto(filed, Len(filed)) \in Nat /\ Upto(filed, Len(filed)) <= Len(said)
  BY <1>0, <1>1, <1>4, UnderWay
<1>7. AnswersFitTheirQuestions'
  BY <1>0, <1>3 DEF DialogueIsSound, AnswersFitTheirQuestions
<1>8. ASSUME Over PROVE RestIsTooLate'
  BY <1>0, <1>8 DEF DialogueIsSound, RestIsTooLate
<1>9. ASSUME ~Over PROVE PendingFits' /\ AnswerFits'
  <2>1. PendingFits /\ AnswerFits
    BY <1>9 DEF DialogueIsSound
  <2>2. AnswerFits'
    BY <1>0, <1>3, <2>1 DEF AnswerFits
  <2>3. began = Upto(filed, Len(filed))
    BY <2>1 DEF AnswerFits
  <2>4. buffer'.pending # <<>> <=> buffer.answer # <<>>
    BY <1>3, <2>1 DEF PendingFits
  <2>5. heard' > began' <=> buffer.answer # <<>>
    BY <1>0, <1>1, <1>5, <1>6, <2>3
  <2>6. heard' <= Len(said')
    BY <1>0, <1>1
  <2>7. buffer'.pending # <<>> => buffer'.answer # <<>> /\ Last(buffer'.pending) = turn'.n
    BY <1>3, <2>4
  <2>8. PendingFits'
    BY <1>2, <2>4, <2>5, <2>6, <2>7 DEF PendingFits
  <2> QED
    BY <2>2, <2>8
<1> QED
  BY <1>0, <1>7, <1>8, <1>9 DEF DialogueIsSound

\* A barge-in drops the question it cuts off, an answer under way goes on.
LEMMA BargeInIsSound ==
  ASSUME Types, DialogueIsSound, NEW a \in Attempts, InterviewerStarted(a) \/ Interrupted(a)
  PROVE  DialogueIsSound'
<1>0. /\ buffer \in Buffered
      /\ said' = said /\ filed' = filed /\ heard' = heard /\ began' = began /\ Over' = Over
  BY DEF Types, TypeOK, DialogueTypeOK, InterviewerStarted, Interrupted, Over
<1>1. /\ turn'.n = turn.n /\ turn.phase \in {"asking", "speaking"}
      /\ turn'.phase = "speaking" \/ turn'.phase = "quiet"
  BY DEF Types, TypeOK, DialogueTypeOK, InterviewerStarted, Interrupted
<1>2. /\ buffer'.answer = buffer.answer /\ buffer'.question = buffer.question
      /\ \/ buffer'.pending = buffer.pending /\ turn'.phase = "speaking"
         \/ buffer'.pending = <<>> /\ turn'.phase = "quiet"
  <2>1. CASE InterviewerStarted(a)
    BY <2>1 DEF Types, TypeOK, DialogueTypeOK, InterviewerStarted
  <2>2. CASE Interrupted(a)
    <3>1. buffer' = TalkedOver(buffer) /\ turn'.phase = "quiet"
      BY <2>2 DEF Types, TypeOK, DialogueTypeOK, Interrupted
    <3> QED
      BY <1>0, <3>1, TurnsEnd
  <2> QED
    BY <2>1, <2>2
<1>3. AnswersFitTheirQuestions'
  BY <1>0, <1>2 DEF DialogueIsSound, AnswersFitTheirQuestions
<1>4. ASSUME Over PROVE RestIsTooLate'
  BY <1>0, <1>4 DEF DialogueIsSound, RestIsTooLate
<1>5. ASSUME ~Over PROVE PendingFits' /\ AnswerFits'
  BY <1>0, <1>1, <1>2, <1>5 DEF DialogueIsSound, PendingFits, AnswerFits
<1> QED
  BY <1>0, <1>3, <1>4, <1>5 DEF DialogueIsSound

\* A fragment goes on with the answer under way, begins one, or is too late.
LEMMA FragmentIsSound ==
  ASSUME Types, OneServer, DialogueIsSound, NEW a \in Attempts, CandidateText(a)
  PROVE  DialogueIsSound'
<1> DEFINE n == Len(said)
           late == srv[a] = "closing"
           t == IF late THEN TooLate ELSE IF n > began THEN Last(said) ELSE turn.n
<1>0. /\ buffer \in Buffered /\ filed \in Seq(Exchanged) /\ said \in Seq(Turns \cup {TooLate})
      /\ buffer.answer \in Seq(Words) /\ began \in Int /\ turn.n \in Turns
      /\ turn' = turn /\ filed' = filed /\ heard' = heard /\ began' = began /\ Over' = Over
      /\ buffer' = AppendAnswer(buffer, n + 1) /\ said' = Append(said, t)
      /\ n < MaxWords
  BY DEF Types, TypeOK, DialogueTypeOK, Buffered, CandidateText, Over
<1>1. n \in Nat /\ DOMAIN said = 1..n /\ n + 1 \in Words
      /\ (said # <<>> => Last(said) = said[n] /\ Last(said) \in Turns \cup {TooLate})
      /\ (said = <<>> <=> n = 0)
  BY <1>0, Plain, BoundsAssumption DEF Words
<1>2. EachOnceInOrder(filed, buffer.answer, n)
  BY DEF DialogueIsSound, AnswersFitTheirQuestions
<1>3. /\ Upto(filed, Len(filed)) \in Nat /\ Upto(filed, Len(filed)) <= n
      /\ (buffer.answer = <<>> <=> Upto(filed, Len(filed)) = n)
  BY <1>0, <1>1, <1>2, UnderWay
<1>4. t \in Turns \cup {TooLate}
  <2>1. began \in Nat
    BY DEF Types, TypeOK, DialogueTypeOK
  <2>2. n > began => said # <<>>
    BY <1>1, <2>1
  <2> QED
    BY <1>0, <1>1, <2>2
<1> HIDE DEF t
<1>5. /\ Len(said') = n + 1 /\ DOMAIN said' = 1..n + 1
      /\ \A w \in 1..n : said'[w] = said[w]
      /\ said'[n + 1] = t
  BY <1>0, <1>4, Pushed
<1>6. /\ buffer'.answer = Append(buffer.answer, n + 1) /\ buffer'.question = buffer.question
      /\ buffer'.pending = buffer.pending
  BY <1>0, <1>1, AnswerGrows
<1>7. buffer'.answer # <<>>
  BY <1>0, <1>1, <1>6, Pushed
<1>8. AnswersFitTheirQuestions'
  <2>1. EachOnceInOrder(filed, Append(buffer.answer, n + 1), n + 1)
    BY <1>0, <1>1, <1>2, <1>3, SayingInOrder
  <2>2. \A i \in DOMAIN filed : WithItsQuestion(filed[i], said)
    BY DEF DialogueIsSound, AnswersFitTheirQuestions
  <2>3. \A i \in DOMAIN filed : WithItsQuestion(filed[i], Append(said, t))
    BY <1>0, <1>4, <2>2, QuestionsKept
  <2>4. /\ filed' = filed /\ said' = Append(said, t) /\ Len(said') = n + 1
        /\ buffer'.answer = Append(buffer.answer, n + 1)
    BY <1>0, <1>5, <1>6
  <2> QED
    BY <2>1, <2>3, <2>4 DEF AnswersFitTheirQuestions
<1>9. ASSUME Over PROVE RestIsTooLate'
  <2>1. t = TooLate
    <3>1. late
      BY <1>9, WhoServes DEF CandidateText, Live
    <3> QED
      BY <3>1 DEF t
  <2>2. RestIsTooLate
    BY <1>9 DEF DialogueIsSound
  <2>3. n + 1 \in Nat /\ \A w \in 1..n + 1 : w = n + 1 \/ w \in 1..n
    BY <1>1
  <2> QED
    BY <1>0, <1>1, <1>5, <2>1, <2>2, <2>3 DEF RestIsTooLate
<1>10. ASSUME ~Over PROVE PendingFits' /\ AnswerFits'
  <2>1. PendingFits /\ AnswerFits /\ ~late
    BY <1>10 DEF DialogueIsSound, Over
  <2>2. began = Upto(filed, Len(filed))
    BY <2>1 DEF AnswerFits
  <2>3. heard \in Int /\ heard <= n
    BY <2>1 DEF PendingFits, Types, TypeOK, DialogueTypeOK
  <2>4. PendingFits'
    BY <1>0, <1>1, <1>5, <1>6, <1>7, <2>1, <2>3 DEF PendingFits
  <2>5. t = Asked(buffer.question)
    <3>1. CASE buffer.answer = <<>>
      <4>1. ~(n > began)
        BY <1>1, <1>3, <2>2, <3>1
      <4> QED
        BY <2>1, <3>1, <4>1 DEF AnswerFits, t
    <3>2. CASE buffer.answer # <<>>
      <4>1. n > began /\ n # 0 /\ n \in DOMAIN said
        BY <1>1, <1>3, <2>2, <3>2
      <4>2. t = said[n]
        BY <1>1, <2>1, <4>1 DEF t
      <4> QED
        BY <2>1, <3>2, <4>1, <4>2 DEF AnswerFits
    <3> QED
      BY <3>1, <3>2
  <2>6. ASSUME NEW w \in 1..n, w > began PROVE said[w] = Asked(buffer.question)
    <3>1. buffer.answer # <<>>
      BY <1>1, <1>3, <2>2, <2>6
    <3> QED
      BY <1>1, <2>1, <2>6, <3>1 DEF AnswerFits
  <2>7. \A w \in 1..n + 1 : w = n + 1 \/ w \in 1..n
    BY <1>1
  <2>8. \A w \in DOMAIN said' : w > began' => said'[w] = Asked(buffer'.question)
    BY <1>0, <1>5, <1>6, <2>5, <2>6, <2>7
  <2> QED
    BY <1>0, <1>7, <2>2, <2>4, <2>8 DEF AnswerFits
<1> QED
  BY <1>0, <1>8, <1>9, <1>10 DEF DialogueIsSound

\* The rest of the program leaves the dialogue alone, or takes a connection in
\* before it begins.
LEMMA DialogueStays ==
  ASSUME Types, OneServer, DialogueIsSound, [Next]_vars
  PROVE  DialogueIsSound'
<1>0. srv \in [Attempts -> {"none", "starting", "live", "closing", "over", "refused"}]
  BY DEF Types, TypeOK, DialogueTypeOK
<1>1. ASSUME UNCHANGED <<turn, buffer, filed, said, began, heard>>, Over' = Over
      PROVE  DialogueIsSound'
  BY <1>1 DEF DialogueIsSound, AnswersFitTheirQuestions, RestIsTooLate, PendingFits, AnswerFits
<1>2. ASSUME UNCHANGED serverVars
      PROVE  DialogueIsSound'
  BY <1>1, <1>2 DEF serverVars, Over
<1>3. CASE Start \/ Stop \/ Leave \/ Render \/ UNCHANGED vars
  BY <1>2, <1>3 DEF Start, Stop, Leave, Render, vars
<1>4. ASSUME NEW a \in Attempts, Starting(a) PROVE DialogueIsSound'
  <2>1. CASE PermissionGranted(a) \/ StartCaptureFails(a) \/ VoiceResumes(a) \/ DialFails(a)
    BY <1>2, <2>1 DEF PermissionGranted, StartCaptureFails, VoiceResumes, DialFails
  <2>2. CASE OpenInterviewSocket(a)
    <3>1. srv[a] = "none" /\ srv' = [srv EXCEPT ![a] = "starting"]
      BY <2>2 DEF OpenInterviewSocket, OneServer
    <3>2. Over' = Over
      BY <1>0, <3>1 DEF Over
    <3> QED
      BY <1>1, <2>2, <3>2 DEF OpenInterviewSocket
  <2> QED
    BY <1>4, <2>1, <2>2 DEF Starting
<1>5. ASSUME NEW a \in Attempts, Receiving(a) PROVE DialogueIsSound'
  BY <1>2, <1>5 DEF Receiving, HandleEvent, HandleInterrupted, HandleClosed, Enqueue, ChunkEnds,
                    OnClose
<1>6. ASSUME NEW a \in Attempts, Server(a) \/ ServerError(a) PROVE DialogueIsSound'
  <2>1. CASE GoLive(a) \/ SaysClosed(a) \/ Refuse(a)
    <3>1. Over' = Over
      BY <1>0, <2>1 DEF GoLive, SaysClosed, Refuse, Over
    <3> QED
      BY <1>1, <2>1, <3>1 DEF GoLive, SaysClosed, Refuse
  <2>2. CASE AudioOutput(a) \/ StreamError(a)
    BY <1>2, <2>2 DEF AudioOutput, StreamError
  <2>3. CASE EndInterviewTool(a)
    BY <1>1, <2>3 DEF EndInterviewTool, Over
  <2> QED
    BY <1>6, <2>1, <2>2, <2>3, FlushIsSound, TurnEndIsSound, TextIsSound, BargeInIsSound,
       FragmentIsSound
    DEF Server, ServerError, CandidateLeft, TimesOut, CompletionEnd
<1> QED
  BY <1>3, <1>4, <1>5, <1>6 DEF Next

\* At first nobody has spoken.
LEMMA SoundAtFirst ==
  ASSUME Init
  PROVE  OneServer /\ DialogueIsSound
<1> USE DEF Init, DialogueInit
<1>1. OneServer /\ ~Over
  BY DEF OneServer, Engaged, Over
<1>2. Len(<<>>) = 0 /\ DOMAIN <<>> = {}
  OBVIOUS
<1>3. /\ buffer.question = <<>> /\ buffer.pending = <<>> /\ buffer.answer = <<>>
      /\ filed = <<>> /\ said = <<>> /\ began = 0 /\ heard = 0
      /\ turn.n = 0 /\ turn.phase = "quiet"
  BY DEF NewBuffer
<1>4. AnswersFitTheirQuestions
  BY ONLY <1>2, <1>3 DEF AnswersFitTheirQuestions, EachOnceInOrder, GoesOn, Upto
<1>5. PendingFits /\ AnswerFits
  BY ONLY <1>2, <1>3 DEF PendingFits, AnswerFits, Upto, Asked
<1> QED
  BY <1>1, <1>4, <1>5 DEF DialogueIsSound

\* The dialogue is sound in every reachable state: the inductive invariant.
LEMMA DialogueHolds == Spec => [](Types /\ OneServer /\ DialogueIsSound)
<1>1. Init => OneServer /\ DialogueIsSound
  BY SoundAtFirst
<1>2. Types /\ OneServer /\ DialogueIsSound /\ [Next]_vars => (OneServer /\ DialogueIsSound)'
  BY OneServerStays, DialogueStays
<1> QED
  BY <1>1, <1>2, TypesHold, PTL DEF Spec

\* AnswersFitTheirQuestions, however the two talk over each other: an answer is
\* filed once, in order, and with the question it answers.
THEOREM AnswersFit == Spec => []AnswersFitTheirQuestions
<1>1. DialogueIsSound => AnswersFitTheirQuestions
  BY DEF DialogueIsSound
<1> QED
  BY <1>1, DialogueHolds, PTL

\* The reason of an ended interview, the candidate's or the server's, is not
\* replaced by the generic one when the socket closes behind it.
THEOREM ReasonKept == Spec => ReasonIsKept
<1> DEFINE Kept == status = "ended" /\ reason \in {"told", "you"} /\ status' = "ended"
                     => reason' # "dropped"
<1>1. [Next]_vars => [Kept]_vars
  <2> SUFFICES ASSUME Next, status = "ended", reason \in {"told", "you"} PROVE reason' # "dropped"
    OBVIOUS
  <2>1. CASE Start \/ Stop \/ Leave \/ Render
    BY <2>1 DEF Start, Stop, Leave, Render
  <2>2. ASSUME NEW a \in Attempts, Starting(a) PROVE reason' # "dropped"
    BY <2>2 DEF Starting, PermissionGranted, StartCaptureFails, VoiceResumes, OpenInterviewSocket,
                DialFails
  <2>3. ASSUME NEW a \in Attempts, Receiving(a) PROVE reason' # "dropped"
    BY <2>3 DEF Receiving, HandleEvent, HandleInterrupted, HandleClosed, Enqueue, ChunkEnds,
                OnClose, Drop
  <2>4. ASSUME NEW a \in Attempts, Server(a) \/ ServerError(a) PROVE reason' # "dropped"
    BY <2>4 DEF Server, ServerError, pageVars
  <2> QED
    BY <2>1, <2>2, <2>3, <2>4 DEF Next
<1> QED
  BY <1>1, PTL DEF Spec, ReasonIsKept
-----------------------------------------------------------------------------
(* The socket and the page: the invariant under TurnIsTheTurns.            *)

\* Of messages under way: audio is of a later turn than what cut off another,
\* and than turn c; what is cut off is over; an interviewer who started gives
\* the floor back.
AudioFollows(wire, c) ==
    /\ \A i, j \in DOMAIN wire :
         i < j /\ wire[i].is = "interrupted" /\ wire[j].is = "audio" => wire[i].turn < wire[j].turn
    /\ \A i \in DOMAIN wire : wire[i].is = "audio" => wire[i].turn > c
CutIsOver(c, t) == c <= t.n /\ (c = t.n => t.phase = "quiet")
CutsAreOver(wire, t) ==
    \A i \in DOMAIN wire : wire[i].is = "interrupted" => CutIsOver(wire[i].turn, t)
GivesBack(m) == m.is \in {"turnEnded", "interrupted"}
Starts(wire) == \E i \in DOMAIN wire : wire[i].is = "interviewerStarted"
Returns(wire) == \E i \in DOMAIN wire : GivesBack(wire[i])
FloorReturns(wire) ==
    \A i \in DOMAIN wire : wire[i].is = "interviewerStarted" =>
      \E j \in DOMAIN wire : i < j /\ GivesBack(wire[j])

\* Where each socket stands with its server and with the ref to it.
SocketFits(a) ==
    /\ link[a].sock \in {"none", "left", "gone"} => link[a].wire = <<>>
    /\ link[a].sock = "shut" => srv[a] \in {"over", "refused"}
    /\ dev.socket = a => link[a].sock \in {"open", "shut"}
    /\ at[a] # "done" => link[a].sock = "none" /\ dev.playing[a] = <<>> /\ dev.socket # a

\* A turn that was cut off is over, on the wire and on the page, and one that
\* is over has its end behind its beginning.
WireFits(a) ==
    /\ CutIsOver(cut[a], turn)
    /\ AudioFollows(link[a].wire, cut[a])
    /\ CutsAreOver(link[a].wire, turn)
    /\ Starts(link[a].wire) => Engaged(a)
    /\ turn.phase = "quiet" => FloorReturns(link[a].wire)
    /\ dev.voice = a => \A i \in DOMAIN dev.playing[a] : dev.playing[a][i] > cut[a]

\* A start that crosses no earlier one is the only one with anything open.
Waiting(a) == at[a] \in {"asking", "resuming", "dialing"}
Busy(a) == Waiting(a) \/ link[a].sock \in {"open", "left", "shut"}
StartFits(a) ==
    /\ Waiting(a) => {status, shown} \subseteq {"requesting-permission", "connecting", "ended"}
    /\ link[a].sock = "open" \/ link[a].wire # <<>> => dev.socket = a
    /\ at[a] = "dialing" \/ dev.socket = a => dev.voice \in {0, a}
OneStart ==
    /\ \A a, b \in Attempts : Busy(a) /\ Busy(b) => a = b
    /\ \A a \in Attempts : StartFits(a)

\* A page that says the interviewer speaks will be told when they have done.
WillBeTold(a) ==
    dev.socket = a /\ status = "interviewer-speaking" =>
      /\ Engaged(a)
      /\ mounted => turn.phase # "quiet" \/ dev.playing[a] # <<>> \/ Returns(link[a].wire)

SocketsAreSound == \A a \in Attempts : SocketFits(a)
WiresAreSound == \A a \in Attempts : WireFits(a)
PageIsSound == ~crossed => OneStart /\ \A a \in Attempts : WillBeTold(a)

\* A message more under way.
LEMMA WireGrows ==
  ASSUME NEW w \in Seq(Message), NEW m \in Message, NEW c \in Int, NEW t
  PROVE  /\ AudioFollows(w, c)
              /\ (m.is = "audio" => /\ m.turn > c
                                    /\ \A i \in DOMAIN w : w[i].is = "interrupted" => w[i].turn < m.turn)
            => AudioFollows(Append(w, m), c)
         /\ CutsAreOver(w, t) /\ (m.is = "interrupted" => CutIsOver(m.turn, t))
            => CutsAreOver(Append(w, m), t)
         /\ Starts(Append(w, m)) => Starts(w) \/ m.is = "interviewerStarted"
         /\ GivesBack(m) => FloorReturns(Append(w, m)) /\ Returns(Append(w, m))
         /\ FloorReturns(w) /\ m.is # "interviewerStarted" => FloorReturns(Append(w, m))
         /\ Returns(w) => Returns(Append(w, m))
<1> DEFINE v == Append(w, m)
<1>1. /\ Len(w) \in Nat /\ DOMAIN w = 1..Len(w) /\ DOMAIN v = 1..Len(w) + 1
      /\ \A i \in 1..Len(w) : v[i] = w[i]
      /\ v[Len(w) + 1] = m
  BY Pushed, Plain
<1>2. \A i \in DOMAIN v : i = Len(w) + 1 \/ i \in 1..Len(w)
  BY <1>1
<1> HIDE DEF v
<1>3. AudioFollows(w, c)
        /\ (m.is = "audio" => /\ m.turn > c
                              /\ \A i \in DOMAIN w : w[i].is = "interrupted" => w[i].turn < m.turn)
      => AudioFollows(v, c)
  BY <1>1, <1>2 DEF AudioFollows
<1>4. CutsAreOver(w, t) /\ (m.is = "interrupted" => CutIsOver(m.turn, t)) => CutsAreOver(v, t)
  BY <1>1, <1>2 DEF CutsAreOver
<1>5. Starts(v) => Starts(w) \/ m.is = "interviewerStarted"
  BY <1>1, <1>2 DEF Starts
<1>6. GivesBack(m) => FloorReturns(v) /\ Returns(v)
  <2>1. GivesBack(m) => m.is # "interviewerStarted"
    BY DEF GivesBack
  <2>2. Len(w) + 1 \in DOMAIN v /\ \A i \in 1..Len(w) : i < Len(w) + 1
    BY <1>1
  <2> HIDE DEF GivesBack
  <2> QED
    BY <1>1, <1>2, <2>1, <2>2 DEF FloorReturns, Returns
<1>7. FloorReturns(w) /\ m.is # "interviewerStarted" => FloorReturns(v)
  BY <1>1, <1>2 DEF FloorReturns
<1>8. Returns(w) => Returns(v)
  BY <1>1, <1>2 DEF Returns
<1> QED
  BY <1>3, <1>4, <1>5, <1>6, <1>7, <1>8 DEF v

\* The first message taken.
LEMMA WireShrinks ==
  ASSUME NEW w \in Seq(Message), w # <<>>, NEW c \in Int, NEW t
  PROVE  /\ AudioFollows(w, c) => /\ AudioFollows(Tail(w), c)
                                  /\ Head(w).is = "interrupted" => AudioFollows(Tail(w), Head(w).turn)
                                  /\ Head(w).is = "audio" => Head(w).turn > c
         /\ CutsAreOver(w, t) => /\ CutsAreOver(Tail(w), t)
                                 /\ Head(w).is = "interrupted" => CutIsOver(Head(w).turn, t)
         /\ Starts(Tail(w)) \/ Head(w).is = "interviewerStarted" => Starts(w)
         /\ FloorReturns(w) => /\ FloorReturns(Tail(w))
                               /\ Head(w).is = "interviewerStarted" => Returns(Tail(w))
         /\ Returns(w) /\ ~GivesBack(Head(w)) => Returns(Tail(w))
<1> DEFINE v == Tail(w)
           h == Head(w)
<1>1. /\ Len(w) \in Nat \ {0} /\ DOMAIN w = 1..Len(w) /\ DOMAIN v = 1..Len(w) - 1
      /\ \A i \in 1..Len(w) - 1 : v[i] = w[i + 1]
      /\ h = w[1]
  BY Popped, Plain
<1>2. /\ \A i \in DOMAIN v : i + 1 \in DOMAIN w /\ v[i] = w[i + 1] /\ 1 < i + 1
      /\ \A i, j \in DOMAIN v : i < j <=> i + 1 < j + 1
      /\ \A i \in DOMAIN w : i = 1 \/ (i - 1 \in DOMAIN v /\ w[i] = v[i - 1])
      /\ \A i, j \in DOMAIN w : i < j => i - 1 < j - 1 /\ j # 1
      /\ 1 \in DOMAIN w /\ w[1] = h
      /\ DOMAIN w \subseteq Int /\ DOMAIN v \subseteq Int
  BY <1>1
<1> HIDE DEF v, h
<1>3. AudioFollows(w, c) => /\ AudioFollows(v, c)
                            /\ h.is = "interrupted" => AudioFollows(v, h.turn)
                            /\ h.is = "audio" => h.turn > c
  <2> SUFFICES ASSUME AudioFollows(w, c)
               PROVE  /\ AudioFollows(v, c)
                      /\ h.is = "interrupted" => AudioFollows(v, h.turn)
                      /\ h.is = "audio" => h.turn > c
    OBVIOUS
  <2>0. \A k, l \in DOMAIN w :
           k < l /\ w[k].is = "interrupted" /\ w[l].is = "audio" => w[k].turn < w[l].turn
    BY DEF AudioFollows
  <2>1. ASSUME NEW i \in DOMAIN v, NEW j \in DOMAIN v, i < j, v[i].is = "interrupted",
               v[j].is = "audio"
        PROVE  v[i].turn < v[j].turn
    <3>1. i + 1 \in DOMAIN w /\ j + 1 \in DOMAIN w /\ i + 1 < j + 1
          /\ v[i] = w[i + 1] /\ v[j] = w[j + 1]
      BY <1>2, <2>1
    <3> QED
      BY ONLY <2>0, <2>1, <3>1
  <2>2. \A i \in DOMAIN v : v[i].is = "audio" => v[i].turn > c
    BY <1>2 DEF AudioFollows
  <2>3. ASSUME NEW i \in DOMAIN v, h.is = "interrupted", v[i].is = "audio"
        PROVE  h.turn < v[i].turn
    <3>1. i + 1 \in DOMAIN w /\ 1 \in DOMAIN w /\ 1 < i + 1 /\ v[i] = w[i + 1] /\ h = w[1]
      BY <1>2, <2>3
    <3> QED
      BY ONLY <2>0, <2>3, <3>1
  <2>4. h \in Message /\ \A i \in DOMAIN v : v[i] \in Message
    BY <1>1, <1>2, Plain
  <2>5. h.turn \in Int /\ \A i \in DOMAIN v : v[i].turn \in Int
    BY <2>4 DEF Message, Turns
  <2> QED
    BY <1>2, <2>1, <2>2, <2>3, <2>5 DEF AudioFollows
<1>4. CutsAreOver(w, t) => /\ CutsAreOver(v, t)
                           /\ h.is = "interrupted" => CutIsOver(h.turn, t)
  BY <1>2 DEF CutsAreOver
<1>5. Starts(v) \/ h.is = "interviewerStarted" => Starts(w)
  BY <1>2 DEF Starts
<1>6. FloorReturns(w) => /\ FloorReturns(v)
                         /\ h.is = "interviewerStarted" => Returns(v)
  <2> SUFFICES ASSUME FloorReturns(w)
               PROVE  FloorReturns(v) /\ (h.is = "interviewerStarted" => Returns(v))
    OBVIOUS
  <2>1. ASSUME NEW i \in DOMAIN v, v[i].is = "interviewerStarted"
        PROVE  \E j \in DOMAIN v : i < j /\ GivesBack(v[j])
    <3>1. PICK k \in DOMAIN w : i + 1 < k /\ GivesBack(w[k])
      BY <1>2, <2>1 DEF FloorReturns
    <3>2. k - 1 \in DOMAIN v /\ i < k - 1 /\ w[k] = v[k - 1]
      BY <1>2, <3>1
    <3> QED
      BY <3>1, <3>2
  <2>2. ASSUME h.is = "interviewerStarted" PROVE Returns(v)
    <3>1. PICK k \in DOMAIN w : 1 < k /\ GivesBack(w[k])
      BY <1>2, <2>2 DEF FloorReturns
    <3>2. k - 1 \in DOMAIN v /\ w[k] = v[k - 1]
      BY <1>2, <3>1
    <3> QED
      BY <3>1, <3>2 DEF Returns
  <2> QED
    BY <2>1, <2>2 DEF FloorReturns
<1>7. Returns(w) /\ ~GivesBack(h) => Returns(v)
  BY <1>2 DEF Returns
<1> QED
  BY <1>3, <1>4, <1>5, <1>6, <1>7 DEF v, h

\* Nothing is under way.
LEMMA WireIsEmpty ==
  ASSUME NEW c, NEW t
  PROVE  /\ AudioFollows(<<>>, c) /\ CutsAreOver(<<>>, t) /\ FloorReturns(<<>>)
         /\ ~Starts(<<>>) /\ ~Returns(<<>>) /\ DOMAIN <<>> = {}
BY DEF AudioFollows, CutsAreOver, FloorReturns, Starts, Returns

\* What sending, closing and taking make of the sockets.
LEMMA SendMoves ==
  ASSUME Types, NEW a \in Attempts, NEW is \in Kinds, Send(a, is)
  PROVE  /\ \A b \in Attempts \ {a} : link'[b] = link[b]
         /\ link'[a].sock = link[a].sock
         /\ [is |-> is, turn |-> turn.n] \in Message /\ link[a].wire \in Seq(Message)
         /\ link[a].sock = "open" => link'[a].wire = Append(link[a].wire, [is |-> is, turn |-> turn.n])
         /\ link[a].sock # "open" => link'[a].wire = link[a].wire
<1> DEFINE m == [is |-> is, turn |-> turn.n]
<1>0. link \in [Attempts -> Socket] /\ link[a].wire \in Seq(Message) /\ m \in Message
  BY Messages DEF Types, TypeOK, DialogueTypeOK, Socket
<1>1. <<m>> \in Seq(Message) /\ link' = Sent(a, <<m>>)
  BY <1>0 DEF Send
<1>2. link[a].wire \o <<m>> = Append(link[a].wire, m)
  BY <1>0, Pushed
<1> HIDE DEF m
<1> QED
  BY <1>0, <1>1, <1>2, SentTypes DEF m

LEMMA TakeMoves ==
  ASSUME Types, NEW a \in Attempts, link[a].wire # <<>>
  PROVE  /\ Taken(a) \in [Attempts -> Socket]
         /\ \A b \in Attempts \ {a} : Taken(a)[b] = link[b]
         /\ Taken(a)[a].sock = link[a].sock /\ Taken(a)[a].wire = Tail(link[a].wire)
         /\ link[a].wire \in Seq(Message) /\ First(a) = Head(link[a].wire)
         /\ First(a) \in Message /\ First(a).turn \in Turns
<1>0. link \in [Attempts -> Socket] /\ link[a] \in Socket /\ link[a].wire \in Seq(Message)
  BY DEF Types, TypeOK, DialogueTypeOK, Socket
<1>1. Tail(link[a].wire) \in Seq(Message) /\ First(a) \in Message
  BY <1>0, Popped DEF First
<1> QED
  BY <1>0, <1>1 DEF Taken, First, Socket, Message

\* A message that tells of the end only.
Dull(m) == m \in Message /\ m.is \in {"error", "closed"}
LEMMA EndMoves ==
  ASSUME Types, NEW a \in Attempts, SaysClosed(a) \/ Refuse(a)
  PROVE  /\ \A b \in Attempts \ {a} : link'[b] = link[b]
         /\ link[a].sock # "open" => link'[a] = link[a]
         /\ link[a].sock = "open" =>
              /\ link'[a].sock = "shut" /\ link[a].wire \in Seq(Message)
              /\ \/ \E m \in Message : Dull(m) /\ link'[a].wire = Append(link[a].wire, m)
                 \/ \E m, k \in Message : /\ Dull(m) /\ Dull(k)
                                          /\ link'[a].wire = Append(Append(link[a].wire, m), k)
<1>0. link \in [Attempts -> Socket] /\ link[a].wire \in Seq(Message)
  BY DEF Types, TypeOK, DialogueTypeOK, Socket
<1>1. Dull(Say("error")) /\ Dull(Say("closed"))
  BY Messages DEF Dull, Say, Kinds, Types, TypeOK
<1>2. \E msgs \in {<<Say("closed")>>, <<Say("error")>>, <<Say("error"), Say("closed")>>} :
        link' = Ended(a, msgs)
  BY DEF SaysClosed, Refuse
<1> DEFINE e == Say("error")
           c == Say("closed")
           w == link[a].wire
<1>3. e \in Message /\ c \in Message /\ Dull(e) /\ Dull(c) /\ w \in Seq(Message)
  BY <1>0, <1>1 DEF Dull
<1>4. <<c>> \in Seq(Message) /\ <<e>> \in Seq(Message) /\ <<e, c>> \in Seq(Message)
  <2> HIDE DEF e, c
  <2> QED
    BY <1>3
<1>5. /\ w \o <<c>> = Append(w, c) /\ w \o <<e>> = Append(w, e)
      /\ w \o <<e, c>> = Append(Append(w, e), c)
  <2> HIDE DEF e, c, w
  <2> QED
    BY <1>3
<1>6. \E msgs \in {<<c>>, <<e>>, <<e, c>>} : link' = Ended(a, msgs) /\ msgs \in Seq(Message)
  BY <1>2, <1>4
<1> HIDE DEF e, c
<1>7. PICK msgs \in {<<c>>, <<e>>, <<e, c>>} : link' = Ended(a, msgs) /\ msgs \in Seq(Message)
  BY <1>6
<1>8. /\ \A b \in Attempts \ {a} : link'[b] = link[b]
      /\ link[a].sock # "open" => link'[a] = link[a]
      /\ link[a].sock = "open" => link'[a].sock = "shut" /\ link'[a].wire = w \o msgs
  BY <1>0, <1>7, SentTypes
<1> QED
  BY <1>3, <1>5, <1>7, <1>8

\* What is said of the end disturbs nothing.
LEMMA EndIsDull ==
  ASSUME Types, NEW a \in Attempts, SaysClosed(a) \/ Refuse(a), NEW b \in Attempts, NEW c \in Int,
         NEW t
  PROVE  /\ AudioFollows(link[b].wire, c) => AudioFollows(link'[b].wire, c)
         /\ CutsAreOver(link[b].wire, t) => CutsAreOver(link'[b].wire, t)
         /\ Starts(link'[b].wire) => Starts(link[b].wire)
         /\ FloorReturns(link[b].wire) => FloorReturns(link'[b].wire)
         /\ Returns(link[b].wire) => Returns(link'[b].wire)
<1> DEFINE Less(w, v) == /\ AudioFollows(w, c) => AudioFollows(v, c)
                         /\ CutsAreOver(w, t) => CutsAreOver(v, t)
                         /\ Starts(v) => Starts(w)
                         /\ FloorReturns(w) => FloorReturns(v)
                         /\ Returns(w) => Returns(v)
<1>1. ASSUME NEW w \in Seq(Message), NEW m \in Message, Dull(m)
      PROVE  Less(w, Append(w, m)) /\ Append(w, m) \in Seq(Message)
  <2>1. m.is \notin {"audio", "interrupted", "interviewerStarted"}
    BY <1>1 DEF Dull
  <2> QED
    BY <1>1, <2>1, WireGrows, Pushed
<1>2. ASSUME NEW w \in Seq(Message), NEW m \in Message, NEW k \in Message, Dull(m), Dull(k)
      PROVE  Less(w, Append(Append(w, m), k))
  <2>1. Less(w, Append(w, m)) /\ Append(w, m) \in Seq(Message)
    BY <1>1, <1>2
  <2>2. Less(Append(w, m), Append(Append(w, m), k))
    BY <1>1, <1>2, <2>1
  <2> QED
    BY <2>1, <2>2
<1>3. Less(link[b].wire, link'[b].wire)
  <2> HIDE DEF Less
  <2>1. \A w : Less(w, w)
    BY DEF Less
  <2> QED
    BY <1>1, <1>2, <2>1, EndMoves
<1> QED
  BY <1>3

\* The sockets stand with their servers and the ref with its socket.
LEMMA SocketsStay ==
  ASSUME Types, OneServer, SocketsAreSound, [Next]_vars
  PROVE  SocketsAreSound'
<1> SUFFICES ASSUME NEW b \in Attempts PROVE SocketFits(b)'
  BY DEF SocketsAreSound
<1>0. /\ link \in [Attempts -> Socket] /\ dev \in Devices /\ 0 \notin Attempts
      /\ srv \in [Attempts -> {"none", "starting", "live", "closing", "over", "refused"}]
      /\ at \in [Attempts -> {"none", "asking", "resuming", "dialing", "done"}]
      /\ link[b].sock \in {"none", "open", "left", "shut", "gone"}
      /\ dev.playing \in [Attempts -> Seq(Turns)]
  <2>1. link \in [Attempts -> Socket] /\ dev \in Devices
    BY DEF Types, TypeOK, DialogueTypeOK
  <2>2. link[b].sock \in {"none", "open", "left", "shut", "gone"}
    BY <2>1 DEF Socket
  <2>3. dev.playing \in [Attempts -> Seq(Turns)]
    BY <2>1 DEF Devices
  <2> QED
    BY <2>1, <2>2, <2>3 DEF Types, TypeOK, DialogueTypeOK, Attempts
<1>1. SocketFits(b)
  BY DEF SocketsAreSound
<1>2. ASSUME link' = link, srv' = srv, at' = at, dev'.socket = dev.socket,
             dev'.playing = dev.playing
      PROVE  SocketFits(b)'
  BY <1>1, <1>2 DEF SocketFits
<1>3. ASSUME NEW l \in [Attempts -> Socket], l[b].sock \in {"none", "left", "gone"} => l[b].wire = <<>>,
             l[b].sock = "shut" => srv[b] \in {"over", "refused"},
             at[b] # "done" => l[b].sock = "none",
             dev' = TornDown(dev), link' = HungUp(l), srv' = srv, at' = at
      PROVE  SocketFits(b)'
  <2>1. /\ dev'.socket = 0 /\ (dev.playing[b] = <<>> => dev'.playing[b] = <<>>)
        /\ b # dev.socket => link'[b] = l[b]
        /\ b = dev.socket => /\ link'[b].wire = <<>>
                             /\ link'[b].sock = IF l[b].sock = "open" THEN "left" ELSE l[b].sock
    BY <1>0, <1>3, Teardowns
  <2> QED
    BY <1>0, <1>1, <1>3, <2>1 DEF SocketFits
<1>4. CASE Start
  <2>1. PICK a \in Attempts : at[a] = "none" /\ at' = [at EXCEPT ![a] = "asking"]
    BY <1>4 DEF Start
  <2> QED
    BY <1>0, <1>1, <1>4, <2>1 DEF Start, serverVars, SocketFits
<1>5. CASE Stop \/ Leave
  BY <1>0, <1>1, <1>3, <1>5 DEF Stop, Leave, Teardown, serverVars, SocketFits
<1>6. CASE Render \/ UNCHANGED vars
  BY <1>2, <1>6 DEF Render, vars, serverVars, pageVars
<1>7. ASSUME NEW a \in Attempts, Starting(a) PROVE SocketFits(b)'
  <2>1. CASE PermissionGranted(a) \/ StartCaptureFails(a) \/ VoiceResumes(a) \/ DialFails(a)
    <3>1. /\ link' = link /\ srv' = srv /\ dev'.socket = dev.socket /\ dev'.playing = dev.playing
          /\ at[a] # "done" /\ \E s \in {"resuming", "dialing", "done"} : at' = [at EXCEPT ![a] = s]
      BY <1>0, <2>1 DEF PermissionGranted, StartCaptureFails, VoiceResumes, DialFails, serverVars,
                        Devices
    <3> QED
      BY <1>0, <1>1, <3>1 DEF SocketFits
  <2>2. CASE OpenInterviewSocket(a)
    <3>1. /\ link' = [link EXCEPT ![a].sock = "open"] /\ srv' = [srv EXCEPT ![a] = "starting"]
          /\ dev'.socket = a /\ dev'.playing = dev.playing /\ at' = [at EXCEPT ![a] = "done"]
          /\ at[a] = "dialing" /\ SocketFits(a)
      BY <1>0, <2>2 DEF OpenInterviewSocket, Devices, SocketsAreSound
    <3>2. link'[a].sock = "open" /\ (b # a => link'[b] = link[b])
      BY <1>0, <3>1 DEF Socket
    <3> QED
      BY <1>0, <1>1, <3>1, <3>2 DEF SocketFits
  <2> QED
    BY <1>7, <2>1, <2>2 DEF Starting
<1>8. ASSUME NEW a \in Attempts, Receiving(a) PROVE SocketFits(b)'
  <2>0. srv' = srv /\ at' = at
    BY <1>8 DEF Receiving, HandleEvent, HandleInterrupted, HandleClosed, Enqueue, ChunkEnds, OnClose,
                serverVars
  <2>1. ASSUME link[a].sock \in {"open", "shut"}, link[a].wire # <<>>
        PROVE  /\ Taken(a) \in [Attempts -> Socket] /\ Taken(a)[b].sock = link[b].sock
               /\ b # a => Taken(a)[b] = link[b]
               /\ link[b].sock \in {"none", "left", "gone"} => Taken(a)[b].wire = <<>>
    BY <1>0, <1>1, <2>1, TakeMoves DEF SocketFits
  <2>2. CASE HandleEvent(a)
    BY <1>1, <2>0, <2>1, <2>2 DEF HandleEvent, Delivers, SocketFits
  <2>3. CASE HandleInterrupted(a)
    <3>1. dev'.socket = dev.socket /\ (dev.playing[b] = <<>> => dev'.playing[b] = <<>>)
      BY <1>0, <2>3, Teardowns DEF HandleInterrupted, Interrupt
    <3> QED
      BY <1>1, <2>0, <2>1, <2>3, <3>1 DEF HandleInterrupted, Delivers, SocketFits
  <2>4. CASE HandleClosed(a)
    <3>1. dev' = TornDown(dev) /\ link' = HungUp(Taken(a))
      BY <2>4 DEF HandleClosed, Teardown
    <3> QED
      BY <1>1, <1>3, <2>0, <2>1, <2>4, <3>1 DEF HandleClosed, Delivers, SocketFits
  <2>5. CASE Enqueue(a)
    <3>1. dev'.socket = dev.socket /\ (b # a => dev'.playing[b] = dev.playing[b])
      BY <1>0, <2>5 DEF Enqueue, Devices
    <3>2. at[a] = "done"
      BY <2>5 DEF Enqueue, Delivers, SocketsAreSound, SocketFits
    <3> QED
      BY <1>1, <2>0, <2>1, <2>5, <3>1, <3>2 DEF Enqueue, Delivers, SocketFits
  <2>6. CASE ChunkEnds(a)
    <3>1. /\ dev'.socket = dev.socket /\ link' = link
          /\ dev.playing[b] = <<>> => dev'.playing[b] = <<>>
      BY <1>0, <2>6 DEF ChunkEnds, Devices
    <3> QED
      BY <1>1, <2>0, <3>1 DEF SocketFits
  <2>7. CASE OnClose(a)
    <3> DEFINE l == [link EXCEPT ![a].sock = "gone"]
    <3>1. /\ l \in [Attempts -> Socket] /\ (b # a => l[b] = link[b])
          /\ l[a].sock = "gone" /\ l[a].wire = <<>>
      BY <1>0, <2>7 DEF OnClose, Socket
    <3>2. dev' = TornDown(dev) /\ link' = HungUp(l)
      BY <2>7 DEF OnClose, Teardown
    <3>3. at[a] = "done"
      BY <2>7 DEF OnClose, SocketsAreSound, SocketFits
    <3> HIDE DEF l
    <3> QED
      BY <1>1, <1>3, <2>0, <3>1, <3>2, <3>3 DEF SocketFits
  <2> QED
    BY <1>8, <2>2, <2>3, <2>4, <2>5, <2>6, <2>7 DEF Receiving
<1>9. ASSUME NEW a \in Attempts, Server(a) \/ ServerError(a) PROVE SocketFits(b)'
  <2>0. dev' = dev /\ at' = at
    BY <1>9 DEF Server, ServerError, pageVars
  <2>1. ASSUME NEW is \in Kinds, Send(a, is),
               srv' = srv \/ (srv' = [srv EXCEPT ![a] = "live"] /\ srv[a] = "starting")
        PROVE  SocketFits(b)'
    <3>1. /\ link'[b].sock = link[b].sock
          /\ link[b].sock # "open" => link'[b].wire = link[b].wire
      BY <2>1, SendMoves
    <3>2. srv[b] \in {"over", "refused"} => srv'[b] = srv[b]
      BY <1>0, <2>1
    <3> QED
      BY <1>0, <1>1, <2>0, <3>1, <3>2 DEF SocketFits
  <2>2. CASE SaysClosed(a) \/ Refuse(a)
    <3>1. /\ b # a => link'[b] = link[b]
          /\ link[a].sock # "open" => link'[a] = link[a]
          /\ link[a].sock = "open" => link'[a].sock = "shut"
      BY <2>2, EndMoves
    <3>2. srv'[a] \in {"over", "refused"} /\ (b # a => srv'[b] = srv[b]) /\ srv[a] # "none"
      BY <1>0, <2>2 DEF SaysClosed, Refuse
    <3>3. at[a] = "done"
      BY <3>2 DEF OneServer
    <3> QED
      BY <1>0, <1>1, <2>0, <3>1, <3>2, <3>3 DEF SocketFits
  <2>3. CASE GoLive(a) \/ InterviewerStarted(a) \/ AudioOutput(a) \/ EndTurn(a) \/ Interrupted(a)
               \/ CandidateText(a) \/ StreamError(a)
    BY <2>1, <2>3 DEF GoLive, InterviewerStarted, AudioOutput, EndTurn, Interrupted, CandidateText,
                      StreamError, serverVars, Kinds
  <2>4. CASE InterviewerText(a) \/ EndInterviewTool(a)
    BY <1>2, <2>0, <2>4 DEF InterviewerText, NextBlock, EndInterviewTool
  <2>5. CASE Shutdown(a)
    <3>1. link' = link /\ (srv[b] \in {"over", "refused"} => srv'[b] = srv[b])
      BY <1>0, <2>5 DEF Shutdown
    <3> QED
      BY <1>1, <2>0, <3>1 DEF SocketFits
  <2> QED
    BY <1>9, <2>2, <2>3, <2>4, <2>5
    DEF Server, ServerError, CandidateLeft, TimesOut, CompletionEnd
<1> QED
  BY <1>4, <1>5, <1>6, <1>7, <1>8, <1>9 DEF Next

\* A connection that was let in stays in or is over.
LEMMA EngagedStays ==
  ASSUME Types, OneServer, [Next]_vars, NEW b \in Attempts, Engaged(b)
  PROVE  Engaged(b)'
<1>0. srv \in [Attempts -> {"none", "starting", "live", "closing", "over", "refused"}]
  BY DEF Types, TypeOK, DialogueTypeOK
<1>1. CASE srv' = srv
  BY <1>1 DEF Engaged
<1>2. ASSUME NEW a \in Attempts, OpenInterviewSocket(a) PROVE Engaged(b)'
  BY <1>0, <1>2 DEF OpenInterviewSocket, OneServer, Engaged
<1>3. ASSUME NEW a \in Attempts, GoLive(a) \/ Shutdown(a) \/ SaysClosed(a) \/ Refuse(a)
      PROVE  Engaged(b)'
  BY <1>0, <1>3 DEF GoLive, Shutdown, SaysClosed, Refuse, Engaged
<1>4. CASE Start \/ Stop \/ Leave \/ Render \/ UNCHANGED vars
  BY <1>1, <1>4 DEF Start, Stop, Leave, Render, vars, serverVars
<1>5. ASSUME NEW a \in Attempts, Starting(a) PROVE Engaged(b)'
  BY <1>1, <1>2, <1>5 DEF Starting, PermissionGranted, StartCaptureFails, VoiceResumes, DialFails,
                          serverVars
<1>6. ASSUME NEW a \in Attempts, Receiving(a) PROVE Engaged(b)'
  BY <1>1, <1>6 DEF Receiving, HandleEvent, HandleInterrupted, HandleClosed, Enqueue, ChunkEnds,
                    OnClose, serverVars
<1>7. ASSUME NEW a \in Attempts, Server(a) \/ ServerError(a) PROVE Engaged(b)'
  BY <1>1, <1>3, <1>7
  DEF Server, ServerError, CandidateLeft, TimesOut, CompletionEnd, InterviewerText, NextBlock,
      InterviewerStarted, AudioOutput, EndTurn, Interrupted, CandidateText, EndInterviewTool,
      StreamError, serverVars
<1> QED
  BY <1>4, <1>5, <1>6, <1>7 DEF Next

\* A server that is live sends on an open socket, or there is none any more.
LEMMA LiveWires ==
  ASSUME Types, OneServer, SocketsAreSound, WiresAreSound, NEW a \in Attempts, Live(a)
  PROVE  /\ link[a].sock # "open" => link[a].wire = <<>>
         /\ \A b \in Attempts \ {a} : ~Starts(link[b].wire) /\ ~Engaged(b)
         /\ dev.socket = a => link[a].sock = "open"
<1>1. Engaged(a) /\ srv[a] \notin {"over", "refused"}
  BY DEF Live, Engaged
<1>2. SocketFits(a) /\ link[a].sock \in {"none", "open", "left", "shut", "gone"}
  BY DEF SocketsAreSound, Types, TypeOK, DialogueTypeOK, Socket
<1>3. \A b \in Attempts \ {a} : ~Engaged(b)
  BY <1>1 DEF OneServer
<1> QED
  BY <1>1, <1>2, <1>3 DEF SocketFits, WiresAreSound, WireFits

\* The server's steps: what is cut off is over before its successor is heard.
LEMMA ServersCut ==
  ASSUME Types, OneServer, SocketsAreSound, WiresAreSound, [Next]_vars, NEW b \in Attempts,
         NEW a \in Attempts, Server(a) \/ ServerError(a)
  PROVE  WireFits(b)'
<1> DEFINE w == link[b].wire
           Note(is) == [is |-> is, turn |-> turn.n]
<1>0. /\ dev' = dev /\ cut' = cut /\ cut[b] \in Int /\ turn.n \in Int
      /\ link \in [Attempts -> Socket] /\ w \in Seq(Message)
      /\ turn \in [n : Turns, blocks : 0..MaxBlocks, phase : {"quiet", "asking", "speaking"}]
  BY DEF Server, ServerError, pageVars, Types, TypeOK, DialogueTypeOK, Socket, Turns
<1>10. \A i \in DOMAIN w : w[i].turn \in Int
  <2>1. \A i \in DOMAIN w : w[i] \in Message
    BY ONLY <1>0, Plain
  <2> QED
    BY ONLY <2>1, BoundsAssumption DEF Message, Turns
<1>1. WireFits(b) /\ (Engaged(b) => Engaged(b)')
  BY EngagedStays DEF WiresAreSound
<1>2. dev'.voice = b => \A i \in DOMAIN dev'.playing[b] : dev'.playing[b][i] > cut'[b]
  BY <1>0, <1>1 DEF WireFits
<1>3. ASSUME turn' = turn, link'[b].wire = w PROVE WireFits(b)'
  BY <1>0, <1>1, <1>2, <1>3 DEF WireFits
<1>4. ASSUME NEW is \in {"ready", "candidateFinished", "error", "audio"}, Send(a, is), turn' = turn,
             is = "audio" => turn.phase = "speaking"
      PROVE  WireFits(b)'
  <2>1. CASE link'[b].wire = w
    BY <1>3, <1>4, <2>1
  <2>2. CASE link'[b].wire = Append(w, Note(is)) /\ Note(is) \in Message
    <3>1. turn.phase = "speaking" =>
            cut[b] < turn.n /\ \A i \in DOMAIN w : w[i].is = "interrupted" => w[i].turn < turn.n
      BY <1>0, <1>1, <1>10 DEF WireFits, CutIsOver, CutsAreOver
    <3>2. Note(is).is = is /\ Note(is).turn = turn.n
      OBVIOUS
    <3>3. /\ AudioFollows(w, cut[b]) => AudioFollows(Append(w, Note(is)), cut[b])
          /\ CutsAreOver(w, turn) => CutsAreOver(Append(w, Note(is)), turn)
          /\ Starts(Append(w, Note(is))) => Starts(w)
          /\ FloorReturns(w) => FloorReturns(Append(w, Note(is)))
      <4> HIDE DEF Note, w
      <4> QED
        BY <1>0, <1>4, <2>2, <3>1, <3>2, WireGrows
    <3> QED
      BY <1>0, <1>1, <1>2, <1>4, <2>2, <3>3 DEF WireFits
  <2>3. is \in Kinds
    BY DEF Kinds
  <2> QED
    BY <1>4, <2>1, <2>2, <2>3, SendMoves
<1>5. CASE SaysClosed(a) \/ Refuse(a)
  <2>1. turn' = turn
    BY <1>5 DEF SaysClosed, Refuse
  <2> QED
    BY <1>0, <1>1, <1>2, <1>5, <2>1, EndIsDull DEF WireFits
<1>6. CASE InterviewerText(a)
  <2>1. /\ link' = link /\ turn'.phase = "asking"
        /\ \/ turn.phase = "quiet" /\ turn'.n = turn.n + 1
           \/ turn.phase = "speaking" /\ turn'.n = turn.n
    <3>1. \/ turn.phase = "quiet" /\ turn' = [n |-> turn.n + 1, blocks |-> 1, phase |-> "asking"]
          \/ /\ turn.phase = "speaking"
             /\ turn' = [turn EXCEPT !.blocks = turn.blocks + 1, !.phase = "asking"]
      BY <1>6 DEF InterviewerText, NextBlock
    <3>2. CASE turn.phase = "quiet" /\ turn' = [n |-> turn.n + 1, blocks |-> 1, phase |-> "asking"]
      BY <1>6, <3>2 DEF InterviewerText, NextBlock
    <3>3. CASE /\ turn.phase = "speaking"
               /\ turn' = [turn EXCEPT !.blocks = turn.blocks + 1, !.phase = "asking"]
      BY <1>0, <1>6, <3>3 DEF InterviewerText, NextBlock
    <3> QED
      BY <3>1, <3>2, <3>3
  <2>2. \A c \in Int : CutIsOver(c, turn) => CutIsOver(c, turn')
    BY <1>0, <2>1 DEF CutIsOver
  <2>3. CutsAreOver(w, turn')
    BY <1>1, <1>10, <2>2 DEF WireFits, CutsAreOver
  <2> QED
    BY <1>0, <1>1, <1>2, <2>1, <2>2, <2>3 DEF WireFits
<1>7. CASE InterviewerStarted(a)
  <2>1. turn'.n = turn.n /\ turn'.phase = "speaking" /\ turn.phase = "asking"
    BY <1>0, <1>7 DEF InterviewerStarted
  <2>2. \A c : CutIsOver(c, turn) => CutIsOver(c, turn')
    BY <2>1 DEF CutIsOver
  <2>3. CutsAreOver(w, turn') /\ CutIsOver(cut[b], turn')
    BY <1>1, <2>2 DEF WireFits, CutsAreOver
  <2>4. CASE link'[b].wire = w
    BY <1>0, <1>1, <1>2, <2>1, <2>3, <2>4 DEF WireFits
  <2>5. CASE b = a /\ link'[b].wire = Append(w, Note("interviewerStarted"))
               /\ Note("interviewerStarted") \in Message
    <3>1. Note("interviewerStarted").is = "interviewerStarted"
      OBVIOUS
    <3>2. /\ AudioFollows(w, cut[b]) => AudioFollows(link'[b].wire, cut[b])
          /\ CutsAreOver(w, turn') => CutsAreOver(link'[b].wire, turn')
      <4> HIDE DEF Note, w
      <4> QED
        BY <1>0, <2>5, <3>1, WireGrows
    <3>3. Engaged(b)
      BY <1>7, <2>5 DEF InterviewerStarted, Live, Engaged
    <3> QED
      BY <1>0, <1>1, <1>2, <2>1, <2>3, <3>2, <3>3 DEF WireFits
  <2>6. "interviewerStarted" \in Kinds /\ Send(a, "interviewerStarted")
    BY <1>7 DEF InterviewerStarted, Kinds
  <2> QED
    BY <2>4, <2>5, <2>6, SendMoves
<1>8. CASE EndTurn(a) \/ Interrupted(a)
  <2>1. PICK is \in {"turnEnded", "interrupted"} : Send(a, is)
    BY <1>8 DEF EndTurn, Interrupted
  <2>2. turn'.n = turn.n /\ turn'.phase = "quiet" /\ is \in Kinds /\ Live(a)
    BY <1>0, <1>8 DEF EndTurn, Interrupted, Kinds
  <2>3. \A c : CutIsOver(c, turn) => CutIsOver(c, turn')
    BY <2>2 DEF CutIsOver
  <2>4. CutsAreOver(w, turn') /\ CutIsOver(cut[b], turn') /\ CutIsOver(turn.n, turn')
    <3>1. CutIsOver(turn.n, turn')
      BY <1>0, <2>2 DEF CutIsOver
    <3> QED
      BY <1>1, <2>3, <3>1 DEF WireFits, CutsAreOver
  <2>5. CASE link'[b].wire = w /\ ~Starts(w)
    <3>1. FloorReturns(w)
      BY <2>5 DEF Starts, FloorReturns
    <3> QED
      BY <1>0, <1>1, <1>2, <2>4, <2>5, <3>1 DEF WireFits
  <2>6. CASE link'[b].wire = Append(w, Note(is)) /\ Note(is) \in Message
    <3>1. Note(is).is = is /\ Note(is).turn = turn.n
      OBVIOUS
    <3>2. GivesBack(Note(is)) /\ is # "audio" /\ is # "interviewerStarted"
      BY <3>1 DEF GivesBack
    <3>3. /\ AudioFollows(w, cut[b]) => AudioFollows(link'[b].wire, cut[b])
          /\ CutsAreOver(w, turn') => CutsAreOver(link'[b].wire, turn')
          /\ Starts(link'[b].wire) => Starts(w)
          /\ FloorReturns(link'[b].wire)
      <4> HIDE DEF Note, w
      <4> QED
        BY <1>0, <2>4, <2>6, <3>1, <3>2, WireGrows
    <3> QED
      BY <1>0, <1>1, <1>2, <2>4, <3>3 DEF WireFits
  <2>7. /\ b # a => link'[b] = link[b] /\ ~Starts(w)
        /\ b = a /\ link[a].sock # "open" => link'[b].wire = w /\ w = <<>>
        /\ b = a /\ link[a].sock = "open" =>
             link'[b].wire = Append(w, Note(is)) /\ Note(is) \in Message
    BY <2>1, <2>2, LiveWires, SendMoves
  <2> QED
    BY <2>5, <2>6, <2>7, WireIsEmpty
<1>9. CASE Shutdown(a) \/ EndInterviewTool(a)
  BY <1>3, <1>9 DEF Shutdown, EndInterviewTool
<1> QED
  BY <1>4, <1>5, <1>6, <1>7, <1>8, <1>9
  DEF Server, ServerError, CandidateLeft, TimesOut, CompletionEnd, GoLive, AudioOutput,
      CandidateText, StreamError, serverVars

\* The page's steps: a voice that is cut off plays nothing of what it was
\* playing, and what is taken from the wire is what comes first.
LEMMA PagesCut ==
  ASSUME Types, OneServer, SocketsAreSound, WiresAreSound, NEW b \in Attempts,
         \/ Start \/ Stop \/ Leave \/ Render \/ UNCHANGED vars
         \/ \E a \in Attempts : Starting(a) \/ Receiving(a)
  PROVE  WireFits(b)'
<1> DEFINE w == link[b].wire
           Heard(d, c) == d.voice = b => \A i \in DOMAIN d.playing[b] : d.playing[b][i] > c
<1>0. /\ dev \in Devices /\ 0 \notin Attempts /\ cut[b] \in Int /\ turn' = turn
      /\ link \in [Attempts -> Socket] /\ w \in Seq(Message) /\ dev.playing[b] \in Seq(Turns)
      /\ srv \in [Attempts -> {"none", "starting", "live", "closing", "over", "refused"}]
      /\ cut \in [Attempts -> Turns]
  <2>1. dev \in Devices /\ link \in [Attempts -> Socket] /\ cut \in [Attempts -> Turns]
        /\ srv \in [Attempts -> {"none", "starting", "live", "closing", "over", "refused"}]
    BY DEF Types, TypeOK, DialogueTypeOK
  <2>2. dev.playing[b] \in Seq(Turns) /\ w \in Seq(Message) /\ cut[b] \in Int
    BY <2>1 DEF Devices, Socket, Turns
  <2>3. turn' = turn
    BY DEF Start, Stop, Leave, Render, vars, serverVars, Starting, PermissionGranted,
           StartCaptureFails, VoiceResumes, OpenInterviewSocket, DialFails, Receiving, HandleEvent,
           HandleInterrupted, HandleClosed, Enqueue, ChunkEnds, OnClose
  <2> QED
    BY <2>1, <2>2, <2>3 DEF Attempts
<1>1. /\ WireFits(b) /\ (Engaged(b) => Engaged(b)')
  BY EngagedStays DEF WiresAreSound, Next
<1>2. Heard(dev, cut[b])
  BY <1>1 DEF WireFits
<1>3. ASSUME cut' = cut, link'[b].wire = w \/ link'[b].wire = <<>>
                          \/ (w # <<>> /\ link'[b].wire = Tail(w)),
             Heard(dev', cut[b])
      PROVE  WireFits(b)'
  <2>1. /\ AudioFollows(link'[b].wire, cut[b]) /\ CutsAreOver(link'[b].wire, turn)
        /\ Starts(link'[b].wire) => Starts(w)
        /\ turn.phase = "quiet" => FloorReturns(link'[b].wire)
    <3>1. CASE link'[b].wire = w
      BY <1>1, <3>1 DEF WireFits
    <3>2. CASE link'[b].wire = <<>>
      BY <3>2, WireIsEmpty
    <3>3. CASE w # <<>> /\ link'[b].wire = Tail(w)
      <4> HIDE DEF w
      <4>1. /\ AudioFollows(w, cut[b]) /\ CutsAreOver(w, turn)
            /\ turn.phase = "quiet" => FloorReturns(w)
        BY <1>1 DEF WireFits, w
      <4> QED
        BY <1>0, <3>3, <4>1, WireShrinks
    <3> QED
      BY <1>3, <3>1, <3>2, <3>3
  <2> QED
    BY <1>0, <1>1, <1>3, <2>1 DEF WireFits
<1>4. ASSUME NEW l \in [Attempts -> Socket], dev' = TornDown(dev), link' = HungUp(l), cut' = cut,
             l[b].wire = w \/ (w # <<>> /\ l[b].wire = Tail(w))
      PROVE  WireFits(b)'
  <2>1. dev'.voice = 0 /\ (link'[b].wire = l[b].wire \/ link'[b].wire = <<>>)
    BY <1>0, <1>4, Teardowns
  <2>2. Heard(dev', cut[b])
    BY <1>0, <2>1
  <2> HIDE DEF Heard
  <2> QED
    BY <1>3, <1>4, <2>1, <2>2
<1>5. CASE Start \/ Render \/ UNCHANGED vars
  BY <1>2, <1>3, <1>5 DEF Start, Render, vars, pageVars
<1>6. CASE Stop \/ Leave
  BY <1>0, <1>4, <1>6 DEF Stop, Leave, Teardown
<1>7. ASSUME NEW a \in Attempts, Starting(a) PROVE WireFits(b)'
  <2>1. CASE PermissionGranted(a) \/ StartCaptureFails(a) \/ DialFails(a)
    <3>1. dev'.voice = dev.voice /\ dev'.playing = dev.playing /\ cut' = cut /\ link' = link
      BY <1>0, <2>1 DEF PermissionGranted, StartCaptureFails, DialFails, Devices
    <3> QED
      BY <1>2, <1>3, <3>1
  <2>2. CASE VoiceResumes(a)
    <3>1. dev'.voice = a /\ dev'.playing = dev.playing /\ cut' = cut /\ link' = link
      BY <1>0, <2>2 DEF VoiceResumes, Devices
    <3>2. dev.playing[a] = <<>>
      BY <2>2 DEF VoiceResumes, SocketsAreSound, SocketFits
    <3>3. Heard(dev', cut[b])
      BY <3>1, <3>2, WireIsEmpty
    <3> QED
      BY <1>3, <3>1, <3>3
  <2>3. CASE OpenInterviewSocket(a)
    <3>1. /\ dev'.voice = dev.voice /\ dev'.playing = dev.playing /\ cut' = cut
          /\ link'[b].wire = w
      BY <1>0, <2>3 DEF OpenInterviewSocket, Devices, Socket
    <3> QED
      BY <1>2, <1>3, <3>1
  <2> QED
    BY <1>7, <2>1, <2>2, <2>3 DEF Starting
<1>8. ASSUME NEW a \in Attempts, Receiving(a) PROVE WireFits(b)'
  <2>1. ASSUME link[a].wire # <<>>
        PROVE  /\ Taken(a) \in [Attempts -> Socket]
               /\ Taken(a)[b].wire = w \/ (w # <<>> /\ Taken(a)[b].wire = Tail(w))
               /\ b = a => /\ Taken(a)[b].wire = Tail(w) /\ First(a) = Head(w)
                           /\ First(a).turn \in Turns
    BY <1>0, <2>1, TakeMoves
  <2>2. CASE HandleEvent(a)
    BY <1>2, <1>3, <2>1, <2>2 DEF HandleEvent, Delivers
  <2>3. CASE HandleInterrupted(a)
    <3>1. /\ cut' = [cut EXCEPT ![a] = First(a).turn] /\ dev' = Silenced(dev) /\ link' = Taken(a)
          /\ link[a].wire # <<>> /\ First(a).is = "interrupted"
      BY <2>3 DEF HandleInterrupted, Interrupt, Delivers
    <3>2. /\ dev'.voice = dev.voice
          /\ dev'.playing[b] = IF b = dev.voice THEN <<>> ELSE dev.playing[b]
      BY <1>0, <3>1, Teardowns
    <3>3. \A c : Heard(dev', c)
      BY <3>2, WireIsEmpty
    <3>4. CASE b # a
      <4>1. cut'[b] = cut[b] /\ link'[b] = link[b]
        BY <1>0, <2>1, <3>1, <3>4, TakeMoves
      <4> QED
        BY <1>0, <1>1, <3>3, <4>1 DEF WireFits
    <3>5. CASE b = a
      <4>1. /\ cut'[b] = Head(w).turn /\ link'[b].wire = Tail(w) /\ w # <<>>
            /\ Head(w).is = "interrupted"
        BY <1>0, <2>1, <3>1, <3>5
      <4>2. /\ AudioFollows(w, cut[b]) /\ CutsAreOver(w, turn)
            /\ (turn.phase = "quiet" => FloorReturns(w)) /\ (Starts(w) => Engaged(b))
        BY <1>1 DEF WireFits
      <4>3. /\ AudioFollows(Tail(w), Head(w).turn) /\ CutsAreOver(Tail(w), turn)
            /\ CutIsOver(Head(w).turn, turn) /\ (Starts(Tail(w)) => Starts(w))
            /\ turn.phase = "quiet" => FloorReturns(Tail(w))
        <5> HIDE DEF w
        <5> QED
          BY <1>0, <4>1, <4>2, WireShrinks
      <4> QED
        BY <1>0, <1>1, <3>3, <4>1, <4>2, <4>3 DEF WireFits
    <3> QED
      BY <3>4, <3>5
  <2>4. CASE HandleClosed(a)
    <3>1. dev' = TornDown(dev) /\ link' = HungUp(Taken(a)) /\ cut' = cut /\ link[a].wire # <<>>
      BY <2>4 DEF HandleClosed, Teardown, Delivers
    <3> QED
      BY <1>4, <2>1, <3>1
  <2>5. CASE Enqueue(a)
    <3>1. /\ cut' = cut /\ link' = Taken(a) /\ link[a].wire # <<>> /\ First(a).is = "audio"
          /\ dev'.voice = dev.voice /\ (b # a => dev'.playing[b] = dev.playing[b])
          /\ b = a => dev'.playing[b] = Append(dev.playing[b], First(a).turn)
      BY <1>0, <2>5 DEF Enqueue, Delivers, Devices
    <3>2. ASSUME b = a PROVE First(a).turn > cut[b] /\ First(a).turn \in Turns
      <4>1. AudioFollows(w, cut[b]) /\ w # <<>> /\ Head(w).is = "audio" /\ First(a) = Head(w)
            /\ First(a).turn \in Turns
        BY <1>1, <2>1, <3>1, <3>2 DEF WireFits
      <4> HIDE DEF w
      <4> QED
        BY <1>0, <4>1, WireShrinks
    <3>3. Heard(dev', cut[b])
      <4>1. CASE b # a
        BY <1>2, <3>1, <4>1
      <4>2. CASE b = a
        <5> DEFINE s == dev.playing[b]
        <5>1. /\ Len(s) \in Nat /\ DOMAIN s = 1..Len(s)
              /\ DOMAIN dev'.playing[b] = 1..Len(s) + 1
              /\ \A i \in 1..Len(s) : dev'.playing[b][i] = s[i]
              /\ dev'.playing[b][Len(s) + 1] = First(a).turn
          BY <1>0, <3>1, <3>2, <4>2, Pushed, Plain
        <5>2. \A i \in 1..Len(s) + 1 : i \in 1..Len(s) \/ i = Len(s) + 1
          BY <5>1
        <5> HIDE DEF s
        <5>3. dev.voice = b => \A i \in 1..Len(s) : s[i] > cut[b]
          BY <1>2, <5>1 DEF s
        <5> QED
          BY <3>1, <3>2, <4>2, <5>1, <5>2, <5>3
      <4> QED
        BY <4>1, <4>2
    <3> QED
      BY <1>3, <2>1, <3>1, <3>3
  <2>6. CASE ChunkEnds(a)
    <3>1. /\ cut' = cut /\ link' = link /\ dev.playing[a] # <<>>
          /\ dev'.voice = dev.voice /\ (b # a => dev'.playing[b] = dev.playing[b])
          /\ b = a => dev'.playing[b] = Tail(dev.playing[b])
      BY <1>0, <2>6 DEF ChunkEnds, Devices
    <3>2. Heard(dev', cut[b])
      <4>1. CASE b # a
        BY <1>2, <3>1, <4>1
      <4>2. CASE b = a
        <5> DEFINE s == dev.playing[b]
        <5>0. s \in Seq(Turns) /\ s # <<>> /\ dev'.playing[b] = Tail(s)
          BY <1>0, <3>1, <4>2
        <5> HIDE DEF s
        <5>1. /\ Len(s) \in Nat \ {0} /\ DOMAIN s = 1..Len(s)
              /\ DOMAIN dev'.playing[b] = 1..Len(s) - 1
              /\ \A i \in 1..Len(s) - 1 : dev'.playing[b][i] = s[i + 1]
          BY ONLY <5>0, Popped, Plain
        <5>2. \A i \in 1..Len(s) - 1 : i + 1 \in 1..Len(s)
          BY ONLY <5>1
        <5>3. dev.voice = b => \A i \in 1..Len(s) : s[i] > cut[b]
          BY <1>2, <5>1 DEF s
        <5> QED
          BY <3>1, <4>2, <5>1, <5>2, <5>3
      <4> QED
        BY <4>1, <4>2
    <3> QED
      BY <1>3, <3>1, <3>2
  <2>7. CASE OnClose(a)
    <3> DEFINE l == [link EXCEPT ![a].sock = "gone"]
    <3>1. l \in [Attempts -> Socket] /\ l[b].wire = w
      BY <1>0 DEF Socket
    <3>2. dev' = TornDown(dev) /\ link' = HungUp(l) /\ cut' = cut
      BY <2>7 DEF OnClose, Teardown
    <3> HIDE DEF l
    <3> QED
      BY <1>4, <3>1, <3>2
  <2> QED
    BY <1>8, <2>2, <2>3, <2>4, <2>5, <2>6, <2>7 DEF Receiving
<1> QED
  BY <1>5, <1>6, <1>7, <1>8

\* Messages, voices and turns keep step.
LEMMA WiresStay ==
  ASSUME Types, OneServer, SocketsAreSound, WiresAreSound, [Next]_vars
  PROVE  WiresAreSound'
<1>1. ASSUME NEW b \in Attempts PROVE WireFits(b)'
  BY <1>1, PagesCut, ServersCut DEF Next
<1> QED
  BY <1>1 DEF WiresAreSound

\* A start that crosses nothing stays alone.
LEMMA OneStartStays ==
  ASSUME Types, OneServer, SocketsAreSound, OneStart, [Next]_vars, ~crossed'
  PROVE  OneStart'
<1>0. /\ dev \in Devices /\ 0 \notin Attempts /\ link \in [Attempts -> Socket]
      /\ at \in [Attempts -> {"none", "asking", "resuming", "dialing", "done"}]
      /\ \A a \in Attempts : link[a].sock \in {"none", "open", "left", "shut", "gone"}
  <2>1. link \in [Attempts -> Socket]
    BY DEF Types, TypeOK, DialogueTypeOK
  <2>2. \A a \in Attempts : link[a].sock \in {"none", "open", "left", "shut", "gone"}
    BY <2>1 DEF Socket
  <2> QED
    BY <2>1, <2>2 DEF Types, TypeOK, Attempts
<1>1. \A a \in Attempts : StartFits(a) /\ SocketFits(a)
  BY DEF OneStart, SocketsAreSound
<1>2. \A a, b \in Attempts : Busy(a) /\ Busy(b) => a = b
  BY DEF OneStart
<1> DEFINE Calm(s) == s \in {"requesting-permission", "connecting", "ended"}
           Early(b) == Waiting(b) => Calm(status) /\ Calm(shown)
\* Nothing becomes busy, and the sockets, the refs and the states are kept.
<1>3. ASSUME \A b \in Attempts : /\ Busy(b)' => Busy(b)
                                 /\ StartFits(b)'
      PROVE  OneStart'
  BY <1>2, <1>3 DEF OneStart
<1>4. ASSUME UNCHANGED <<link, at>>, dev'.socket = dev.socket, dev'.voice = dev.voice,
             \A b \in Attempts : Waiting(b) => Calm(status') /\ Calm(shown')
      PROVE  OneStart'
  BY <1>1, <1>3, <1>4 DEF Busy, Waiting, StartFits
<1>5. ASSUME NEW l \in [Attempts -> Socket], dev' = TornDown(dev), link' = HungUp(l), at' = at,
             \A b \in Attempts : /\ l[b].sock = link[b].sock \/ l[b].sock = "gone"
                                 /\ l[b].wire # <<>> => link[b].wire # <<>>,
             Calm(status') \/ status' = status, Calm(shown') \/ shown' = shown
      PROVE  OneStart'
  <2>1. /\ dev'.socket = 0 /\ dev'.voice = 0
        /\ \A b \in Attempts : b # dev.socket => link'[b] = l[b]
        /\ dev.socket # 0 =>
             /\ link'[dev.socket].wire = <<>>
             /\ link'[dev.socket].sock = IF l[dev.socket].sock = "open" THEN "left"
                                         ELSE l[dev.socket].sock
    BY <1>0, <1>5, Teardowns
  <2>2. ASSUME NEW b \in Attempts PROVE (Busy(b)' => Busy(b)) /\ StartFits(b)'
    <3>1. Busy(b)' => Busy(b)
      BY <1>0, <1>5, <2>1 DEF Busy, Waiting
    <3>2. Waiting(b)' => Waiting(b)
      BY <1>5 DEF Waiting
    <3>3. link'[b].sock # "open" /\ link'[b].wire = <<>>
      BY <1>0, <1>1, <1>5, <2>1 DEF StartFits
    <3> QED
      BY <1>0, <1>1, <1>5, <2>1, <3>1, <3>2, <3>3 DEF StartFits
  <2> QED
    BY <1>3, <2>2
<1>6. CASE Start
  <2>1. PICK a \in Attempts : at[a] = "none" /\ at' = [at EXCEPT ![a] = "asking"]
    BY <1>6 DEF Start
  <2>2. /\ status' = "requesting-permission" /\ shown' = "requesting-permission"
        /\ link' = link /\ dev' = dev /\ shown \in {"idle", "error"}
        /\ \A b \in Attempts : link[b].sock \notin {"open", "left", "shut"}
    BY <1>6 DEF Start
  <2>3. \A b \in Attempts : ~Waiting(b)
    BY <1>1, <2>2 DEF StartFits
  <2>4. \A b \in Attempts : Busy(b)' => b = a
    BY <1>0, <2>1, <2>2, <2>3 DEF Busy, Waiting
  <2>5. \A b \in Attempts : StartFits(b)'
    BY <1>0, <1>1, <2>1, <2>2 DEF StartFits, Waiting
  <2> QED
    BY <2>4, <2>5 DEF OneStart
<1>7. CASE Stop
  <2>1. /\ dev' = TornDown(dev) /\ link' = HungUp(link) /\ at' = at
        /\ status' = "ended" /\ shown' = "ended"
    BY <1>7 DEF Stop, Teardown
  <2> QED
    BY <1>0, <1>5, <2>1
<1>8. CASE Leave
  <2>1. /\ dev' = TornDown(dev) /\ link' = HungUp(link) /\ at' = at
        /\ status' = status /\ shown' = shown
    BY <1>8 DEF Leave, Teardown
  <2> QED
    BY <1>0, <1>5, <2>1
<1>9. CASE Render \/ UNCHANGED vars
  BY <1>1, <1>4, <1>9 DEF Render, vars, pageVars, StartFits
<1>10. ASSUME NEW a \in Attempts, Starting(a) PROVE OneStart'
  <2>0. Waiting(a) /\ \A b \in Attempts : Busy(b) => b = a
    BY <1>2, <1>10
    DEF Starting, PermissionGranted, StartCaptureFails, VoiceResumes, OpenInterviewSocket,
        DialFails, Busy, Waiting
  <2>1. CASE PermissionGranted(a)
    <3>1. /\ link' = link /\ dev'.socket = dev.socket /\ dev'.voice = dev.voice /\ shown' = shown
          /\ at' = [at EXCEPT ![a] = "resuming"] /\ (status' = "connecting" \/ status' = status)
      BY <1>0, <2>1 DEF PermissionGranted, Devices, Sets
    <3> QED
      BY <1>0, <1>1, <1>3, <2>0, <3>1 DEF Busy, Waiting, StartFits
  <2>2. CASE StartCaptureFails(a) \/ DialFails(a)
    <3>1. /\ link' = link /\ dev'.socket = dev.socket /\ dev'.voice = dev.voice
          /\ at' = [at EXCEPT ![a] = "done"]
      BY <1>0, <2>2 DEF StartCaptureFails, DialFails, Devices
    <3>2. \A b \in Attempts : ~Waiting(b)'
      BY <1>0, <2>0, <3>1 DEF Busy, Waiting
    <3>3. \A b \in Attempts : at'[b] = "dialing" => at[b] = "dialing"
      BY <1>0, <3>1
    <3> QED
      BY <1>0, <1>1, <1>3, <3>1, <3>2, <3>3 DEF Busy, StartFits
  <2>3. CASE VoiceResumes(a)
    <3>1. /\ link' = link /\ dev'.socket = dev.socket /\ dev'.voice = a /\ shown' = shown
          /\ status' = status /\ at' = [at EXCEPT ![a] = "dialing"]
      BY <1>0, <2>3 DEF VoiceResumes, Devices
    <3>2. \A b \in Attempts : at'[b] = "dialing" \/ dev'.socket = b => b = a
      <4>1. \A b \in Attempts : dev.socket = b => Busy(b)
        BY <1>1 DEF SocketFits, Busy
      <4> QED
        BY <1>0, <2>0, <3>1, <4>1 DEF Busy, Waiting
    <3> QED
      BY <1>0, <1>1, <1>3, <2>0, <3>1, <3>2 DEF Busy, Waiting, StartFits
  <2>4. CASE OpenInterviewSocket(a)
    <3>1. /\ link' = [link EXCEPT ![a].sock = "open"] /\ dev'.socket = a /\ dev'.voice = dev.voice
          /\ at' = [at EXCEPT ![a] = "done"] /\ at[a] = "dialing"
      BY <1>0, <2>4 DEF OpenInterviewSocket, Devices
    <3>2. /\ \A b \in Attempts \ {a} : link'[b] = link[b] /\ at'[b] = at[b] /\ ~Busy(b)
          /\ link'[a].sock = "open" /\ at'[a] = "done" /\ dev.voice \in {0, a}
      BY <1>0, <1>1, <2>0, <3>1 DEF Socket, StartFits
    <3>3. \A b \in Attempts : ~Waiting(b)'
      BY <3>2 DEF Busy, Waiting
    <3>4. \A b \in Attempts \ {a} : link'[b].sock # "open" /\ link'[b].wire = <<>>
      BY <1>0, <1>1, <3>2 DEF Busy, SocketFits
    <3>5. \A b \in Attempts : Busy(b)' => Busy(b)
      BY <2>0, <3>2, <3>3 DEF Busy
    <3> QED
      BY <1>0, <1>3, <3>1, <3>2, <3>3, <3>4, <3>5 DEF StartFits, Waiting
  <2> QED
    BY <1>10, <2>1, <2>2, <2>3, <2>4 DEF Starting
\* What a socket delivers is delivered to the only attempt there is.
<1>11. ASSUME NEW a \in Attempts, link[a].sock \in {"open", "left", "shut"}
       PROVE  \A b \in Attempts : ~Waiting(b)
  <2>1. Busy(a) /\ ~Waiting(a)
    BY <1>1, <1>11 DEF Busy, Waiting, SocketFits
  <2> QED
    BY <1>2, <2>1 DEF Busy
<1>12. ASSUME NEW a \in Attempts, link' = Taken(a), link[a].wire # <<>>, at' = at,
              link[a].sock \in {"open", "left", "shut"},
              dev'.socket = dev.socket, dev'.voice = dev.voice
       PROVE  OneStart'
  <2>1. \A b \in Attempts : /\ link'[b].sock = link[b].sock
                            /\ link'[b].wire # <<>> => link[b].wire # <<>>
    BY <1>12, TakeMoves
  <2>2. \A b \in Attempts : ~Waiting(b) /\ ~Waiting(b)'
    BY <1>11, <1>12 DEF Waiting
  <2> QED
    BY <1>1, <1>3, <1>12, <2>1, <2>2 DEF Busy, StartFits
<1>13. ASSUME NEW a \in Attempts, Receiving(a) PROVE OneStart'
  <2>1. CASE HandleEvent(a)
    BY <1>12, <2>1 DEF HandleEvent, Delivers
  <2>2. CASE HandleInterrupted(a)
    <3>1. dev'.socket = dev.socket /\ dev'.voice = dev.voice
      BY <1>0, <2>2, Teardowns DEF HandleInterrupted, Interrupt
    <3> QED
      BY <1>12, <2>2, <3>1 DEF HandleInterrupted, Delivers
  <2>3. CASE HandleClosed(a)
    <3>1. /\ dev' = TornDown(dev) /\ link' = HungUp(Taken(a)) /\ at' = at /\ shown' = shown
          /\ link[a].wire # <<>> /\ (status' = "ended" \/ status' = status)
      BY <2>3 DEF HandleClosed, Teardown, Delivers, Sets
    <3>2. /\ Taken(a) \in [Attempts -> Socket]
          /\ \A b \in Attempts : /\ Taken(a)[b].sock = link[b].sock
                                 /\ Taken(a)[b].wire # <<>> => link[b].wire # <<>>
      BY <3>1, TakeMoves
    <3> QED
      BY <1>5, <3>1, <3>2
  <2>4. CASE Enqueue(a)
    <3>1. dev'.socket = dev.socket /\ dev'.voice = dev.voice
      BY <1>0, <2>4 DEF Enqueue, Devices
    <3> QED
      BY <1>12, <2>4, <3>1 DEF Enqueue, Delivers
  <2>5. CASE ChunkEnds(a)
    <3>1. /\ dev'.socket = dev.socket /\ dev'.voice = dev.voice /\ UNCHANGED <<link, at, shown>>
          /\ status' = status \/ shown = "interviewer-speaking"
      BY <1>0, <2>5 DEF ChunkEnds, Devices
    <3>2. \A b \in Attempts : Waiting(b) => Calm(status) /\ Calm(shown)
      BY <1>1 DEF StartFits
    <3> QED
      BY <1>4, <3>1, <3>2
  <2>6. CASE OnClose(a)
    <3> DEFINE l == [link EXCEPT ![a].sock = "gone"]
    <3>1. /\ l \in [Attempts -> Socket]
          /\ \A b \in Attempts : /\ l[b].sock = link[b].sock \/ l[b].sock = "gone"
                                 /\ l[b].wire = link[b].wire
      BY <1>0 DEF Socket
    <3>2. /\ dev' = TornDown(dev) /\ link' = HungUp(l) /\ at' = at /\ shown' = shown
          /\ status' = "ended" \/ status' = status
      BY <2>6 DEF OnClose, Teardown, Drop, Sets
    <3> HIDE DEF l
    <3> QED
      BY <1>5, <3>1, <3>2
  <2> QED
    BY <1>13, <2>1, <2>2, <2>3, <2>4, <2>5, <2>6 DEF Receiving
<1>14. ASSUME NEW a \in Attempts, Server(a) \/ ServerError(a) PROVE OneStart'
  <2>0. dev' = dev /\ at' = at /\ status' = status /\ shown' = shown
    BY <1>14 DEF Server, ServerError, pageVars
  <2>1. ASSUME \A b \in Attempts : /\ link'[b].sock = link[b].sock
                                      \/ (link[b].sock = "open" /\ link'[b].sock = "shut")
                                   /\ link[b].sock # "open" => link'[b].wire = link[b].wire
        PROVE  OneStart'
    <3>1. \A b \in Attempts : Busy(b)' => Busy(b)
      BY <2>0, <2>1 DEF Busy, Waiting
    <3>2. \A b \in Attempts : StartFits(b)'
      BY <1>1, <2>0, <2>1 DEF StartFits, Waiting
    <3> QED
      BY <1>3, <3>1, <3>2
  <2>2. CASE SaysClosed(a) \/ Refuse(a)
    BY <2>1, <2>2, EndMoves
  <2>3. ASSUME NEW is \in Kinds, Send(a, is) PROVE OneStart'
    BY <2>1, <2>3, SendMoves
  <2>4. CASE GoLive(a) \/ InterviewerStarted(a) \/ AudioOutput(a) \/ EndTurn(a) \/ Interrupted(a)
               \/ CandidateText(a) \/ StreamError(a)
    BY <2>3, <2>4 DEF GoLive, InterviewerStarted, AudioOutput, EndTurn, Interrupted, CandidateText,
                      StreamError, Kinds
  <2>5. CASE InterviewerText(a) \/ EndInterviewTool(a) \/ Shutdown(a)
    BY <2>1, <2>5 DEF InterviewerText, NextBlock, EndInterviewTool, Shutdown
  <2> QED
    BY <1>14, <2>2, <2>4, <2>5 DEF Server, ServerError, CandidateLeft, TimesOut, CompletionEnd
<1> QED
  BY <1>6, <1>7, <1>8, <1>9, <1>10, <1>13, <1>14 DEF Next

\* What ends a turn reaches the page behind what began it.
LEMMA ServersTell ==
  ASSUME Types, OneServer, SocketsAreSound, WiresAreSound, [Next]_vars, NEW b \in Attempts,
         WillBeTold(b), NEW a \in Attempts, Server(a) \/ ServerError(a)
  PROVE  WillBeTold(b)'
<1> DEFINE w == link[b].wire
           Note(is) == [is |-> is, turn |-> turn.n]
<1>0. /\ dev' = dev /\ status' = status /\ mounted' = mounted
      /\ turn \in [n : Turns, blocks : 0..MaxBlocks, phase : {"quiet", "asking", "speaking"}]
      /\ link \in [Attempts -> Socket] /\ w \in Seq(Message)
  BY DEF Server, ServerError, pageVars, Types, TypeOK, DialogueTypeOK, Socket
<1>1. Engaged(b) => Engaged(b)'
  BY EngagedStays
<1>2. ASSUME turn'.phase = turn.phase \/ turn'.phase # "quiet",
             Returns(w) => Returns(link'[b].wire)
      PROVE  WillBeTold(b)'
  BY <1>0, <1>1, <1>2 DEF WillBeTold
<1>3. ASSUME NEW is \in Kinds, Send(a, is) PROVE Returns(w) => Returns(link'[b].wire)
  <2>1. \/ link'[b].wire = w
        \/ link'[b].wire = Append(w, Note(is)) /\ Note(is) \in Message
    BY <1>3, SendMoves
  <2> HIDE DEF Note, w
  <2>2. 0 \in Int
    OBVIOUS
  <2> QED
    BY <1>0, <2>1, <2>2, WireGrows
<1>4. CASE SaysClosed(a) \/ Refuse(a)
  <2>1. turn' = turn /\ 0 \in Int
    BY <1>4 DEF SaysClosed, Refuse
  <2>2. Returns(w) => Returns(link'[b].wire)
    BY <1>4, <2>1, EndIsDull
  <2> QED
    BY <1>2, <2>1, <2>2
<1>5. CASE GoLive(a) \/ AudioOutput(a) \/ CandidateText(a) \/ StreamError(a) \/ InterviewerStarted(a)
  <2>1. turn' = turn \/ turn' = [turn EXCEPT !.phase = "speaking"]
    BY <1>5 DEF GoLive, AudioOutput, CandidateText, StreamError, InterviewerStarted, serverVars
  <2>2. turn'.phase = turn.phase \/ turn'.phase # "quiet"
    BY <1>0, <2>1
  <2>3. \E is \in Kinds : Send(a, is)
    BY <1>5 DEF GoLive, AudioOutput, CandidateText, StreamError, InterviewerStarted, Kinds
  <2> QED
    BY <1>2, <1>3, <2>2, <2>3
<1>6. CASE InterviewerText(a)
  <2>1. link' = link /\ turn'.phase = "asking"
    <3>1. \/ turn' = [n |-> turn.n + 1, blocks |-> 1, phase |-> "asking"]
          \/ turn' = [turn EXCEPT !.blocks = turn.blocks + 1, !.phase = "asking"]
      BY <1>6 DEF InterviewerText, NextBlock
    <3>2. CASE turn' = [n |-> turn.n + 1, blocks |-> 1, phase |-> "asking"]
      BY <1>6, <3>2 DEF InterviewerText, NextBlock
    <3>3. CASE turn' = [turn EXCEPT !.blocks = turn.blocks + 1, !.phase = "asking"]
      BY <1>0, <1>6, <3>3 DEF InterviewerText, NextBlock
    <3> QED
      BY <3>1, <3>2, <3>3
  <2> QED
    BY <1>2, <2>1
<1>7. CASE EndTurn(a) \/ Interrupted(a)
  <2>1. PICK is \in {"turnEnded", "interrupted"} : Send(a, is)
    BY <1>7 DEF EndTurn, Interrupted
  <2>2. is \in Kinds /\ Live(a)
    BY <1>7 DEF EndTurn, Interrupted, Kinds
  <2>3. CASE b = a /\ dev.socket = a
    <3>1. link[a].sock = "open"
      BY <2>2, <2>3, LiveWires
    <3>2. link'[b].wire = Append(w, Note(is)) /\ Note(is) \in Message
      BY <2>1, <2>2, <2>3, <3>1, SendMoves
    <3>3. GivesBack(Note(is))
      BY DEF GivesBack
    <3>4. Returns(link'[b].wire)
      <4> HIDE DEF Note, w
      <4>1. 0 \in Int
        OBVIOUS
      <4> QED
        BY <1>0, <3>2, <3>3, <4>1, WireGrows
    <3> QED
      BY <1>0, <1>1, <3>4 DEF WillBeTold
  <2>4. CASE b # a
    BY <1>0, <2>2, <2>4, LiveWires DEF WillBeTold
  <2>5. CASE dev.socket # b
    BY <1>0, <2>5 DEF WillBeTold
  <2> QED
    BY <2>3, <2>4, <2>5
<1>8. CASE Shutdown(a) \/ EndInterviewTool(a)
  BY <1>2, <1>8 DEF Shutdown, EndInterviewTool
<1> QED
  BY <1>4, <1>5, <1>6, <1>7, <1>8 DEF Server, ServerError, CandidateLeft, TimesOut, CompletionEnd

LEMMA ToldStays ==
  ASSUME Types, OneServer, SocketsAreSound, WiresAreSound, OneStart, [Next]_vars,
         NEW b \in Attempts, WillBeTold(b)
  PROVE  WillBeTold(b)'
<1> DEFINE w == link[b].wire
           Speaking == "interviewer-speaking"
<1>0. /\ dev \in Devices /\ 0 \notin Attempts /\ link \in [Attempts -> Socket]
      /\ w \in Seq(Message)
  <2>1. link \in [Attempts -> Socket]
    BY DEF Types, TypeOK, DialogueTypeOK
  <2> QED
    BY <2>1 DEF Types, TypeOK, Attempts, Socket
<1>1. StartFits(b) /\ SocketFits(b) /\ WireFits(b)
  BY DEF OneStart, SocketsAreSound, WiresAreSound
<1>2. Engaged(b) => Engaged(b)'
  BY EngagedStays
<1>3. ASSUME dev'.socket # b \/ status' # Speaking PROVE WillBeTold(b)'
  BY <1>3 DEF WillBeTold
<1>4. ASSUME UNCHANGED <<turn, status>>, dev'.socket = dev.socket, mounted' = mounted,
             dev.playing[b] # <<>> => dev'.playing[b] # <<>>,
             Returns(w) => Returns(link'[b].wire)
      PROVE  WillBeTold(b)'
  BY <1>2, <1>4 DEF WillBeTold
<1>5. ASSUME dev' = TornDown(dev) PROVE WillBeTold(b)'
  <2>1. dev'.socket = 0
    BY <1>0, <1>5, Teardowns
  <2> QED
    BY <1>0, <1>3, <2>1
<1>6. CASE Start \/ Render \/ UNCHANGED vars
  BY <1>3, <1>4, <1>6 DEF Start, Render, vars, pageVars, serverVars
<1>7. CASE Stop \/ Leave
  BY <1>5, <1>7 DEF Stop, Leave, Teardown
<1>8. ASSUME NEW a \in Attempts, Starting(a) PROVE WillBeTold(b)'
  <2>0. \A c \in Attempts : at[c] \in {"asking", "resuming", "dialing"} => status # Speaking
    BY DEF OneStart, StartFits, Waiting
  <2>1. status # Speaking
    BY <1>8, <2>0 DEF Starting, PermissionGranted, StartCaptureFails, VoiceResumes,
                      OpenInterviewSocket, DialFails
  <2>2. status' # Speaking
    BY <1>8, <2>1 DEF Starting, PermissionGranted, StartCaptureFails, VoiceResumes,
                      OpenInterviewSocket, DialFails, Sets
  <2> QED
    BY <1>3, <2>2
<1>9. ASSUME NEW a \in Attempts, Receiving(a) PROVE WillBeTold(b)'
  <2>1. CASE HandleEvent(a)
    <3>0. /\ link' = Taken(a) /\ link[a].wire # <<>> /\ turn' = turn /\ dev' = dev
          /\ mounted' = mounted
      BY <2>1 DEF HandleEvent, Delivers, serverVars
    <3>1. /\ Taken(a)[a].wire = Tail(link[a].wire) /\ First(a) = Head(link[a].wire)
          /\ First(a) \in Message /\ link[a].wire \in Seq(Message)
          /\ a # b => Taken(a)[b] = link[b]
      BY <3>0, TakeMoves
    <3>2. First(a).is \in {"ready", "candidateFinished", "interviewerStarted", "turnEnded", "error"}
      BY <2>1, <3>1 DEF HandleEvent, Message, Kinds
    <3>3. dev.socket = a
      BY <3>0 DEF OneStart, StartFits
    <3>4. CASE a # b
      BY <1>3, <3>0, <3>3, <3>4
    <3>5. CASE a = b /\ First(a).is = "interviewerStarted"
      <4>1. w # <<>> /\ Head(w).is = "interviewerStarted" /\ link'[b].wire = Tail(w)
        BY <3>0, <3>1, <3>5
      <4>2. (Starts(w) => Engaged(b)) /\ (turn.phase = "quiet" => FloorReturns(w))
        BY <1>1 DEF WireFits
      <4>3. Starts(w) /\ (FloorReturns(w) => Returns(Tail(w)))
        <5> HIDE DEF w
        <5>1. 0 \in Int
          OBVIOUS
        <5> QED
          BY <1>0, <4>1, <5>1, WireShrinks
      <4> QED
        BY <1>2, <3>0, <4>1, <4>2, <4>3 DEF WillBeTold
    <3>6. CASE a = b /\ First(a).is # "interviewerStarted" /\ First(a).is # "turnEnded"
      <4>1. status' = status \/ status' # Speaking
        BY <2>1, <3>2, <3>6 DEF HandleEvent, Sets
      <4>2. ~GivesBack(Head(w)) /\ w # <<>> /\ link'[b].wire = Tail(w)
        BY <3>0, <3>1, <3>2, <3>6 DEF GivesBack
      <4>3. Returns(w) => Returns(link'[b].wire)
        <5> HIDE DEF w
        <5>1. 0 \in Int
          OBVIOUS
        <5> QED
          BY <1>0, <4>2, <5>1, WireShrinks
      <4> QED
        BY <1>3, <1>4, <3>0, <4>1, <4>3
    <3>7. CASE a = b /\ First(a).is = "turnEnded"
      <4>1. TurnEnded
        BY <2>1, <3>7 DEF HandleEvent
      <4>2. CASE IsPlaying
        <5>1. dev.voice = b /\ dev.playing[b] # <<>> /\ status' = status
          BY <1>1, <3>3, <3>7, <4>1, <4>2 DEF IsPlaying, StartFits, TurnEnded
        <5> QED
          BY <1>2, <3>0, <5>1 DEF WillBeTold
      <4>3. CASE ~IsPlaying /\ mounted
        <5>1. status' = "recording"
          BY <4>1, <4>3 DEF TurnEnded, Sets
        <5> QED
          BY <1>3, <5>1
      <4>4. CASE ~IsPlaying /\ ~mounted
        <5>1. status' = status
          BY <4>1, <4>4 DEF TurnEnded, Sets
        <5> QED
          BY <1>2, <3>0, <4>4, <5>1 DEF WillBeTold
      <4> QED
        BY <4>2, <4>3, <4>4
    <3> QED
      BY <3>4, <3>5, <3>6, <3>7
  <2>2. CASE HandleInterrupted(a)
    <3>0. dev'.socket = dev.socket /\ mounted' = mounted
          /\ status' = IF mounted THEN "interrupting" ELSE status
      BY <1>0, <2>2, Teardowns DEF HandleInterrupted, Interrupt, Sets
    <3> QED
      BY <1>2, <1>3, <3>0 DEF WillBeTold
  <2>3. CASE HandleClosed(a) \/ OnClose(a)
    BY <1>5, <2>3 DEF HandleClosed, OnClose, Teardown
  <2>4. CASE Enqueue(a)
    <3>0. /\ link' = Taken(a) /\ link[a].wire # <<>> /\ First(a).is = "audio"
          /\ UNCHANGED <<turn, status>> /\ mounted' = mounted
      BY <2>4 DEF Enqueue, Delivers, serverVars
    <3>1. First(a) = Head(link[a].wire) /\ link[a].wire \in Seq(Message)
          /\ Taken(a)[a].wire = Tail(link[a].wire) /\ (a # b => Taken(a)[b] = link[b])
      BY <3>0, TakeMoves
    <3>2. /\ dev'.socket = dev.socket
          /\ dev'.playing[b] = IF a = b THEN Append(dev.playing[b], First(a).turn)
                               ELSE dev.playing[b]
      BY <1>0, <2>4 DEF Enqueue, Devices
    <3>3. dev.playing[b] # <<>> => dev'.playing[b] # <<>>
      <4>1. dev.playing[b] \in Seq(Turns)
        BY <1>0 DEF Devices
      <4>2. First(a).turn \in Turns
        BY <3>0, TakeMoves
      <4> QED
        BY <3>2, <4>1, <4>2, Pushed
    <3>4. Returns(w) => Returns(link'[b].wire)
      <4>1. CASE a # b
        BY <3>0, <3>1, <4>1
      <4>2. CASE a = b
        <5>1. w # <<>> /\ ~GivesBack(Head(w)) /\ link'[b].wire = Tail(w)
          BY <3>0, <3>1, <4>2 DEF GivesBack
        <5> HIDE DEF w
        <5>2. 0 \in Int
          OBVIOUS
        <5> QED
          BY <1>0, <5>1, <5>2, WireShrinks
      <4> QED
        BY <4>1, <4>2
    <3> QED
      BY <1>4, <3>0, <3>2, <3>3, <3>4
  <2>5. CASE ChunkEnds(a)
    <3>0. /\ link' = link /\ turn' = turn /\ mounted' = mounted /\ dev'.socket = dev.socket
          /\ dev'.playing[b] = IF a = b THEN Tail(dev.playing[b]) ELSE dev.playing[b]
          /\ dev.playing[a] # <<>> /\ (mounted => shown = status)
          /\ dev.playing[a] \in Seq(Turns)
      BY <1>0, <2>5 DEF ChunkEnds, serverVars, Devices
    <3>1. CASE ~mounted
      <4>1. status' = status
        BY <2>5, <3>1 DEF ChunkEnds, Sets
      <4> QED
        BY <1>2, <3>0, <3>1, <4>1 DEF WillBeTold
    <3>2. CASE mounted /\ status' # status
      <4>1. status' = "recording"
        BY <2>5, <3>2 DEF ChunkEnds, Sets
      <4> QED
        BY <1>3, <4>1
    <3>3. CASE mounted /\ status' = status /\ status = Speaking
      <4>1. Len(dev.playing[a]) # 1
        BY <2>5, <3>0, <3>3 DEF ChunkEnds, Sets
      <4>2. Tail(dev.playing[a]) # <<>>
        <5>1. Len(dev.playing[a]) \in Nat \ {0} /\ Len(Tail(dev.playing[a])) = Len(dev.playing[a]) - 1
              /\ Tail(dev.playing[a]) \in Seq(Turns)
          BY <3>0, Popped
        <5>2. Len(Tail(dev.playing[a])) # 0
          BY ONLY <4>1, <5>1
        <5> QED
          BY <5>1, <5>2, Plain
      <4> QED
        BY <1>4, <3>0, <3>3, <4>2
    <3>4. CASE status # Speaking /\ status' = status
      BY <1>3, <3>4
    <3> QED
      BY <3>1, <3>2, <3>3, <3>4
  <2> QED
    BY <1>9, <2>1, <2>2, <2>3, <2>4, <2>5 DEF Receiving
<1>10. ASSUME NEW a \in Attempts, Server(a) \/ ServerError(a) PROVE WillBeTold(b)'
  BY <1>10, ServersTell
<1> QED
  BY <1>6, <1>7, <1>8, <1>9, <1>10 DEF Next

\* The page is sound in every reachable state: the inductive invariant.
LEMMA PageHolds == Spec => [](Types /\ SocketsAreSound /\ WiresAreSound /\ PageIsSound)
<1>1. Init => SocketsAreSound /\ WiresAreSound /\ PageIsSound
  <2> SUFFICES ASSUME Init PROVE SocketsAreSound /\ WiresAreSound /\ PageIsSound
    OBVIOUS
  <2> USE DEF Init, DialogueInit
  <2>1. \A a \in Attempts : /\ link[a].sock = "none" /\ link[a].wire = <<>> /\ srv[a] = "none"
                            /\ at[a] = "none" /\ cut[a] = 0 /\ dev.playing[a] = <<>>
    OBVIOUS
  <2>2. /\ dev.socket = 0 /\ dev.voice = 0 /\ 0 \notin Attempts /\ turn.n = 0
        /\ turn.phase = "quiet" /\ status = "idle"
    BY DEF Attempts
  <2>3. SocketsAreSound
    BY <2>1, <2>2 DEF SocketsAreSound, SocketFits
  <2>4. CutIsOver(0, turn)
    BY <2>2 DEF CutIsOver
  <2>5. WiresAreSound
    BY <2>1, <2>2, <2>4, WireIsEmpty DEF WiresAreSound, WireFits
  <2>6. OneStart
    BY <2>1, <2>2 DEF OneStart, Busy, Waiting, StartFits
  <2>7. PageIsSound
    BY <2>2, <2>6 DEF PageIsSound, WillBeTold
  <2> QED
    BY <2>3, <2>5, <2>7
<1>2. Types /\ OneServer /\ SocketsAreSound /\ WiresAreSound /\ PageIsSound /\ [Next]_vars
        => (SocketsAreSound /\ WiresAreSound /\ PageIsSound)'
  <2> SUFFICES ASSUME Types, OneServer, SocketsAreSound, WiresAreSound, PageIsSound, [Next]_vars
               PROVE  SocketsAreSound' /\ WiresAreSound' /\ PageIsSound'
    OBVIOUS
  <2>1. SocketsAreSound' /\ WiresAreSound'
    BY SocketsStay, WiresStay
  <2>2. crossed => crossed'
    BY DEF Next, Start, Stop, Leave, Render, vars, pageVars, Starting, PermissionGranted,
           StartCaptureFails, VoiceResumes, OpenInterviewSocket, DialFails, Receiving, HandleEvent,
           HandleInterrupted, HandleClosed, Enqueue, ChunkEnds, OnClose, Server, ServerError
  <2>3. ASSUME ~crossed' PROVE OneStart' /\ \A a \in Attempts : WillBeTold(a)'
    <3>1. OneStart /\ \A a \in Attempts : WillBeTold(a)
      BY <2>2, <2>3 DEF PageIsSound
    <3>2. OneStart'
      BY <2>3, <3>1, OneStartStays
    <3>3. \A a \in Attempts : WillBeTold(a)'
      BY <3>1, ToldStays
    <3> QED
      BY <3>2, <3>3
  <2> QED
    BY <2>1, <2>3 DEF PageIsSound
<1> QED
  BY <1>1, <1>2, DialogueHolds, PTL DEF Spec

\* TurnIsTheTurns: a page at rest that still has its socket does not say the
\* interviewer speaks when their turn is over, and nothing of a turn it has
\* handled the barge-in of is still playing.
THEOREM TurnIsShown == Spec => []TurnIsTheTurns
<1>1. Types /\ SocketsAreSound /\ WiresAreSound /\ PageIsSound => TurnIsTheTurns
  <2> SUFFICES ASSUME Types, SocketsAreSound, WiresAreSound, PageIsSound PROVE TurnIsTheTurns
    OBVIOUS
  <2>1. VoiceIsCurrent
    BY DEF VoiceIsCurrent, WiresAreSound, WireFits
  <2>2. FloorIsShown
    BY WireIsEmpty DEF FloorIsShown, PageIsSound, WillBeTold, Settled
  <2> QED
    BY <2>1, <2>2 DEF TurnIsTheTurns
<1> QED
  BY <1>1, PageHolds, PTL
=============================================================================
