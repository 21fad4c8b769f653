------------------------------ MODULE Dialogue ------------------------------
(***************************************************************************)
(* What one interview connection says: the events Sonic sends over its     *)
(* stream, the buffer that turns them into questions with their answers,   *)
(* and the messages put on the WebSocket for the browser                   *)
(* (routes/interview.ts, lib/exchangeBuffer.ts).                           *)
(*                                                                         *)
(* A question is the number of the interviewer's turn that asks it, a      *)
(* fragment of an answer its place among the fragments said.  Writing an   *)
(* exchange down is module Interview's, the stream itself                  *)
(* SonicConversation's.  The browser is InterviewPage, which extends this  *)
(* module and shares the variable link with it.                            *)
(***************************************************************************)
EXTENDS Integers, Sequences, FiniteSets, SequencesExt

CONSTANTS
    MaxAttempts,    \* bound: how often the candidate starts
    MaxTurns,       \* bound: turns the interviewer takes
    MaxBlocks,      \* bound: text blocks of one turn
    MaxWords,       \* bound: fragments the candidate says
    MaxWire         \* bound: messages under way to the browser

ASSUME BoundsAssumption ==
    {MaxAttempts, MaxTurns, MaxBlocks, MaxWords, MaxWire} \subseteq Nat /\ MaxBlocks > 0

Attempts == 1..MaxAttempts
Words == 1..MaxWords
Turns == 0..MaxTurns
TooLate == MaxTurns + 1

VARIABLES
    link,       \* per attempt, its socket: who has closed it, what is under way
    srv,        \* per attempt, where the server's handleConnection is
    deaf,       \* attempts whose close came before the server listened for it
    turn,       \* the interviewer's turn
    buffer,     \* the ExchangeBuffer
    filed,      \* the exchanges taken from it, in order
    endRequested,
    said,       \* history: per fragment, the turn it answers
    began,      \* history: fragments said before the answer under way
    heard       \* history: fragments said before the latest block of text
serverVars == <<srv, deaf, turn, buffer, filed, endRequested, said, began, heard>>

NewBuffer == [question |-> <<>>, pending |-> <<>>, answer |-> <<>>,
              interrupted |-> FALSE, questionTurnClosed |-> FALSE]
HasAnswer(b) == b.answer # <<>>
IsComplete(b) == b.pending # <<>> /\ HasAnswer(b)

\* Text behind an answer is the next question; text behind a whole turn that
\* nobody answered replaces it.
AppendQuestion(b, t) ==
    IF HasAnswer(b)
    THEN [b EXCEPT !.pending = Append(@, t)]
    ELSE [b EXCEPT !.question = Append(IF b.questionTurnClosed THEN <<>> ELSE @, t),
                   !.questionTurnClosed = FALSE]
AppendAnswer(b, w) == [b EXCEPT !.answer = Append(@, w)]
NoteTurnEnded(b) == [b EXCEPT !.questionTurnClosed = TRUE]
TalkedOver(b) == [b EXCEPT !.interrupted = TRUE, !.pending = <<>>]
Exchange(b) == [question |-> b.question, answer |-> b.answer, interrupted |-> b.interrupted]
Take(b) == [NewBuffer EXCEPT !.question = b.pending]

Live(a) == srv[a] \in {"live", "closing"}
Reaches(a) == link[a].sock = "open"
\* sendEvent: nothing is sent on a socket that is no longer open.
Sent(a, msgs) ==
    IF Reaches(a) THEN [link EXCEPT ![a].wire = @ \o msgs] ELSE link
Send(a, is) ==
    /\ Reaches(a) => Len(link[a].wire) < MaxWire
    /\ link' = Sent(a, <<[is |-> is, turn |-> turn.n]>>)
Ended(a, msgs) ==
    IF Reaches(a) THEN [link EXCEPT ![a] = [sock |-> "shut", wire |-> @.wire \o msgs]]
    ELSE link
Say(is) == [is |-> is, turn |-> 0]
-----------------------------------------------------------------------------
(* Startup and shutdown.                                                   *)

\* The quota or the session refuses, or the stream does not open.  A refused
\* claim closes the socket with no closed event, everything else goes through
\* shutdown.
Refuse(a) ==
    /\ srv[a] = "starting"
    /\ srv' = [srv EXCEPT ![a] = "refused"]
    /\ \E msgs \in {<<Say("error")>>, <<Say("error"), Say("closed")>>} : link' = Ended(a, msgs)
    /\ UNCHANGED <<deaf, turn, buffer, filed, endRequested, said, began, heard>>

\* startInterview lets one connection of a session in.  The handlers of the socket are
\* attached last: a close that came before them is never heard of.
GoLive(a) ==
    /\ srv[a] = "starting"
    /\ \A b \in Attempts : srv[b] \in {"none", "starting", "refused"}
    /\ srv' = [srv EXCEPT ![a] = "live"]
    /\ Send(a, "ready")
    /\ deaf' \in (IF Reaches(a) THEN {deaf} ELSE {deaf, deaf \cup {a}})
    /\ UNCHANGED <<turn, buffer, filed, endRequested, said, began, heard>>

FlushExchange ==
    IF HasAnswer(buffer)
    THEN /\ filed' = Append(filed, Exchange(buffer))
         /\ buffer' = Take(buffer)
    ELSE UNCHANGED <<filed, buffer>>

Shutdown(a) ==
    /\ srv[a] = "live"
    /\ srv' = [srv EXCEPT ![a] = "closing"]
    /\ FlushExchange
    /\ UNCHANGED <<link, deaf, turn, endRequested, said, began, heard>>

\* The socket's close, or the stop word before it.
CandidateLeft(a) == link[a].sock \in {"left", "gone"} /\ a \notin deaf /\ Shutdown(a)
\* The hard stop, or the stream's own end after silence.
TimesOut(a) == Shutdown(a)
CompletionEnd(a) == endRequested /\ Shutdown(a)

SaysClosed(a) ==
    /\ srv[a] = "closing"
    /\ srv' = [srv EXCEPT ![a] = "over"]
    /\ link' = Ended(a, <<Say("closed")>>)
    /\ UNCHANGED <<deaf, turn, buffer, filed, endRequested, said, began, heard>>
-----------------------------------------------------------------------------
(* The stream's events.  They are handled during a shutdown as well.       *)

\* A block of the interviewer's text, the first of a turn or a further one.
NextBlock(a) ==
    /\ Live(a)
    /\ \/ /\ turn.phase = "quiet" /\ turn.n < MaxTurns
          /\ turn' = [n |-> turn.n + 1, blocks |-> 1, phase |-> "asking"]
       \/ /\ turn.phase = "speaking" /\ turn.blocks < MaxBlocks
          /\ turn' = [turn EXCEPT !.blocks = @ + 1, !.phase = "asking"]
    /\ heard' = Len(said)
    /\ UNCHANGED <<link, srv, deaf, endRequested, said, began>>
\* Wrong on purpose: the exchange is closed as the next question begins.
TextFlushes(a) ==
    /\ NextBlock(a)
    /\ filed' = IF HasAnswer(buffer) THEN Append(filed, Exchange(buffer)) ELSE filed
    /\ buffer' = AppendQuestion(IF HasAnswer(buffer) THEN Take(buffer) ELSE buffer, turn'.n)
InterviewerText(a) ==
    /\ NextBlock(a)
    /\ buffer' = AppendQuestion(buffer, turn'.n)
    /\ UNCHANGED filed

InterviewerStarted(a) ==
    /\ Live(a) /\ turn.phase = "asking"
    /\ turn' = [turn EXCEPT !.phase = "speaking"]
    /\ Send(a, "interviewerStarted")
    /\ UNCHANGED <<srv, deaf, buffer, filed, endRequested, said, began, heard>>

AudioOutput(a) ==
    /\ Live(a) /\ turn.phase = "speaking"
    /\ Reaches(a) /\ Send(a, "audio")
    /\ UNCHANGED serverVars

\* The interviewer has finished asking: what was said before is the answer to
\* the question before.
EndTurn(a) ==
    /\ Live(a) /\ turn.phase = "speaking"
    /\ turn' = [turn EXCEPT !.phase = "quiet"]
    /\ buffer' = NoteTurnEnded(IF IsComplete(buffer) THEN Take(buffer) ELSE buffer)
    /\ filed' = IF IsComplete(buffer) THEN Append(filed, Exchange(buffer)) ELSE filed
    /\ Send(a, "turnEnded")
    /\ began' = IF heard > began THEN Len(said) ELSE began
    /\ UNCHANGED <<srv, deaf, endRequested, said, heard>>

Interrupted(a) ==
    /\ Live(a) /\ turn.phase = "speaking"
    /\ turn' = [turn EXCEPT !.phase = "quiet"]
    /\ buffer' = TalkedOver(buffer)
    /\ Send(a, "interrupted")
    /\ UNCHANGED <<srv, deaf, filed, endRequested, said, began, heard>>

\* A final fragment of the candidate's.  It goes on with what they were
\* saying, or answers the question they last heard begin.  What is said once
\* the shutdown has taken the buffer comes too late to be scored.
CandidateText(a) ==
    /\ Live(a) /\ Len(said) < MaxWords
    /\ buffer' = AppendAnswer(buffer, Len(said) + 1)
    /\ said' = Append(said, IF srv[a] = "closing" THEN TooLate
                            ELSE IF Len(said) > began THEN Last(said) ELSE turn.n)
    /\ Send(a, "candidateFinished")
    /\ UNCHANGED <<srv, deaf, turn, filed, endRequested, began, heard>>

EndInterviewTool(a) ==
    /\ Live(a) /\ ~endRequested /\ endRequested' = TRUE
    /\ UNCHANGED <<link, srv, deaf, turn, buffer, filed, said, began, heard>>

\* The browser is told, and nothing is closed.
StreamError(a) ==
    /\ Live(a)
    /\ Send(a, "error")
    /\ UNCHANGED serverVars

DialogueInit ==
    /\ link = [a \in Attempts |-> [sock |-> "none", wire |-> <<>>]]
    /\ srv = [a \in Attempts |-> "none"]
    /\ deaf = {}
    /\ turn = [n |-> 0, blocks |-> 0, phase |-> "quiet"]
    /\ buffer = NewBuffer /\ filed = <<>> /\ endRequested = FALSE
    /\ said = <<>> /\ began = 0 /\ heard = 0
-----------------------------------------------------------------------------
Kinds == {"ready", "candidateFinished", "interviewerStarted", "interrupted",
          "turnEnded", "closed", "error", "audio"}
Message == [is : Kinds, turn : Turns]
Socket == [sock : {"none", "open", "left", "shut", "gone"}, wire : Seq(Message)]
Buffered == [question : Seq(Turns), pending : Seq(Turns), answer : Seq(Words),
             interrupted : BOOLEAN, questionTurnClosed : BOOLEAN]
Exchanged == [question : Seq(Turns), answer : Seq(Words), interrupted : BOOLEAN]
DialogueTypeOK ==
    /\ link \in [Attempts -> Socket]
    /\ srv \in [Attempts -> {"none", "starting", "live", "closing", "over", "refused"}]
    /\ deaf \subseteq Attempts
    /\ turn \in [n : Turns, blocks : 0..MaxBlocks, phase : {"quiet", "asking", "speaking"}]
    /\ buffer \in Buffered /\ filed \in Seq(Exchanged)
    /\ endRequested \in BOOLEAN
    /\ said \in Seq(Turns \cup {TooLate}) /\ began \in 0..MaxWords /\ heard \in 0..MaxWords

Asked(question) == IF question = <<>> THEN 0 ELSE Last(question)
\* How far the first i exchanges reach, and that an answer goes on from there.
Upto(exchanges, i) == IF i = 0 THEN 0 ELSE Last(exchanges[i].answer)
GoesOn(answer, from) == \A j \in DOMAIN answer : answer[j] = from + j
EachOnceInOrder(exchanges, answer, n) ==
    /\ \A i \in DOMAIN exchanges :
         /\ exchanges[i].answer # <<>>
         /\ GoesOn(exchanges[i].answer, Upto(exchanges, i - 1))
    /\ GoesOn(answer, Upto(exchanges, Len(exchanges)))
    /\ n = Upto(exchanges, Len(exchanges)) + Len(answer)
WithItsQuestion(exchange, fragments) ==
    \A w \in ToSet(exchange.answer) :
      w \in DOMAIN fragments /\ fragments[w] \in {TooLate, Asked(exchange.question)}
\* The answers filed, with the one under way, are the fragments said, each
\* once and in order, and each with the question it answers: a continuation
\* with the question it continues, although the interviewer has begun the next
\* one, and never with a question its speaker had not heard begin.
AnswersFitTheirQuestions ==
    /\ EachOnceInOrder(filed, buffer.answer, Len(said))
    /\ \A i \in DOMAIN filed : WithItsQuestion(filed[i], said)
=============================================================================
