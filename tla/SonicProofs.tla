------------------------------ MODULE SonicProofs ------------------------------
(***************************************************************************)
(* Safety of SonicConversation, for any number of renewals, and of what    *)
(* SonicStream sends over its streams.                                     *)
(***************************************************************************)
EXTENDS SonicStream, SequenceTheorems, TLAPS

-----------------------------------------------------------------------------
(* The inductive invariant. *)

\* Streams are opened in order; only the last can be opening, and only while
\* start() or renew() waits for it.
OpenedInOrder ==
  /\ \A s \in Stream : s > opened => stream[s] = "none"
  /\ \A s \in Stream :
       stream[s] = "opening" => s = opened /\ (route = "starting" \/ renewal = "open")
  /\ current <= opened

\* Only the current stream is live; what drains is it or the one it replaced.
OthersAreOver ==
  /\ \A s \in Stream : stream[s] = "live" => s = current
  /\ \A s \in Stream : stream[s] = "draining" => s \in {current, previous}

\* Before the first stream there is nothing to renew or to end.
NothingBeforeStart ==
  route = "starting" => current = 0 /\ renewal = "none" /\ ~timer /\ opened = 1

\* The timer is armed for a stream, and not while renew() opens one; renew()
\* replaces the current stream with a later one, and waits for a drain only.
RenewalFromCurrent ==
  /\ timer => current \in Stream /\ renewal # "open"
  /\ renewal = "open" =>
       /\ current \in Stream /\ previous = current /\ current < opened
  /\ renewal = "drain" => previous # current

\* A close is the shutdown's.
ClosedByShutdown == closed => route \in {"closing", "closed"}

\* A stream that drains without having ended by itself was closed by the
\* shutdown, or by a renewal that still waits for it.
ClosedForAReason ==
  \A s \in Stream : stream[s] = "draining" /\ s \notin own =>
                      closed \/ (renewal = "drain" /\ s = previous)

\* Only streams before the current one are banked.
BankedAreEarlier == \A s \in retired : s < current

ConversationInv ==
  /\ TypeOK
  /\ OpenedInOrder /\ OthersAreOver /\ NothingBeforeStart
  /\ RenewalFromCurrent /\ ClosedByShutdown /\ ClosedForAReason
  /\ BankedAreEarlier
  /\ HandoverIsNotTheEnd /\ AudioHasAStream /\ UsageCountedOnce
-----------------------------------------------------------------------------
(* Types: a renewal replaces a stream, which the invariant knows. *)

LEMMA TypesKept ==
  ASSUME TypeOK, RenewalFromCurrent, [Next]_vars
  PROVE  TypeOK'
<1> USE BoundAssumption DEF TypeOK, Stream, conversation, history
<1>1. CASE StartSucceeds
  BY <1>1 DEF StartSucceeds
<1>2. CASE StartFails
  BY <1>2 DEF StartFails
<1>3. CASE RenewTimer
  <2>1. CASE ReturnAtOnce
    BY <1>3, <2>1 DEF RenewTimer, TimerFires, ReturnAtOnce
  <2>2. CASE BeginRenewal(stream)
    <3>1. opened' \in Stream
      BY <2>2 DEF BeginRenewal
    <3>2. stream' \in [Stream -> {"none", "opening", "live", "draining", "ended", "failed"}]
      BY <2>2 DEF BeginRenewal
    <3> QED
      BY <1>3, <2>2, <3>1, <3>2 DEF RenewTimer, TimerFires, BeginRenewal
  <2> QED
    BY <1>3, <2>1, <2>2 DEF RenewTimer
<1>4. CASE OpenResolves
  <2>1. previous \in Stream
    BY <1>4 DEF OpenResolves, SwapTo, RenewalFromCurrent
  <2> QED
    BY <1>4, <2>1 DEF OpenResolves, SwapTo, ReplacementUp, Drained
<1>5. CASE OpenRejects
  BY <1>5 DEF OpenRejects
<1>6. ASSUME NEW s \in Stream, EndsByItself(s)
      PROVE  TypeOK'
  BY <1>6 DEF EndsByItself
<1>7. ASSUME NEW s \in Stream, DrainEnds(s)
      PROVE  TypeOK'
  BY <1>7 DEF DrainEnds, OnClose
<1>8. CASE Shutdown
  BY <1>8 DEF Shutdown
<1>9. CASE Close
  BY <1>9 DEF Close, Drained
<1>10. CASE UNCHANGED vars
  BY <1>10 DEF vars
<1> QED
  BY <1>1, <1>2, <1>3, <1>4, <1>5, <1>6, <1>7, <1>8, <1>9, <1>10 DEF Next

-----------------------------------------------------------------------------
(* The invariant is inductive. *)

LEMMA InvInit == Init => ConversationInv
<1> SUFFICES ASSUME Init
             PROVE  ConversationInv
  OBVIOUS
<1> USE BoundAssumption DEF Init, Stream
<1>1. stream \in [Stream -> {"opening", "none"}]
  OBVIOUS
<1>2. TypeOK
  <2>1. closed \in BOOLEAN /\ timer \in BOOLEAN
    OBVIOUS
  <2> QED
    BY <1>1, <2>1 DEF TypeOK
<1>3. OpenedInOrder
  BY <1>1 DEF OpenedInOrder
<1>4. OthersAreOver
  BY <1>1 DEF OthersAreOver
<1>5. NothingBeforeStart
  BY <1>1 DEF NothingBeforeStart
<1>6. RenewalFromCurrent
  BY <1>1 DEF RenewalFromCurrent
<1>7. ClosedByShutdown
  BY <1>1 DEF ClosedByShutdown
<1>8. ClosedForAReason
  BY <1>1 DEF ClosedForAReason
<1>9. BankedAreEarlier
  BY <1>1 DEF BankedAreEarlier
<1>10. HandoverIsNotTheEnd
  BY <1>1 DEF HandoverIsNotTheEnd
<1>11. AudioHasAStream
  BY <1>1 DEF AudioHasAStream
<1>12. UsageCountedOnce
  BY <1>1 DEF UsageCountedOnce
<1> QED
  BY <1>2, <1>3, <1>4, <1>5, <1>6, <1>7, <1>8, <1>9, <1>10, <1>11, <1>12 DEF ConversationInv

\* The first stream comes up.
LEMMA StartSucceedsKeeps ==
  ASSUME TypeOK', ConversationInv, StartSucceeds
  PROVE  ConversationInv'
<1> USE BoundAssumption DEF ConversationInv, TypeOK, Stream, Live,
       conversation, history, StartSucceeds
<1>1. OpenedInOrder'
  BY DEF OpenedInOrder, NothingBeforeStart
<1>2. OthersAreOver'
  BY DEF OthersAreOver, NothingBeforeStart
<1>3. RenewalFromCurrent'
  BY DEF NothingBeforeStart, RenewalFromCurrent
<1>4. BankedAreEarlier'
  BY DEF NothingBeforeStart, BankedAreEarlier
<1>5. UsageCountedOnce'
  BY DEF NothingBeforeStart, BankedAreEarlier, UsageCountedOnce
<1>6. /\ NothingBeforeStart'
      /\ ClosedByShutdown'
      /\ ClosedForAReason'
      /\ HandoverIsNotTheEnd'
      /\ AudioHasAStream'
  BY DEF NothingBeforeStart, ClosedByShutdown, ClosedForAReason,
         HandoverIsNotTheEnd, AudioHasAStream
<1> QED
  BY <1>1, <1>2, <1>3, <1>4, <1>5, <1>6

\* The first stream does not come up.
LEMMA StartFailsKeeps ==
  ASSUME TypeOK', ConversationInv, StartFails
  PROVE  ConversationInv'
<1> USE BoundAssumption DEF ConversationInv, TypeOK, Stream, Live,
       conversation, history, StartFails
<1>1. OpenedInOrder'
  BY DEF OpenedInOrder, NothingBeforeStart
<1>2. /\ OthersAreOver'
      /\ NothingBeforeStart'
      /\ RenewalFromCurrent'
      /\ ClosedByShutdown'
      /\ ClosedForAReason'
      /\ BankedAreEarlier'
      /\ HandoverIsNotTheEnd'
      /\ AudioHasAStream'
      /\ UsageCountedOnce'
  BY DEF OthersAreOver, NothingBeforeStart, RenewalFromCurrent,
         ClosedByShutdown, ClosedForAReason, BankedAreEarlier,
         HandoverIsNotTheEnd, AudioHasAStream, UsageCountedOnce
<1> QED
  BY <1>1, <1>2

\* The timer goes off; nothing but the current stream may still be draining.
LEMMA RenewTimerKeeps ==
  ASSUME TypeOK', ConversationInv, RenewTimer
  PROVE  ConversationInv'
<1> USE BoundAssumption DEF ConversationInv, TypeOK, Stream, Live,
       conversation, history, RenewTimer, TimerFires, BeginRenewal,
       ReturnAtOnce
<1>1. OpenedInOrder'
  BY DEF OpenedInOrder, NothingBeforeStart
<1>2. RenewalFromCurrent'
  BY DEF OpenedInOrder, RenewalFromCurrent
<1>3. AudioHasAStream'
  BY DEF OpenedInOrder, AudioHasAStream
<1>4. /\ OthersAreOver'
      /\ NothingBeforeStart'
      /\ ClosedByShutdown'
      /\ ClosedForAReason'
      /\ BankedAreEarlier'
      /\ HandoverIsNotTheEnd'
      /\ UsageCountedOnce'
  BY DEF OthersAreOver, NothingBeforeStart, ClosedByShutdown,
         ClosedForAReason, BankedAreEarlier, HandoverIsNotTheEnd,
         UsageCountedOnce
<1> QED
  BY <1>1, <1>2, <1>3, <1>4

\* The handover: the stream replaced was the current one, and earlier.
LEMMA OpenResolvesKeeps ==
  ASSUME TypeOK', ConversationInv, OpenResolves
  PROVE  ConversationInv'
<1> USE BoundAssumption DEF ConversationInv, TypeOK, Stream, Live,
       conversation, history, OpenResolves, SwapTo, ReplacementUp, Drained
<1>1. OthersAreOver'
  BY DEF OthersAreOver, RenewalFromCurrent
<1>2. BankedAreEarlier'
  BY DEF RenewalFromCurrent, BankedAreEarlier
<1>3. UsageCountedOnce'
  BY DEF RenewalFromCurrent, BankedAreEarlier, UsageCountedOnce
<1>4. /\ OpenedInOrder'
      /\ NothingBeforeStart'
      /\ RenewalFromCurrent'
      /\ ClosedByShutdown'
      /\ ClosedForAReason'
      /\ HandoverIsNotTheEnd'
      /\ AudioHasAStream'
  BY DEF OpenedInOrder, NothingBeforeStart, RenewalFromCurrent,
         ClosedByShutdown, ClosedForAReason, HandoverIsNotTheEnd,
         AudioHasAStream
<1> QED
  BY <1>1, <1>2, <1>3, <1>4

\* A renewal fails.
LEMMA OpenRejectsKeeps ==
  ASSUME TypeOK', ConversationInv, OpenRejects
  PROVE  ConversationInv'
<1> USE BoundAssumption DEF ConversationInv, TypeOK, Stream, Live,
       conversation, history, OpenRejects
<1>1. AudioHasAStream'
  BY DEF RenewalFromCurrent, AudioHasAStream
<1>2. /\ OpenedInOrder'
      /\ OthersAreOver'
      /\ NothingBeforeStart'
      /\ RenewalFromCurrent'
      /\ ClosedByShutdown'
      /\ ClosedForAReason'
      /\ BankedAreEarlier'
      /\ HandoverIsNotTheEnd'
      /\ UsageCountedOnce'
  BY DEF OpenedInOrder, OthersAreOver, NothingBeforeStart, RenewalFromCurrent,
         ClosedByShutdown, ClosedForAReason, BankedAreEarlier,
         HandoverIsNotTheEnd, UsageCountedOnce
<1> QED
  BY <1>1, <1>2

\* A stream ends by itself; only the current one can.
LEMMA EndsByItselfKeeps ==
  ASSUME TypeOK', ConversationInv, NEW x \in Stream, EndsByItself(x)
  PROVE  ConversationInv'
<1> USE BoundAssumption DEF ConversationInv, TypeOK, Stream, Live,
       conversation, history, EndsByItself
<1> QED
  BY DEF OpenedInOrder, OthersAreOver, NothingBeforeStart, RenewalFromCurrent,
         ClosedByShutdown, ClosedForAReason, BankedAreEarlier,
         HandoverIsNotTheEnd, AudioHasAStream, UsageCountedOnce

\* A drain ends.  One that was not the stream's own ending is not reported.
LEMMA DrainEndsKeeps ==
  ASSUME TypeOK', ConversationInv, NEW x \in Stream, DrainEnds(x)
  PROVE  ConversationInv'
<1> USE BoundAssumption DEF ConversationInv, TypeOK, Stream, Live,
       conversation, history, DrainEnds, OnClose
<1>1. HandoverIsNotTheEnd'
  BY DEF ClosedForAReason, HandoverIsNotTheEnd
<1>2. AudioHasAStream'
  BY DEF ClosedByShutdown, AudioHasAStream
<1>3. /\ OpenedInOrder'
      /\ OthersAreOver'
      /\ NothingBeforeStart'
      /\ RenewalFromCurrent'
      /\ ClosedByShutdown'
      /\ ClosedForAReason'
      /\ BankedAreEarlier'
      /\ UsageCountedOnce'
  BY DEF OpenedInOrder, OthersAreOver, NothingBeforeStart, RenewalFromCurrent,
         ClosedByShutdown, ClosedForAReason, BankedAreEarlier,
         UsageCountedOnce
<1> QED
  BY <1>1, <1>2, <1>3

\* The shutdown begins.
LEMMA ShutdownKeeps ==
  ASSUME TypeOK', ConversationInv, Shutdown
  PROVE  ConversationInv'
<1> USE BoundAssumption DEF ConversationInv, TypeOK, Stream, Live,
       conversation, history, Shutdown
<1> QED
  BY DEF OpenedInOrder, OthersAreOver, NothingBeforeStart, RenewalFromCurrent,
         ClosedByShutdown, ClosedForAReason, BankedAreEarlier,
         HandoverIsNotTheEnd, AudioHasAStream, UsageCountedOnce

\* The shutdown closes the conversation.
LEMMA CloseKeeps ==
  ASSUME TypeOK', ConversationInv, Close
  PROVE  ConversationInv'
<1> USE BoundAssumption DEF ConversationInv, TypeOK, Stream, Live,
       conversation, history, Close, Drained
<1> QED
  BY DEF OpenedInOrder, OthersAreOver, NothingBeforeStart, RenewalFromCurrent,
         ClosedByShutdown, ClosedForAReason, BankedAreEarlier,
         HandoverIsNotTheEnd, AudioHasAStream, UsageCountedOnce

LEMMA InvStep == ConversationInv /\ [Next]_vars => ConversationInv'
<1> SUFFICES ASSUME ConversationInv, [Next]_vars
             PROVE  ConversationInv'
  OBVIOUS
<1>1. TypeOK'
  BY TypesKept DEF ConversationInv
<1>2. CASE UNCHANGED vars
  BY <1>2
     DEF vars, conversation, history, Live, ConversationInv, TypeOK,
         OpenedInOrder, OthersAreOver, NothingBeforeStart, RenewalFromCurrent, ClosedByShutdown,
         ClosedForAReason, BankedAreEarlier, HandoverIsNotTheEnd, AudioHasAStream, UsageCountedOnce
<1> QED
  BY <1>1, <1>2, StartSucceedsKeeps, StartFailsKeeps, RenewTimerKeeps,
     OpenResolvesKeeps, OpenRejectsKeeps, EndsByItselfKeeps, DrainEndsKeeps,
     ShutdownKeeps, CloseKeeps
     DEF Next

LEMMA InvAlways == SafetySpec => []ConversationInv
BY InvInit, InvStep, PTL DEF SafetySpec

-----------------------------------------------------------------------------
(* The properties. *)

\* The variables of SonicConversation are of the right types in every reachable
\* state: in particular no renewal opens more streams than the bound.
THEOREM TypeCorrect == SafetySpec => []TypeOK
<1>1. ConversationInv => TypeOK
  BY DEF ConversationInv
<1> QED
  BY <1>1, InvAlways, PTL

\* However long the interview, never three streams bill at once: what bills is
\* the current stream, and the one being opened or the one it replaced.
THEOREM TwoStreamsAtMost == SafetySpec => []AtMostTwoStreams
<1>1. ConversationInv => AtMostTwoStreams
  <2> SUFFICES ASSUME ConversationInv
               PROVE  AtMostTwoStreams
    OBVIOUS
  <2> USE DEF ConversationInv, OpenedInOrder, OthersAreOver
  <2>1. CASE renewal = "open"
    <3>1. Billed \subseteq {current, opened}
      BY <2>1 DEF Billed, RenewalFromCurrent
    <3> QED
      BY <3>1 DEF AtMostTwoStreams
  <2>2. CASE route = "starting"
    <3>1. Billed \subseteq {opened, previous}
      BY <2>2, BoundAssumption DEF Billed, NothingBeforeStart, Stream
    <3> QED
      BY <3>1 DEF AtMostTwoStreams
  <2>3. CASE renewal # "open" /\ route # "starting"
    <3>1. Billed \subseteq {current, previous}
      BY <2>3 DEF Billed
    <3> QED
      BY <3>1 DEF AtMostTwoStreams
  <2> QED
    BY <2>1, <2>2, <2>3
<1> QED
  BY <1>1, InvAlways, PTL

\* No handover is taken for the interview's end: a stream that shuts the
\* interview down ended by itself.
THEOREM HandoverIsRoutine == SafetySpec => []HandoverIsNotTheEnd
<1>1. ConversationInv => HandoverIsNotTheEnd
  BY DEF ConversationInv
<1> QED
  BY <1>1, InvAlways, PTL

\* Audio always has a stream to land on, but for a stream that ended by itself.
THEOREM AudioLands == SafetySpec => []AudioHasAStream
<1>1. ConversationInv => AudioHasAStream
  BY DEF ConversationInv
<1> QED
  BY <1>1, InvAlways, PTL

\* The usage of every stream that came up is counted, and counted once.
THEOREM UsageIsWhole == SafetySpec => []UsageCountedOnce
<1>1. ConversationInv => UsageCountedOnce
  BY DEF ConversationInv
<1> QED
  BY <1>1, InvAlways, PTL

\* No stream is opened behind a close.
THEOREM CloseIsFinal == SafetySpec => NothingReopens
<1>1. [Next]_vars => [closed => opened' = opened]_vars
  <2> SUFFICES ASSUME [Next]_vars, closed
               PROVE  opened' = opened
    BY DEF vars
  <2>1. CASE RenewTimer
    BY <2>1 DEF RenewTimer, ReturnAtOnce
  <2>2. CASE OpenResolves
    BY <2>2 DEF OpenResolves, SwapTo
  <2>3. ASSUME NEW s \in Stream, EndsByItself(s) \/ DrainEnds(s)
        PROVE  opened' = opened
    BY <2>3 DEF EndsByItself, DrainEnds
  <2> QED
    BY <2>1, <2>2, <2>3
       DEF Next, vars, StartSucceeds, StartFails, OpenRejects, Shutdown, Close
<1> QED
  BY <1>1, PTL DEF SafetySpec, NothingReopens

\* A renewal costs neither a third stream, nor the interview, nor its audio, and
\* the usage is counted once.
THEOREM HandoversHold == SafetySpec => []HandoverIsSeamless
BY TwoStreamsAtMost, HandoverIsRoutine, AudioLands, UsageIsWhole, PTL DEF HandoverIsSeamless
-----------------------------------------------------------------------------
(* Sequences of events.                                                    *)

\* seq, without its element i.
Without(seq, i, new) ==
  /\ Len(new) = Len(seq) - 1
  /\ \A j \in 1..(i - 1) : new[j] = seq[j]
  /\ \A j \in i..Len(new) : new[j] = seq[j + 1]

LEMMA Concatenated ==
  ASSUME NEW h \in Seq(Events), NEW q \in Seq(Events)
  PROVE  /\ h \o q \in Seq(Events) /\ Len(h \o q) = Len(h) + Len(q)
         /\ \A i \in 1..Len(h) : (h \o q)[i] = h[i]
         /\ \A i \in 1..Len(q) : (h \o q)[Len(h) + i] = q[i]
         /\ \A i \in (Len(h) + 1)..(Len(h) + Len(q)) : (h \o q)[i] = q[i - Len(h)]
OBVIOUS

\* What has been heard is still behind what waits.
LEMMA PulledIsHeard ==
  ASSUME NEW h \in Seq(Events), NEW q \in Seq(Events), q # <<>>
  PROVE  Append(h, Head(q)) \o Tail(q) = h \o q
<1>1. Head(q) \in Events /\ Tail(q) \in Seq(Events) /\ q = <<Head(q)>> \o Tail(q)
  OBVIOUS
<1>2. Append(h, Head(q)) = h \o <<Head(q)>> /\ <<Head(q)>> \in Seq(Events)
  BY <1>1
<1> QED
  BY <1>1, <1>2, ConcatAssociative

LEMMA PulledIsGone ==
  ASSUME NEW h \in Seq(Events), NEW q \in Seq(Events), q # <<>>
  PROVE  /\ Len(h) + 1 \in 1..Len(h \o q) /\ (h \o q)[Len(h) + 1] = Head(q)
         /\ Without(h \o q, Len(h) + 1, h \o Tail(q))
<1>1. /\ Tail(q) \in Seq(Events) /\ Len(Tail(q)) = Len(q) - 1 /\ Head(q) = q[1]
      /\ \A i \in 1..Len(Tail(q)) : Tail(q)[i] = q[i + 1]
  BY HeadTailProperties
<1>2. Len(h) \in Nat /\ Len(q) \in Nat \ {0}
  OBVIOUS
<1>3. \A j \in 1..Len(h) : (h \o Tail(q))[j] = (h \o q)[j]
  BY <1>1, Concatenated
<1>4. ASSUME NEW j \in (Len(h) + 1)..(Len(h) + Len(q) - 1)
      PROVE  (h \o Tail(q))[j] = (h \o q)[j + 1]
  <2>1. (h \o Tail(q))[j] = Tail(q)[j - Len(h)]
    BY <1>1, <1>2, <1>4, Concatenated
  <2>2. (h \o q)[j + 1] = q[j + 1 - Len(h)]
    BY <1>2, <1>4, Concatenated
  <2>3. Tail(q)[j - Len(h)] = q[j - Len(h) + 1]
    BY <1>1, <1>2
  <2> QED
    BY <1>2, <2>1, <2>2, <2>3
<1>5. (h \o q)[Len(h) + 1] = q[1] /\ Len(h \o q) = Len(h) + Len(q)
      /\ Len(h \o Tail(q)) = Len(h) + Len(q) - 1
  BY <1>1, <1>2, Concatenated
<1> QED
  BY ONLY <1>1, <1>2, <1>3, <1>4, <1>5 DEF Without

LEMMA PushedIsBehind ==
  ASSUME NEW h \in Seq(Events), NEW q \in Seq(Events), NEW e \in Seq(Events)
  PROVE  h \o (q \o e) = (h \o q) \o e
BY ConcatAssociative

-----------------------------------------------------------------------------
(* Accepted inputs.                                                        *)

Ends == <<Event("audioEnd", "none", 0), Event("promptEnd", "none", 0), Event("sessionEnd", "none", 0)>>

LEMMA EndsType == Ends \in Seq(Events) /\ Len(Ends) = 3
BY DEF Ends, Events, Event, Kind, Sayings

\* The audio block stays open for what may stand in it.
LEMMA SaysMore ==
  ASSUME NEW seq \in Seq(Events), NEW s, NEW e \in Events, InBlock(e, s),
         Accepted(seq, s, Len(seq))
  PROVE  Accepted(Append(seq, e), s, Len(Append(seq, e)))
<1> DEFINE new == Append(seq, e)
<1>1. PICK audio \in 2..Len(seq) :
    /\ seq[1].kind = "setup" /\ seq[audio].kind = "audioStart"
    /\ audio > 2 => Turn(audio) = "assistant" /\ seq[2].kind = "user" /\ seq[2].says # "none"
    /\ \A i \in 3..(audio - 1) : seq[i].kind = Turn(i)
    /\ \A i \in (audio + 1)..Len(seq) : InBlock(seq[i], s)
  BY DEF Accepted
<1>2. /\ Len(new) = Len(seq) + 1 /\ Len(seq) \in Nat
      /\ \A i \in 1..Len(seq) : new[i] = seq[i] /\ new[Len(seq) + 1] = e
  OBVIOUS
<1> HIDE DEF new
<1>3. \A i \in (audio + 1)..Len(new) : InBlock(new[i], s)
  <2> SUFFICES ASSUME NEW i \in (audio + 1)..Len(new) PROVE InBlock(new[i], s)
    OBVIOUS
  <2>1. CASE i = Len(seq) + 1
    BY <1>1, <1>2, <2>1
  <2>2. CASE i # Len(seq) + 1
    <3>1. i \in (audio + 1)..Len(seq) /\ i \in 1..Len(seq)
      BY <1>1, <1>2, <2>2
    <3> QED
      BY <1>1, <1>2, <3>1
  <2> QED
    BY <2>1, <2>2
<1>4. new[1] = seq[1] /\ new[2] = seq[2] /\ new[audio] = seq[audio]
      /\ \A i \in 3..(audio - 1) : new[i] = seq[i]
  BY <1>1, <1>2
<1>5. audio \in 2..Len(new)
  BY <1>1, <1>2
<1> QED
  <2>1. Accepted(new, s, Len(new))
    BY <1>1, <1>2, <1>3, <1>4, <1>5 DEF Accepted
  <2> QED
    BY <2>1 DEF new

\* The close ends an open block.
LEMMA SaysItsEnds ==
  ASSUME NEW seq \in Seq(Events), NEW s, Accepted(seq, s, Len(seq))
  PROVE  Accepted(seq \o Ends, s, Len(seq \o Ends) - 3)
<1> DEFINE new == seq \o Ends
<1>1. PICK audio \in 2..Len(seq) :
    /\ seq[1].kind = "setup" /\ seq[audio].kind = "audioStart"
    /\ audio > 2 => Turn(audio) = "assistant" /\ seq[2].kind = "user" /\ seq[2].says # "none"
    /\ \A i \in 3..(audio - 1) : seq[i].kind = Turn(i)
    /\ \A i \in (audio + 1)..Len(seq) : InBlock(seq[i], s)
  BY DEF Accepted
<1>2. /\ Len(new) - 3 = Len(seq) /\ Len(seq) \in Nat /\ Len(new) \in Nat
      /\ \A i \in 1..Len(seq) : new[i] = seq[i]
      /\ new[Len(seq) + 1] = Ends[1] /\ new[Len(seq) + 2] = Ends[2] /\ new[Len(seq) + 3] = Ends[3]
  <2>1. /\ new \in Seq(Events) /\ Len(new) = Len(seq) + 3
        /\ \A i \in 1..Len(seq) : new[i] = seq[i]
        /\ \A i \in 1..3 : new[Len(seq) + i] = Ends[i]
    BY EndsType, Concatenated
  <2>2. Len(seq) \in Nat
    OBVIOUS
  <2> HIDE DEF new
  <2>3. 1 \in 1..3 /\ 2 \in 1..3 /\ 3 \in 1..3
    OBVIOUS
  <2> QED
    BY <2>1, <2>2, <2>3
<1>3. Ends[1].kind = "audioEnd" /\ Ends[2].kind = "promptEnd" /\ Ends[3].kind = "sessionEnd"
  BY DEF Ends, Event
<1> HIDE DEF new
<1>4. new[1] = seq[1] /\ new[2] = seq[2] /\ new[audio] = seq[audio]
      /\ (\A i \in 3..(audio - 1) : new[i] = seq[i])
      /\ \A i \in (audio + 1)..Len(seq) : new[i] = seq[i]
  BY <1>1, <1>2
<1> QED
  <2>1. Accepted(new, s, Len(seq))
    BY <1>1, <1>2, <1>3, <1>4 DEF Accepted
  <2> QED
    BY <1>2, <2>1 DEF new

\* A frame is in the block, and the block is as good without it.
LEMMA FrameIsPulled ==
  ASSUME NEW seq \in Seq(Events), NEW s, NEW last \in {Len(seq) - 3, Len(seq)},
         Accepted(seq, s, last), NEW k \in 1..Len(seq), seq[k] = Frame,
         NEW new \in Seq(Events), Without(seq, k, new)
  PROVE  Accepted(new, s, last - 1)
<1>1. PICK audio \in 2..last :
    /\ seq[1].kind = "setup" /\ seq[audio].kind = "audioStart"
    /\ audio > 2 => Turn(audio) = "assistant" /\ seq[2].kind = "user" /\ seq[2].says # "none"
    /\ \A i \in 3..(audio - 1) : seq[i].kind = Turn(i)
    /\ \A i \in (audio + 1)..last : InBlock(seq[i], s)
    /\ last < Len(seq) => /\ seq[last + 1].kind = "audioEnd"
                          /\ seq[last + 2].kind = "promptEnd"
                          /\ seq[last + 3].kind = "sessionEnd"
  BY DEF Accepted
<1>2. seq[k].kind = "audioInput" /\ Len(seq) \in Nat /\ last \in Int
  <2>1. seq[k].kind = "audioInput"
    BY DEF Frame, Event
  <2>2. Len(seq) \in Nat
    BY LenProperties
  <2>3. last \in Int
    BY <2>2
  <2> QED
    BY <2>1, <2>2, <2>3
<1>3. k > audio
  <2>1. k # 1 /\ k # audio
    BY <1>1, <1>2
  <2>2. audio > 2 => k # 2
    BY <1>1, <1>2
  <2>3. \A i \in 3..(audio - 1) : k # i
    BY <1>1, <1>2 DEF Turn
  <2> QED
    BY <1>1, <1>2, <2>1, <2>2, <2>3
<1>4. k <= last
  BY <1>1, <1>2
<1>5. /\ Len(new) = Len(seq) - 1
      /\ \A j \in 1..(k - 1) : new[j] = seq[j]
      /\ \A j \in k..Len(new) : new[j] = seq[j + 1]
  BY DEF Without
<1>6. audio \in 2..(last - 1)
  BY <1>1, <1>2, <1>3, <1>4
<1>7. new[1] = seq[1] /\ new[2] = seq[2] /\ new[audio] = seq[audio]
      /\ \A i \in 3..(audio - 1) : new[i] = seq[i]
  BY <1>1, <1>2, <1>3, <1>5
<1>8. ASSUME NEW i \in (audio + 1)..(last - 1) PROVE InBlock(new[i], s)
  <2>1. CASE i < k
    BY <1>1, <1>2, <1>5, <1>8, <2>1
  <2>2. CASE i >= k
    <3>1. i \in k..Len(new) /\ i + 1 \in (audio + 1)..last
      BY <1>1, <1>2, <1>3, <1>5, <1>8, <2>2
    <3> QED
      BY <1>1, <1>5, <3>1
  <2> QED
    BY <1>1, <1>2, <1>8, <2>1, <2>2
<1>9. last < Len(seq) =>
        /\ new[last - 1 + 1] = seq[last + 1] /\ new[last - 1 + 2] = seq[last + 2]
        /\ new[last - 1 + 3] = seq[last + 3]
  <2> SUFFICES ASSUME last < Len(seq)
               PROVE  /\ new[last - 1 + 1] = seq[last + 1] /\ new[last - 1 + 2] = seq[last + 2]
                      /\ new[last - 1 + 3] = seq[last + 3]
    OBVIOUS
  <2>1. last = Len(seq) - 3 /\ k \in Nat
    BY <1>2
  <2>2. /\ last \in k..Len(new) /\ last + 1 \in k..Len(new) /\ last + 2 \in k..Len(new)
        /\ last - 1 + 1 = last /\ last - 1 + 2 = last + 1 /\ last - 1 + 3 = last + 2
        /\ (last + 1) + 1 = last + 2 /\ (last + 2) + 1 = last + 3
    BY ONLY <1>2, <1>4, <1>5, <2>1
  <2>3. /\ new[last] = seq[last + 1] /\ new[last + 1] = seq[(last + 1) + 1]
        /\ new[last + 2] = seq[(last + 2) + 1]
    BY ONLY <1>5, <2>2
  <2> QED
    BY ONLY <2>2, <2>3
<1>10. last - 1 < Len(new) => last < Len(seq)
  BY <1>2, <1>5
<1> QED
  BY ONLY <1>1, <1>6, <1>7, <1>8, <1>9, <1>10 DEF Accepted

-----------------------------------------------------------------------------
(* What a stream is opened with.                                           *)

LEMMA Turns ==
  ASSUME NEW n \in Nat
  PROVE  /\ Turn(2 * n + 1) = "assistant" /\ Turn(2 * n + 3) = "assistant"
         /\ Turn(n + 2) = Turn(n) /\ Turn(n) \in {"assistant", "user"}
BY DEF Turn

LEMMA EventsAre ==
  /\ Event("setup", "none", 0) \in Events /\ Event("audioStart", "none", 0) \in Events
  /\ Frame \in Events
  /\ kickoffNote \in {"none", "kickoff"} => Event("user", kickoffNote, 0) \in Events
BY DEF Event, Events, Frame, Kind, Sayings

\* Without exchanges a stream is told nothing.
LEMMA OpensAlone ==
  ASSUME NEW from \in Nat, NEW to \in Nat, from > to,
         NEW s, NEW seq, seq = Opening(from, to)
  PROVE  /\ seq \in Seq(Events) /\ Accepted(seq, s, Len(seq))
         /\ \A i \in DOMAIN seq : seq[i].kind \in {"setup", "audioStart"}
<1> DEFINE first == Event("setup", "none", 0)
           block == Event("audioStart", "none", 0)
<1>1. seq = <<first>> \o <<>> \o <<block>>
  BY DEF Opening
<1>2. first \in Events /\ block \in Events
  BY EventsAre
<1>3. first.kind = "setup" /\ block.kind = "audioStart"
  BY DEF Event
<1> HIDE DEF first, block
<1>4. /\ seq \in Seq(Events) /\ Len(seq) = 2 /\ DOMAIN seq = 1..2
      /\ seq[1] = first /\ seq[2] = block
  <2>1. <<first>> \o <<>> = <<first>>
    BY <1>2, ConcatEmptySeq
  <2>2. seq = Append(<<first>>, block)
    BY <1>1, <1>2, <2>1, AppendIsConcat
  <2>3. <<first>> \in Seq(Events) /\ Len(<<first>>) = 1 /\ <<first>>[1] = first
    BY <1>2
  <2> QED
    BY <1>2, <2>2, <2>3, AppendProperties
<1>5. Accepted(seq, s, Len(seq))
  BY <1>3, <1>4 DEF Accepted
<1>6. \A i \in DOMAIN seq : seq[i].kind \in {"setup", "audioStart"}
  BY <1>3, <1>4
<1> QED
  BY <1>4, <1>5, <1>6

\* The history, question and answer in turn.
LEMMA HistoryIs ==
  ASSUME NEW from \in Nat \ {0}, NEW to \in Nat, from <= to,
         NEW h, h = [i \in 1..2 * (to - from + 1) |-> Event(Turn(i), "none", from + (i - 1) \div 2)]
  PROVE  h \in Seq(Events) /\ Len(h) = 2 * (to - from + 1)
<1> DEFINE m == 2 * (to - from + 1)
<1>1. m \in Nat /\ h = [i \in 1..m |-> Event(Turn(i), "none", from + (i - 1) \div 2)]
  OBVIOUS
<1> HIDE DEF m
<1>2. ASSUME NEW i \in 1..m PROVE Event(Turn(i), "none", from + (i - 1) \div 2) \in Events
  <2>1. from + (i - 1) \div 2 \in Nat
    BY <1>1
  <2>2. Turn(i) \in Kind /\ "none" \in Sayings
    BY DEF Turn, Kind, Sayings
  <2> QED
    BY <2>1, <2>2 DEF Event, Events
<1>3. h \in [1..m -> Events]
  BY <1>1, <1>2
<1>4. h \in Seq(Events) /\ Len(h) = m
  BY <1>1, <1>3
<1> QED
  BY <1>4 DEF m

\* seq opens with the note the interview began with and m turns of history.
Recalls(seq, from, m) ==
  /\ seq \in Seq(Events) /\ Len(seq) = m + 3
  /\ seq[1] = Event("setup", "none", 0) /\ seq[2] = Event("user", "kickoff", 0)
  /\ \A i \in 1..m : seq[i + 2] = Event(Turn(i), "none", from + (i - 1) \div 2)
  /\ seq[m + 3] = Event("audioStart", "none", 0)

\* With exchanges: the note the interview began with, and the history.
LEMMA OpensWithHistory ==
  ASSUME NEW from \in Nat \ {0}, NEW to \in Nat, from <= to, kickoffNote = "kickoff",
         NEW seq, seq = Opening(from, to)
  PROVE  \E m \in Nat : m = 2 * (to - from + 1) /\ Recalls(seq, from, m)
<1>0. PICK m \in Nat : m = 2 * (to - from + 1)
  OBVIOUS
<1> DEFINE h == [i \in 1..2 * (to - from + 1) |-> Event(Turn(i), "none", from + (i - 1) \div 2)]
           first == Event("setup", "none", 0)
           note == Event("user", kickoffNote, 0)
           block == Event("audioStart", "none", 0)
<1>1. seq = <<first>> \o (<<note>> \o h) \o <<block>>
  BY DEF Opening
<1>2. h \in Seq(Events) /\ Len(h) = m
  BY <1>0, HistoryIs
<1>3. \A i \in 1..m : h[i] = Event(Turn(i), "none", from + (i - 1) \div 2)
  BY <1>0
<1>4. first \in Events /\ note \in Events /\ block \in Events
  BY EventsAre
<1>5. m \in Nat
  BY <1>0
<1>6. note = Event("user", "kickoff", 0)
  OBVIOUS
<1> HIDE DEF h, first, note, block
<1>7. /\ seq \in Seq(Events) /\ Len(seq) = m + 3 /\ seq[1] = first /\ seq[2] = note
      /\ seq[m + 3] = block /\ \A i \in 1..m : seq[i + 2] = h[i]
  <2> DEFINE told == <<note>> \o h
             front == <<first>> \o told
  <2>1. told \in Seq(Events) /\ Len(told) = m + 1 /\ told[1] = note
        /\ \A i \in 1..m : told[i + 1] = h[i]
    BY <1>2, <1>4, <1>5
  <2> HIDE DEF told
  <2>2. front \in Seq(Events) /\ Len(front) = m + 2 /\ front[1] = first
        /\ \A i \in 1..m + 1 : front[i + 1] = told[i]
    BY <1>4, <1>5, <2>1
  <2>3. seq = front \o <<block>>
    BY <1>1 DEF told
  <2> HIDE DEF front
  <2>4. seq \in Seq(Events) /\ Len(seq) = m + 3 /\ seq[m + 3] = block
        /\ \A i \in 1..m + 2 : seq[i] = front[i]
    BY <1>4, <1>5, <2>2, <2>3
  <2>5. seq[1] = first /\ seq[2] = note
    BY <1>5, <2>1, <2>2, <2>4
  <2>6. ASSUME NEW i \in 1..m PROVE seq[i + 2] = h[i]
    <3>1. i + 2 \in 1..m + 2 /\ i + 1 \in 1..m + 1
      BY <1>5
    <3>2. seq[i + 2] = front[i + 2] /\ front[(i + 1) + 1] = told[i + 1] /\ told[i + 1] = h[i]
      BY <2>1, <2>2, <2>4, <3>1
    <3> QED
      BY <3>2, (i + 1) + 1 = i + 2
  <2> QED
    BY <2>4, <2>5, <2>6
<1> QED
  BY <1>0, <1>3, <1>6, <1>7 DEF first, block, Recalls

\* What seq tells: exchanges from..to, behind the kickoff, and no frames.
Covers(seq, from, to) ==
  /\ \A i \in DOMAIN seq :
       /\ seq[i].kind \in {"setup", "user", "assistant", "audioStart"}
       /\ seq[i].kind = "user" /\ seq[i].of = 0 => seq[i].says = "kickoff"
  /\ \A e \in from..to : \E i \in DOMAIN seq : seq[i].kind = "assistant" /\ seq[i].of = e

\* Of n exchanges, a new stream is told those from..to, behind the kickoff.
LEMMA HistoryFits ==
  ASSUME NEW from \in Nat \ {0}, NEW to \in Nat, from <= to, kickoffNote = "kickoff",
         NEW s, NEW seq, seq = Opening(from, to)
  PROVE  seq \in Seq(Events) /\ Accepted(seq, s, Len(seq)) /\ Covers(seq, from, to)
<1>1. PICK m \in Nat : m = 2 * (to - from + 1) /\ Recalls(seq, from, m)
  BY OpensWithHistory
<1>2. /\ seq \in Seq(Events) /\ Len(seq) = m + 3
      /\ seq[1] = Event("setup", "none", 0) /\ seq[2] = Event("user", "kickoff", 0)
      /\ \A i \in 1..m : seq[i + 2] = Event(Turn(i), "none", from + (i - 1) \div 2)
      /\ seq[m + 3] = Event("audioStart", "none", 0)
  BY <1>1 DEF Recalls
<1>3. m \in Nat /\ m >= 2 /\ Turn(m + 3) = "assistant"
  <2>1. PICK k \in Nat : k = to - from + 1
    OBVIOUS
  <2>2. Turn(2 * k + 3) = "assistant"
    BY Turns
  <2>3. m = 2 * k /\ k >= 1
    BY <1>1, <2>1
  <2> QED
    BY <2>2, <2>3
<1>4. DOMAIN seq = 1..m + 3
  BY <1>2, <1>3
<1>5. /\ seq[1].kind = "setup" /\ seq[m + 3].kind = "audioStart"
      /\ seq[2].kind = "user" /\ seq[2].says = "kickoff"
  BY <1>2 DEF Event
<1>6. ASSUME NEW i \in 3..m + 2
      PROVE  seq[i].kind = Turn(i) /\ seq[i].of = from + (i - 3) \div 2 /\ seq[i].of > 0
  <2>1. i - 2 \in 1..m /\ i = (i - 2) + 2
    BY <1>3
  <2>2. seq[i] = Event(Turn(i - 2), "none", from + (i - 2 - 1) \div 2)
    BY <1>2, <2>1
  <2>3. Turn(i - 2) = Turn(i)
    BY <1>3, <2>1, Turns
  <2>4. i - 2 - 1 = i - 3 /\ (i - 3) \div 2 \in Nat
    BY <1>3
  <2>5. seq[i].kind = Turn(i - 2) /\ seq[i].of = from + (i - 2 - 1) \div 2
    BY <2>2 DEF Event
  <2> QED
    BY <2>3, <2>4, <2>5
<1>7. Accepted(seq, s, Len(seq))
  <2>1. \A i \in 3..(m + 3 - 1) : seq[i].kind = Turn(i)
    BY <1>3, <1>6
  <2> QED
    BY <1>2, <1>3, <1>5, <2>1 DEF Accepted
<1>8. \A i \in DOMAIN seq : i \in 3..m + 2 \/ i \in {1, 2, m + 3}
  BY <1>3, <1>4
<1>9. ASSUME NEW i \in DOMAIN seq
      PROVE  /\ seq[i].kind \in {"setup", "user", "assistant", "audioStart"}
             /\ seq[i].kind = "user" /\ seq[i].of = 0 => seq[i].says = "kickoff"
  <2>1. CASE i \in 3..m + 2
    <3>1. Turn(i) \in {"assistant", "user"}
      BY DEF Turn
    <3> QED
      BY <1>6, <2>1, <3>1
  <2>2. CASE i \in {1, 2, m + 3}
    BY <1>5, <2>2
  <2> QED
    BY <1>8, <2>1, <2>2
<1>10. ASSUME NEW e \in from..to
       PROVE  \E i \in DOMAIN seq : seq[i].kind = "assistant" /\ seq[i].of = e
  <2>1. e - from \in Nat /\ 2 * (e - from) + 3 \in 3..m + 2
    BY <1>1
  <2>2. Turn(2 * (e - from) + 3) = "assistant"
    BY <2>1, Turns
  <2>3. (2 * (e - from) + 3 - 3) \div 2 = e - from
    BY <2>1
  <2>4. 2 * (e - from) + 3 \in DOMAIN seq
    BY <1>3, <1>4, <2>1
  <2>5. seq[2 * (e - from) + 3].kind = "assistant" /\ seq[2 * (e - from) + 3].of = e
    BY <1>6, <2>1, <2>2, <2>3
  <2> QED
    BY <2>4, <2>5
<1>11. Covers(seq, from, to)
  BY <1>9, <1>10 DEF Covers
<1> QED
  BY <1>2, <1>7, <1>11

\* What seq tells of n exchanges: the latest, behind the kickoff, and no frames.
Recounts(seq, n) ==
  /\ \A i \in DOMAIN seq :
       /\ seq[i].kind \in {"setup", "user", "assistant", "audioStart"}
       /\ seq[i].kind = "user" /\ seq[i].of = 0 => seq[i].says = "kickoff"
  /\ \A e \in 1..n : e > n - MaxReplayed =>
       \E i \in DOMAIN seq : seq[i].kind = "assistant" /\ seq[i].of = e

\* Of n exchanges, a new stream is told the latest, behind the kickoff.
LEMMA OpeningFits ==
  ASSUME NEW n \in Nat, n > 0 => kickoffNote = "kickoff",
         NEW s, NEW seq, seq = Opening(Replayed(n).from, Replayed(n).to)
  PROVE  seq \in Seq(Events) /\ Accepted(seq, s, Len(seq)) /\ Recounts(seq, n)
<1>1. PICK from, to : from = Replayed(n).from /\ to = Replayed(n).to
  OBVIOUS
<1>2. /\ from \in Nat \ {0} /\ to = n
      /\ \A e \in 1..n : e > n - MaxReplayed => e \in from..to
  BY <1>1, TrafficAssumption DEF Replayed
<1>3. seq = Opening(from, to)
  BY <1>1
<1>4. CASE from > to
  <2>1. seq \in Seq(Events) /\ Accepted(seq, s, Len(seq))
        /\ \A i \in DOMAIN seq : seq[i].kind \in {"setup", "audioStart"}
    BY <1>2, <1>3, <1>4, OpensAlone
  <2> QED
    BY <1>2, <1>4, <2>1 DEF Recounts
<1>5. CASE from <= to
  <2>1. kickoffNote = "kickoff"
    BY <1>2, <1>5
  <2>2. seq \in Seq(Events) /\ Accepted(seq, s, Len(seq)) /\ Covers(seq, from, to)
    BY <1>2, <1>3, <1>5, <2>1, HistoryFits
  <2>3. Recounts(seq, n)
    BY <1>2, <2>2 DEF Covers, Recounts
  <2> QED
    BY <2>2, <2>3
<1> QED
  BY <1>2, <1>4, <1>5

-----------------------------------------------------------------------------
(* The streams carry the conversation.                                     *)

\* Every step of SonicStream is one of SonicConversation, or none.
LEMMA StreamSteps == [StreamNext]_streamVars => [Next]_vars
BY DEF StreamNext, streamVars, Next, StartUp, StartUpFails, Renew, HandOver, RenewalFails,
       StreamEnds, DrainOver, ServicePulls, Stop, CloseConversation, SendAudio, TimePasses,
       Nudge, ExchangeEnds, CompletionEnds, ToolUse, Stream

\* What SonicConversation promises holds with traffic on the streams.
THEOREM StreamsConverse == StreamSpec => SafetySpec
<1>1. StreamInit => Init
  BY DEF StreamInit
<1> QED
  BY <1>1, StreamSteps, PTL DEF StreamSpec, SafetySpec

-----------------------------------------------------------------------------
(* How a step changes what a stream has been sent.                         *)

LEMMA Pushing ==
  ASSUME NEW q \in [Stream -> Seq(Events)], NEW s \in Stream, NEW events \in Seq(Events)
  PROVE  /\ Push(q, s, events) \in [Stream -> Seq(Events)]
         /\ Push(q, s, events)[s] = q[s] \o events
         /\ \A t \in Stream \ {s} : Push(q, s, events)[t] = q[t]
BY DEF Push

\* What is pushed is behind what the stream was sent before.
LEMMA Pushed ==
  ASSUME StreamTypeOK, NEW t \in Stream, NEW events \in Seq(Events),
         queue' = Push(queue, t, events), heard' = heard
  PROVE  /\ queue' \in [Stream -> Seq(Events)]
         /\ queue'[t] = queue[t] \o events /\ Sent(t)' = Sent(t) \o events
         /\ \A s \in Stream \ {t} : queue'[s] = queue[s] /\ Sent(s)' = Sent(s)
<1>1. queue \in [Stream -> Seq(Events)] /\ heard \in [Stream -> Seq(Events)]
  BY DEF StreamTypeOK
<1>2. /\ Push(queue, t, events) \in [Stream -> Seq(Events)]
      /\ Push(queue, t, events)[t] = queue[t] \o events
      /\ \A s \in Stream \ {t} : Push(queue, t, events)[s] = queue[s]
  BY ONLY <1>1, Pushing
<1>3. /\ queue' \in [Stream -> Seq(Events)] /\ queue'[t] = queue[t] \o events
      /\ \A s \in Stream \ {t} : queue'[s] = queue[s]
  BY <1>2
<1>4. Sent(t)' = heard[t] \o (queue[t] \o events)
  BY <1>3 DEF Sent
<1>5. heard[t] \o (queue[t] \o events) = (heard[t] \o queue[t]) \o events
  BY ONLY <1>1, PushedIsBehind
<1> QED
  BY <1>3, <1>4, <1>5 DEF Sent

\* send(), through the stream in use.
LEMMA Sending ==
  ASSUME StreamTypeOK, NEW t, NEW e \in Events, queue' = Send(queue, t, e), heard' = heard
  PROVE  /\ queue' \in [Stream -> Seq(Events)]
         /\ \A s \in Stream :
              IF Live(s) /\ s = t
              THEN Sent(s)' = Sent(s) \o <<e>> /\ queue'[s] = queue[s] \o <<e>>
              ELSE queue'[s] = queue[s] /\ Sent(s)' = Sent(s)
<1>1. CASE Live(t)
  <2>1. t \in Stream /\ <<e>> \in Seq(Events) /\ queue' = Push(queue, t, <<e>>)
    BY <1>1 DEF Live, Send
  <2> QED
    BY <1>1, <2>1, Pushed
<1>2. CASE ~Live(t)
  BY <1>2 DEF Send, Sent, StreamTypeOK
<1> QED
  BY <1>1, <1>2

\* close(), of stream t if it is active.
LEMMA Closing ==
  ASSUME StreamTypeOK, NEW t, queue' = SessionClosed(queue, t), heard' = heard
  PROVE  /\ queue' \in [Stream -> Seq(Events)]
         /\ \A s \in Stream :
              IF Live(s) /\ s = t
              THEN Sent(s)' = Sent(s) \o Ends /\ queue'[s] = queue[s] \o Ends
              ELSE queue'[s] = queue[s] /\ Sent(s)' = Sent(s)
<1>1. CASE Live(t)
  <2>1. t \in Stream /\ queue' = Push(queue, t, Ends)
    BY <1>1 DEF Live, SessionClosed, Ends
  <2> QED
    BY <1>1, <2>1, EndsType, Pushed
<1>2. CASE ~Live(t)
  BY <1>2 DEF SessionClosed, Sent, StreamTypeOK
<1> QED
  BY <1>1, <1>2

-----------------------------------------------------------------------------
(* The invariant of the streams' contents.                                 *)

\* What start() and renew() wait for is opening.
Waits ==
  /\ route = "starting" => stream[1] = "opening"
  /\ renewal = "open" => stream[opened] = "opening"

\* The history that is replayed begins with a note.
KickedOff == route = "running" \/ exchanges > 0 => kickoffNote = "kickoff"

\* A stream that was not opened has not been sent anything.
Bare(s) == stream[s] = "none" => heard[s] = <<>> /\ queue[s] = <<>>

StreamInv ==
  /\ ConversationInv /\ Waits /\ KickedOff
  /\ StreamsAreWellFormed /\ \A s \in Stream : Bare(s)

LEMMA WaitsKept ==
  ASSUME ConversationInv, Waits, [Next]_vars
  PROVE  Waits'
<1> USE BoundAssumption DEF Waits, ConversationInv, TypeOK, Stream, Live, NothingBeforeStart,
        OpenedInOrder, RenewalFromCurrent, conversation, history
<1>1. CASE StartSucceeds
  BY <1>1 DEF StartSucceeds
<1>2. CASE StartFails
  BY <1>2 DEF StartFails
<1>3. CASE RenewTimer
  BY <1>3 DEF RenewTimer, TimerFires, ReturnAtOnce, BeginRenewal
<1>4. CASE OpenResolves
  BY <1>4 DEF OpenResolves, SwapTo
<1>5. CASE OpenRejects
  BY <1>5 DEF OpenRejects
<1>6. ASSUME NEW s \in Stream, EndsByItself(s)
      PROVE  Waits'
  BY <1>6 DEF EndsByItself
<1>7. ASSUME NEW s \in Stream, DrainEnds(s)
      PROVE  Waits'
  BY <1>7 DEF DrainEnds, OnClose
<1>8. CASE Shutdown
  BY <1>8 DEF Shutdown
<1>9. CASE Close
  BY <1>9 DEF Close, Drained
<1>10. CASE UNCHANGED vars
  BY <1>10 DEF vars
<1> QED
  BY <1>1, <1>2, <1>3, <1>4, <1>5, <1>6, <1>7, <1>8, <1>9, <1>10 DEF Next

LEMMA KickedOffKept ==
  ASSUME ConversationInv, KickedOff, StreamTypeOK, [StreamNext]_streamVars
  PROVE  KickedOff'
<1> USE DEF KickedOff, StreamTypeOK, streams, talk, vars, conversation, history
<1>1. CASE StartUp
  BY <1>1 DEF StartUp
<1>2. CASE StartUpFails
  BY <1>2 DEF StartUpFails, StartFails
<1>3. CASE Renew
  BY <1>3 DEF Renew, RenewTimer, TimerFires
<1>4. CASE HandOver \/ RenewalFails
  BY <1>4 DEF HandOver, RenewalFails, OpenResolves, SwapTo, OpenRejects
<1>5. ASSUME NEW s \in Stream, StreamEnds(s) \/ DrainOver(s) \/ ServicePulls(s)
      PROVE  KickedOff'
  BY <1>5 DEF StreamEnds, EndsByItself, DrainOver, DrainEnds, OnClose, ServicePulls
<1>6. CASE Stop \/ CloseConversation
  BY <1>6 DEF Stop, Shutdown, CloseConversation, Close
<1>7. CASE SendAudio \/ TimePasses
  BY <1>7 DEF SendAudio, TimePasses
<1>8. ASSUME NEW n \in {"wrapUp", "finalCall", "timeUp"}, Nudge(n)
      PROVE  KickedOff'
  BY <1>8 DEF Nudge, KeptNote
<1>9. ASSUME NEW s \in Stream, ExchangeEnds(s) \/ CompletionEnds(s)
      PROVE  KickedOff'
  BY <1>9 DEF ExchangeEnds, CompletionEnds, Shutdown
<1>10. ASSUME NEW s \in Stream, NEW tool \in Tool, ToolUse(s, tool)
       PROVE  KickedOff'
  BY <1>10 DEF ToolUse
<1>11. CASE UNCHANGED streamVars
  BY <1>11 DEF streamVars
<1> QED
  BY <1>1, <1>2, <1>3, <1>4, <1>5, <1>6, <1>7, <1>8, <1>9, <1>10, <1>11 DEF StreamNext
-----------------------------------------------------------------------------
(* Types.                                                                  *)

TalkTypeOK ==
  /\ brief \in [Stream -> [phase : Phase \cup {"none"}, closing : BOOLEAN]]
  /\ kickoffNote \in {"none", "kickoff"}
  /\ exchanges = Len(heldOn) /\ heldOn \in Seq(Stream) /\ born \in [Stream -> 0..exchanges]
  /\ endRequested \in BOOLEAN /\ elapsed \in Instant \cup {0}
  /\ nudges \subseteq DOMAIN Schedule /\ crossing \subseteq DOMAIN Schedule
  /\ missed \subseteq 1..exchanges

LEMMA TypeParts ==
  StreamTypeOK <=> /\ queue \in [Stream -> Seq(Events)] /\ heard \in [Stream -> Seq(Events)]
                   /\ TalkTypeOK
BY DEF StreamTypeOK, TalkTypeOK

LEMMA Scheduled == DOMAIN Schedule = {"wrapUp", "finalCall", "timeUp", "hardStop"}
BY DEF Schedule, NudgeSchedule

LEMMA Briefed ==
  RenderClock(elapsed, Target) \in [phase : Phase \cup {"none"}, closing : BOOLEAN]
BY DEF RenderClock, InterviewPhase, Phase

LEMMA TalkTyped ==
  ASSUME TalkTypeOK, ConversationInv, KickedOff, [StreamNext]_streamVars
  PROVE  TalkTypeOK'
<1> USE DEF TalkTypeOK, streams, talk
<1>1. CASE StartUp
  BY <1>1 DEF StartUp, Schedule, Target
<1>2. CASE StartUpFails \/ RenewalFails \/ Stop
  BY <1>2 DEF StartUpFails, RenewalFails, Stop
<1>3. CASE Renew
  <2>1. opened' = opened \/ opened' = opened + 1
    BY <1>3 DEF Renew, RenewTimer, ReturnAtOnce, BeginRenewal
  <2>2. CASE opened' = opened
    BY <1>3, <2>2 DEF Renew
  <2>3. CASE opened' # opened
    <3>1. brief' = [brief EXCEPT ![opened'] = RenderClock(elapsed, Target)]
          /\ born' = [born EXCEPT ![opened'] = exchanges]
      BY <1>3, <2>3 DEF Renew
    <3>2. brief' \in [Stream -> [phase : Phase \cup {"none"}, closing : BOOLEAN]]
      BY <3>1, Briefed
    <3>3. exchanges \in Nat
      BY LenProperties
    <3>4. born' \in [Stream -> 0..exchanges]
      <4>1. born \in [Stream -> 0..exchanges] /\ exchanges \in 0..exchanges
        BY <3>3
      <4> QED
        BY ONLY <3>1, <4>1
    <3> QED
      BY <1>3, <3>2, <3>4 DEF Renew
  <2> QED
    BY <2>2, <2>3
<1>4. CASE HandOver \/ CloseConversation
  BY <1>4 DEF HandOver, CloseConversation
<1>5. ASSUME NEW s \in Stream, StreamEnds(s) \/ DrainOver(s) \/ ServicePulls(s)
      PROVE  TalkTypeOK'
  BY <1>5 DEF StreamEnds, DrainOver, ServicePulls
<1>6. CASE SendAudio
  BY <1>6 DEF SendAudio
<1>7. CASE TimePasses
  BY <1>7 DEF TimePasses
<1>8. ASSUME NEW n \in {"wrapUp", "finalCall", "timeUp"}, Nudge(n)
      PROVE  TalkTypeOK'
  <2>1. route = "running" /\ kickoffNote = "kickoff"
    BY <1>8 DEF Nudge, KickedOff
  <2>2. KeptNote(n) = "kickoff"
    BY <2>1 DEF KeptNote
  <2>3. n \in DOMAIN Schedule
    BY Scheduled
  <2>4. nudges' \subseteq DOMAIN Schedule /\ crossing' \subseteq DOMAIN Schedule
    BY <1>8, <2>3 DEF Nudge
  <2>5. brief' = brief /\ kickoffNote' = "kickoff"
    BY <1>8, <2>1, <2>2 DEF Nudge
  <2> QED
    BY <1>8, <2>4, <2>5 DEF Nudge
<1>9. ASSUME NEW s \in Stream, ExchangeEnds(s)
      PROVE  TalkTypeOK'
  <2>1. exchanges' = exchanges + 1 /\ heldOn' = Append(heldOn, s) /\ born' = born
    BY <1>9 DEF ExchangeEnds
  <2>2. heldOn' \in Seq(Stream) /\ Len(heldOn') = exchanges'
    BY <2>1
  <2>3. exchanges \in Nat
    BY LenProperties
  <2>4. born' \in [Stream -> 0..exchanges']
    BY <2>1, <2>3
  <2>5. missed' \subseteq 1..exchanges'
    <3>1. missed' \subseteq missed \cup {exchanges + 1} /\ missed \subseteq 1..exchanges
      BY <1>9, <2>1 DEF ExchangeEnds
    <3> QED
      BY ONLY <2>1, <2>3, <3>1
  <2> QED
    BY <1>9, <2>2, <2>4, <2>5 DEF ExchangeEnds
<1>10. ASSUME NEW s \in Stream, CompletionEnds(s)
       PROVE  TalkTypeOK'
  BY <1>10 DEF CompletionEnds
<1>11. ASSUME NEW s \in Stream, NEW tool \in Tool, ToolUse(s, tool)
       PROVE  TalkTypeOK'
  BY <1>11 DEF ToolUse
<1>12. CASE UNCHANGED streamVars
  BY <1>12 DEF streamVars
<1> QED
  BY <1>1, <1>2, <1>3, <1>4, <1>5, <1>6, <1>7, <1>8, <1>9, <1>10, <1>11, <1>12 DEF StreamNext
-----------------------------------------------------------------------------
(* How a step changes what a stream has been sent.                         *)

Quiet(s) ==
  /\ Sent(s)' = Sent(s) /\ (Ending(s)' <=> Ending(s))
  /\ stream'[s] = "none" <=> stream[s] = "none"
Drops(s) ==
  /\ stream[s] # "none" /\ stream'[s] # "none" /\ (Ending(s)' <=> Ending(s))
  /\ \E i \in 1..Len(Sent(s)) : Sent(s)[i] = Frame /\ Without(Sent(s), i, Sent(s)')
Says(s) ==
  /\ stream[s] # "none" /\ stream'[s] # "none" /\ ~Ending(s) /\ ~Ending(s)'
  /\ \E e \in Events : InBlock(e, s) /\ Sent(s)' = Append(Sent(s), e)
Closes(s) ==
  /\ stream[s] # "none" /\ stream'[s] # "none" /\ ~Ending(s) /\ Ending(s)'
  /\ Sent(s)' = Sent(s) \o Ends
Opens(s) ==
  /\ stream[s] = "none" /\ stream'[s] # "none" /\ ~Ending(s)'
  /\ Sent(s)' = Opening(Replayed(exchanges).from, Replayed(exchanges).to)

Moved ==
  /\ queue' \in [Stream -> Seq(Events)] /\ heard' \in [Stream -> Seq(Events)]
  /\ \A s \in Stream :
       /\ Quiet(s) \/ Drops(s) \/ Says(s) \/ Closes(s) \/ Opens(s)
       /\ Bare(s)' /\ FramesFit(s)'

\* The state of stream s, as far as what it is sent goes, is the same.
Steady(s) == (Ending(s)' <=> Ending(s)) /\ (stream'[s] = "none" <=> stream[s] = "none")

LEMMA Contents ==
  ASSUME StreamInv
  PROVE  /\ queue \in [Stream -> Seq(Events)] /\ heard \in [Stream -> Seq(Events)]
         /\ \A s \in Stream : FramesFit(s) /\ Bare(s) /\ Sent(s) \in Seq(Events)
         /\ StreamTypeOK /\ ConversationInv /\ Waits /\ KickedOff
<1>1. StreamTypeOK /\ \A s \in Stream : Bare(s) /\ (stream[s] # "none" => FramesFit(s))
  BY DEF StreamInv, StreamsAreWellFormed
<1>2. queue \in [Stream -> Seq(Events)] /\ heard \in [Stream -> Seq(Events)]
  BY <1>1, TypeParts
<1>3. ASSUME NEW s \in Stream PROVE FramesFit(s) /\ Sent(s) \in Seq(Events)
  <2>1. Sent(s) \in Seq(Events)
    BY <1>2, Concatenated DEF Sent
  <2>2. CASE stream[s] = "none"
    BY <1>1, <2>1, <2>2 DEF Bare, FramesFit
  <2> QED
    BY <1>1, <2>1, <2>2
<1> QED
  BY <1>1, <1>2, <1>3 DEF StreamInv

LEMMA FramesWait ==
  ASSUME NEW q \in Seq(Events), NEW events \in Seq(Events),
         \A i \in DOMAIN q : q[i] = Frame => i <= MaxQueued,
         \A i \in DOMAIN events : events[i] = Frame => Len(q) + i <= MaxQueued
  PROVE  \A i \in DOMAIN (q \o events) : (q \o events)[i] = Frame => i <= MaxQueued
<1>1. /\ Len(q) \in Nat /\ Len(events) \in Nat /\ DOMAIN q = 1..Len(q)
      /\ DOMAIN events = 1..Len(events) /\ DOMAIN (q \o events) = 1..(Len(q) + Len(events))
  OBVIOUS
<1> SUFFICES ASSUME NEW i \in 1..(Len(q) + Len(events)), (q \o events)[i] = Frame
             PROVE  i <= MaxQueued
  BY <1>1
<1>2. CASE i <= Len(q)
  BY <1>1, <1>2, Concatenated
<1>3. CASE i > Len(q)
  <2>1. i \in (Len(q) + 1)..(Len(q) + Len(events)) /\ i - Len(q) \in DOMAIN events
    BY <1>1, <1>3
  <2>2. events[i - Len(q)] = Frame
    BY <2>1, Concatenated
  <2>3. Len(q) + (i - Len(q)) <= MaxQueued
    BY <2>1, <2>2
  <2> QED
    BY <1>1, <2>3
<1> QED
  BY <1>1, <1>2, <1>3

LEMMA StandStill ==
  ASSUME StreamInv, queue' = queue, heard' = heard, \A s \in Stream : Steady(s)
  PROVE  Moved
<1> SUFFICES ASSUME NEW s \in Stream PROVE Quiet(s) /\ Bare(s)' /\ FramesFit(s)'
  BY Contents DEF Moved
<1>1. Quiet(s)
  BY DEF Quiet, Steady, Sent
<1> QED
  BY <1>1, Contents DEF Steady, Bare, FramesFit

\* A note, a result or a frame into the block of stream t.
LEMMA Spoken ==
  ASSUME StreamInv, NEW t \in Stream, NEW e \in Events, InBlock(e, t),
         stream[t] # "none", stream'[t] # "none", ~Ending(t), ~Ending(t)',
         e = Frame => Len(queue[t]) < MaxQueued,
         queue' = Push(queue, t, <<e>>), heard' = heard,
         \A s \in Stream \ {t} : Steady(s)
  PROVE  Moved
<1>0. <<e>> \in Seq(Events) /\ Len(<<e>>) = 1 /\ DOMAIN <<e>> = {1} /\ <<e>>[1] = e
  OBVIOUS
<1>1. /\ queue' \in [Stream -> Seq(Events)]
      /\ queue'[t] = queue[t] \o <<e>> /\ Sent(t)' = Sent(t) \o <<e>>
      /\ \A s \in Stream \ {t} : queue'[s] = queue[s] /\ Sent(s)' = Sent(s)
  BY <1>0, Contents, Pushed
<1>2. heard' \in [Stream -> Seq(Events)]
  BY Contents
<1>3. ASSUME NEW s \in Stream \ {t} PROVE Quiet(s) /\ Bare(s)' /\ FramesFit(s)'
  BY <1>1, Contents DEF Steady, Quiet, Bare, FramesFit
<1>4. Says(t) /\ Bare(t)'
  <2>1. Sent(t)' = Append(Sent(t), e)
    BY <1>1, Contents, AppendIsConcat
  <2> QED
    BY <2>1 DEF Says, Bare
<1>5. FramesFit(t)'
  <2>1. queue[t] \in Seq(Events) /\ Len(queue[t]) \in Nat /\ MaxQueued \in Nat
    BY Contents, TrafficAssumption
  <2>2. \A i \in DOMAIN queue[t] : queue[t][i] = Frame => i <= MaxQueued
    BY Contents DEF FramesFit
  <2>3. \A i \in DOMAIN <<e>> : <<e>>[i] = Frame => Len(queue[t]) + i <= MaxQueued
    BY <1>0, <2>1
  <2>4. \A i \in DOMAIN (queue[t] \o <<e>>) : (queue[t] \o <<e>>)[i] = Frame => i <= MaxQueued
    BY <1>0, <2>1, <2>2, <2>3, FramesWait
  <2> QED
    BY <1>1, <2>4 DEF FramesFit
<1> QED
  BY <1>1, <1>2, <1>3, <1>4, <1>5 DEF Moved

\* ... if it is active.
LEMMA SentThere ==
  ASSUME StreamInv, NEW t, NEW e \in Events, InBlock(e, t),
         e = Frame => Len(queue[t]) < MaxQueued,
         queue' = Send(queue, t, e), heard' = heard, stream' = stream
  PROVE  Moved
<1>1. \A s \in Stream : Steady(s)
  BY DEF Steady, Ending
<1>2. CASE Live(t)
  <2>1. /\ t \in Stream /\ stream[t] # "none" /\ stream'[t] # "none"
        /\ ~Ending(t) /\ ~Ending(t)' /\ queue' = Push(queue, t, <<e>>)
    BY <1>2 DEF Live, Ending, Send
  <2> QED
    BY <1>1, <2>1, Spoken
<1>3. CASE ~Live(t)
  BY <1>1, <1>3, StandStill DEF Send
<1> QED
  BY <1>2, <1>3

\* The ends, to stream t if it was active; it is then draining.
LEMMA Over ==
  ASSUME StreamInv, NEW t, queue' = SessionClosed(queue, t), heard' = heard,
         Live(t) => stream'[t] = "draining",
         \A s \in Stream : s # t \/ ~Live(t) => Steady(s)
  PROVE  Moved
<1>1. CASE ~Live(t)
  BY <1>1, StandStill DEF SessionClosed
<1>2. CASE Live(t)
  <2>1. t \in Stream /\ stream[t] # "none" /\ ~Ending(t)
    BY <1>2 DEF Live, Ending
  <2>2. stream'[t] # "none" /\ Ending(t)'
    BY <1>2 DEF Ending
  <2>3. /\ queue' \in [Stream -> Seq(Events)]
        /\ queue'[t] = queue[t] \o Ends /\ Sent(t)' = Sent(t) \o Ends
        /\ \A s \in Stream \ {t} : queue'[s] = queue[s] /\ Sent(s)' = Sent(s)
    BY <1>2, <2>1, Contents, Closing
  <2>4. heard' \in [Stream -> Seq(Events)]
    BY Contents
  <2>5. ASSUME NEW s \in Stream \ {t} PROVE Quiet(s) /\ Bare(s)' /\ FramesFit(s)'
    BY <2>3, Contents DEF Steady, Quiet, Bare, FramesFit
  <2>6. Closes(t) /\ Bare(t)'
    BY <2>1, <2>2, <2>3 DEF Closes, Bare
  <2>7. FramesFit(t)'
    <3>1. queue[t] \in Seq(Events) /\ Ends \in Seq(Events)
      BY <2>1, Contents, EndsType
    <3>2. \A i \in DOMAIN queue[t] : queue[t][i] = Frame => i <= MaxQueued
      BY <2>1, Contents DEF FramesFit
    <3>3. \A i \in DOMAIN Ends : Ends[i] # Frame
      BY DEF Ends, Frame, Event
    <3>4. \A i \in DOMAIN (queue[t] \o Ends) : (queue[t] \o Ends)[i] = Frame => i <= MaxQueued
      BY <3>1, <3>2, <3>3, FramesWait
    <3> QED
      BY <2>3, <3>4 DEF FramesFit
  <2> QED
    BY <2>3, <2>4, <2>5, <2>6, <2>7 DEF Moved
<1> QED
  BY <1>1, <1>2

\* The service pulls an event of stream t.
LEMMA Pulled ==
  ASSUME StreamInv, NEW t \in Stream, ServicePulls(t)
  PROVE  Moved
<1>1. /\ queue[t] \in Seq(Events) /\ queue[t] # <<>> /\ heard[t] \in Seq(Events)
      /\ stream[t] # "none" /\ stream' = stream
  BY Contents DEF ServicePulls, vars
<1>2. Head(queue[t]) \in Events /\ Tail(queue[t]) \in Seq(Events)
  BY <1>1
<1>3. queue' = [queue EXCEPT ![t] = Tail(queue[t])]
  BY DEF ServicePulls
<1>4. queue' \in [Stream -> Seq(Events)] /\ queue'[t] = Tail(queue[t])
      /\ \A s \in Stream \ {t} : queue'[s] = queue[s]
  BY <1>2, <1>3, Contents
<1>5. FramesFit(t)'
  <2>1. \A i \in DOMAIN queue[t] : queue[t][i] = Frame => i <= MaxQueued
    BY Contents DEF FramesFit
  <2>2. /\ Len(Tail(queue[t])) = Len(queue[t]) - 1 /\ Len(queue[t]) \in Nat
        /\ DOMAIN Tail(queue[t]) = 1..(Len(queue[t]) - 1) /\ DOMAIN queue[t] = 1..Len(queue[t])
        /\ \A i \in 1..(Len(queue[t]) - 1) : Tail(queue[t])[i] = queue[t][i + 1]
    BY <1>1, HeadTailProperties
  <2>3. \A i \in DOMAIN Tail(queue[t]) : Tail(queue[t])[i] = Frame => i <= MaxQueued
    <3> SUFFICES ASSUME NEW i \in 1..(Len(queue[t]) - 1), Tail(queue[t])[i] = Frame
                 PROVE  i <= MaxQueued
      BY <2>2
    <3>1. i + 1 \in DOMAIN queue[t] /\ queue[t][i + 1] = Frame
      BY <2>2
    <3>2. i + 1 <= MaxQueued
      BY <2>1, <3>1
    <3> QED
      BY <2>2, <3>2, TrafficAssumption
  <2> QED
    BY <1>4, <2>3 DEF FramesFit
<1>6. CASE Head(queue[t]) = Frame
  <2>1. heard' = heard
    BY <1>6 DEF ServicePulls
  <2>2. Drops(t)
    <3>1. Sent(t) = heard[t] \o queue[t] /\ Sent(t)' = heard[t] \o Tail(queue[t])
      BY <1>4, <2>1 DEF Sent
    <3>2. /\ Len(heard[t]) + 1 \in 1..Len(Sent(t)) /\ Sent(t)[Len(heard[t]) + 1] = Frame
          /\ Without(Sent(t), Len(heard[t]) + 1, Sent(t)')
      BY <1>1, <1>6, <3>1, PulledIsGone
    <3> QED
      BY <1>1, <3>2 DEF Drops, Ending
  <2>3. ASSUME NEW s \in Stream \ {t} PROVE Quiet(s) /\ Bare(s)' /\ FramesFit(s)'
    BY <1>1, <1>4, <2>1, Contents DEF Quiet, Ending, Bare, FramesFit, Sent
  <2>4. Bare(t)' /\ heard' \in [Stream -> Seq(Events)]
    BY <1>1, <2>1, Contents DEF Bare
  <2> QED
    BY <1>4, <1>5, <2>2, <2>3, <2>4 DEF Moved
<1>7. CASE Head(queue[t]) # Frame
  <2>1. heard' = [heard EXCEPT ![t] = Append(heard[t], Head(queue[t]))]
    BY <1>7 DEF ServicePulls
  <2>2. /\ heard' \in [Stream -> Seq(Events)] /\ heard'[t] = Append(heard[t], Head(queue[t]))
        /\ \A s \in Stream \ {t} : heard'[s] = heard[s]
    BY <1>1, <1>2, <2>1, Contents
  <2>3. Quiet(t)
    <3>1. Sent(t)' = Append(heard[t], Head(queue[t])) \o Tail(queue[t])
      BY <1>4, <2>2 DEF Sent
    <3>2. Sent(t)' = Sent(t)
      BY <1>1, <3>1, PulledIsHeard DEF Sent
    <3> QED
      BY <1>1, <3>2 DEF Quiet, Ending
  <2>4. ASSUME NEW s \in Stream \ {t} PROVE Quiet(s) /\ Bare(s)' /\ FramesFit(s)'
    BY <1>1, <1>4, <2>2, Contents DEF Quiet, Ending, Bare, FramesFit, Sent
  <2>5. Bare(t)'
    BY <1>1 DEF Bare
  <2> QED
    BY <1>4, <1>5, <2>2, <2>3, <2>4, <2>5 DEF Moved
<1> QED
  BY <1>6, <1>7

\* Stream t is opened with what there is to replay.
LEMMA Opened ==
  ASSUME StreamInv, NEW t \in Stream, stream[t] = "none", stream'[t] = "opening",
         queue' = [queue EXCEPT ![t] = Opening(Replayed(exchanges).from, Replayed(exchanges).to)],
         heard' = heard, \A s \in Stream \ {t} : Steady(s)
  PROVE  Moved
<1> DEFINE seq == Opening(Replayed(exchanges).from, Replayed(exchanges).to)
<1>1. exchanges \in Nat /\ (exchanges > 0 => kickoffNote = "kickoff")
  BY Contents, LenProperties DEF StreamTypeOK, KickedOff
<1>2. /\ seq \in Seq(Events)
      /\ \A i \in DOMAIN seq : seq[i].kind \in {"setup", "user", "assistant", "audioStart"}
  BY <1>1, OpeningFits DEF Recounts
<1> HIDE DEF seq
<1>3. queue' = [queue EXCEPT ![t] = seq]
  BY DEF seq
<1>4. /\ queue' \in [Stream -> Seq(Events)] /\ queue'[t] = seq
      /\ \A s \in Stream \ {t} : queue'[s] = queue[s]
  BY <1>2, <1>3, Contents
<1>5. heard[t] = <<>> /\ heard' \in [Stream -> Seq(Events)]
  BY Contents DEF Bare
<1>6. Sent(t)' = seq
  BY <1>2, <1>4, <1>5, ConcatEmptySeq DEF Sent
<1>7. Opens(t) /\ Bare(t)'
  BY <1>6 DEF Opens, Bare, Ending, seq
<1>8. FramesFit(t)'
  BY <1>2, <1>4 DEF FramesFit, Frame, Event
<1>9. ASSUME NEW s \in Stream \ {t} PROVE Quiet(s) /\ Bare(s)' /\ FramesFit(s)'
  BY <1>4, Contents DEF Steady, Quiet, Bare, FramesFit, Sent
<1> QED
  BY <1>4, <1>5, <1>7, <1>8, <1>9 DEF Moved

\* Every step does one of these to each stream.
LEMMA EveryStepMoves ==
  ASSUME StreamInv, [StreamNext]_streamVars
  PROVE  Moved
<1>0. PICK t : t = current
  OBVIOUS
<1>1. CASE StartUp
  <2>1. /\ stream' = [stream EXCEPT ![1] = "live"] /\ stream[1] = "opening" /\ 1 \in Stream
        /\ heard' = heard /\ queue' = Push(queue, 1, <<Event("note", "kickoff", 0)>>)
    BY <1>1, Contents, BoundAssumption DEF StartUp, StartSucceeds, Waits, Stream
  <2>2. /\ Event("note", "kickoff", 0) \in Events /\ InBlock(Event("note", "kickoff", 0), 1)
        /\ Event("note", "kickoff", 0) # Frame
    BY DEF Event, Events, Kind, Sayings, InBlock, Frame
  <2>3. stream \in [Stream -> {"none", "opening", "live", "draining", "ended", "failed"}]
    BY Contents DEF ConversationInv, TypeOK
  <2>4. /\ stream[1] # "none" /\ stream'[1] # "none" /\ ~Ending(1) /\ ~Ending(1)'
        /\ \A s \in Stream \ {1} : Steady(s)
    BY <2>1, <2>3 DEF Ending, Steady
  <2> QED
    BY <2>1, <2>2, <2>4, Spoken
<1>2. CASE StartUpFails
  <2>1. /\ stream' = [stream EXCEPT ![1] = "failed"] /\ stream[1] = "opening" /\ 1 \in Stream
        /\ heard' = heard /\ queue' = queue
    BY <1>2, Contents, BoundAssumption
       DEF StartUpFails, StartFails, Waits, Stream, streams
  <2>2. stream \in [Stream -> {"none", "opening", "live", "draining", "ended", "failed"}]
    BY Contents DEF ConversationInv, TypeOK
  <2>3. \A s \in Stream : Steady(s)
    BY <2>1, <2>2 DEF Ending, Steady
  <2> QED
    BY <2>1, <2>3, StandStill
<1>3. CASE Renew
  <2>1. RenewTimer /\ heard' = heard
    BY <1>3 DEF Renew
  <2>2. CASE opened' = opened
    <3>1. queue' = queue /\ stream' = stream
      BY <1>3, <2>1, <2>2, Contents
         DEF Renew, RenewTimer, ReturnAtOnce, BeginRenewal, ConversationInv, TypeOK, Stream
    <3>2. \A s \in Stream : Steady(s)
      BY <3>1 DEF Steady, Ending
    <3> QED
      BY <2>1, <3>1, <3>2, StandStill
  <2>3. CASE opened' # opened
    <3>1. BeginRenewal(stream)
      BY <2>1, <2>3 DEF RenewTimer, ReturnAtOnce
    <3>2. PICK x : x = opened'
      OBVIOUS
    <3>3. x \in Stream /\ x > opened /\ stream' = [stream EXCEPT ![x] = "opening"]
      <4>1. opened \in 1..MaxStreams
        BY Contents DEF ConversationInv, TypeOK, Stream
      <4>2. /\ opened < MaxStreams /\ x = opened + 1
            /\ stream' = [stream EXCEPT ![x] = "opening"]
        BY <3>1, <3>2 DEF BeginRenewal
      <4> QED
        BY <4>1, <4>2, BoundAssumption DEF Stream
    <3>4. stream[x] = "none"
      BY <3>3, Contents DEF ConversationInv, OpenedInOrder
    <3>5. stream \in [Stream -> {"none", "opening", "live", "draining", "ended", "failed"}]
      BY Contents DEF ConversationInv, TypeOK
    <3>6. stream'[x] = "opening" /\ \A s \in Stream \ {x} : Steady(s)
      BY <3>3, <3>5 DEF Steady, Ending
    <3>7. queue' = [queue EXCEPT ![x] = Opening(Replayed(exchanges).from, Replayed(exchanges).to)]
      BY <1>3, <2>3, <3>2 DEF Renew
    <3> QED
      BY <2>1, <3>3, <3>4, <3>6, <3>7, Opened
  <2> QED
    BY <2>2, <2>3
<1>4. CASE HandOver
  <2>1. PICK x : x = previous
    OBVIOUS
  <2>2. PICK y : y = opened
    OBVIOUS
  <2>3. /\ x \in Stream /\ y \in Stream /\ x # y /\ stream[y] = "opening"
        /\ stream' = Drained(x, [stream EXCEPT ![y] = "live"])
        /\ queue' = SessionClosed(queue, x) /\ heard' = heard
    BY <1>4, <2>1, <2>2, Contents
       DEF HandOver, OpenResolves, SwapTo, ReplacementUp, Waits, ConversationInv, TypeOK,
           RenewalFromCurrent, Stream
  <2>4. stream \in [Stream -> {"none", "opening", "live", "draining", "ended", "failed"}]
    BY Contents DEF ConversationInv, TypeOK
  <2>5. Live(x) => stream'[x] = "draining"
    BY <2>3, <2>4 DEF Live, Drained
  <2>6. \A s \in Stream : s # x \/ ~Live(x) => Steady(s)
    BY <2>3, <2>4 DEF Live, Drained, Steady, Ending
  <2> QED
    BY <2>3, <2>5, <2>6, Over
<1>5. CASE RenewalFails
  <2>1. /\ stream' = [stream EXCEPT ![opened] = "failed"] /\ stream[opened] = "opening"
        /\ opened \in Stream /\ heard' = heard /\ queue' = queue
    BY <1>5, Contents DEF RenewalFails, OpenRejects, Waits, streams, ConversationInv, TypeOK
  <2>2. stream \in [Stream -> {"none", "opening", "live", "draining", "ended", "failed"}]
    BY Contents DEF ConversationInv, TypeOK
  <2>3. \A s \in Stream : Steady(s)
    BY <2>1, <2>2 DEF Ending, Steady
  <2> QED
    BY <2>1, <2>3, StandStill
<1>6. ASSUME NEW s \in Stream, StreamEnds(s)
      PROVE  Moved
  <2>1. /\ stream[s] = "live" /\ stream' = [stream EXCEPT ![s] = "draining"]
        /\ queue' = SessionClosed(queue, s) /\ heard' = heard
    BY <1>6 DEF StreamEnds, EndsByItself
  <2>2. stream \in [Stream -> {"none", "opening", "live", "draining", "ended", "failed"}]
    BY Contents DEF ConversationInv, TypeOK
  <2>3. stream'[s] = "draining" /\ Live(s) /\ \A x \in Stream : x # s => Steady(x)
    BY <2>1, <2>2 DEF Steady, Ending, Live
  <2> QED
    BY <2>1, <2>3, Over
<1>7. ASSUME NEW s \in Stream, DrainOver(s)
      PROVE  Moved
  <2>1. /\ stream[s] = "draining" /\ stream' = [stream EXCEPT ![s] = "ended"]
        /\ queue' = queue /\ heard' = heard
    BY <1>7 DEF DrainOver, DrainEnds, streams
  <2>2. stream \in [Stream -> {"none", "opening", "live", "draining", "ended", "failed"}]
    BY Contents DEF ConversationInv, TypeOK
  <2>3. \A x \in Stream : Steady(x)
    BY <2>1, <2>2 DEF Steady, Ending
  <2> QED
    BY <2>1, <2>3, StandStill
<1>8. ASSUME NEW s \in Stream, ServicePulls(s)
      PROVE  Moved
  BY <1>8, Pulled
<1>9. CASE CloseConversation
  <2>1. /\ stream' = Drained(t, stream) /\ queue' = SessionClosed(queue, t) /\ heard' = heard
    BY <1>0, <1>9 DEF CloseConversation, Close
  <2>2. stream \in [Stream -> {"none", "opening", "live", "draining", "ended", "failed"}]
    BY Contents DEF ConversationInv, TypeOK
  <2>3. Live(t) => stream'[t] = "draining"
    BY <2>1, <2>2 DEF Live, Drained
  <2>4. \A s \in Stream : s # t \/ ~Live(t) => Steady(s)
    BY <2>1, <2>2 DEF Live, Drained, Steady, Ending
  <2> QED
    BY <2>1, <2>3, <2>4, Over
<1>10. CASE UNCHANGED <<stream, queue, heard>>
  <2>1. \A s \in Stream : Steady(s)
    BY <1>10 DEF Steady, Ending
  <2> QED
    BY <1>10, <2>1, StandStill
<1>11. CASE SendAudio
  <2>1. stream' = stream /\ heard' = heard
    BY <1>11 DEF SendAudio, vars
  <2>2. CASE queue' = queue
    BY <1>10, <2>1, <2>2
  <2>3. CASE Len(queue[t]) < MaxQueued /\ queue' = Send(queue, t, Frame)
    BY <2>1, <2>3, EventsAre, SentThere DEF InBlock
  <2>4. t \in Stream /\ Len(queue[t]) \in Nat
    BY <1>0, <1>11, Contents, LenProperties DEF SendAudio, Live
  <2> QED
    BY <1>0, <1>11, <2>2, <2>3, <2>4, TrafficAssumption DEF SendAudio
<1>12. ASSUME NEW n \in {"wrapUp", "finalCall", "timeUp"}, Nudge(n)
       PROVE  Moved
  <2>1. stream' = stream /\ heard' = heard
    BY <1>12 DEF Nudge, vars, streams
  <2>2. CASE queue' = queue
    BY <1>10, <2>1, <2>2
  <2>3. CASE queue' = Send(queue, t, Event("note", n, 0))
    <3>1. /\ Event("note", n, 0) \in Events /\ InBlock(Event("note", n, 0), t)
          /\ Event("note", n, 0) # Frame
      BY DEF Event, Events, Kind, Sayings, InBlock, Frame
    <3> QED
      BY <2>1, <2>3, <3>1, SentThere
  <2> QED
    BY <1>0, <1>12, <2>2, <2>3 DEF Nudge, streams
<1>13. ASSUME NEW s \in Stream, NEW tool \in Tool, ToolUse(s, tool)
       PROVE  Moved
  <2>1. stream' = stream /\ heard' = heard /\ s = t
    BY <1>0, <1>13, Contents DEF ToolUse, vars, Live, ConversationInv, OthersAreOver
  <2>2. PICK e : e = Event("result", Returned(tool), s)
    OBVIOUS
  <2>3. Returned(tool) \in Sayings
    BY DEF Returned, Now, InterviewPhase, Sayings, Phase
  <2>4. s \in Nat
    BY DEF Stream
  <2>5. e \in Events /\ InBlock(e, t) /\ e # Frame
    BY <2>1, <2>2, <2>3, <2>4 DEF Event, Events, Kind, InBlock, Frame
  <2>6. queue' = Send(queue, t, e)
    BY <1>0, <1>13, <2>2 DEF ToolUse
  <2> QED
    BY <2>1, <2>5, <2>6, SentThere
<1>14. CASE Stop
  BY <1>10, <1>14 DEF Stop, Shutdown, streams
<1>15. CASE TimePasses
  BY <1>10, <1>15 DEF TimePasses, streams, vars
<1>16. ASSUME NEW s \in Stream, ExchangeEnds(s) \/ CompletionEnds(s)
       PROVE  Moved
  BY <1>10, <1>16 DEF ExchangeEnds, CompletionEnds, Shutdown, streams, vars
<1>17. CASE UNCHANGED streamVars
  BY <1>10, <1>17 DEF streamVars, streams, vars
<1> QED
  BY <1>1, <1>2, <1>3, <1>4, <1>5, <1>6, <1>7, <1>8, <1>9, <1>11, <1>12, <1>13, <1>14, <1>15,
     <1>16, <1>17 DEF StreamNext

\* Whatever a step does, it leaves an input Bedrock accepts.
LEMMA WellFormedKept ==
  ASSUME StreamInv, Moved, NEW s \in Stream, stream'[s] # "none"
  PROVE  WellFormed(s)'
<1>1. Sent(s) \in Seq(Events) /\ Len(Sent(s)) \in Nat
  BY Contents, LenProperties
<1>2. Sent(s)' \in Seq(Events) /\ Len(Sent(s)') \in Nat
  <2>1. queue'[s] \in Seq(Events) /\ heard'[s] \in Seq(Events)
    BY DEF Moved
  <2>2. heard'[s] \o queue'[s] \in Seq(Events)
    BY <2>1, Concatenated
  <2> QED
    BY <2>2, LenProperties DEF Sent
<1>3. stream[s] # "none" => Accepted(Sent(s), s, IF Ending(s) THEN Len(Sent(s)) - 3 ELSE Len(Sent(s)))
  BY DEF StreamInv, StreamsAreWellFormed, WellFormed
<1> DEFINE new == Sent(s)'
           last == IF Ending(s)' THEN Len(new) - 3 ELSE Len(new)
<1> SUFFICES Accepted(new, s, last)
  BY DEF WellFormed
<1>4. CASE Quiet(s)
  BY <1>3, <1>4 DEF Quiet
<1>5. CASE Drops(s)
  <2>1. PICK i \in 1..Len(Sent(s)) : Sent(s)[i] = Frame /\ Without(Sent(s), i, new)
    BY <1>5 DEF Drops
  <2>2. Len(new) = Len(Sent(s)) - 1
    BY <2>1 DEF Without
  <2>3. PICK old : old = (IF Ending(s) THEN Len(Sent(s)) - 3 ELSE Len(Sent(s)))
    OBVIOUS
  <2>4. old \in {Len(Sent(s)) - 3, Len(Sent(s))} /\ Accepted(Sent(s), s, old)
    BY <1>3, <1>5, <2>3 DEF Drops
  <2>5. Accepted(new, s, old - 1)
    BY <1>1, <1>2, <2>1, <2>4, FrameIsPulled
  <2>6. old - 1 = last
    BY <1>1, <1>5, <2>2, <2>3 DEF Drops
  <2> QED
    BY <2>5, <2>6
<1>6. CASE Says(s)
  <2>1. PICK e \in Events : InBlock(e, s) /\ new = Append(Sent(s), e)
    BY <1>6 DEF Says
  <2>2. Accepted(Sent(s), s, Len(Sent(s))) /\ last = Len(new)
    BY <1>3, <1>6 DEF Says
  <2> QED
    BY <1>1, <2>1, <2>2, SaysMore
<1>7. CASE Closes(s)
  <2>1. Accepted(Sent(s), s, Len(Sent(s))) /\ last = Len(new) - 3 /\ new = Sent(s) \o Ends
    BY <1>3, <1>7 DEF Closes
  <2> QED
    BY <1>1, <2>1, SaysItsEnds
<1>8. CASE Opens(s)
  <2>1. new = Opening(Replayed(exchanges).from, Replayed(exchanges).to) /\ last = Len(new)
    BY <1>8 DEF Opens
  <2>2. exchanges \in Nat /\ (exchanges > 0 => kickoffNote = "kickoff")
    BY Contents, LenProperties DEF StreamTypeOK, KickedOff
  <2>3. PICK seq : seq = Opening(Replayed(exchanges).from, Replayed(exchanges).to)
    OBVIOUS
  <2>4. Accepted(seq, s, Len(seq))
    <3>1. PICK n : n = exchanges
      OBVIOUS
    <3>2. n \in Nat /\ (n > 0 => kickoffNote = "kickoff") /\ seq = Opening(Replayed(n).from, Replayed(n).to)
      BY <2>2, <2>3, <3>1
    <3> QED
      BY ONLY <3>2, OpeningFits
  <2> QED
    BY <2>1, <2>3, <2>4
<1> QED
  BY <1>4, <1>5, <1>6, <1>7, <1>8 DEF Moved

-----------------------------------------------------------------------------
(* Every stream is sent an input Bedrock accepts.                          *)

LEMMA StreamsInit == StreamInit => StreamInv
<1> SUFFICES ASSUME StreamInit PROVE StreamInv
  OBVIOUS
<1>1. Init /\ ConversationInv
  BY InvInit DEF StreamInit
<1>2. PICK seq : seq = Opening(1, 0)
  OBVIOUS
<1>3. /\ seq \in Seq(Events) /\ \A s : Accepted(seq, s, Len(seq))
      /\ \A i \in DOMAIN seq : seq[i].kind \in {"setup", "audioStart"}
  BY <1>2, OpensAlone
<1>4. <<>> \in Seq(Events) /\ <<>> \in Seq(Stream) /\ Len(<<>>) = 0
  OBVIOUS
<1>5. queue \in [Stream -> Seq(Events)] /\ heard \in [Stream -> Seq(Events)]
  <2>1. queue = [s \in Stream |-> IF s = 1 THEN seq ELSE <<>>] /\ heard = [s \in Stream |-> <<>>]
    BY <1>2 DEF StreamInit
  <2> QED
    BY ONLY <1>3, <1>4, <2>1
<1>6. TalkTypeOK
  <2>1. brief \in [Stream -> [phase : Phase \cup {"none"}, closing : BOOLEAN]]
    BY DEF StreamInit, NoBrief
  <2>2. /\ exchanges = 0 /\ heldOn = <<>> /\ born \in [Stream -> 0..0] /\ missed = {}
        /\ kickoffNote = "none" /\ endRequested = FALSE /\ elapsed = 0 /\ crossing = {}
        /\ nudges = {"wrapUp", "finalCall", "timeUp"}
    BY DEF StreamInit
  <2> QED
    BY <1>4, <2>1, <2>2, Scheduled DEF TalkTypeOK
<1>7. StreamTypeOK
  BY <1>5, <1>6, TypeParts
<1>8. /\ Waits /\ KickedOff /\ stream[1] = "opening"
      /\ \A s \in Stream \ {1} : stream[s] = "none"
  BY BoundAssumption DEF StreamInit, Init, Waits, KickedOff, Stream
<1>9. \A s \in Stream \ {1} : Bare(s)
  BY DEF StreamInit, Bare
<1>10. Bare(1) /\ ~Ending(1)
  BY <1>8 DEF Bare, Ending
<1>11. 1 \in Stream
  BY BoundAssumption DEF Stream
<1>12. queue[1] = seq /\ Sent(1) = seq
  <2>1. queue[1] = seq /\ heard[1] = <<>>
    BY <1>2, <1>11 DEF StreamInit
  <2> QED
    BY <1>3, <2>1, ConcatEmptySeq DEF Sent
<1>13. FramesFit(1)
  BY <1>3, <1>12 DEF FramesFit, Frame, Event
<1>14. WellFormed(1)
  BY <1>3, <1>10, <1>12 DEF WellFormed
<1> QED
  BY <1>1, <1>7, <1>8, <1>9, <1>10, <1>13, <1>14 DEF StreamInv, StreamsAreWellFormed

LEMMA StreamsStep == StreamInv /\ [StreamNext]_streamVars => StreamInv'
<1> SUFFICES ASSUME StreamInv, [StreamNext]_streamVars PROVE StreamInv'
  OBVIOUS
<1>1. ConversationInv' /\ Waits'
  BY Contents, StreamSteps, InvStep, WaitsKept
<1>2. KickedOff'
  BY Contents, KickedOffKept
<1>3. Moved
  BY EveryStepMoves
<1>4. TalkTypeOK'
  BY Contents, TypeParts, TalkTyped
<1>5. StreamTypeOK'
  BY <1>3, <1>4 DEF Moved, StreamTypeOK, TalkTypeOK
<1>6. \A s \in Stream : Bare(s)' /\ FramesFit(s)'
  BY <1>3 DEF Moved
<1>7. \A s \in Stream : stream'[s] # "none" => WellFormed(s)'
  BY <1>3, WellFormedKept
<1> QED
  BY <1>1, <1>2, <1>5, <1>6, <1>7 DEF StreamInv, StreamsAreWellFormed

\* The input of every stream is one Bedrock accepts: a setup, a history that
\* begins with a USER turn and goes on with question and answer, one audio block
\* that notes, results and frames stay inside of, and its three ends in order
\* (sonic.ts:200-345, 406-474, 626-652), however renewals, the stream's own end,
\* the shutdown and the traffic interleave; and the frames that wait are bounded.
THEOREM StreamsWellFormed == StreamSpec => []StreamsAreWellFormed
<1>1. StreamInv => StreamsAreWellFormed
  BY DEF StreamInv
<1> QED
  BY <1>1, StreamsInit, StreamsStep, PTL DEF StreamSpec

-----------------------------------------------------------------------------
(* The clock.                                                              *)

\* The settings of constants.ts:69-88 (WRAP_UP_BEFORE_MS, WRAP_UP_AT_REMAINING_MIN,
\* FINAL_CALL_BEFORE_MS), without interviewTestMode: whole minutes, and the
\* wrap-up no later than the final call.
InProduction ==
  /\ ~TestMode /\ WrapUpBefore = 60 * WrapUpAtRemainingMin
  /\ FinalCallBefore <= WrapUpBefore /\ \E m \in Nat : FinalCallBefore = 60 * m

LEMMA WholeMinutes ==
  ASSUME NEW t \in Nat
  PROVE  /\ t \div 60 \in Nat /\ (t \div 60) * 60 <= t
         /\ \A k \in Int : t >= 60 * k => (t \div 60) * 60 >= 60 * k
OBVIOUS

LEMMA MinutesLeft ==
  ASSUME NEW t \in Nat, NEW p \in Nat, NEW w \in Nat
  PROVE  Larger(0, Ceil(p * 60 - t, 60)) <= w <=> t >= 60 * (p - w)
BY DEF Larger, Ceil

\* In whole minutes, nudges, phase and closing window agree at every moment.
LEMMA PhasesMeet ==
  ASSUME InProduction, NEW t \in Nat
  PROVE  PhasesAgree(t, Target)
<1>1. PICK p \in Nat : p = Target
  BY TrafficAssumption DEF InProduction, Target, EffectiveTargetMinutes
<1>2. PICK w \in Nat : w = WrapUpAtRemainingMin
  BY ClockAssumption
<1>3. PICK f \in Nat : FinalCallBefore = 60 * f
  BY DEF InProduction
<1>4. WrapUpBefore = 60 * w /\ f <= w /\ ~TestMode
  BY <1>2, <1>3 DEF InProduction
<1> DEFINE q == t \div 60
<1>5. /\ q \in Nat /\ q * 60 <= t
      /\ t >= 60 * (p - w) => q * 60 >= 60 * (p - w)
      /\ t >= 60 * (p - f) => q * 60 >= 60 * (p - f)
  BY WholeMinutes
<1> HIDE DEF q
<1>6. /\ NudgeSchedule(p).wrapUp = Larger(0, p * 60 - 60 * w)
      /\ NudgeSchedule(p).finalCall = Larger(0, p * 60 - 60 * f)
  BY <1>3, <1>4 DEF NudgeSchedule
<1>7. \A x \in Nat : /\ x >= NudgeSchedule(p).wrapUp <=> x >= 60 * (p - w)
                     /\ x >= NudgeSchedule(p).finalCall <=> x >= 60 * (p - f)
  BY <1>6 DEF Larger
<1>8. InterviewPhase(q * 60, p) = InterviewPhase(t, p)
  <2>1. q * 60 \in Nat
    BY <1>5
  <2>2. /\ q * 60 >= NudgeSchedule(p).wrapUp <=> t >= NudgeSchedule(p).wrapUp
        /\ q * 60 >= NudgeSchedule(p).finalCall <=> t >= NudgeSchedule(p).finalCall
    BY <1>5, <1>7, <2>1
  <2> QED
    BY <2>2 DEF InterviewPhase
<1>9. InterviewPhase(t, p) # "core" <=> t >= 60 * (p - w)
  <2>1. t >= 60 * (p - f) => t >= 60 * (p - w)
    BY <1>4
  <2>2. InterviewPhase(t, p) # "core"
          <=> t >= NudgeSchedule(p).finalCall \/ t >= NudgeSchedule(p).wrapUp
    BY DEF InterviewPhase
  <2> QED
    BY <1>7, <2>1, <2>2
<1>10. /\ RenderClock(t, p).phase = InterviewPhase(q * 60, p)
       /\ RenderClock(t, p).closing = (Larger(0, Ceil(p * 60 - t, 60)) <= w)
  BY <1>2, <1>4 DEF RenderClock, ClockOf, WrapUpAtRemainingMinutes, q
<1>11. RenderClock(t, p).closing <=> t >= 60 * (p - w)
  BY <1>10, MinutesLeft
<1> QED
  BY <1>1, <1>8, <1>9, <1>10, <1>11 DEF PhasesAgree

-----------------------------------------------------------------------------
(* What a stream has been told stays told.                                 *)

LEMMA Tells ==
  ASSUME NEW seq \in Seq(Events), NEW more \in Seq(Events)
  PROVE  /\ \A j \in DOMAIN seq : \E i \in DOMAIN (seq \o more) : (seq \o more)[i] = seq[j]
         /\ \A j \in DOMAIN more : \E i \in DOMAIN (seq \o more) : (seq \o more)[i] = more[j]
         /\ \A i \in DOMAIN (seq \o more) :
              \/ \E j \in DOMAIN seq : (seq \o more)[i] = seq[j]
              \/ \E j \in DOMAIN more : (seq \o more)[i] = more[j]
<1>1. /\ Len(seq) \in Nat /\ Len(more) \in Nat /\ DOMAIN seq = 1..Len(seq)
      /\ DOMAIN more = 1..Len(more) /\ DOMAIN (seq \o more) = 1..(Len(seq) + Len(more))
  OBVIOUS
<1>2. /\ \A i \in 1..Len(seq) : (seq \o more)[i] = seq[i]
      /\ \A i \in 1..Len(more) : (seq \o more)[Len(seq) + i] = more[i]
      /\ \A i \in (Len(seq) + 1)..(Len(seq) + Len(more)) : (seq \o more)[i] = more[i - Len(seq)]
  BY Concatenated
<1> DEFINE all == seq \o more
<1> HIDE DEF all
<1>3. ASSUME NEW i \in 1..(Len(seq) + Len(more))
      PROVE  (\E j \in DOMAIN seq : all[i] = seq[j]) \/ (\E j \in DOMAIN more : all[i] = more[j])
  <2>1. CASE i <= Len(seq)
    BY <1>1, <1>2, <2>1 DEF all
  <2>2. CASE i > Len(seq)
    <3>1. i \in (Len(seq) + 1)..(Len(seq) + Len(more)) /\ i - Len(seq) \in DOMAIN more
      BY <1>1, <2>2
    <3> QED
      BY <1>2, <3>1 DEF all
  <2> QED
    BY <1>1, <2>1, <2>2
<1>4. ASSUME NEW i \in 1..Len(seq) PROVE i \in DOMAIN all /\ all[i] = seq[i]
  BY <1>1, <1>2 DEF all
<1>5. ASSUME NEW i \in 1..Len(more) PROVE Len(seq) + i \in DOMAIN all /\ all[Len(seq) + i] = more[i]
  BY <1>1, <1>2 DEF all
<1>6. DOMAIN all = 1..(Len(seq) + Len(more))
  BY <1>1 DEF all
<1>7. /\ \A j \in DOMAIN seq : \E i \in DOMAIN all : all[i] = seq[j]
      /\ \A j \in DOMAIN more : \E i \in DOMAIN all : all[i] = more[j]
      /\ \A i \in DOMAIN all :
           (\E j \in DOMAIN seq : all[i] = seq[j]) \/ (\E j \in DOMAIN more : all[i] = more[j])
  BY ONLY <1>1, <1>3, <1>4, <1>5, <1>6
<1> QED
  BY <1>7 DEF all

\* Pulling a frame takes nothing else away.
LEMMA OnlyTheFrameGoes ==
  ASSUME NEW seq \in Seq(Events), NEW k \in 1..Len(seq), seq[k] = Frame,
         NEW new \in Seq(Events), Without(seq, k, new)
  PROVE  /\ \A i \in DOMAIN seq : seq[i] # Frame => \E j \in DOMAIN new : new[j] = seq[i]
         /\ \A j \in DOMAIN new : \E i \in DOMAIN seq : new[j] = seq[i]
<1>1. /\ Len(seq) \in Nat /\ Len(new) \in Nat /\ DOMAIN seq = 1..Len(seq) /\ DOMAIN new = 1..Len(new)
  OBVIOUS
<1>2. /\ Len(new) = Len(seq) - 1
      /\ \A j \in 1..(k - 1) : new[j] = seq[j]
      /\ \A j \in k..Len(new) : new[j] = seq[j + 1]
  BY DEF Without
<1>3. ASSUME NEW i \in 1..Len(seq), seq[i] # Frame
      PROVE  \E j \in DOMAIN new : new[j] = seq[i]
  <2>1. CASE i < k
    <3>1. i \in 1..(k - 1) /\ i \in DOMAIN new
      BY <1>1, <1>2, <2>1
    <3> QED
      BY <1>2, <3>1
  <2>2. CASE i > k
    <3>1. i - 1 \in k..Len(new) /\ i - 1 \in DOMAIN new /\ i - 1 + 1 = i
      BY <1>1, <1>2, <2>2
    <3>2. new[i - 1] = seq[i]
      BY <1>2, <3>1
    <3> QED
      BY <3>1, <3>2
  <2> QED
    BY <1>1, <1>3, <2>1, <2>2
<1>4. ASSUME NEW j \in 1..Len(new) PROVE \E i \in DOMAIN seq : new[j] = seq[i]
  <2>1. CASE j < k
    <3>1. j \in 1..(k - 1) /\ j \in DOMAIN seq
      BY <1>1, <1>2, <2>1
    <3> QED
      BY <1>2, <3>1
  <2>2. CASE j >= k
    <3>1. j \in k..Len(new) /\ j + 1 \in DOMAIN seq
      BY <1>1, <1>2, <2>2
    <3> QED
      BY <1>2, <3>1
  <2> QED
    BY <1>1, <2>1, <2>2
<1> QED
  BY <1>1, <1>3, <1>4

\* A stream in being forgets frames only, and is told of no more history.
LEMMA ToldStays ==
  ASSUME StreamInv, Moved, NEW s \in Stream, stream[s] # "none"
  PROVE  /\ \A m \in Told(s) : m # Frame => m \in Told(s)'
         /\ \A m \in Told(s)' : m.kind = "user" => m \in Told(s)
<1>1. Sent(s) \in Seq(Events)
  BY Contents
<1>2. Sent(s)' \in Seq(Events)
  <2>1. queue'[s] \in Seq(Events) /\ heard'[s] \in Seq(Events)
    BY DEF Moved
  <2>2. heard'[s] \o queue'[s] \in Seq(Events)
    BY <2>1, Concatenated
  <2> QED
    BY <2>2 DEF Sent
<1> DEFINE old == Sent(s)
           new == Sent(s)'
           are(seq) == {seq[i] : i \in DOMAIN seq}
<1>3. Told(s) = are(old) /\ Told(s)' = are(new)
  BY DEF Told
<1>4. CASE Quiet(s)
  BY <1>4, <1>3 DEF Quiet
<1>5. CASE Drops(s)
  <2>1. PICK k \in 1..Len(old) : old[k] = Frame /\ Without(old, k, new)
    BY <1>5 DEF Drops
  <2>2. /\ \A i \in DOMAIN old : old[i] # Frame => \E j \in DOMAIN new : new[j] = old[i]
        /\ \A j \in DOMAIN new : \E i \in DOMAIN old : new[j] = old[i]
    BY <1>1, <1>2, <2>1, OnlyTheFrameGoes
  <2> QED
    BY ONLY <1>3, <2>2
<1>6. ASSUME NEW more \in Seq(Events), new = old \o more,
             \A i \in DOMAIN more : more[i].kind # "user"
      PROVE  /\ \A m \in Told(s) : m # Frame => m \in Told(s)'
             /\ \A m \in Told(s)' : m.kind = "user" => m \in Told(s)
  <2>1. /\ \A j \in DOMAIN old : \E i \in DOMAIN (old \o more) : (old \o more)[i] = old[j]
        /\ \A i \in DOMAIN (old \o more) :
             \/ \E j \in DOMAIN old : (old \o more)[i] = old[j]
             \/ \E j \in DOMAIN more : (old \o more)[i] = more[j]
    BY <1>1, <1>6, Tells
  <2>2. /\ \A j \in DOMAIN old : \E i \in DOMAIN new : new[i] = old[j]
        /\ \A i \in DOMAIN new :
             (\E j \in DOMAIN old : new[i] = old[j]) \/ (\E j \in DOMAIN more : new[i] = more[j])
    BY ONLY <1>6, <2>1
  <2> QED
    BY ONLY <1>3, <1>6, <2>2
<1>7. CASE Says(s)
  <2>1. PICK e \in Events : InBlock(e, s) /\ new = Append(old, e)
    BY <1>7 DEF Says
  <2>2. new = old \o <<e>> /\ <<e>> \in Seq(Events)
    BY <1>1, <2>1, AppendIsConcat
  <2>3. \A i \in DOMAIN <<e>> : <<e>>[i].kind # "user"
    <3>1. e.kind # "user"
      BY <2>1 DEF InBlock, Frame, Event
    <3>2. DOMAIN <<e>> = {1} /\ <<e>>[1] = e
      OBVIOUS
    <3> QED
      BY <3>1, <3>2
  <2> QED
    BY <1>6, <2>2, <2>3
<1>8. CASE Closes(s)
  <2>1. new = old \o Ends /\ \A i \in DOMAIN Ends : Ends[i].kind # "user"
    BY <1>8 DEF Closes, Ends, Event
  <2> QED
    BY <1>6, <2>1, EndsType
<1>9. CASE Opens(s)
  BY <1>9 DEF Opens
<1> QED
  BY <1>4, <1>5, <1>7, <1>8, <1>9 DEF Moved

-----------------------------------------------------------------------------
(* What the streams know.                                                  *)

\* What a stream was told as it was opened, it still is told.
Recalled(s) ==
  /\ \A e \in 1..born[s] : e > born[s] - MaxReplayed =>
       \E m \in Told(s) : m.kind = "assistant" /\ m.of = e
  /\ \A m \in Told(s) : m.kind = "user" /\ m.of = 0 => m.says = "kickoff"

\* What came after that was held on it, or while it was opening.
Unheard ==
  /\ renewal = "open" => \A e \in 1..exchanges : e > born[opened] => e \in missed
  /\ current \in Stream =>
       \A e \in 1..exchanges : e > born[current] => heldOn[e] = current \/ e \in missed

\* No nudge is early, and none precedes the first stream.
Timed ==
  /\ \A n \in {"wrapUp", "finalCall"} : Fired(n) => elapsed >= Due(n)
  /\ route = "starting" => exchanges = 0 /\ \A n \in {"wrapUp", "finalCall"} : ~Fired(n)

Knows(s, n) ==
  \/ \E m \in Told(s) : m.kind = "note" /\ m.says = n
  \/ brief[s].phase \in (IF n = "wrapUp" THEN {"wrap_up", "closing"} ELSE {"closing"})
  \/ n \in crossing

\* The stream in use and the one that is opening know of each nudge.
OnTime ==
  route = "running" /\ ~endRequested =>
    \A n \in {"wrapUp", "finalCall"} : Fired(n) =>
      /\ Live(current) => Knows(current, n)
      /\ renewal = "open" => Knows(opened, n)

TalkInv ==
  /\ StreamInv /\ \A s \in Stream : stream[s] # "none" => Recalled(s)
  /\ Unheard /\ Timed /\ OnTime

\* A step that neither changes streams nor adds to the conversation.
Calm ==
  /\ UNCHANGED <<current, opened, brief, exchanges, nudges, heldOn, born, crossing, missed>>
  /\ route' \in {"starting", "running"} => route' = route
  /\ renewal' = "open" => renewal = "open"
  /\ endRequested => endRequested'
  /\ elapsed' >= elapsed
  /\ Live(current)' => Live(current)
  /\ \A s \in Stream : stream'[s] = "none" <=> stream[s] = "none"

LEMMA MostStepsAreCalm ==
  ASSUME StreamInv, [StreamNext]_streamVars
  PROVE  \/ StartUp \/ Renew \/ HandOver
         \/ \E n \in {"wrapUp", "finalCall", "timeUp"} : Nudge(n)
         \/ \E s \in Stream : ExchangeEnds(s)
         \/ Calm
<1>0. /\ elapsed >= elapsed
      /\ stream \in [Stream -> {"none", "opening", "live", "draining", "ended", "failed"}]
      /\ current \in 0..MaxStreams /\ opened \in Stream /\ elapsed \in Nat
  <2>1. elapsed \in Instant \cup {0} /\ TypeOK
    BY Contents DEF StreamTypeOK, ConversationInv
  <2> QED
    BY <2>1, TrafficAssumption DEF TypeOK
<1> USE DEF Calm, streams, talk, Live, conversation, history
<1>1. CASE StartUpFails
  BY <1>0, <1>1, Contents DEF StartUpFails, StartFails, Waits
<1>2. CASE RenewalFails
  BY <1>0, <1>2, Contents DEF RenewalFails, OpenRejects, Waits
<1>3. ASSUME NEW s \in Stream, StreamEnds(s)
      PROVE  Calm
  BY <1>0, <1>3 DEF StreamEnds, EndsByItself
<1>4. ASSUME NEW s \in Stream, DrainOver(s)
      PROVE  Calm
  BY <1>0, <1>4 DEF DrainOver, DrainEnds, OnClose
<1>5. ASSUME NEW s \in Stream, ServicePulls(s)
      PROVE  Calm
  BY <1>0, <1>5 DEF ServicePulls, vars
<1>6. CASE Stop
  BY <1>0, <1>6 DEF Stop, Shutdown
<1>7. CASE CloseConversation
  BY <1>0, <1>7 DEF CloseConversation, Close, Drained
<1>8. CASE SendAudio
  BY <1>0, <1>8 DEF SendAudio, vars
<1>9. CASE TimePasses
  <2>1. elapsed' >= elapsed
    BY <1>0, <1>9, TrafficAssumption DEF TimePasses
  <2> QED
    BY <1>0, <1>9, <2>1 DEF TimePasses, vars
<1>10. ASSUME NEW s \in Stream, CompletionEnds(s)
       PROVE  Calm
  BY <1>0, <1>10 DEF CompletionEnds, Shutdown
<1>11. ASSUME NEW s \in Stream, NEW tool \in Tool, ToolUse(s, tool)
       PROVE  Calm
  BY <1>0, <1>11 DEF ToolUse, vars
<1>12. CASE UNCHANGED streamVars
  BY <1>0, <1>12 DEF streamVars, vars
<1> QED
  BY <1>1, <1>2, <1>3, <1>4, <1>5, <1>6, <1>7, <1>8, <1>9, <1>10, <1>11, <1>12 DEF StreamNext

\* Only a renewal opens a stream, and it briefs no other.
LEMMA Births ==
  ASSUME StreamInv, [StreamNext]_streamVars, NEW s \in Stream
  PROVE  /\ stream[s] # "none" =>
              stream'[s] # "none" /\ born'[s] = born[s] /\ brief'[s] = brief[s]
         /\ stream[s] = "none" /\ stream'[s] # "none" =>
              /\ Renew /\ opened' # opened /\ s = opened'
              /\ born'[s] = exchanges /\ brief'[s] = RenderClock(elapsed, Target)
<1>0. /\ stream \in [Stream -> {"none", "opening", "live", "draining", "ended", "failed"}]
      /\ opened \in 1..MaxStreams /\ 1 \in Stream
      /\ brief \in [Stream -> [phase : Phase \cup {"none"}, closing : BOOLEAN]]
      /\ born \in [Stream -> 0..exchanges]
      /\ \A x \in Stream : x > opened => stream[x] = "none"
      /\ (route = "starting" => stream[1] = "opening")
      /\ (renewal = "open" => stream[opened] = "opening")
  <2>1. StreamTypeOK /\ ConversationInv /\ Waits
    BY Contents
  <2>2. TypeOK /\ OpenedInOrder
    BY <2>1 DEF ConversationInv
  <2>3. 1 \in Stream
    BY BoundAssumption DEF Stream
  <2> QED
    BY <2>1, <2>2, <2>3 DEF StreamTypeOK, TypeOK, Waits, OpenedInOrder, Stream
<1>1. CASE StartUp
  BY <1>0, <1>1 DEF StartUp, StartSucceeds, talk
<1>2. CASE Renew
  <2>1. CASE opened' = opened
    <3>1. RenewTimer /\ brief' = brief /\ born' = born
      BY <1>2, <2>1 DEF Renew
    <3>2. stream' = stream
      BY <1>0, <2>1, <3>1 DEF RenewTimer, ReturnAtOnce, BeginRenewal
    <3> QED
      BY <3>1, <3>2
  <2>2. CASE opened' # opened
    <3>1. BeginRenewal(stream)
      BY <1>2, <2>2 DEF Renew, RenewTimer, ReturnAtOnce
    <3>2. PICK x : x = opened'
      OBVIOUS
    <3>3. x = opened + 1 /\ opened < MaxStreams /\ stream' = [stream EXCEPT ![x] = "opening"]
      BY <3>1, <3>2 DEF BeginRenewal
    <3>4. x \in Stream /\ x > opened
      BY <1>0, <3>3, BoundAssumption DEF Stream
    <3>5. stream[x] = "none" /\ stream'[x] = "opening"
          /\ \A y \in Stream \ {x} : stream'[y] = stream[y]
      BY <1>0, <3>3, <3>4
    <3>6. /\ brief' = [brief EXCEPT ![x] = RenderClock(elapsed, Target)]
          /\ born' = [born EXCEPT ![x] = exchanges]
      BY <1>2, <2>2, <3>2 DEF Renew
    <3>7. /\ brief'[x] = RenderClock(elapsed, Target) /\ born'[x] = exchanges
          /\ \A y \in Stream \ {x} : brief'[y] = brief[y] /\ born'[y] = born[y]
      BY ONLY <1>0, <3>4, <3>6
    <3> QED
      BY <1>2, <2>2, <3>2, <3>5, <3>7
  <2> QED
    BY <2>1, <2>2
<1>3. CASE HandOver
  <2>1. /\ stream' = Drained(previous, [stream EXCEPT ![opened] = "live"])
        /\ stream[opened] = "opening" /\ brief' = brief /\ born' = born
    BY <1>0, <1>3 DEF HandOver, OpenResolves, SwapTo, ReplacementUp, talk
  <2>2. stream[s] = "none" <=> stream'[s] = "none"
    BY <1>0, <2>1 DEF Drained
  <2> QED
    BY <2>1, <2>2
<1>4. ASSUME NEW n \in {"wrapUp", "finalCall", "timeUp"}, Nudge(n)
      PROVE  stream' = stream /\ born' = born /\ brief' = brief
  BY <1>4 DEF Nudge, vars, streams
<1>5. ASSUME NEW x \in Stream, ExchangeEnds(x)
      PROVE  stream' = stream /\ born' = born /\ brief' = brief
  BY <1>5 DEF ExchangeEnds, vars, streams
<1>6. CASE Calm
  BY <1>6 DEF Calm
<1> QED
  BY <1>1, <1>2, <1>3, <1>4, <1>5, <1>6, MostStepsAreCalm

LEMMA RecalledKept ==
  ASSUME TalkInv, [StreamNext]_streamVars, NEW s \in Stream, stream'[s] # "none"
  PROVE  Recalled(s)'
<1>0. StreamInv /\ Moved
  BY EveryStepMoves DEF TalkInv
<1>1. CASE stream[s] # "none"
  <2>1. Recalled(s) /\ born'[s] = born[s]
    BY <1>0, <1>1, Births DEF TalkInv
  <2>2. /\ \A m \in Told(s) : m # Frame => m \in Told(s)'
        /\ \A m \in Told(s)' : m.kind = "user" => m \in Told(s)
    BY <1>0, <1>1, ToldStays
  <2>3. \A m : m.kind = "assistant" => m # Frame
    BY DEF Frame, Event
  <2> QED
    BY <2>1, <2>2, <2>3 DEF Recalled
<1>2. CASE stream[s] = "none"
  <2>1. Opens(s)
    BY <1>0, <1>2 DEF Moved, Quiet, Drops, Says, Closes
  <2>2. exchanges \in Nat /\ (exchanges > 0 => kickoffNote = "kickoff")
    BY <1>0, Contents, LenProperties DEF StreamTypeOK, KickedOff
  <2>3. PICK n : n = exchanges
    OBVIOUS
  <2>4. PICK seq : seq = Opening(Replayed(n).from, Replayed(n).to)
    OBVIOUS
  <2>5. Recounts(seq, n)
    BY <2>2, <2>3, <2>4, OpeningFits
  <2>6. Sent(s)' = seq /\ born'[s] = n
    BY <1>0, <1>2, <2>1, <2>3, <2>4, Births DEF Opens
  <2>7. Told(s)' = {seq[i] : i \in DOMAIN seq}
    BY <2>6 DEF Told
  <2>8. /\ \A e \in 1..n : e > n - MaxReplayed =>
             \E m \in Told(s)' : m.kind = "assistant" /\ m.of = e
        /\ \A m \in Told(s)' : m.kind = "user" /\ m.of = 0 => m.says = "kickoff"
    BY ONLY <2>5, <2>7 DEF Recounts
  <2> QED
    BY <2>6, <2>8 DEF Recalled
<1> QED
  BY <1>1, <1>2

LEMMA UnheardKept ==
  ASSUME TalkInv, [StreamNext]_streamVars
  PROVE  Unheard'
<1>0. StreamInv /\ Unheard
  BY DEF TalkInv
<1>1. /\ current \in 0..MaxStreams /\ opened \in Stream /\ opened \in 1..MaxStreams
      /\ exchanges \in Nat /\ exchanges = Len(heldOn) /\ heldOn \in Seq(Stream)
      /\ born \in [Stream -> 0..exchanges]
      /\ current <= opened
      /\ (renewal = "open" => current < opened)
      /\ (route = "starting" => current = 0 /\ renewal = "none")
      /\ \A s \in Stream : stream[s] = "live" => s = current
  <2>1. StreamTypeOK /\ ConversationInv
    BY <1>0, Contents
  <2>2. TypeOK /\ OpenedInOrder /\ OthersAreOver /\ RenewalFromCurrent /\ NothingBeforeStart
    BY <2>1 DEF ConversationInv
  <2> QED
    BY <2>1, <2>2, LenProperties
       DEF StreamTypeOK, TypeOK, OpenedInOrder, OthersAreOver, RenewalFromCurrent,
           NothingBeforeStart, Stream
<1>2. CASE Calm
  BY <1>0, <1>2 DEF Calm, Unheard
<1>3. ASSUME NEW n \in {"wrapUp", "finalCall", "timeUp"}, Nudge(n)
      PROVE  Unheard'
  BY <1>0, <1>3 DEF Nudge, vars, conversation, Unheard
<1>4. CASE StartUp
  <2>1. /\ current' = 1 /\ exchanges' = exchanges /\ renewal' = renewal
        /\ renewal = "none" /\ exchanges = 0
    BY <1>1, <1>4 DEF StartUp, StartSucceeds, talk, TalkInv, Timed
  <2> QED
    BY <2>1 DEF Unheard
<1>5. CASE HandOver
  <2>1. /\ renewal = "open" /\ current' = opened /\ renewal' # "open"
        /\ exchanges' = exchanges /\ born' = born /\ heldOn' = heldOn /\ missed' = missed
    BY <1>5 DEF HandOver, OpenResolves, SwapTo, talk
  <2> QED
    BY <1>0, <2>1 DEF Unheard
<1>6. CASE Renew
  <2>1. /\ current' = current /\ exchanges' = exchanges /\ heldOn' = heldOn /\ missed' = missed
    BY <1>6 DEF Renew, RenewTimer, TimerFires
  <2>2. CASE opened' = opened
    <3>1. renewal' = renewal /\ born' = born
      BY <1>1, <1>6, <2>2 DEF Renew, RenewTimer, ReturnAtOnce, BeginRenewal
    <3> QED
      BY <1>0, <2>1, <2>2, <3>1 DEF Unheard
  <2>3. CASE opened' # opened
    <3>1. PICK x : x = opened'
      OBVIOUS
    <3>2. x = opened + 1 /\ opened < MaxStreams /\ born' = [born EXCEPT ![x] = exchanges]
      BY <1>6, <2>3, <3>1 DEF Renew, RenewTimer, ReturnAtOnce, BeginRenewal
    <3>3. x \in Stream /\ x # current
      BY <1>1, <3>2, BoundAssumption DEF Stream
    <3>4. born'[x] = exchanges /\ (current \in Stream => born'[current] = born[current])
      BY <1>1, <3>2, <3>3
    <3> QED
      BY <1>0, <1>1, <2>1, <3>1, <3>4 DEF Unheard
  <2> QED
    BY <2>2, <2>3
<1>7. ASSUME NEW s \in Stream, ExchangeEnds(s)
      PROVE  Unheard'
  <2>1. /\ s = current /\ current' = current /\ opened' = opened /\ renewal' = renewal
        /\ born' = born /\ exchanges' = exchanges + 1 /\ heldOn' = Append(heldOn, s)
        /\ missed' = IF renewal = "open" THEN missed \cup {exchanges + 1} ELSE missed
    BY <1>1, <1>7 DEF ExchangeEnds, Live, vars, conversation
  <2>2. /\ \A e \in 1..exchanges : heldOn'[e] = heldOn[e]
        /\ heldOn'[exchanges + 1] = s
    BY <1>1, <2>1
  <2>3. \A e \in 1..exchanges' : e \in 1..exchanges \/ e = exchanges + 1
    BY <1>1, <2>1
  <2> QED
    BY <1>0, <2>1, <2>2, <2>3 DEF Unheard
<1> QED
  BY <1>0, <1>2, <1>3, <1>4, <1>5, <1>6, <1>7, MostStepsAreCalm

LEMMA TimedKept ==
  ASSUME TalkInv, [StreamNext]_streamVars
  PROVE  Timed'
<1>0. StreamInv /\ Timed /\ elapsed \in Nat
  <2>1. StreamInv /\ elapsed \in Instant \cup {0}
    BY Contents DEF TalkInv, StreamTypeOK
  <2> QED
    BY <2>1, TrafficAssumption DEF TalkInv
<1>1. Due("wrapUp") \in Int /\ Due("finalCall") \in Int
  <2>1. PICK p \in Nat : p = Target
    BY TrafficAssumption, ClockAssumption DEF Target, EffectiveTargetMinutes
  <2>2. Schedule = NudgeSchedule(p)
    BY <2>1 DEF Schedule
  <2>3. /\ p * 60 \in Int /\ (p * 60) \div 8 \in Int /\ (p * 60) \div 20 \in Int
        /\ WrapUpBefore \in Int /\ FinalCallBefore \in Int
    BY ClockAssumption
  <2>4. \A x, y \in Int : Larger(0, x - y) \in Int
    BY DEF Larger
  <2>5. NudgeSchedule(p).wrapUp \in Int /\ NudgeSchedule(p).finalCall \in Int
    BY <2>3, <2>4 DEF NudgeSchedule
  <2> QED
    BY <2>2, <2>5 DEF Due
<1>2. CASE Calm
  <2>1. elapsed' \in Nat
    <3>1. elapsed' \in Instant \cup {0}
      BY <1>0, Contents, TypeParts, TalkTyped DEF TalkTypeOK
    <3> QED
      BY <3>1, TrafficAssumption
  <2>2. /\ nudges' = nudges /\ exchanges' = exchanges /\ elapsed' >= elapsed
        /\ (route' = "starting" => route = "starting")
    BY <1>2 DEF Calm
  <2> QED
    BY <1>0, <1>1, <2>1, <2>2 DEF Timed, Fired, Due
<1>3. CASE StartUp
  BY <1>0, <1>3 DEF StartUp, StartSucceeds, talk, Timed, Fired, Due
<1>4. CASE Renew
  BY <1>0, <1>4 DEF Renew, RenewTimer, TimerFires, Timed, Fired, Due
<1>5. CASE HandOver
  BY <1>0, <1>5 DEF HandOver, OpenResolves, SwapTo, talk, Timed, Fired, Due
<1>6. ASSUME NEW n \in {"wrapUp", "finalCall", "timeUp"}, Nudge(n)
      PROVE  Timed'
  <2>1. /\ route' = "running" /\ nudges' = nudges \ {n} /\ elapsed' = elapsed /\ elapsed >= Due(n)
    BY <1>6 DEF Nudge, vars
  <2> QED
    BY <1>0, <2>1 DEF Timed, Fired, Due
<1>7. ASSUME NEW s \in Stream, ExchangeEnds(s)
      PROVE  Timed'
  BY <1>0, <1>7 DEF ExchangeEnds, vars, Timed, Fired, Due
<1> QED
  BY <1>0, <1>2, <1>3, <1>4, <1>5, <1>6, <1>7, MostStepsAreCalm

\* What a stream knows of a nudge it goes on knowing.
LEMMA KnowsStill ==
  ASSUME StreamInv, [StreamNext]_streamVars, NEW s \in Stream, stream[s] # "none",
         NEW n, Knows(s, n), crossing \subseteq crossing'
  PROVE  Knows(s, n)'
<1>1. brief'[s] = brief[s]
  BY Births
<1>2. \A m \in Told(s) : m # Frame => m \in Told(s)'
  BY EveryStepMoves, ToldStays
<1>3. \A m : m.kind = "note" => m # Frame
  BY DEF Frame, Event
<1> QED
  BY <1>1, <1>2, <1>3 DEF Knows

\* A note to the stream in use is told to it.
LEMMA NoteIsTold ==
  ASSUME StreamInv, NEW t, Live(t), NEW n \in {"wrapUp", "finalCall", "timeUp"},
         queue' = Send(queue, t, Event("note", n, 0)), heard' = heard
  PROVE  \E m \in Told(t)' : m.kind = "note" /\ m.says = n
<1>1. PICK e : e = Event("note", n, 0)
  OBVIOUS
<1>2. e \in Events /\ e.kind = "note" /\ e.says = n /\ t \in Stream
  BY <1>1 DEF Event, Events, Kind, Sayings, Live
<1>3. Sent(t)' = Sent(t) \o <<e>> /\ Sent(t) \in Seq(Events)
  BY <1>1, <1>2, Contents, Sending
<1>4. \E i \in DOMAIN Sent(t)' : Sent(t)'[i] = e
  <2>1. Sent(t)' = Append(Sent(t), e)
    BY <1>2, <1>3, AppendIsConcat
  <2>2. Len(Sent(t)) + 1 \in DOMAIN Append(Sent(t), e) /\ Append(Sent(t), e)[Len(Sent(t)) + 1] = e
    BY <1>2, <1>3
  <2> QED
    BY <2>1, <2>2
<1> QED
  BY <1>2, <1>4 DEF Told

\* A stream that opens is briefed with the phase the nudges that fired announce.
LEMMA BriefedInTime ==
  ASSUME InProduction, TalkInv, NEW n \in {"wrapUp", "finalCall"}, Fired(n)
  PROVE  RenderClock(elapsed, Target).phase
           \in (IF n = "wrapUp" THEN {"wrap_up", "closing"} ELSE {"closing"})
<1>1. elapsed \in Nat
  <2>1. elapsed \in Instant \cup {0}
    BY Contents DEF TalkInv, StreamTypeOK
  <2> QED
    BY <2>1, TrafficAssumption
<1>2. RenderClock(elapsed, Target).phase = InterviewPhase(elapsed, Target)
  BY <1>1, PhasesMeet DEF PhasesAgree
<1>3. elapsed >= NudgeSchedule(Target)[n]
  BY DEF TalkInv, Timed, Due, Schedule
<1>4. CASE n = "wrapUp"
  <2>1. elapsed >= NudgeSchedule(Target).wrapUp
    BY <1>3, <1>4
  <2> QED
    BY <1>2, <1>4, <2>1 DEF InterviewPhase
<1>5. CASE n = "finalCall"
  <2>1. elapsed >= NudgeSchedule(Target).finalCall
    BY <1>3, <1>5
  <2> QED
    BY <1>2, <1>5, <2>1 DEF InterviewPhase
<1> QED
  BY <1>4, <1>5

LEMMA OnTimeKept ==
  ASSUME InProduction, TalkInv, [StreamNext]_streamVars
  PROVE  OnTime'
<1>0. StreamInv /\ OnTime
  BY DEF TalkInv
<1>1. /\ current \in 0..MaxStreams /\ opened \in Stream
      /\ stream \in [Stream -> {"none", "opening", "live", "draining", "ended", "failed"}]
      /\ (renewal = "open" => stream[opened] = "opening")
      /\ (timer => renewal # "open")
  <2>1. TypeOK /\ RenewalFromCurrent /\ Waits
    BY <1>0, Contents DEF ConversationInv
  <2> QED
    BY <2>1 DEF TypeOK, RenewalFromCurrent, Waits
<1> SUFFICES ASSUME route' = "running", ~endRequested',
                    NEW n \in {"wrapUp", "finalCall"}, Fired(n)'
             PROVE  /\ Live(current)' => Knows(current, n)'
                    /\ renewal' = "open" => Knows(opened, n)'
  BY DEF OnTime
\* What was known of the stream in use, and of the one that is opening.
<1>2. ASSUME NEW s \in Stream, stream[s] # "none", Knows(s, n), crossing \subseteq crossing'
      PROVE  Knows(s, n)'
  BY <1>0, <1>2, KnowsStill
<1>3. PICK c, o : c = current /\ o = opened
  OBVIOUS
<1>4. /\ Live(c) => c \in Stream /\ stream[c] # "none"
      /\ renewal = "open" => o \in Stream /\ stream[o] # "none"
  BY <1>1, <1>3 DEF Live
<1>5. route = "running" /\ ~endRequested /\ Fired(n) =>
        (Live(c) => Knows(c, n)) /\ (renewal = "open" => Knows(o, n))
  BY <1>0, <1>3 DEF OnTime
<1>6. CASE Calm
  <2>1. /\ current' = c /\ opened' = o /\ nudges' = nudges /\ crossing' = crossing
        /\ (Live(current)' => Live(c)) /\ (renewal' = "open" => renewal = "open")
        /\ route = "running" /\ ~endRequested
    BY <1>3, <1>6 DEF Calm
  <2>2. Fired(n)
    BY <2>1 DEF Fired
  <2>3. (Live(current)' => Knows(c, n)') /\ (renewal' = "open" => Knows(o, n)')
    BY <1>2, <1>4, <1>5, <2>1, <2>2
  <2> QED
    BY <2>1, <2>3 DEF Knows, Told, Sent
<1>7. CASE StartUp
  BY <1>7 DEF StartUp, StartSucceeds, talk, TalkInv, Timed, Fired
<1>8. CASE Renew
  <2>1. /\ current' = c /\ nudges' = nudges /\ crossing' = crossing /\ route = "running"
        /\ ~endRequested /\ timer
    BY <1>3, <1>8 DEF Renew, RenewTimer, TimerFires
  <2>2. Fired(n) /\ renewal # "open"
    BY <1>1, <2>1 DEF Fired
  <2>3. Live(current)' => Live(c)
    <3>1. CASE opened' = opened
      <4>1. stream' = stream
        BY <1>1, <1>8, <3>1 DEF Renew, RenewTimer, ReturnAtOnce, BeginRenewal, Stream
      <4> QED
        BY <2>1, <4>1 DEF Live
    <3>2. CASE opened' # opened
      <4>1. stream' = [stream EXCEPT ![opened'] = "opening"]
        BY <1>8, <3>2 DEF Renew, RenewTimer, ReturnAtOnce, BeginRenewal
      <4> QED
        BY <1>1, <2>1, <4>1 DEF Live
    <3> QED
      BY <3>1, <3>2
  <2>4. Live(current)' => Knows(c, n)'
    BY <1>2, <1>4, <1>5, <2>1, <2>2, <2>3
  <2>5. CASE renewal' = "open"
    <3>1. PICK x : x = opened'
      OBVIOUS
    <3>2. BeginRenewal(stream)
      BY <1>8, <2>2, <2>5 DEF Renew, RenewTimer, ReturnAtOnce
    <3>3. x \in Stream /\ opened' # opened /\ stream[x] = "none" /\ stream'[x] # "none"
      <4>1. opened \in 1..MaxStreams /\ \A s \in Stream : s > opened => stream[s] = "none"
        BY <1>0, <1>1, Contents DEF ConversationInv, OpenedInOrder, Stream
      <4>2. x = opened + 1 /\ opened < MaxStreams /\ stream' = [stream EXCEPT ![x] = "opening"]
        BY <3>1, <3>2 DEF BeginRenewal
      <4>3. x \in Stream /\ x > opened
        BY <4>1, <4>2, BoundAssumption DEF Stream
      <4> QED
        BY <1>1, <3>1, <4>1, <4>2, <4>3
    <3>4. brief'[x] = RenderClock(elapsed, Target)
      BY <1>0, <3>3, Births
    <3>5. brief'[x].phase \in (IF n = "wrapUp" THEN {"wrap_up", "closing"} ELSE {"closing"})
      BY <2>2, <3>4, BriefedInTime
    <3>6. Knows(x, n)'
      BY <3>5 DEF Knows
    <3> QED
      BY <2>1, <2>4, <3>1, <3>6 DEF Knows, Told, Sent
  <2> QED
    BY <2>1, <2>4, <2>5 DEF Knows, Told, Sent
<1>9. CASE HandOver
  <2>1. /\ renewal = "open" /\ current' = o /\ renewal' # "open" /\ nudges' = nudges
        /\ crossing' = crossing /\ route = "running" /\ ~endRequested
    BY <1>3, <1>9 DEF HandOver, OpenResolves, SwapTo, talk
  <2>2. Knows(o, n)'
    BY <1>2, <1>4, <1>5, <2>1 DEF Fired
  <2> QED
    BY <2>1, <2>2 DEF Knows, Told, Sent
<1>10. ASSUME NEW k \in {"wrapUp", "finalCall", "timeUp"}, Nudge(k)
       PROVE  /\ Live(current)' => Knows(current, n)'
              /\ renewal' = "open" => Knows(opened, n)'
  <2>1. /\ current' = c /\ opened' = o /\ nudges' = nudges \ {k} /\ stream' = stream
        /\ renewal' = renewal /\ route = "running" /\ ~endRequested
        /\ crossing \subseteq crossing'
    BY <1>3, <1>10 DEF Nudge, vars, conversation
  <2>2. Live(current)' => Live(c)
    BY <2>1 DEF Live
  <2>3. CASE Fired(n)
    <3>1. (Live(current)' => Knows(c, n)') /\ (renewal' = "open" => Knows(o, n)')
      BY <1>2, <1>4, <1>5, <2>1, <2>2, <2>3
    <3> QED
      BY <2>1, <3>1 DEF Knows, Told, Sent
  <2>4. CASE ~Fired(n)
    <3>1. k = n
      BY <2>1, <2>4 DEF Fired
    <3>2. /\ queue' = Send(queue, c, Event("note", n, 0)) /\ heard' = heard
          /\ crossing' = IF renewal = "open" THEN crossing \cup {n} ELSE crossing
      BY <1>3, <1>10, <2>1, <3>1 DEF Nudge
    <3>3. Live(current)' => \E m \in Told(c)' : m.kind = "note" /\ m.says = n
      BY <1>0, <2>2, <3>2, NoteIsTold
    <3>4. renewal' = "open" => n \in crossing'
      BY <2>1, <3>2
    <3>5. (Live(current)' => Knows(c, n)') /\ (renewal' = "open" => Knows(o, n)')
      BY <3>3, <3>4 DEF Knows
    <3> QED
      BY <2>1, <3>5 DEF Knows, Told, Sent
  <2> QED
    BY <2>3, <2>4
<1>11. ASSUME NEW s \in Stream, ExchangeEnds(s)
       PROVE  /\ Live(current)' => Knows(current, n)'
              /\ renewal' = "open" => Knows(opened, n)'
  <2>1. /\ current' = c /\ opened' = o /\ nudges' = nudges /\ stream' = stream
        /\ renewal' = renewal /\ route = "running" /\ ~endRequested /\ crossing' = crossing
    BY <1>3, <1>11 DEF ExchangeEnds, vars, conversation
  <2>2. (Live(current)' => Live(c)) /\ Fired(n)
    BY <2>1 DEF Live, Fired
  <2>3. (Live(current)' => Knows(c, n)') /\ (renewal' = "open" => Knows(o, n)')
    BY <1>2, <1>4, <1>5, <2>1, <2>2
  <2> QED
    BY <2>1, <2>3 DEF Knows, Told, Sent
<1> QED
  BY <1>0, <1>6, <1>7, <1>8, <1>9, <1>10, <1>11, MostStepsAreCalm

-----------------------------------------------------------------------------
(* A renewal carries the conversation over.                                *)

LEMMA TalkInit == StreamInit => TalkInv
<1> SUFFICES ASSUME StreamInit PROVE TalkInv
  OBVIOUS
<1>1. StreamInv
  BY StreamsInit
<1>2. Unheard /\ Timed /\ OnTime
  BY DEF StreamInit, Init, Unheard, Timed, OnTime, Fired
<1>3. ASSUME NEW s \in Stream, stream[s] # "none" PROVE Recalled(s)
  <2>1. s = 1
    BY <1>3 DEF StreamInit, Init
  <2>2. PICK seq : seq = Opening(1, 0)
    OBVIOUS
  <2>3. seq \in Seq(Events) /\ \A i \in DOMAIN seq : seq[i].kind \in {"setup", "audioStart"}
    BY <2>2, OpensAlone
  <2>4. queue[s] = seq /\ heard[s] = <<>> /\ born[s] = 0
    BY <2>1, <2>2 DEF StreamInit
  <2>5. Sent(s) = seq
    BY <2>3, <2>4, ConcatEmptySeq DEF Sent
  <2> QED
    BY <2>3, <2>4, <2>5 DEF Recalled, Told
<1> QED
  BY <1>1, <1>2, <1>3 DEF TalkInv

LEMMA TalkStep ==
  ASSUME InProduction, TalkInv, [StreamNext]_streamVars
  PROVE  TalkInv'
<1>1. StreamInv'
  BY StreamsStep DEF TalkInv
<1>2. \A s \in Stream : stream'[s] # "none" => Recalled(s)'
  BY RecalledKept
<1> QED
  BY <1>1, <1>2, UnheardKept, TimedKept, OnTimeKept DEF TalkInv

LEMMA TalkSuffices ==
  ASSUME InProduction, TalkInv
  PROVE  ConversationIsCarried
<1>1. KnowsTheTalk
  <2> SUFFICES ASSUME Live(current) PROVE KnowsTheTalk
    BY DEF KnowsTheTalk
  <2>1. current \in Stream /\ Recalled(current) /\ Unheard
    BY DEF TalkInv, Live
  <2>2. born[current] \in Nat /\ exchanges \in Nat /\ MaxReplayed \in Nat
    <3>1. born \in [Stream -> 0..exchanges] /\ exchanges \in Nat
      BY Contents, LenProperties DEF TalkInv, StreamTypeOK
    <3> QED
      BY <2>1, <3>1, TrafficAssumption
  <2>3. ASSUME NEW e \in 1..exchanges
        PROVE  \/ heldOn[e] = current \/ \E m \in Told(current) : m.kind = "assistant" /\ m.of = e
               \/ e <= born[current] - MaxReplayed \/ e \in missed
    <3>1. CASE e > born[current]
      BY <2>1, <2>3, <3>1 DEF Unheard
    <3>2. CASE e <= born[current] /\ e > born[current] - MaxReplayed
      BY <2>1, <2>2, <2>3, <3>2 DEF Recalled
    <3> QED
      BY <2>2, <2>3, <3>1, <3>2
  <2> QED
    BY <2>1, <2>3 DEF KnowsTheTalk, Recalled
<1>2. KnowsTheTime
  <2>1. elapsed \in Nat
    <3>1. elapsed \in Instant \cup {0}
      BY Contents DEF TalkInv, StreamTypeOK
    <3> QED
      BY <3>1, TrafficAssumption
  <2>2. PhasesAgree(elapsed, Target)
    BY <2>1, PhasesMeet
  <2> QED
    BY <2>2 DEF TalkInv, OnTime, Knows, KnowsTheTime
<1> QED
  BY <1>1, <1>2 DEF ConversationIsCarried

\* The stream in use knows the conversation: each exchange, unless it is older
\* than the replayed window or ended while the stream was opening, behind the
\* kickoff (sonic.ts:267-330, 784-799), and each nudge that has fired, from its
\* prompt, by the nudge itself or unless that crossed the opening
\* (interview.ts:886-930); and with the settings of constants.ts prompt, tools
\* and nudges tell the same phase.
THEOREM ConversationCarried == InProduction => (StreamSpec => []ConversationIsCarried)
<1> SUFFICES ASSUME InProduction PROVE StreamSpec => []ConversationIsCarried
  OBVIOUS
<1>1. TalkInv /\ [StreamNext]_streamVars => TalkInv'
  BY TalkStep
<1>2. TalkInv => ConversationIsCarried
  BY TalkSuffices
<1> QED
  BY <1>1, <1>2, TalkInit, PTL DEF StreamSpec
=============================================================================
