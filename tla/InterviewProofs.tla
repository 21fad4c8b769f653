--------------------------- MODULE InterviewProofs ---------------------------
(***************************************************************************)
(* Proofs about Interview: the types, the quota's two bounds, one          *)
(* connection per session, and what the close path queues and charges.     *)
(* All for any number of connections, sessions, exchanges and failures.    *)
(***************************************************************************)
EXTENDS Interview, FiniteSetTheorems, FunctionTheorems, TLAPS

\* A lost race leaves the attempts within bounds and the slot alone.
LEMMA LostClaimTypes ==
  ASSUME TypeOK, NEW c \in Conn, boot[c] = "cas", ClaimLost(c)
  PROVE  /\ tries' \in [Conn -> 0..MaxAttempts]
         /\ boot' \in [Conn -> {"off", "read", "cas", "start", "open", "live",
                                "refused", "failed", "broken", "dead"}]
         /\ \A d \in Conn : boot'[d] \in {"off", "read", "cas"} => tries'[d] < MaxAttempts
         /\ \A d \in Conn : boot'[d] # "off" => boot[d] # "off"
         /\ UNCHANGED slot
BY BoundAssumption DEF TypeOK, ClaimLost, Boot

\* Every step keeps the types.
LEMMA TypesStay ==
  ASSUME TypeOK, [Next]_vars
  PROVE  TypeOK'
<1> USE ConnAssumption, SessionAssumption, LimitAssumption, BoundAssumption,
        ScoreAssumption
<1> USE DEF TypeOK, Boot, Stop, Fault, Resend, Exchange, Limits,
            profile, meta, answers, startup, talk, ending, failures
<1>1. ASSUME NEW l \in Limits, SetAccessGrant(l)
      PROVE  TypeOK'
  BY <1>1 DEF SetAccessGrant
<1>2. CASE MarkProfileDeleting
  BY <1>2 DEF MarkProfileDeleting
<1>3. ASSUME NEW c \in Conn, NEW s \in Session, Connect(c, s)
      PROVE  TypeOK'
  BY <1>3 DEF Connect
<1>4. ASSUME NEW c \in Conn, Startup(c)
      PROVE  TypeOK'
  <2>1. CASE ReadQuota(c)
    BY <2>1 DEF ReadQuota
  <2>2. CASE ClaimInterviewSlot(c)
    <3>1. CASE Claim(c)
      BY <2>2, <3>1 DEF ClaimInterviewSlot, Claim, ClaimFrame
    <3>2. CASE ClaimLost(c) /\ UNCHANGED used
      BY <2>2, <3>2, LostClaimTypes DEF ClaimInterviewSlot, ClaimFrame
    <3> QED
      BY <2>2, <3>1, <3>2 DEF ClaimInterviewSlot
  <2>3. CASE StartInterview(c)
    <3>1. CASE TakeSession(c) /\ Boot(c, "open")
      BY <2>3, <3>1 DEF StartInterview, TakeSession, StartFrame
    <3>2. CASE Boot(c, "failed") /\ UNCHANGED meta
      BY <2>3, <3>2 DEF StartInterview, StartFrame
    <3> QED
      BY <2>3, <3>1, <3>2 DEF StartInterview
  <2>4. CASE OpenStream(c)
    BY <2>4 DEF OpenStream
  <2> QED
    BY <1>4, <2>1, <2>2, <2>3, <2>4 DEF Startup
<1>5. ASSUME NEW c \in Conn, Converse(c)
      PROVE  TypeOK'
  <2>1. CASE AppendAnswer(c)
    BY <2>1 DEF AppendAnswer
  <2>2. CASE TurnEnds(c)
    BY <2>2 DEF TurnEnds, FlushExchange
  <2>3. CASE WindowPasses(c)
    BY <2>3 DEF WindowPasses
  <2>4. ASSUME NEW k \in Exchange, WriteLands(c, k)
        PROVE  TypeOK'
    <3>1. CASE Record(c, k) /\ UNCHANGED failures
      BY <2>4, <3>1 DEF WriteLands, Record
    <3>2. CASE RecordFails(c, k)
      <4>1. stored' \in [Conn -> SUBSET Exchange]
        BY <3>2 DEF RecordFails
      <4>2. Fault /\ UNCHANGED recorded
        BY <3>2 DEF RecordFails
      <4>3. /\ writing' = [writing EXCEPT ![c] = @ \ {k}]
            /\ UNCHANGED <<profile, meta, queued, startup, slot, ending>>
            /\ UNCHANGED <<spoken, taken, overtime, late>>
        BY <2>4 DEF WriteLands
      <4> QED
        BY <4>1, <4>2, <4>3
    <3> QED
      BY <2>4, <3>1, <3>2 DEF WriteLands
  <2> QED
    BY <1>5, <2>1, <2>2, <2>3, <2>4 DEF Converse
<1>6. ASSUME NEW c \in Conn, Close(c)
      PROVE  TypeOK'
  <2>1. CASE AbortStartup(c)
    BY <2>1 DEF AbortStartup, LatchAndGo
  <2>2. CASE Shutdown(c)
    <3>1. CASE FlushExchange(c)
      <4>1. c \in spoken /\ taken[c] + 1 \in Exchange
        BY <3>1 DEF FlushExchange
      <4>2. last' = [last EXCEPT ![c] = taken[c] + 1]
        BY <2>2, <4>1 DEF Shutdown
      <4> QED
        BY <2>2, <3>1, <4>1, <4>2 DEF Shutdown, FlushExchange
    <3>2. CASE UNCHANGED <<spoken, taken, writing, last>>
      BY <2>2, <3>2 DEF Shutdown
    <3> QED
      BY <2>2, <3>1, <3>2 DEF Shutdown
  <2>3. CASE ReadScoredIds(c)
    BY <2>3 DEF ReadScoredIds, CloseWith, LatchAndGo
  <2>4. CASE RefundInterviewSlot(c)
    BY <2>4 DEF RefundInterviewSlot, RefundStands, AfterRefund, RefundFrame
  <2>5. CASE FinishInterview(c)
    BY <2>5 DEF FinishInterview, FinishWith, FinishFrame
  <2>6. CASE Enqueue(c)
    <3>1. PICK part \in SUBSET list[c] : queued' = [queued EXCEPT ![c] = part]
      BY <2>6 DEF Enqueue
    <3> QED
      BY <2>6, <3>1 DEF Enqueue
  <2>7. CASE CloseStream(c)
    BY <2>7 DEF CloseStream
  <2> QED
    BY <1>6, <2>1, <2>2, <2>3, <2>4, <2>5, <2>6, <2>7 DEF Close
<1>7. ASSUME NEW c \in Conn, Fail(c)
      PROVE  TypeOK'
  <2>1. CASE StartupFails(c)
    <3>1. used' \in Nat /\ status' \in [Session -> {"ready", "in_progress", "evaluating", "complete"}]
          /\ charged' \subseteq Session
      <4>1. CASE UNCHANGED <<used, meta>>
        BY <4>1
      <4>2. CASE used' = used + 1 /\ UNCHANGED meta
        BY <4>2
      <4>3. CASE boot[c] = "start" /\ TakeSession(c) /\ UNCHANGED used
        BY <4>3 DEF TakeSession
      <4> QED
        BY <2>1, <4>1, <4>2, <4>3 DEF StartupFails
    <3> QED
      BY <2>1, <3>1 DEF StartupFails
  <2>2. CASE RefundFails(c)
    BY <2>2 DEF RefundFails, RefundStands, AfterRefund, RefundFrame
  <2>3. CASE FinishFails(c)
    <3>1. status' \in [Session -> {"ready", "in_progress", "evaluating", "complete"}]
          /\ charged' \subseteq Session
      <4>1. CASE FinishWith(c, c \notin refunded)
        BY <2>3, <4>1 DEF FinishFails, FinishWith
      <4>2. CASE UNCHANGED meta
        BY <4>2
      <4> QED
        BY <2>3, <4>1, <4>2 DEF FinishFails
    <3> QED
      BY <2>3, <3>1 DEF FinishFails, FinishFrame
  <2> QED
    BY <1>7, <2>1, <2>2, <2>3 DEF Fail
<1>8. ASSUME NEW c \in Conn, Repeat(c)
      PROVE  TypeOK'
  <2>1. CASE ClaimResent(c)
    <3>1. CASE seen[c].limit = Unlimited
      <4>1. used' = used + 2 /\ slot' = [slot EXCEPT ![c] = "claimed"]
            /\ Boot(c, "start") /\ UNCHANGED tries
        BY <2>1, <3>1 DEF ClaimResent
      <4> QED
        BY <2>1, <4>1 DEF ClaimResent, ClaimFrame
    <3>2. CASE seen[c].limit # Unlimited
      BY <2>1, <3>2, LostClaimTypes DEF ClaimResent, ClaimFrame
    <3> QED
      BY <3>1, <3>2
  <2>2. CASE StartResent(c)
    BY <2>2 DEF StartResent, TakeSession, StartFrame
  <2>3. CASE RefundResent(c)
    BY <2>3 DEF RefundResent, RefundStands, AfterRefund, RefundFrame
  <2>4. CASE FinishResent(c)
    <3>1. status' \in [Session -> {"ready", "in_progress", "evaluating", "complete"}]
          /\ charged' \subseteq Session
      BY <2>4 DEF FinishResent, FinishWith
    <3> QED
      BY <2>4, <3>1 DEF FinishResent, FinishFrame
  <2> QED
    BY <1>8, <2>1, <2>2, <2>3, <2>4 DEF Repeat
<1>9. CASE Crash
  BY <1>9 DEF Crash
<1>10. CASE UNCHANGED vars
  BY <1>10 DEF vars
<1> QED
  BY <1>1, <1>2, <1>3, <1>4, <1>5, <1>6, <1>7, <1>8, <1>9, <1>10 DEF Next

\* The variables of Interview are of the right types in every reachable state.
THEOREM TypeCorrect == SafetySpec => []TypeOK
<1>1. Init => TypeOK
  BY ConnAssumption, SessionAssumption, LimitAssumption, BoundAssumption,
     ScoreAssumption DEF Init, TypeOK, Limits, Exchange
<1> QED
  BY <1>1, TypesStay, PTL DEF SafetySpec

-----------------------------------------------------------------------------
(* The two bounds of the quota                                             *)

\* A step that decides nothing about the quota: it raises no counter, changes
\* no allowance and brings no connection to its claim.
QuotaQuiet ==
  /\ used' \in Nat /\ used' <= used
  /\ UNCHANGED <<limit, allowed, seen>>
  /\ \A c \in Conn : boot'[c] = "cas" => boot[c] = "cas"

\* All steps are quiet but the grant, the claim and its read.
LEMMA QuietSteps ==
  ASSUME TypeOK, NEW c \in Conn,
         \/ \E s \in Session : Connect(c, s)
         \/ StartInterview(c) \/ OpenStream(c) \/ Converse(c) \/ Close(c)
         \/ RefundFails(c) \/ FinishFails(c)
         \/ StartResent(c) \/ RefundResent(c) \/ FinishResent(c)
  PROVE  QuotaQuiet
<1> USE DEF TypeOK, QuotaQuiet, Boot, profile, startup
<1>1. ASSUME NEW s \in Session, Connect(c, s)
      PROVE  QuotaQuiet
  BY <1>1 DEF Connect
<1>2. CASE StartInterview(c) \/ StartResent(c)
  BY <1>2 DEF StartInterview, StartResent, StartFrame
<1>3. CASE OpenStream(c)
  BY <1>3 DEF OpenStream
<1>4. CASE Converse(c)
  BY <1>4 DEF Converse, AppendAnswer, TurnEnds, WindowPasses, WriteLands
<1>5. CASE AbortStartup(c) \/ Shutdown(c) \/ ReadScoredIds(c)
  BY <1>5 DEF AbortStartup, Shutdown, ReadScoredIds, CloseWith
<1>6. CASE RefundInterviewSlot(c) \/ RefundFails(c) \/ RefundResent(c)
  BY <1>6 DEF RefundInterviewSlot, RefundFails, RefundResent, RefundStands, RefundFrame
<1>7. CASE FinishInterview(c) \/ FinishFails(c) \/ FinishResent(c)
  BY <1>7 DEF FinishInterview, FinishFails, FinishResent, FinishFrame
<1>8. CASE Enqueue(c) \/ CloseStream(c)
  BY <1>8 DEF Enqueue, CloseStream
<1> QED
  BY <1>1, <1>2, <1>3, <1>4, <1>5, <1>6, <1>7, <1>8 DEF Close

\* The claim decides on a remembered counter and limit, and its condition holds
\* the counter to the one remembered: the inductive step of WithinAllowance.
LEMMA ClaimsWithinAllowance ==
  ASSUME TypeOK, WithinAllowance, DecisionStands, [Next]_vars
  PROVE  WithinAllowance' /\ DecisionStands'
<1> USE LimitAssumption DEF TypeOK, WithinAllowance, DecisionStands, Limits, Boot
<1>1. ASSUME NEW l \in Limits, SetAccessGrant(l)
      PROVE  WithinAllowance' /\ DecisionStands'
  BY <1>1 DEF SetAccessGrant, startup
<1>2. ASSUME NEW c \in Conn, ReadQuota(c)
      PROVE  WithinAllowance' /\ DecisionStands'
  BY <1>2 DEF ReadQuota, Exhausted, profile
<1>3. ASSUME NEW c \in Conn, ClaimStands(c), boot[c] = "cas"
      PROVE  \/ Unlimited \in allowed
             \/ \E l \in allowed : used + 1 <= l
  <2>1. seen[c].limit \in allowed /\ seen[c].limit \in Nat \cup {Unlimited}
    BY <1>3
  <2>2. seen[c].limit = Unlimited \/ (used < seen[c].limit)
    BY <1>3 DEF ClaimStands
  <2>3. CASE seen[c].limit # Unlimited
    BY <2>1, <2>2, <2>3
  <2> QED
    BY <2>1, <2>3
<1>4. ASSUME NEW c \in Conn, ClaimInterviewSlot(c) \/ ClaimResent(c)
      PROVE  WithinAllowance' /\ DecisionStands'
  <2>1. /\ UNCHANGED <<limit, allowed, seen>>
        /\ \A d \in Conn : boot'[d] = "cas" => boot[d] = "cas"
    BY <1>4 DEF ClaimInterviewSlot, ClaimResent, Claim, ClaimLost, ClaimFrame
  <2>2. used' = used \/ (ClaimStands(c) /\ boot[c] = "cas" /\ used' = used + 1)
          \/ (boot[c] = "cas" /\ seen[c].limit = Unlimited)
    BY <1>4 DEF ClaimInterviewSlot, ClaimResent, Claim
  <2> QED
    BY <1>3, <2>1, <2>2
<1>5. ASSUME NEW c \in Conn, StartupFails(c)
      PROVE  WithinAllowance' /\ DecisionStands'
  <2>1. /\ UNCHANGED <<limit, allowed, seen>>
        /\ \A d \in Conn : boot'[d] = "cas" => boot[d] = "cas"
    BY <1>5 DEF StartupFails
  <2>2. used' = used \/ (ClaimStands(c) /\ boot[c] = "cas" /\ used' = used + 1)
    BY <1>5 DEF StartupFails
  <2> QED
    BY <1>3, <2>1, <2>2
<1>6. CASE QuotaQuiet
  <2>1. WithinAllowance'
    <3>1. ASSUME NEW l \in allowed, used <= l, Unlimited \notin allowed
          PROVE  used' <= l
      BY <1>6, <3>1 DEF QuotaQuiet
    <3> QED
      BY <1>6, <3>1 DEF QuotaQuiet
  <2> QED
    BY <1>6, <2>1 DEF QuotaQuiet
<1>7. MarkProfileDeleting \/ Crash \/ UNCHANGED vars => QuotaQuiet
  <2>1. MarkProfileDeleting \/ UNCHANGED vars => QuotaQuiet
    BY DEF MarkProfileDeleting, vars, profile, startup, QuotaQuiet
  <2>2. Crash => QuotaQuiet
    BY DEF Crash, profile, QuotaQuiet
  <2> QED
    BY <2>1, <2>2
<1> QED
  BY <1>1, <1>2, <1>4, <1>5, <1>6, <1>7, QuietSteps
  DEF Next, Startup, Close, Fail, Repeat

\* WithinAllowance, for any number of tabs: however claims, refunds and grants
\* interleave, sessionsConducted stays within an allowance that was in force.
THEOREM QuotaHolds == SafetySpec => []WithinAllowance
<1>1. Init => WithinAllowance /\ DecisionStands
  BY LimitAssumption DEF Init, WithinAllowance, DecisionStands
<1>2. TypeOK /\ (WithinAllowance /\ DecisionStands) /\ [Next]_vars
        => (WithinAllowance /\ DecisionStands)'
  BY ClaimsWithinAllowance
<1> QED
  BY <1>1, <1>2, TypeCorrect, PTL DEF SafetySpec

-----------------------------------------------------------------------------

\* A step fails one request, repeats one write, or neither.
LEMMA FailuresAreCounted ==
  ASSUME [Next]_vars
  PROVE  UNCHANGED failures \/ Fault \/ Resend
<1> DEFINE Counted == UNCHANGED failures \/ Fault \/ Resend
<1>1. ASSUME NEW c \in Conn, Startup(c) \/ Close(c) \/ AppendAnswer(c) \/ TurnEnds(c) \/ WindowPasses(c)
      PROVE  Counted
  BY <1>1 DEF Startup, Close, ReadQuota, ClaimInterviewSlot, StartInterview, OpenStream,
              AbortStartup, Shutdown, ReadScoredIds, CloseWith, RefundInterviewSlot,
              FinishInterview, Enqueue, CloseStream, AppendAnswer, TurnEnds, WindowPasses,
              failures
<1>2. ASSUME NEW c \in Conn, NEW k \in Exchange, WriteLands(c, k)
      PROVE  Counted
  BY <1>2 DEF WriteLands, RecordFails, failures
<1>3. ASSUME NEW c \in Conn, Fail(c) \/ Repeat(c)
      PROVE  Counted
  BY <1>3 DEF Fail, Repeat, StartupFails, RefundFails, FinishFails, ClaimResent, StartResent,
              RefundResent, FinishResent
<1>4. ASSUME NEW c \in Conn, NEW s \in Session, Connect(c, s)
      PROVE  Counted
  BY <1>4 DEF Connect, failures
<1>5. ASSUME NEW l \in Limits, SetAccessGrant(l)
      PROVE  Counted
  BY <1>5 DEF SetAccessGrant, failures
<1>6. MarkProfileDeleting \/ Crash \/ UNCHANGED vars => Counted
  BY DEF MarkProfileDeleting, Crash, vars, failures
<1> QED
  BY <1>1, <1>2, <1>3, <1>4, <1>5, <1>6 DEF Next, Converse

\* What is owed is finite, and costs at most one more slot with a claim, one
\* less with a refund.
LEMMA OwedChanges ==
  ASSUME TypeOK, OwedAreCounted,
         \/ Owed' \subseteq Owed /\ used' \in Nat /\ used' >= used
         \/ \E c \in Conn : Owed' = Owed \cup {c} /\ used' = used + 1
         \/ \E c \in Owed : Owed' \subseteq Owed \ {c} /\ used' \in Nat /\ used' >= used - 1
  PROVE  Cardinality(Owed)' <= used'
<1>1. IsFiniteSet(Owed) /\ Cardinality(Owed) \in Nat /\ Cardinality(Owed) <= used
  BY ConnAssumption, FS_Subset, FS_CardinalityType DEF Owed, OwedAreCounted
<1>2. used \in Nat
  BY DEF TypeOK
<1>3. CASE Owed' \subseteq Owed /\ used' \in Nat /\ used' >= used
  <2>1. Cardinality(Owed') \in Nat /\ Cardinality(Owed') <= Cardinality(Owed)
    BY <1>1, <1>3, FS_Subset, FS_CardinalityType
  <2> QED
    BY <1>1, <1>2, <1>3, <2>1
<1>4. ASSUME NEW c \in Conn, Owed' = Owed \cup {c}, used' = used + 1
      PROVE  Cardinality(Owed)' <= used'
  <2>1. Cardinality(Owed \cup {c}) \in {Cardinality(Owed), Cardinality(Owed) + 1}
    BY <1>1, FS_AddElement
  <2>2. Cardinality(Owed') <= used'
    BY <1>1, <1>2, <1>4, <2>1
  <2> QED
    BY <2>2
<1>5. ASSUME NEW c \in Owed, Owed' \subseteq Owed \ {c}, used' \in Nat, used' >= used - 1
      PROVE  Cardinality(Owed)' <= used'
  <2>1. IsFiniteSet(Owed \ {c}) /\ Cardinality(Owed \ {c}) = Cardinality(Owed) - 1
    BY <1>1, FS_RemoveElement
  <2>2. Cardinality(Owed') \in Nat /\ Cardinality(Owed') <= Cardinality(Owed) - 1
    BY <1>5, <2>1, FS_Subset, FS_CardinalityType
  <2>3. Cardinality(Owed') <= used'
    BY <1>1, <1>2, <1>5, <2>2
  <2> QED
    BY <2>3
<1> QED
  BY <1>3, <1>4, <1>5

\* Every step keeps the counter above what is owed, unless the SDK repeats one.
LEMMA OwedStaysCounted ==
  ASSUME TypeOK, OwedAreCounted, resends' = 0, [Next]_vars
  PROVE  OwedAreCounted'
<1> USE DEF TypeOK, Boot, Stop, Owed
<1> DEFINE Latches == \A c \in Conn :
      /\ stop[c] = "refund" => slot[c] = "refunded"
      /\ boot[c] \in {"off", "read", "cas"} => c \notin Owed
<1> DEFINE Same == Owed' \subseteq Owed /\ used' = used /\ Latches'
<1>0. Latches
  BY DEF OwedAreCounted
<1>1. ASSUME Same
      PROVE  OwedAreCounted'
  BY <1>1, OwedChanges DEF OwedAreCounted
<1>2. ASSUME NEW l \in Limits, SetAccessGrant(l)
      PROVE  Same
  BY <1>0, <1>2 DEF SetAccessGrant, startup, ending
<1>3. CASE MarkProfileDeleting \/ UNCHANGED vars
  BY <1>0, <1>1, <1>3 DEF MarkProfileDeleting, vars, profile, startup, ending
<1>4. ASSUME NEW c \in Conn, NEW s \in Session, Connect(c, s)
      PROVE  Same
  BY <1>0, <1>4 DEF Connect, profile, ending
<1>5. ASSUME NEW c \in Conn, ReadQuota(c) \/ StartInterview(c) \/ OpenStream(c)
      PROVE  Same
  BY <1>0, <1>5 DEF ReadQuota, StartInterview, StartFrame, OpenStream, profile, ending
<1>6. ASSUME NEW c \in Conn, ClaimInterviewSlot(c)
      PROVE  OwedAreCounted'
  <2>1. CASE Claim(c)
    <3>1. Owed' = Owed \cup {c} /\ used' = used + 1
      BY <1>0, <1>6, <2>1 DEF Claim, ClaimInterviewSlot, ClaimFrame, ending
    <3>2. Latches'
      BY <1>0, <1>6, <2>1 DEF Claim, ClaimInterviewSlot, ClaimFrame, ending
    <3> QED
      BY <3>1, <3>2, OwedChanges DEF OwedAreCounted
  <2>2. CASE ClaimLost(c) /\ UNCHANGED used
    BY <1>0, <1>1, <1>6, <2>2 DEF ClaimLost, ClaimInterviewSlot, ClaimFrame, ending
  <2> QED
    BY <1>6, <2>1, <2>2 DEF ClaimInterviewSlot
<1>7. ASSUME NEW c \in Conn, Converse(c)
      PROVE  Same
  BY <1>0, <1>7 DEF Converse, AppendAnswer, TurnEnds, WindowPasses, WriteLands,
                    profile, startup, ending
<1>8. ASSUME NEW c \in Conn, AbortStartup(c) \/ ReadScoredIds(c)
      PROVE  Same
  BY <1>0, <1>8 DEF AbortStartup, ReadScoredIds, CloseWith, LatchAndGo, RefundDue,
                    profile, startup
<1>9. ASSUME NEW c \in Conn, Shutdown(c)
      PROVE  Same
  BY <1>0, <1>9 DEF Shutdown, profile, startup
<1>10. ASSUME NEW c \in Conn, RefundInterviewSlot(c) \/ RefundFails(c)
       PROVE  OwedAreCounted'
  <2>1. used' \in Nat /\ used' >= used - 1
    BY <1>10 DEF RefundInterviewSlot, RefundFails, RefundStands
  <2>2. c \in Owed /\ Owed' \subseteq Owed \ {c} /\ Latches'
    BY <1>0, <1>10 DEF RefundInterviewSlot, RefundFails, AfterRefund, RefundFrame, startup
  <2> QED
    BY <2>1, <2>2, OwedChanges DEF OwedAreCounted
<1>11. ASSUME NEW c \in Conn, FinishInterview(c) \/ FinishFails(c) \/ Enqueue(c) \/ CloseStream(c)
       PROVE  Same
  BY <1>0, <1>11 DEF FinishInterview, FinishFails, FinishFrame, Enqueue, CloseStream,
                     profile, startup
<1>12. ASSUME NEW c \in Conn, StartupFails(c)
       PROVE  OwedAreCounted'
  <2>1. used' \in Nat /\ used' >= used
    BY <1>12 DEF StartupFails
  <2>2. Owed' \subseteq Owed /\ Latches'
    BY <1>0, <1>12 DEF StartupFails, ending
  <2> QED
    BY <2>1, <2>2, OwedChanges DEF OwedAreCounted
<1>13. ASSUME NEW c \in Conn, Repeat(c)
       PROVE  FALSE
  BY <1>13 DEF Repeat, ClaimResent, StartResent, RefundResent, FinishResent, Resend
<1>14. CASE Crash
  BY <1>0, <1>1, <1>14 DEF Crash, profile
<1> QED
  BY <1>1, <1>2, <1>3, <1>4, <1>5, <1>6, <1>7, <1>8, <1>9, <1>10, <1>11, <1>12, <1>13, <1>14
  DEF Next, Startup, Close, Fail

\* HoldersAreCounted: until the SDK repeats a write that was applied, whoever
\* holds a slot is counted, however claims, refunds and failures interleave.
THEOREM SlotsAreCounted == SafetySpec => []HoldersAreCounted
<1> DEFINE Inv == resends = 0 => OwedAreCounted
<1>1. Init => Inv
  <2> SUFFICES ASSUME Init PROVE OwedAreCounted
    OBVIOUS
  <2>1. Owed = {}
    BY DEF Init, Owed
  <2>2. Cardinality(Owed) <= used
    BY <2>1, FS_EmptySet DEF Init
  <2> QED
    BY <2>1, <2>2 DEF Init, OwedAreCounted
<1>2. TypeOK /\ Inv /\ [Next]_vars => Inv'
  <2> SUFFICES ASSUME TypeOK, Inv, [Next]_vars, resends' = 0 PROVE OwedAreCounted'
    OBVIOUS
  <2>1. UNCHANGED failures \/ Fault \/ Resend
    BY FailuresAreCounted
  <2>2. resends = 0
    BY <2>1 DEF Fault, Resend, failures, TypeOK
  <2> QED
    BY <2>2, OwedStaysCounted
<1>3. TypeOK /\ Inv => HoldersAreCounted
  <2> SUFFICES ASSUME TypeOK, OwedAreCounted, resends = 0 PROVE HoldersAreCounted
    BY DEF HoldersAreCounted
  <2>1. Holders \subseteq Owed /\ IsFiniteSet(Owed)
    BY ConnAssumption, FS_Subset DEF Holders, Owed
  <2>2. Cardinality(Holders) <= Cardinality(Owed) /\ Cardinality(Holders) \in Nat
          /\ Cardinality(Owed) \in Nat
    BY <2>1, FS_Subset, FS_CardinalityType
  <2> QED
    BY <2>2 DEF OwedAreCounted, HoldersAreCounted, EveryHolderIsCounted, TypeOK
<1> QED
  BY <1>1, <1>2, <1>3, TypeCorrect, PTL DEF SafetySpec

-----------------------------------------------------------------------------
(* Sessions and what is charged for them                                   *)

\* Only startInterview arms a connection, and only on a session that is ready,
\* which no session becomes again.
LEMMA SessionsStayTaken ==
  ASSUME TypeOK, SessionsAreTaken, [Next]_vars
  PROVE  SessionsAreTaken'
<1> USE DEF TypeOK, Boot, Stop, SessionsAreTaken, OneConnectionPerSession, Armed
<1> DEFINE Same ==
      /\ \A c \in Conn : Armed(c)' => Armed(c) /\ target'[c] = target[c]
      /\ \A s \in Session : status'[s] = "ready" => status[s] = "ready"
<1>1. ASSUME Same
      PROVE  SessionsAreTaken'
  <2>1. ASSUME NEW c \in Conn, Armed(c)'
        PROVE  status'[target'[c]] # "ready"
    <3>1. Armed(c) /\ target'[c] = target[c] /\ target[c] \in Session
      BY <1>1, <2>1
    <3> QED
      BY <1>1, <3>1
  <2>2. ASSUME NEW c \in Conn, NEW d \in Conn, Armed(c)', Armed(d)', target'[c] = target'[d]
        PROVE  c = d
    BY <1>1, <2>2
  <2> QED
    BY <2>1, <2>2
<1>2. ASSUME NEW c \in Conn, StartInterview(c)
      PROVE  SessionsAreTaken'
  <2>1. CASE status[target[c]] = "ready" /\ TakeSession(c) /\ Boot(c, "open")
    BY <1>2, <2>1 DEF StartInterview, TakeSession, StartFrame
  <2>2. CASE Boot(c, "failed") /\ UNCHANGED meta
    BY <1>1, <1>2, <2>2 DEF StartInterview, StartFrame, meta
  <2> QED
    BY <1>2, <2>1, <2>2 DEF StartInterview
<1>3. ASSUME NEW l \in Limits, SetAccessGrant(l)
      PROVE  Same
  BY <1>3 DEF SetAccessGrant, startup, meta
<1>4. MarkProfileDeleting \/ Crash \/ UNCHANGED vars => Same
  <2>1. MarkProfileDeleting \/ UNCHANGED vars => Same
    BY DEF MarkProfileDeleting, vars, startup, meta
  <2>2. Crash => Same
    BY DEF Crash, meta
  <2> QED
    BY <2>1, <2>2
<1>5. ASSUME NEW c \in Conn, NEW s \in Session, Connect(c, s)
      PROVE  Same
  BY <1>5 DEF Connect, meta
<1>6. ASSUME NEW c \in Conn, ReadQuota(c) \/ ClaimInterviewSlot(c) \/ ClaimResent(c)
      PROVE  Same
  BY <1>6 DEF ReadQuota, ClaimInterviewSlot, ClaimResent, Claim, ClaimLost, ClaimFrame, meta
<1>7. ASSUME NEW c \in Conn, OpenStream(c)
      PROVE  Same
  BY <1>7 DEF OpenStream, meta
<1>8. ASSUME NEW c \in Conn, StartupFails(c) \/ StartResent(c)
      PROVE  Same
  BY <1>8 DEF StartupFails, StartResent, StartFrame, TakeSession, meta
<1>9. ASSUME NEW c \in Conn, Converse(c)
      PROVE  Same
  BY <1>9 DEF Converse, AppendAnswer, TurnEnds, WindowPasses, WriteLands, startup, meta
<1>10. ASSUME NEW c \in Conn,
              \/ AbortStartup(c) \/ Shutdown(c) \/ ReadScoredIds(c)
              \/ RefundInterviewSlot(c) \/ RefundFails(c) \/ RefundResent(c)
              \/ Enqueue(c) \/ CloseStream(c)
       PROVE  Same
  BY <1>10 DEF AbortStartup, Shutdown, ReadScoredIds, CloseWith, RefundInterviewSlot,
               RefundFails, RefundResent, RefundFrame, Enqueue, CloseStream, startup, meta
<1>11. ASSUME NEW c \in Conn, FinishInterview(c) \/ FinishFails(c) \/ FinishResent(c)
       PROVE  Same
  BY <1>11 DEF FinishInterview, FinishFails, FinishResent, FinishWith, FinishFrame,
               startup, meta
<1> QED
  BY <1>1, <1>2, <1>3, <1>4, <1>5, <1>6, <1>7, <1>8, <1>9, <1>10, <1>11
  DEF Next, Startup, Close, Fail, Repeat

\* Two tabs never hold one session, whatever else fails or is repeated.
THEOREM OneConnection == SafetySpec => []OneConnectionPerSession
<1>1. Init => SessionsAreTaken
  BY DEF Init, SessionsAreTaken, OneConnectionPerSession, Armed
<1>2. TypeOK /\ SessionsAreTaken /\ [Next]_vars => SessionsAreTaken'
  BY SessionsStayTaken
<1>3. SessionsAreTaken => OneConnectionPerSession
  BY DEF SessionsAreTaken
<1> QED
  BY <1>1, <1>2, <1>3, TypeCorrect, PTL DEF SafetySpec

\* A charge is withdrawn only from an interview with nothing to score.
LEMMA RefundsStaySilent ==
  ASSUME TypeOK, RefundedSaidNothing, [Next]_vars
  PROVE  RefundedSaidNothing'
<1> USE DEF TypeOK, Boot, Stop, RefundedSaidNothing
<1> DEFINE Silent == \A c \in Conn :
      /\ stop[c] = "none" => list[c] = {}
      /\ stop[c] \in {"none", "flush"} => c \notin refunded
      /\ c \in refunded \/ stop[c] = "refund" => list[c] = {}
<1> DEFINE Billed == \A s \in Session :
      status[s] \in {"in_progress", "evaluating"} => s \in charged
<1>1. ASSUME NEW l \in Limits, SetAccessGrant(l)
      PROVE  RefundedSaidNothing'
  BY <1>1 DEF SetAccessGrant, ending, meta
<1>2. CASE MarkProfileDeleting \/ UNCHANGED vars
  BY <1>2 DEF MarkProfileDeleting, vars, ending, meta
<1>3. CASE Crash
  BY <1>3 DEF Crash, meta
<1>4. ASSUME NEW c \in Conn, NEW s \in Session, Connect(c, s)
      PROVE  RefundedSaidNothing'
  BY <1>4 DEF Connect, ending, meta
<1>5. ASSUME NEW c \in Conn,
             ReadQuota(c) \/ ClaimInterviewSlot(c) \/ ClaimResent(c) \/ OpenStream(c)
      PROVE  RefundedSaidNothing'
  BY <1>5 DEF ReadQuota, ClaimInterviewSlot, ClaimResent, ClaimFrame, OpenStream,
              ending, meta
<1>6. ASSUME NEW c \in Conn, StartInterview(c) \/ StartResent(c) \/ StartupFails(c)
      PROVE  RefundedSaidNothing'
  <2>1. TakeSession(c) \/ UNCHANGED meta
    BY <1>6 DEF StartInterview, StartResent, StartupFails, meta
  <2>2. UNCHANGED ending
    BY <1>6 DEF StartInterview, StartResent, StartupFails, StartFrame
  <2> QED
    BY <2>1, <2>2 DEF TakeSession, meta, ending
<1>7. ASSUME NEW c \in Conn, Converse(c)
      PROVE  RefundedSaidNothing'
  BY <1>7 DEF Converse, AppendAnswer, TurnEnds, WindowPasses, WriteLands, ending, meta
<1>8. ASSUME NEW c \in Conn, AbortStartup(c) \/ Shutdown(c)
      PROVE  RefundedSaidNothing'
  BY <1>8 DEF AbortStartup, Shutdown, LatchAndGo, meta
<1>9. ASSUME NEW c \in Conn, ReadScoredIds(c)
      PROVE  RefundedSaidNothing'
  BY <1>9 DEF ReadScoredIds, CloseWith, LatchAndGo, RefundDue, meta
<1>10. ASSUME NEW c \in Conn, RefundInterviewSlot(c) \/ RefundFails(c) \/ RefundResent(c)
       PROVE  RefundedSaidNothing'
  <2>1. UNCHANGED <<meta, list>> /\ stop[c] = "refund" /\ AfterRefund(c)
    BY <1>10 DEF RefundInterviewSlot, RefundFails, RefundResent, RefundFrame
  <2>2. refunded' \in {refunded, refunded \cup {c}}
    BY <1>10 DEF RefundInterviewSlot, RefundFails, RefundResent
  <2> QED
    BY <2>1, <2>2 DEF AfterRefund, meta
<1>11. ASSUME NEW c \in Conn, FinishInterview(c) \/ FinishFails(c) \/ FinishResent(c)
       PROVE  RefundedSaidNothing'
  <2>1. /\ UNCHANGED <<list, refunded>> /\ stop[c] = "finish"
        /\ stop' = [stop EXCEPT ![c] = "enqueue"] \/ stop' = [stop EXCEPT ![c] = "sonic"]
    BY <1>11 DEF FinishInterview, FinishFails, FinishResent, FinishFrame
  <2>2. Silent'
    BY <2>1
  <2>3. FinishWith(c, c \notin refunded) \/ UNCHANGED meta
    BY <1>11 DEF FinishInterview, FinishFails, FinishResent
  <2>4. status[target[c]] = "in_progress"
    BY <1>11 DEF FinishInterview, FinishFails, FinishResent
  <2>5. Billed'
    <3>1. CASE UNCHANGED meta
      BY <3>1 DEF meta
    <3>2. CASE FinishWith(c, c \notin refunded) /\ c \in refunded
      BY <3>2 DEF FinishWith
    <3>3. CASE FinishWith(c, c \notin refunded) /\ c \notin refunded
      <4>1. charged' = charged
        BY <3>3 DEF FinishWith
      <4>2. \A s \in Session : status'[s] \in {"in_progress", "evaluating"} =>
              status[s] \in {"in_progress", "evaluating"}
        BY <3>3, <2>1, <2>4 DEF FinishWith
      <4> QED
        BY <4>1, <4>2
    <3> QED
      BY <2>3, <3>1, <3>2, <3>3
  <2> QED
    BY <2>2, <2>5
<1>12. ASSUME NEW c \in Conn, Enqueue(c) \/ CloseStream(c)
       PROVE  RefundedSaidNothing'
  BY <1>12 DEF Enqueue, CloseStream, meta
<1> QED
  BY <1>1, <1>2, <1>3, <1>4, <1>5, <1>6, <1>7, <1>8, <1>9, <1>10, <1>11, <1>12
  DEF Next, Startup, Close, Fail, Repeat

\* A session whose answers go to be scored carries its charge.
THEOREM ScoredMeansCharged == SafetySpec => []ScoredIsCharged
<1>1. Init => RefundedSaidNothing
  BY DEF Init, RefundedSaidNothing
<1>2. TypeOK /\ RefundedSaidNothing /\ [Next]_vars => RefundedSaidNothing'
  BY RefundsStaySilent
<1>3. RefundedSaidNothing => ScoredIsCharged
  BY DEF RefundedSaidNothing, ScoredIsCharged
<1> QED
  BY <1>1, <1>2, <1>3, TypeCorrect, PTL DEF SafetySpec

-----------------------------------------------------------------------------
(* What the close path queues                                              *)

\* The list is read from the recorded answers, which only grow, and messages
\* are only made from the list.
LEMMA ListStaysStored ==
  ASSUME TypeOK, ListIsStored, [Next]_vars
  PROVE  ListIsStored'
<1> USE DEF TypeOK, ListIsStored
<1> DEFINE Same == UNCHANGED <<stored, queued, recorded, list>>
<1>1. ASSUME Same
      PROVE  ListIsStored'
  BY <1>1
<1>2. ASSUME NEW l \in Limits, SetAccessGrant(l)
      PROVE  Same
  BY <1>2 DEF SetAccessGrant, answers, talk, ending
<1>3. MarkProfileDeleting \/ UNCHANGED vars \/ Crash => Same
  BY DEF MarkProfileDeleting, Crash, vars, answers, talk, ending
<1>4. ASSUME NEW c \in Conn, NEW s \in Session, Connect(c, s)
      PROVE  Same
  BY <1>4 DEF Connect, answers, talk, ending
<1>5. ASSUME NEW c \in Conn, Startup(c)
      PROVE  Same
  BY <1>5 DEF Startup, ReadQuota, ClaimInterviewSlot, ClaimFrame, StartInterview, StartFrame,
              OpenStream, answers, talk, ending
<1>6. ASSUME NEW c \in Conn, Fail(c) \/ Repeat(c)
      PROVE  Same
  BY <1>6 DEF Fail, Repeat, StartupFails, RefundFails, FinishFails, ClaimResent, StartResent,
              RefundResent, FinishResent, ClaimFrame, StartFrame, RefundFrame, FinishFrame,
              answers, talk, ending
<1>7. ASSUME NEW c \in Conn, AppendAnswer(c) \/ TurnEnds(c) \/ WindowPasses(c)
      PROVE  Same
  BY <1>7 DEF AppendAnswer, TurnEnds, WindowPasses, answers, ending
<1>8. ASSUME NEW c \in Conn, NEW k \in Exchange, WriteLands(c, k)
      PROVE  ListIsStored'
  <2>1. UNCHANGED <<queued, list>>
    BY <1>8 DEF WriteLands, ending
  <2>2. CASE Record(c, k)
    BY <2>1, <2>2 DEF Record
  <2>3. CASE RecordFails(c, k)
    <3>1. recorded' = recorded
          /\ (stored' = stored \/ stored' = [stored EXCEPT ![c] = @ \cup {k}])
      BY <2>3 DEF RecordFails
    <3> QED
      BY <2>1, <3>1
  <2> QED
    BY <1>8, <2>2, <2>3 DEF WriteLands
<1>9. ASSUME NEW c \in Conn, AbortStartup(c) \/ Shutdown(c) \/ RefundInterviewSlot(c)
                               \/ FinishInterview(c) \/ CloseStream(c)
      PROVE  Same
  BY <1>9 DEF AbortStartup, Shutdown, RefundInterviewSlot, RefundFrame, FinishInterview,
              FinishFrame, CloseStream, answers, talk
<1>10. ASSUME NEW c \in Conn, ReadScoredIds(c)
       PROVE  ListIsStored'
  <2>1. stop[c] = "flush" /\ list' = [list EXCEPT ![c] = recorded[c]]
        /\ UNCHANGED <<stored, queued, recorded>>
    BY <1>10 DEF ReadScoredIds, CloseWith, answers
  <2> QED
    BY <2>1
<1>12. ASSUME NEW c \in Conn, Enqueue(c)
       PROVE  ListIsStored'
  <2>1. PICK part \in SUBSET list[c] : queued' = [queued EXCEPT ![c] = part]
    BY <1>12 DEF Enqueue
  <2> QED
    BY <1>12, <2>1 DEF Enqueue, talk
<1> QED
  BY <1>1, <1>2, <1>3, <1>4, <1>5, <1>6, <1>7, <1>8, <1>9, <1>10, <1>12
  DEF Next, Converse, Close

\* Every message stands for a stored, scoreable answer.
THEOREM MessagesHaveAnswers == SafetySpec => []QueuedAreStored
<1>1. Init => ListIsStored
  BY DEF Init, ListIsStored
<1>2. TypeOK /\ ListIsStored /\ [Next]_vars => ListIsStored'
  BY ListStaysStored
<1>3. TypeOK /\ ListIsStored => QueuedAreStored
  BY DEF ListIsStored, QueuedAreStored
<1> QED
  BY <1>1, <1>2, <1>3, TypeCorrect, PTL DEF SafetySpec

\* Without failures an answer is recorded with its write, and the shutdown
\* passes over those it did not wait for only.
LEMMA NothingIsForgotten ==
  ASSUME TypeOK, NothingForgotten, [Next]_vars
  PROVE  NothingForgotten'
<1> USE BoundAssumption DEF TypeOK, NothingForgotten, ListRead, Boot, Stop
<1>1. SUFFICES ASSUME (faults + resends = 0)'
               PROVE  NothingForgotten'
  OBVIOUS
<1>3. faults = 0 /\ resends = 0 /\ UNCHANGED failures
  <2>1. /\ faults' + resends' = 0 /\ faults \in Nat /\ resends \in Nat
        /\ UNCHANGED failures \/ Fault \/ Resend
    BY <1>1, FailuresAreCounted
  <2>2. ~Fault /\ ~Resend
    BY <2>1 DEF Fault, Resend
  <2> QED
    BY <2>1, <2>2 DEF failures
<1> DEFINE Kept(c) ==
      /\ stored[c] \cap Scoreable \subseteq recorded[c]
      /\ ListRead(c) => recorded[c] \subseteq list[c] \cup late[c] /\ writing[c] \subseteq late[c]
      /\ stop[c] \in {"sonic", "closed"} => queued[c] = list[c]
      /\ boot[c] \notin {"live", "broken"} =>
           /\ writing[c] = {} /\ recorded[c] = {} /\ list[c] = {}
           /\ queued[c] = {} /\ c \notin spoken
      /\ boot[c] = "failed" => stop[c] \in {"none", "refund", "closed"}
      /\ boot[c] \notin {"live", "broken", "failed"} => stop[c] = "none"
<1>4. \A c \in Conn : Kept(c)
  BY <1>3
<1>5. SUFFICES ASSUME NEW d \in Conn
               PROVE  Kept(d)'
  BY <1>3 DEF failures
<1>6. ASSUME NEW l \in Limits, SetAccessGrant(l)
      PROVE  Kept(d)'
  BY <1>4, <1>6 DEF SetAccessGrant, answers, startup, talk, ending
<1>7. ASSUME MarkProfileDeleting \/ UNCHANGED vars
      PROVE  Kept(d)'
  BY <1>4, <1>7 DEF MarkProfileDeleting, vars, answers, startup, talk, ending
<1>8. ASSUME NEW c \in Conn, NEW s \in Session, Connect(c, s)
      PROVE  Kept(d)'
  BY <1>4, <1>8 DEF Connect, answers, talk, ending
<1>9. ASSUME NEW c \in Conn, Startup(c)
      PROVE  Kept(d)'
  <2>1. UNCHANGED <<answers, talk, ending>> /\ boot[c] \in {"read", "cas", "start", "open"}
    BY <1>9 DEF Startup, ReadQuota, ClaimInterviewSlot, ClaimFrame, StartInterview,
                StartFrame, OpenStream
  <2>2. \E l \in {"read", "cas", "start", "open", "live", "broken", "failed", "refused"} :
          boot' = [boot EXCEPT ![c] = l]
    BY <1>9 DEF Startup, ReadQuota, ClaimInterviewSlot, Claim, ClaimLost, StartInterview,
                OpenStream
  <2> QED
    BY <1>4, <2>1, <2>2 DEF answers, talk, ending
<1>10. ASSUME NEW c \in Conn, Fail(c) \/ Repeat(c) \/ Crash
       PROVE  FALSE
  BY <1>3, <1>10 DEF Fail, Repeat, StartupFails, RefundFails, FinishFails, ClaimResent,
                     StartResent, RefundResent, FinishResent, Crash, Fault, Resend, failures
<1>11. ASSUME NEW c \in Conn, AppendAnswer(c) \/ WindowPasses(c)
       PROVE  Kept(d)'
  BY <1>4, <1>11 DEF AppendAnswer, WindowPasses, Listening, answers, startup, ending
<1>12. ASSUME NEW c \in Conn, TurnEnds(c)
       PROVE  Kept(d)'
  BY <1>4, <1>12 DEF TurnEnds, FlushExchange, Listening, answers, startup, ending
<1>13. ASSUME NEW c \in Conn, NEW k \in Exchange, WriteLands(c, k)
       PROVE  Kept(d)'
  <2>1. Record(c, k)
    BY <1>3, <1>13 DEF WriteLands, RecordFails, Fault, failures
  <2>2. /\ k \in writing[c] /\ writing' = [writing EXCEPT ![c] = @ \ {k}]
        /\ UNCHANGED <<queued, startup, ending, spoken, late>>
    BY <1>13 DEF WriteLands
  <2> QED
    BY <1>4, <2>1, <2>2 DEF Record, startup, ending
<1>14. ASSUME NEW c \in Conn, AbortStartup(c)
       PROVE  Kept(d)'
  BY <1>4, <1>14 DEF AbortStartup, LatchAndGo, answers, startup, talk
<1>15. ASSUME NEW c \in Conn, Shutdown(c)
       PROVE  Kept(d)'
  BY <1>4, <1>15 DEF Shutdown, FlushExchange, answers, startup
<1>16. ASSUME NEW c \in Conn, ReadScoredIds(c)
       PROVE  Kept(d)'
  BY <1>4, <1>16 DEF ReadScoredIds, CloseWith, LatchAndGo, answers, startup
<1>17. ASSUME NEW c \in Conn, RefundInterviewSlot(c)
       PROVE  Kept(d)'
  BY <1>4, <1>17 DEF RefundInterviewSlot, AfterRefund, RefundFrame, answers, startup, talk
<1>18. ASSUME NEW c \in Conn, FinishInterview(c) \/ CloseStream(c)
       PROVE  Kept(d)'
  BY <1>4, <1>18 DEF FinishInterview, FinishFrame, CloseStream, answers, startup, talk
<1>19. ASSUME NEW c \in Conn, Enqueue(c)
       PROVE  Kept(d)'
  <2>1. queued' = [queued EXCEPT ![c] = list[c]]
    BY <1>3, <1>19 DEF Enqueue, Fault, failures
  <2> QED
    BY <1>4, <1>19, <2>1 DEF Enqueue, startup, talk
<1> QED
  BY <1>6, <1>7, <1>8, <1>9, <1>10, <1>11, <1>12, <1>13, <1>14, <1>15, <1>16, <1>17, <1>18, <1>19
  DEF Next, Converse, Close

\* OnlyLateAnswersMissed: without failures the close path queues every
\* scoreable answer it had time to wait for.
THEOREM AnswersAreQueued == SafetySpec => []OnlyLateAnswersMissed
<1>1. Init => NothingForgotten
  BY DEF Init, NothingForgotten, ListRead
<1>2. TypeOK /\ NothingForgotten /\ [Next]_vars => NothingForgotten'
  BY NothingIsForgotten
<1>3. TypeOK /\ NothingForgotten => OnlyLateAnswersMissed
  BY DEF TypeOK, NothingForgotten, OnlyLateAnswersMissed, ListRead
<1> QED
  BY <1>1, <1>2, <1>3, TypeCorrect, PTL DEF SafetySpec

-----------------------------------------------------------------------------
(* The refund is decided once, and the two records of it agree.            *)

\* Whether a refund is due can only turn from yes to no after the decision.
LEMMA DecisionsStay ==
  ASSUME TypeOK, DueStaysDecided, [Next]_vars
  PROVE  DueStaysDecided'
<1> USE DEF TypeOK, Boot, Stop
<1> DEFINE Decided(d) ==
      /\ stop[d] = "finish" => slot[d] # "claimed" \/ recorded[d] # {} \/ d \in overtime
      /\ boot[d] \in {"off", "read", "cas", "start", "refused"} => stop[d] = "none"
      /\ stop[d] = "refund" => slot[d] = "refunded"
<1>1. \A d \in Conn : Decided(d)
  BY DEF DueStaysDecided, CatchHasNoRefund, RefundDue, Unconnected
<1>2. SUFFICES ASSUME NEW d \in Conn
               PROVE  Decided(d)'
  BY DEF DueStaysDecided, CatchHasNoRefund, RefundDue, Unconnected
<1>3. ASSUME NEW l \in Limits, SetAccessGrant(l)
      PROVE  Decided(d)'
  BY <1>1, <1>3 DEF SetAccessGrant, startup, talk, ending
<1>4. CASE MarkProfileDeleting \/ UNCHANGED vars
  BY <1>1, <1>4 DEF MarkProfileDeleting, vars, startup, talk, ending
<1>5. CASE Crash
  BY <1>1, <1>5 DEF Crash
<1>6. ASSUME NEW c \in Conn, NEW s \in Session, Connect(c, s)
      PROVE  Decided(d)'
  BY <1>1, <1>6 DEF Connect, talk, ending
<1>7. ASSUME NEW c \in Conn, Startup(c) \/ ClaimResent(c) \/ StartResent(c) \/ StartupFails(c)
      PROVE  Decided(d)'
  <2>1. boot[c] \in {"read", "cas", "start", "open"} /\ UNCHANGED <<talk, ending>>
    BY <1>7 DEF Startup, ReadQuota, ClaimInterviewSlot, ClaimResent, ClaimFrame, StartInterview,
                StartResent, StartFrame, StartupFails, OpenStream
  <2>2. \E l : boot' = [boot EXCEPT ![c] = l] /\ (boot[c] = "open" => l \in {"live", "broken"})
    BY <1>7 DEF Startup, ReadQuota, ClaimInterviewSlot, ClaimResent, Claim, ClaimLost,
                StartInterview, StartResent, StartupFails, OpenStream
  <2>3. slot' = slot \/ (boot[c] = "cas" /\ slot' = [slot EXCEPT ![c] = "claimed"])
    BY <1>7 DEF Startup, ReadQuota, ClaimInterviewSlot, ClaimResent, Claim, ClaimLost,
                StartInterview, StartResent, StartFrame, StartupFails, OpenStream
  <2> QED
    BY <1>1, <2>1, <2>2, <2>3 DEF talk, ending
<1>8. ASSUME NEW c \in Conn, AppendAnswer(c) \/ TurnEnds(c) \/ WindowPasses(c)
      PROVE  Decided(d)'
  BY <1>1, <1>8 DEF AppendAnswer, TurnEnds, WindowPasses, startup, ending
<1>9. ASSUME NEW c \in Conn, NEW k \in Exchange, WriteLands(c, k)
      PROVE  Decided(d)'
  <2>1. recorded[d] \subseteq recorded'[d]
    BY <1>9 DEF WriteLands, Record, RecordFails
  <2> QED
    BY <1>1, <1>9, <2>1 DEF WriteLands, startup, ending
<1>10. ASSUME NEW c \in Conn, AbortStartup(c)
       PROVE  Decided(d)'
  BY <1>1, <1>10 DEF AbortStartup, LatchAndGo, startup, talk
<1>11. ASSUME NEW c \in Conn, Shutdown(c)
       PROVE  Decided(d)'
  BY <1>1, <1>11 DEF Shutdown, startup
<1>12. ASSUME NEW c \in Conn, ReadScoredIds(c)
       PROVE  Decided(d)'
  BY <1>1, <1>12 DEF ReadScoredIds, CloseWith, LatchAndGo, RefundDue, startup
<1>13. ASSUME NEW c \in Conn, RefundInterviewSlot(c) \/ RefundFails(c) \/ RefundResent(c)
       PROVE  Decided(d)'
  <2>1. /\ stop[c] = "refund" /\ AfterRefund(c)
        /\ UNCHANGED <<boot, slot, recorded, overtime>>
    BY <1>13 DEF RefundInterviewSlot, RefundFails, RefundResent, RefundFrame, startup, talk
  <2> QED
    BY <1>1, <2>1 DEF AfterRefund
<1>14. ASSUME NEW c \in Conn, \/ FinishInterview(c) \/ FinishFails(c) \/ FinishResent(c)
                              \/ Enqueue(c) \/ CloseStream(c)
       PROVE  Decided(d)'
  BY <1>1, <1>14 DEF FinishInterview, FinishFails, FinishResent, FinishFrame, Enqueue,
                     CloseStream, startup, talk
<1> QED
  BY <1>3, <1>4, <1>5, <1>6, <1>7, <1>8, <1>9, <1>10, <1>11, <1>12, <1>13, <1>14
  DEF Next, Converse, Close, Fail, Repeat

\* FinishFails leaves out the refund the code tries again when the finishing
\* write throws: it is never due, for any number of failures and repeats.
THEOREM NoRefundIsLeft == SafetySpec => []CatchHasNoRefund
<1>1. Init => DueStaysDecided
  BY DEF Init, DueStaysDecided, CatchHasNoRefund, Unconnected
<1>2. TypeOK /\ DueStaysDecided /\ [Next]_vars => DueStaysDecided'
  BY DecisionsStay
<1>3. DueStaysDecided => CatchHasNoRefund
  BY DEF DueStaysDecided
<1> QED
  BY <1>1, <1>2, <1>3, TypeCorrect, PTL DEF SafetySpec

\* No step makes an account active again.
LEMMA ErasureIsFinal ==
  ASSUME [Next]_vars, account' = "active"
  PROVE  account = "active"
<1>1. ASSUME NEW c \in Conn, Startup(c) \/ Converse(c) \/ Fail(c) \/ Repeat(c)
      PROVE  account' = account
  BY <1>1 DEF Startup, ReadQuota, ClaimInterviewSlot, ClaimFrame, StartInterview, StartFrame,
              OpenStream, Converse, AppendAnswer, TurnEnds, WindowPasses, WriteLands, Fail,
              StartupFails, RefundFails, FinishFails, RefundFrame, FinishFrame, Repeat,
              ClaimResent, StartResent, RefundResent, FinishResent, profile
<1>2. ASSUME NEW c \in Conn, Close(c)
      PROVE  account' = account
  BY <1>2 DEF Close, AbortStartup, Shutdown, ReadScoredIds, CloseWith, RefundInterviewSlot,
              RefundFrame, FinishInterview, FinishFrame, Enqueue, CloseStream, profile
<1>3. ASSUME NEW c \in Conn, NEW s \in Session, Connect(c, s)
      PROVE  account' = account
  BY <1>3 DEF Connect, profile
<1> QED
  BY <1>1, <1>2, <1>3 DEF Next, SetAccessGrant, MarkProfileDeleting, Crash, vars, profile

\* Without failures every claim adds a slot to what is owed and to the counter,
\* every refund takes one from both, and every session started or refunded moves
\* one payer: the inductive step of CounterMatchesRecords.
LEMMA LedgersStayEqual ==
  ASSUME TypeOK, OwedAreCounted, SessionsAreTaken, RefundedSaidNothing, NothingForgotten,
         LedgersAgree, account = "active", faults + resends = 0, UNCHANGED failures,
         [Next]_vars
  PROVE  LedgersAgree'
<1> USE DEF TypeOK, Boot, Stop, Armed
<1> DEFINE Told(d) ==
      /\ boot[d] # "dead" /\ (d \in overtime => boot[d] = "live")
      /\ boot[d] \in {"off", "read", "cas", "refused"} => slot[d] = "none"
      /\ boot[d] = "start" => slot[d] = "claimed"
      /\ Armed(d) => slot[d] # "none"
      /\ Armed(d) /\ slot[d] = "refunded" => stop[d] = "refund" \/ d \in refunded
      /\ d \in refunded => slot[d] = "refunded" /\ stop[d] # "refund"
      /\ boot[d] = "failed" /\ stop[d] = "closed" => slot[d] # "claimed"
<1> DEFINE Paid == {target[c] : c \in Payers}
<1> DEFINE Tidy == \A d \in Conn : Told(d)
<1>0. /\ used = Cardinality(Owed) /\ charged = Paid /\ Tidy
      /\ faults = 0 /\ resends = 0
      /\ IsFiniteSet(Owed) /\ Cardinality(Owed) \in Nat
  <2>1. IsFiniteSet(Owed)
    BY ConnAssumption, FS_Subset DEF Owed
  <2> QED
    BY <2>1, FS_CardinalityType DEF LedgersAgree
<1>00. \A d \in Conn :
         /\ boot[d] \notin {"live", "broken", "failed"} => stop[d] = "none"
         /\ boot[d] = "failed" => stop[d] \in {"none", "refund", "closed"}
         /\ stop[d] \in {"none", "flush"} => d \notin refunded
         /\ stop[d] = "refund" => slot[d] = "refunded"
         /\ boot[d] \in {"off", "read", "cas"} => d \notin Owed
  BY <1>0 DEF NothingForgotten, RefundedSaidNothing, OwedAreCounted
<1>1. ASSUME used' = Cardinality(Owed)', charged' = Paid', Tidy'
      PROVE  LedgersAgree'
  BY <1>1 DEF LedgersAgree
<1> HIDE DEF Tidy
<1> DEFINE Quiet ==
      /\ UNCHANGED <<used, charged>> /\ Owed' = Owed /\ Payers' = Payers
      /\ \A d \in Payers : target'[d] = target[d]
<1>2. ASSUME Quiet, Tidy'
      PROVE  LedgersAgree'
  <2>1. Paid' = Paid
    BY <1>2
  <2> QED
    BY <1>0, <1>1, <1>2, <2>1
<1> USE DEF Tidy
<1>3. ASSUME NEW l \in Limits, SetAccessGrant(l)
      PROVE  Quiet /\ Tidy'
  BY <1>0, <1>3 DEF SetAccessGrant, startup, talk, ending, meta, Owed, Payers
<1>4. ASSUME MarkProfileDeleting \/ UNCHANGED vars
      PROVE  Quiet /\ Tidy'
  BY <1>0, <1>4 DEF MarkProfileDeleting, vars, profile, startup, talk, ending, meta, Owed, Payers
<1>5. ASSUME NEW c \in Conn, NEW s \in Session, Connect(c, s)
      PROVE  Quiet /\ Tidy'
  BY <1>0, <1>00, <1>5 DEF Connect, profile, talk, ending, meta, Owed, Payers
<1>6. ASSUME NEW c \in Conn, ReadQuota(c) \/ OpenStream(c)
      PROVE  Quiet /\ Tidy'
  BY <1>0, <1>00, <1>6 DEF ReadQuota, OpenStream, profile, talk, ending, meta, Owed, Payers
<1>7. ASSUME NEW c \in Conn, ClaimInterviewSlot(c)
      PROVE  LedgersAgree'
  <2>1. CASE Claim(c)
    <3>1. Owed' = Owed \cup {c} /\ used' = used + 1 /\ c \notin Owed
      BY <1>00, <1>7, <2>1 DEF Claim, ClaimInterviewSlot, ClaimFrame, ending, Owed
    <3>2. used' = Cardinality(Owed)'
      BY <1>0, <3>1, FS_AddElement
    <3>3. Tidy' /\ Payers' = Payers /\ UNCHANGED <<charged, target>>
      BY <1>0, <1>00, <1>7, <2>1 DEF Claim, ClaimInterviewSlot, ClaimFrame, meta, talk, ending, Payers
    <3>4. Paid' = Paid
      BY <3>3
    <3> QED
      BY <1>0, <1>1, <3>2, <3>3, <3>4
  <2>2. CASE ClaimLost(c) /\ UNCHANGED used
    <3>1. Quiet /\ Tidy'
      BY <1>0, <1>00, <1>7, <2>2 DEF ClaimLost, ClaimInterviewSlot, ClaimFrame, meta, talk,
                                     ending, Owed, Payers
    <3> QED
      BY <1>2, <3>1
  <2> QED
    BY <1>7, <2>1, <2>2 DEF ClaimInterviewSlot
<1>8. ASSUME NEW c \in Conn, StartInterview(c)
      PROVE  LedgersAgree'
  <2>1. CASE TakeSession(c) /\ Boot(c, "open")
    <3>1. Owed' = Owed /\ UNCHANGED <<used, target>> /\ Payers' = Payers \cup {c}
      BY <1>00, <1>8, <2>1 DEF StartInterview, StartFrame, profile, ending, Owed, Payers
    <3>2. Tidy'
      BY <1>0, <1>00, <1>8, <2>1 DEF StartInterview, StartFrame, talk, ending
    <3>3. charged' = charged \cup {target[c]}
      BY <2>1 DEF TakeSession
    <3>4. Paid' = Paid \cup {target[c]}
      BY <3>1
    <3>5. charged' = Paid'
      BY <1>0, <3>3, <3>4
    <3>6. used' = Cardinality(Owed)'
      BY <1>0, <3>1
    <3> QED
      BY <1>1, <3>2, <3>5, <3>6
  <2>2. CASE Boot(c, "failed") /\ UNCHANGED meta
    <3>1. Quiet /\ Tidy'
      BY <1>0, <1>00, <1>8, <2>2 DEF StartInterview, StartFrame, meta, profile, talk, ending,
                                     Owed, Payers
    <3> QED
      BY <1>2, <3>1
  <2> QED
    BY <1>8, <2>1, <2>2 DEF StartInterview
<1>9. ASSUME NEW c \in Conn, Converse(c)
      PROVE  Quiet /\ Tidy'
  <2>1. UNCHANGED <<profile, meta, startup, slot, ending>>
    BY <1>9 DEF Converse, AppendAnswer, TurnEnds, WindowPasses, WriteLands
  <2>2. overtime' = overtime \/ (boot[c] = "live" /\ overtime' = overtime \cup {c})
    BY <1>9 DEF Converse, AppendAnswer, TurnEnds, WindowPasses, WriteLands
  <2> QED
    BY <1>0, <2>1, <2>2 DEF profile, meta, startup, ending, Owed, Payers
<1>10. ASSUME NEW c \in Conn, AbortStartup(c)
       PROVE  Quiet /\ Tidy'
  BY <1>0, <1>00, <1>10 DEF AbortStartup, LatchAndGo, RefundDue, profile, meta, startup, talk,
                            Owed, Payers
<1>11. ASSUME NEW c \in Conn, Shutdown(c)
       PROVE  Quiet /\ Tidy'
  BY <1>0, <1>00, <1>11 DEF Shutdown, profile, meta, startup, Owed, Payers
<1>12. ASSUME NEW c \in Conn, ReadScoredIds(c)
       PROVE  Quiet /\ Tidy'
  BY <1>0, <1>00, <1>12 DEF ReadScoredIds, CloseWith, LatchAndGo, RefundDue, profile, meta,
                            startup, Owed, Payers
<1>13. ASSUME NEW c \in Conn, RefundInterviewSlot(c)
       PROVE  LedgersAgree'
  <2>1. c \in Owed
    BY <1>13 DEF RefundInterviewSlot, Owed
  <2>2. Cardinality(Owed \ {c}) = Cardinality(Owed) - 1 /\ Cardinality(Owed \ {c}) \in Nat
    BY <1>0, <2>1, FS_RemoveElement, FS_CardinalityType
  <2>3. used > 0 /\ used' = used - 1 /\ refunded' = refunded \cup {c}
    BY <1>0, <1>13, <2>2 DEF RefundInterviewSlot, RefundStands
  <2>4. Owed' = Owed \ {c}
    BY <1>00, <1>13 DEF RefundInterviewSlot, AfterRefund, RefundFrame, Owed
  <2>5. used' = Cardinality(Owed)'
    BY <1>0, <2>2, <2>3, <2>4
  <2>6. Tidy'
    BY <1>0, <1>00, <1>13, <2>3 DEF RefundInterviewSlot, AfterRefund, RefundFrame, startup, talk
  <2>7. Payers' = Payers /\ UNCHANGED <<target, charged>>
    BY <1>0, <1>00, <1>13, <2>3 DEF RefundInterviewSlot, AfterRefund, RefundFrame, startup,
                                    meta, Payers
  <2>8. charged' = Paid'
    BY <1>0, <2>7
  <2> QED
    BY <1>1, <2>5, <2>6, <2>8
<1>14. ASSUME NEW c \in Conn, FinishInterview(c)
       PROVE  LedgersAgree'
  <2>1. Owed' = Owed /\ UNCHANGED <<used, target, boot, slot, refunded>> /\ Armed(c)
    BY <1>00, <1>14 DEF FinishInterview, FinishFrame, profile, startup, Owed
  <2>2. used' = Cardinality(Owed)'
    BY <1>0, <2>1
  <2>3. Tidy'
    BY <1>0, <1>14 DEF FinishInterview, FinishFrame, startup, talk
  <2>4. Payers' = IF c \in refunded THEN Payers \ {c} ELSE Payers
    BY <1>0, <1>14, <2>1 DEF FinishInterview, Payers
  <2>5. charged' = IF c \in refunded THEN charged \ {target[c]} ELSE charged
    BY <1>14 DEF FinishInterview, FinishWith
  <2>6. \A d \in Payers : d # c => target[d] # target[c]
    BY <2>1 DEF Payers, SessionsAreTaken, OneConnectionPerSession
  <2>7. charged' = Paid'
    <3>1. CASE c \in refunded
      <4>1. Paid' = {target[d] : d \in Payers \ {c}}
        BY <2>1, <2>4, <3>1
      <4>2. {target[d] : d \in Payers \ {c}} = Paid \ {target[c]}
        BY <2>6
      <4> QED
        BY <1>0, <2>5, <3>1, <4>1, <4>2
    <3>2. CASE c \notin refunded
      <4>1. Paid' = Paid
        BY <2>1, <2>4, <3>2
      <4> QED
        BY <1>0, <2>5, <3>2, <4>1
    <3> QED
      BY <3>1, <3>2
  <2> QED
    BY <1>1, <2>2, <2>3, <2>7
<1>15. ASSUME NEW c \in Conn, Enqueue(c) \/ CloseStream(c)
       PROVE  Quiet /\ Tidy'
  BY <1>0, <1>00, <1>15 DEF Enqueue, CloseStream, profile, meta, startup, talk, Owed, Payers
<1>16. ASSUME NEW c \in Conn, Fail(c) \/ Repeat(c) \/ Crash
       PROVE  FALSE
  BY <1>0, <1>16 DEF Fail, Repeat, StartupFails, RefundFails, FinishFails, ClaimResent,
                     StartResent, RefundResent, FinishResent, Crash, Fault, Resend, failures
<1> HIDE DEF TypeOK, Boot, Stop, Armed, Told, Tidy, Paid, Quiet
<1>17. ASSUME NEW c \in Conn, Startup(c) \/ Converse(c) \/ Close(c)
       PROVE  LedgersAgree'
  BY <1>2, <1>6, <1>7, <1>8, <1>9, <1>10, <1>11, <1>12, <1>13, <1>14, <1>15, <1>17
  DEF Startup, Close
<1> QED
  BY <1>2, <1>3, <1>4, <1>5, <1>16, <1>17 DEF Next, Crash

\* Once every connection is over, whoever owes a slot has paid with a session,
\* and no two with the same one.
LEMMA LedgersBalance ==
  ASSUME TypeOK, SessionsAreTaken, NothingForgotten, LedgersAgree
  PROVE  CounterMatchesRecords
<1> SUFFICES ASSUME account = "active", faults + resends = 0, \A c \in Conn : Over(c)
             PROVE  used = Cardinality(charged)
  BY DEF CounterMatchesRecords
<1>1. Owed = Payers
  <2> SUFFICES ASSUME NEW c \in Conn
               PROVE  c \in Owed <=> c \in Payers
    BY DEF Owed, Payers
  <2>1. boot[c] \in {"off", "refused"} \/ (stop[c] = "closed" /\ boot[c] \in {"live", "broken", "failed"})
    BY DEF Over, NothingForgotten
  <2>2. boot[c] \in {"off", "refused"} => slot[c] = "none" /\ stop[c] = "none"
    BY DEF LedgersAgree, NothingForgotten
  <2>3. boot[c] = "failed" /\ stop[c] = "closed" => slot[c] # "claimed"
    BY DEF LedgersAgree
  <2>4. Armed(c) /\ stop[c] = "closed" => (slot[c] = "claimed" <=> c \notin refunded)
    BY DEF LedgersAgree, TypeOK
  <2> QED
    BY <2>1, <2>2, <2>3, <2>4 DEF Owed, Payers, Armed
<1>2. used = Cardinality(Payers) /\ charged = {target[c] : c \in Payers} /\ IsFiniteSet(Payers)
  BY <1>1, ConnAssumption, FS_Subset DEF LedgersAgree, Payers
<1> DEFINE f == [c \in Payers |-> target[c]]
<1>3. f \in Bijection(Payers, charged)
  <2>1. \A c, d \in Payers : target[c] = target[d] => c = d
    BY DEF Payers, SessionsAreTaken, OneConnectionPerSession
  <2>2. f \in [Payers -> charged]
    BY <1>2
  <2>3. \A c, d \in Payers : f[c] = f[d] => c = d
    BY <2>1
  <2>4. \A s \in charged : \E c \in Payers : f[c] = s
    BY <1>2
  <2> QED
    BY <2>2, <2>3, <2>4, Fun_IsBij
<1>4. ExistsBijection(Payers, charged)
  BY <1>3 DEF ExistsBijection
<1> QED
  BY <1>2, <1>4, FS_Bijection

\* CounterMatchesRecords, for any number of tabs and sessions: when all are over
\* and nothing failed, sessionsConducted is the number of sessions charged.
THEOREM RecordsMatch == SafetySpec => []CounterMatchesRecords
<1> DEFINE Calm == faults + resends = 0
<1> DEFINE Inv ==
      /\ SessionsAreTaken /\ RefundedSaidNothing /\ NothingForgotten
      /\ Calm => OwedAreCounted
      /\ LedgersAgree
<1>1. Init => Inv
  <2> SUFFICES ASSUME Init PROVE Inv
    OBVIOUS
  <2>1. Owed = {} /\ Payers = {}
    BY DEF Init, Owed, Payers, Armed
  <2>2. Cardinality(Owed) = 0
    BY <2>1, FS_EmptySet
  <2>3. OwedAreCounted
    BY <2>1, <2>2 DEF Init, OwedAreCounted
  <2>4. LedgersAgree
    BY <2>1, <2>2 DEF Init, LedgersAgree, Armed
  <2>5. SessionsAreTaken
    BY DEF Init, SessionsAreTaken, OneConnectionPerSession, Armed
  <2>6. RefundedSaidNothing /\ NothingForgotten
    BY DEF Init, RefundedSaidNothing, NothingForgotten, ListRead
  <2> QED
    BY <2>3, <2>4, <2>5, <2>6
<1>2. TypeOK /\ Inv /\ [Next]_vars => Inv'
  <2> SUFFICES ASSUME TypeOK, Inv, [Next]_vars PROVE Inv'
    OBVIOUS
  <2>1. SessionsAreTaken' /\ RefundedSaidNothing' /\ NothingForgotten'
    BY SessionsStayTaken, RefundsStaySilent, NothingIsForgotten
  <2>2. Calm' => Calm /\ UNCHANGED failures /\ resends' = 0
    <3>1. UNCHANGED failures \/ Fault \/ Resend
      BY FailuresAreCounted
    <3>2. faults \in Nat /\ resends \in Nat
      BY BoundAssumption DEF TypeOK
    <3> QED
      BY <3>1, <3>2 DEF Fault, Resend, failures
  <2>3. Calm' => OwedAreCounted'
    BY <2>2, OwedStaysCounted
  <2>4. LedgersAgree'
    <3>1. CASE Calm' /\ account' = "active"
      BY <2>2, <3>1, ErasureIsFinal, LedgersStayEqual
    <3>2. CASE ~(Calm' /\ account' = "active")
      BY <3>2 DEF LedgersAgree
    <3> QED
      BY <3>1, <3>2
  <2> QED
    BY <2>1, <2>3, <2>4
<1>3. TypeOK /\ Inv => CounterMatchesRecords
  BY LedgersBalance
<1> QED
  BY <1>1, <1>2, <1>3, TypeCorrect, PTL DEF SafetySpec

\* The counter stays within the allowance, counts every holder, and is not
\* given back by an interview that is scored.
THEOREM CounterHolds == SafetySpec => []CounterIsHonest
BY QuotaHolds, SlotsAreCounted, ScoredMeansCharged, PTL DEF CounterIsHonest

\* What is queued is stored, and what is not queued came late.
THEOREM AnswersArrive == SafetySpec => []AnswersReachScoring
BY MessagesHaveAnswers, AnswersAreQueued, PTL DEF AnswersReachScoring
=============================================================================
