----------------------------- MODULE Interview -----------------------------
(***************************************************************************)
(* The interview connections of one account: each WebSocket claims a slot  *)
(* of the candidate's quota by compare-and-swap, takes a session, records  *)
(* exchanges as they close, and is shut down once, giving the slot back if *)
(* nothing scoreable was said in time.  Tabs, reconnects and an            *)
(* administrator's grants run concurrently.                                *)
(*                                                                         *)
(* One step per DynamoDB request; the synchronous code between two awaits  *)
(* belongs to the step before it.  The nth exchange of a connection stands *)
(* for a questionId; sessions are taken by one connection at most, so a    *)
(* session's answers and messages are kept under its connection.           *)
(***************************************************************************)
EXTENDS Naturals, FiniteSets

CONSTANTS
  Conn,          \* WebSocket connections
  Session,       \* sessions of the account that carry a plan
  NoSession,
  Allowance,     \* session limits an administrator may grant, or the default again
  DefaultLimit,  \* DEFAULT_SESSIONS, in force at first
  Unlimited,     \* the allowance of an account with unlimitedAccess
  MaxAttempts,   \* CLAIM_MAX_ATTEMPTS
  MaxExchanges,  \* bound on the exchanges of one connection
  Scoreable,     \* exchanges classifyAnswer finds scoreable
  Erasable,      \* TRUE: the account may be marked for erasure
  MaxFaults,     \* bound on failed requests and crashes
  MaxResends     \* bound on writes the SDK repeats after a lost response

ASSUME ConnAssumption    == IsFiniteSet(Conn)
ASSUME SessionAssumption == IsFiniteSet(Session) /\ NoSession \notin Session
ASSUME LimitAssumption   ==
  Unlimited \notin Nat /\ DefaultLimit \in Nat /\ Allowance \subseteq Nat \cup {Unlimited}
ASSUME BoundAssumption   ==
  /\ MaxAttempts \in Nat \ {0} /\ MaxExchanges \in Nat
  /\ MaxFaults \in Nat /\ MaxResends \in Nat
ASSUME ScoreAssumption   == Scoreable \subseteq 1..MaxExchanges /\ Erasable \in BOOLEAN

VARIABLES
  \* the PROFILE item
  account,    \* "active", or "deleting" once marked (or a tombstone)
  used,       \* sessionsConducted
  limit,      \* sessionLimit, or Unlimited
  \* the META item of each session
  status,
  charged,    \* sessions with a chargedAt
  \* the ANSWER items and the evaluation messages, by connection
  stored, queued,
  \* each connection: startup
  boot, target, tries, seen, slot,
  \* ... the conversation
  spoken,     \* the ExchangeBuffer holds an answer
  taken,      \* exchanges taken from the buffer
  writing,    \* exchanges whose recordAnswer has not returned
  recorded,   \* exchanges known to be stored and scoreable
  overtime,   \* the refund window has passed
  \* ... and the shutdown
  stop,
  last,       \* the exchange its flush took, 0 if none
  list,       \* the questionIds it read, to queue
  refunded,
  faults, resends,
  \* history: the allowances ever in force, and the exchanges the shutdown did
  \* not wait for: still being written, or not yet over, when it read its list
  allowed, late

profile  == <<account, used, limit, allowed>>
meta     == <<status, charged>>
answers  == <<stored, queued>>
startup  == <<boot, target, tries, seen>>
talk     == <<spoken, taken, writing, recorded, overtime, late>>
ending   == <<stop, last, list, refunded>>
failures == <<faults, resends>>
vars     == <<profile, meta, answers, startup, slot, talk, ending, failures>>

Exchange == 1..MaxExchanges
Limits   == Allowance \cup {DefaultLimit}

TypeOK ==
  /\ account \in {"active", "deleting"}
  /\ used \in Nat /\ limit \in Limits /\ allowed \subseteq Limits
  /\ status \in [Session -> {"ready", "in_progress", "evaluating", "complete"}]
  /\ charged \subseteq Session
  /\ stored \in [Conn -> SUBSET Exchange] /\ queued \in [Conn -> SUBSET Exchange]
  /\ boot \in [Conn -> {"off", "read", "cas", "start", "open", "live",
                        "refused", "failed", "broken", "dead"}]
  /\ target \in [Conn -> Session \cup {NoSession}]
  /\ \A c \in Conn : boot[c] # "off" => target[c] \in Session
  /\ tries \in [Conn -> 0..MaxAttempts]
  /\ \A c \in Conn : boot[c] \in {"off", "read", "cas"} => tries[c] < MaxAttempts
  /\ seen \in [Conn -> [used : Nat, limit : Limits]]
  /\ slot \in [Conn -> {"none", "claimed", "refunded"}]
  /\ spoken \subseteq Conn /\ taken \in [Conn -> 0..MaxExchanges]
  /\ \A c \in spoken : taken[c] < MaxExchanges
  /\ writing \in [Conn -> SUBSET Exchange] /\ recorded \in [Conn -> SUBSET Exchange]
  /\ overtime \subseteq Conn /\ late \in [Conn -> SUBSET Exchange]
  /\ stop \in [Conn -> {"none", "flush", "refund", "finish", "enqueue",
                        "sonic", "closed"}]
  /\ last \in [Conn -> 0..MaxExchanges]
  /\ list \in [Conn -> SUBSET Exchange] /\ refunded \subseteq Conn
  /\ faults \in 0..MaxFaults /\ resends \in 0..MaxResends

Init ==
  /\ account = "active" /\ used = 0 /\ limit = DefaultLimit
  /\ allowed = {DefaultLimit}
  /\ status = [s \in Session |-> "ready"] /\ charged = {}
  /\ stored = [c \in Conn |-> {}] /\ queued = [c \in Conn |-> {}]
  /\ boot = [c \in Conn |-> "off"] /\ target = [c \in Conn |-> NoSession]
  /\ tries = [c \in Conn |-> 0]
  /\ seen = [c \in Conn |-> [used |-> 0, limit |-> DefaultLimit]]
  /\ slot = [c \in Conn |-> "none"]
  /\ spoken = {} /\ taken = [c \in Conn |-> 0]
  /\ writing = [c \in Conn |-> {}] /\ recorded = [c \in Conn |-> {}]
  /\ overtime = {} /\ late = [c \in Conn |-> {}]
  /\ stop = [c \in Conn |-> "none"] /\ last = [c \in Conn |-> 0]
  /\ list = [c \in Conn |-> {}] /\ refunded = {}
  /\ faults = 0 /\ resends = 0

Boot(c, l) == boot' = [boot EXCEPT ![c] = l]
Stop(c, l) == stop' = [stop EXCEPT ![c] = l]

\* A request failed or the server died; a write was applied, its response lost
\* and the SDK sent it again.
Fault  == faults < MaxFaults /\ faults' = faults + 1 /\ UNCHANGED resends
Resend == resends < MaxResends /\ resends' = resends + 1 /\ UNCHANGED faults

-----------------------------------------------------------------------------
(* The account's quota                                                     *)

\* setAccessGrant, conditional on the account not being erased.
SetAccessGrant(l) ==
  /\ account = "active"
  /\ limit' = l /\ allowed' = allowed \cup {l}
  /\ UNCHANGED <<account, used, meta, answers, startup, slot, talk, ending, failures>>

\* markProfileDeleting. The rest of the erasure is not this module's.
MarkProfileDeleting ==
  /\ Erasable /\ account' = "deleting"
  /\ UNCHANGED <<used, limit, allowed, meta, answers, startup, slot, talk, ending, failures>>

\* resolveSessionAllowance
Exhausted == limit # Unlimited /\ used >= limit

\* getProfile, at the top of claimInterviewSlot's loop: an account marked for
\* erasure throws, an exhausted one is refused, else the counter is remembered.
ReadQuota(c) ==
  /\ boot[c] = "read"
  /\ Boot(c, IF account = "deleting" THEN "failed"
             ELSE IF Exhausted THEN "refused" ELSE "cas")
  /\ seen' = [seen EXCEPT ![c] = [used |-> used, limit |-> limit]]
  /\ UNCHANGED <<profile, meta, answers, target, tries, slot, talk, ending, failures>>

Claim(c) ==
  /\ used' = used + 1
  /\ slot' = [slot EXCEPT ![c] = "claimed"]
  /\ Boot(c, "start")
  /\ UNCHANGED tries

\* A lost race: read again, and give up after MaxAttempts.
ClaimLost(c) ==
  /\ tries' = [tries EXCEPT ![c] = @ + 1]
  /\ Boot(c, IF tries[c] + 1 < MaxAttempts THEN "read" ELSE "failed")
  /\ UNCHANGED slot

\* The UpdateItem's condition: the counter still holds what was decided on,
\* unless nothing is being guarded.
ClaimStands(c) ==
  account = "active" /\ (seen[c].limit = Unlimited \/ used = seen[c].used)

ClaimFrame ==
  UNCHANGED <<account, limit, allowed, meta, answers, target, seen, talk, ending>>

ClaimInterviewSlot(c) ==
  /\ boot[c] = "cas"
  /\ \/ ClaimStands(c) /\ Claim(c)
     \/ ~ClaimStands(c) /\ ClaimLost(c) /\ UNCHANGED used
  /\ ClaimFrame /\ UNCHANGED failures

\* The increment is applied twice, or the repeated one finds the counter it
\* has itself moved: a lost race.
ClaimResent(c) ==
  /\ boot[c] = "cas" /\ ClaimStands(c)
  /\ IF seen[c].limit = Unlimited
     THEN /\ used' = used + 2 /\ slot' = [slot EXCEPT ![c] = "claimed"]
          /\ Boot(c, "start") /\ UNCHANGED tries
     ELSE used' = used + 1 /\ ClaimLost(c)
  /\ Resend /\ ClaimFrame

-----------------------------------------------------------------------------
(* handleConnection, up to the live stream                                 *)

Connect(c, s) ==
  /\ boot[c] = "off"
  /\ Boot(c, "read") /\ target' = [target EXCEPT ![c] = s]
  /\ UNCHANGED <<profile, meta, answers, tries, seen, slot, talk, ending, failures>>

StartFrame ==
  UNCHANGED <<profile, answers, target, tries, seen, slot, talk, ending>>

TakeSession(c) ==
  /\ status' = [status EXCEPT ![target[c]] = "in_progress"]
  /\ charged' = charged \cup {target[c]}

\* Wrong on purpose: the status is read by an earlier request, not in the
\* condition.
StartBlindly(c) ==
  boot[c] = "start" /\ TakeSession(c) /\ Boot(c, "open") /\ StartFrame /\ UNCHANGED failures

\* startInterview: conditional on `ready`. What follows only reads, and a
\* failed read is not an error, up to opening the stream.
StartInterview(c) ==
  /\ boot[c] = "start"
  /\ \/ status[target[c]] = "ready" /\ TakeSession(c) /\ Boot(c, "open")
     \/ status[target[c]] # "ready" /\ Boot(c, "failed") /\ UNCHANGED meta
  /\ StartFrame /\ UNCHANGED failures

\* The repeated write finds the session already in progress.
StartResent(c) ==
  /\ boot[c] = "start" /\ status[target[c]] = "ready"
  /\ TakeSession(c) /\ Boot(c, "failed")
  /\ Resend /\ StartFrame

\* claimInterviewSlot or startInterview throws; the write may have landed.
StartupFails(c) ==
  /\ boot[c] \in {"read", "cas", "start"}
  /\ Boot(c, "failed") /\ Fault
  /\ \/ UNCHANGED <<used, meta>>
     \/ boot[c] = "cas" /\ ClaimStands(c) /\ used' = used + 1 /\ UNCHANGED meta
     \/ /\ boot[c] = "start" /\ status[target[c]] = "ready"
        /\ TakeSession(c) /\ UNCHANGED used
  /\ UNCHANGED <<account, limit, allowed, answers, target, tries, seen, slot, talk, ending>>

\* sonic.start() resolves, or throws. Either way the close path now flushes.
OpenStream(c) ==
  /\ boot[c] = "open"
  /\ \E l \in {"live", "broken"} : Boot(c, l)
  /\ UNCHANGED <<profile, meta, answers, target, tries, seen, slot, talk, ending, failures>>

-----------------------------------------------------------------------------
(* The conversation. Events arrive until sonic.close, shutdown or not.     *)

Listening(c) == boot[c] = "live" /\ stop[c] # "closed"

\* The list of answers to queue has been read.
ListRead(c) == stop[c] \notin {"none", "flush"}

\* A transcript of the candidate reaches the buffer.
AppendAnswer(c) ==
  /\ Listening(c) /\ c \notin spoken /\ taken[c] < MaxExchanges
  /\ spoken' = spoken \cup {c}
  /\ UNCHANGED <<profile, meta, answers, startup, slot, ending, failures>>
  /\ UNCHANGED <<taken, writing, recorded, overtime, late>>

\* Wrong on purpose: the buffer is not rolled forward.
FlushCopy(c) ==
  /\ c \in spoken /\ UNCHANGED spoken
  /\ taken' = [taken EXCEPT ![c] = @ + 1]
  /\ writing' = [writing EXCEPT ![c] = @ \cup {taken[c] + 1}]

\* flushExchange, up to its await: buffer.take() rolls the buffer forward.
FlushExchange(c) ==
  /\ c \in spoken /\ spoken' = spoken \ {c}
  /\ taken' = [taken EXCEPT ![c] = @ + 1]
  /\ writing' = [writing EXCEPT ![c] = @ \cup {taken[c] + 1}]

\* END_TURN closes an exchange, and nobody awaits its write.
TurnEnds(c) ==
  /\ Listening(c) /\ FlushExchange(c)
  /\ late' = IF ListRead(c) THEN [late EXCEPT ![c] = @ \cup {taken[c] + 1}] ELSE late
  /\ UNCHANGED <<profile, meta, answers, startup, slot, ending, failures>>
  /\ UNCHANGED <<recorded, overtime>>

\* recordAnswer returned: the exchange is stored, and remembered if it is
\* worth scoring.
Record(c, k) ==
  /\ stored' = [stored EXCEPT ![c] = @ \cup {k}]
  /\ recorded' = [recorded EXCEPT ![c] = @ \cup ({k} \cap Scoreable)]

\* recordAnswer failed, perhaps after the item was written: logged.
RecordFails(c, k) ==
  /\ \/ stored' = [stored EXCEPT ![c] = @ \cup {k}]
     \/ UNCHANGED stored
  /\ Fault /\ UNCHANGED recorded

WriteLands(c, k) ==
  /\ k \in writing[c]
  /\ writing' = [writing EXCEPT ![c] = @ \ {k}]
  /\ \/ Record(c, k) /\ UNCHANGED failures
     \/ RecordFails(c, k)
  /\ UNCHANGED <<profile, meta, queued, startup, slot, ending>>
  /\ UNCHANGED <<spoken, taken, overtime, late>>

\* QUOTA_REFUND_WINDOW_MS has passed since the stream went live.
WindowPasses(c) ==
  /\ boot[c] = "live" /\ ~ListRead(c)
  /\ overtime' = overtime \cup {c}
  /\ UNCHANGED <<profile, meta, answers, startup, slot, ending, failures>>
  /\ UNCHANGED <<spoken, taken, writing, recorded, late>>

-----------------------------------------------------------------------------
(* shutdown: `closing` latches, so every trigger after the first is lost.  *)

\* Wrong on purpose: the scored answers are not looked at.
RefundRegardless(c, scored) == slot[c] = "claimed" /\ c \notin overtime

\* refundIfUnused's decision; the latch moves before the write.
RefundDue(c, scored) == slot[c] = "claimed" /\ scored = {} /\ c \notin overtime

\* On to the refund if one is due, else to what follows it.
LatchAndGo(c, scored, next) ==
  LET due == RefundDue(c, scored) IN
  /\ slot' = IF due THEN [slot EXCEPT ![c] = "refunded"] ELSE slot
  /\ Stop(c, IF due THEN "refund" ELSE next)

\* Startup failed before there was a transcript: nothing was interviewed.
AbortStartup(c) ==
  /\ boot[c] = "failed" /\ stop[c] = "none"
  /\ LatchAndGo(c, {}, "closed")
  /\ UNCHANGED <<profile, meta, answers, startup, talk, last, list, refunded, failures>>

\* The candidate stops or goes away, the stream ends or falls idle, the
\* interviewer ends it, the hard stop fires; or start() threw. The exchange in
\* the buffer is flushed.
Shutdown(c) ==
  /\ boot[c] \in {"live", "broken"} /\ stop[c] = "none"
  /\ Stop(c, "flush")
  /\ \/ FlushExchange(c) /\ last' = [last EXCEPT ![c] = taken[c] + 1]
     \/ c \notin spoken /\ UNCHANGED <<spoken, taken, writing, last>>
  /\ UNCHANGED <<profile, meta, answers, startup, slot, list, refunded, failures>>
  /\ UNCHANGED <<recorded, overtime, late>>

\* The questionIds to queue, and the decision to refund.
CloseWith(c, ids) ==
  /\ stop[c] = "flush"
  /\ list' = [list EXCEPT ![c] = ids]
  /\ late' = [late EXCEPT ![c] = writing[c] \ {last[c]}]
  /\ LatchAndGo(c, ids, "finish")
  /\ UNCHANGED <<profile, meta, answers, startup, last, refunded, failures>>
  /\ UNCHANGED <<spoken, taken, writing, recorded, overtime>>

\* Wrong on purpose: the flush is not awaited here either.
ReadAtOnce(c)  == CloseWith(c, recorded[c])

\* await flushOnClose(), then scoredQuestionIds(): of the writes that are out
\* only the shutdown's own is awaited.
ReadScoredIds(c) == last[c] \notin writing[c] /\ CloseWith(c, recorded[c])

AfterRefund(c) == Stop(c, IF boot[c] = "failed" THEN "closed" ELSE "finish")

RefundFrame ==
  /\ UNCHANGED <<account, limit, allowed, meta, answers, startup, slot, talk>>
  /\ UNCHANGED <<last, list>>

RefundStands == account = "active" /\ used > 0

\* refundInterviewSlot: floored at zero, refused once erasure has begun.
RefundInterviewSlot(c) ==
  /\ stop[c] = "refund"
  /\ IF RefundStands THEN used' = used - 1 /\ refunded' = refunded \cup {c}
                     ELSE UNCHANGED <<used, refunded>>
  /\ AfterRefund(c) /\ RefundFrame /\ UNCHANGED failures

\* The refund throws: swallowed, whether or not it landed.
RefundFails(c) ==
  /\ stop[c] = "refund"
  /\ used' \in {used, IF RefundStands THEN used - 1 ELSE used}
  /\ AfterRefund(c) /\ Fault /\ RefundFrame /\ UNCHANGED refunded

\* The repeated refund takes a second slot off, or fails its own condition.
RefundResent(c) ==
  /\ stop[c] = "refund" /\ RefundStands
  /\ IF used > 1 THEN used' = used - 2 /\ refunded' = refunded \cup {c}
                 ELSE used' = 0 /\ UNCHANGED refunded
  /\ AfterRefund(c) /\ Resend /\ RefundFrame

FinishWith(c, keep) ==
  /\ status' = [status EXCEPT ![target[c]] =
                  IF list[c] # {} THEN "evaluating" ELSE "complete"]
  /\ charged' = IF keep THEN charged ELSE charged \ {target[c]}

FinishFrame ==
  UNCHANGED <<profile, answers, startup, slot, talk, last, list, refunded>>

\* Wrong on purpose: chargedAt survives the refund.
FinishCharged(c) ==
  /\ stop[c] = "finish" /\ status[target[c]] = "in_progress"
  /\ FinishWith(c, TRUE) /\ Stop(c, "enqueue") /\ FinishFrame /\ UNCHANGED failures

\* Wrong on purpose: only an interview with answers is finished.
FinishScored(c) ==
  /\ stop[c] = "finish" /\ status[target[c]] = "in_progress" /\ list[c] # {}
  /\ FinishWith(c, TRUE) /\ Stop(c, "enqueue") /\ FinishFrame /\ UNCHANGED failures

\* finishInterview, conditional on in_progress.
FinishInterview(c) ==
  /\ stop[c] = "finish" /\ status[target[c]] = "in_progress"
  /\ FinishWith(c, c \notin refunded) /\ Stop(c, "enqueue")
  /\ FinishFrame /\ UNCHANGED failures

\* finishInterview throws, landed or not, and nothing is queued. The refund the
\* catch block tries again cannot be due: RefundDue only ever turns FALSE.
FinishFails(c) ==
  /\ stop[c] = "finish" /\ status[target[c]] = "in_progress"
  /\ FinishWith(c, c \notin refunded) \/ UNCHANGED meta
  /\ Stop(c, "sonic") /\ Fault /\ FinishFrame

\* The repeated write finds the session no longer in progress: it throws too.
FinishResent(c) ==
  /\ stop[c] = "finish" /\ status[target[c]] = "in_progress"
  /\ FinishWith(c, c \notin refunded)
  /\ Stop(c, "sonic") /\ Resend /\ FinishFrame

\* startEvaluationSummary and enqueueEvaluations: EvalPipeline's close path.
\* A failure leaves some answers unqueued.
Enqueue(c) ==
  /\ stop[c] = "enqueue" /\ Stop(c, "sonic")
  /\ \/ queued' = [queued EXCEPT ![c] = list[c]] /\ UNCHANGED failures
     \/ /\ \E part \in SUBSET list[c] : queued' = [queued EXCEPT ![c] = part]
        /\ Fault
  /\ UNCHANGED <<profile, meta, stored, startup, slot, talk, last, list, refunded>>

\* sonic.close and the end of the socket.
CloseStream(c) ==
  /\ stop[c] = "sonic" /\ Stop(c, "closed")
  /\ UNCHANGED <<profile, meta, answers, startup, slot, talk, last, list, refunded, failures>>

\* The API server dies: every connection and what it remembered is lost, and
\* so are the writes that have not landed.
Crash ==
  /\ \E c \in Conn : boot[c] \notin {"off", "dead"}
  /\ boot' = [c \in Conn |-> IF boot[c] = "off" THEN "off" ELSE "dead"]
  /\ stop' = [c \in Conn |-> IF boot[c] = "off" THEN stop[c] ELSE "closed"]
  /\ writing' = [c \in Conn |-> {}]
  /\ Fault
  /\ UNCHANGED <<profile, meta, answers, target, tries, seen, slot>>
  /\ UNCHANGED <<spoken, taken, recorded, overtime, late, last, list, refunded>>

-----------------------------------------------------------------------------

\* What a connection does on its own once it is open.
Startup(c) ==
  ReadQuota(c) \/ ClaimInterviewSlot(c) \/ StartInterview(c) \/ OpenStream(c)

Close(c) ==
  \/ AbortStartup(c) \/ Shutdown(c) \/ ReadScoredIds(c) \/ RefundInterviewSlot(c)
  \/ FinishInterview(c) \/ Enqueue(c) \/ CloseStream(c)

Converse(c) ==
  AppendAnswer(c) \/ TurnEnds(c) \/ WindowPasses(c) \/ \E k \in Exchange : WriteLands(c, k)

Fail(c) == StartupFails(c) \/ RefundFails(c) \/ FinishFails(c)
Repeat(c) == ClaimResent(c) \/ StartResent(c) \/ RefundResent(c) \/ FinishResent(c)

Next ==
  \/ \E l \in Limits : SetAccessGrant(l)
  \/ MarkProfileDeleting
  \/ \E c \in Conn :
       \/ \E s \in Session : Connect(c, s)
       \/ Startup(c) \/ Converse(c) \/ Close(c) \/ Fail(c) \/ Repeat(c)
  \/ Crash

\* Requests return or time out, and a live connection is shut down at the
\* latest by the hard-stop timer. Nothing makes a candidate speak.
Fairness ==
  \A c \in Conn :
    /\ WF_vars(Startup(c)) /\ WF_vars(Close(c))
    /\ \A k \in Exchange : WF_vars(WriteLands(c, k))

SafetySpec == Init /\ [][Next]_vars
Spec == SafetySpec /\ Fairness

-----------------------------------------------------------------------------
(* Properties                                                              *)

Holders == {c \in Conn : slot[c] = "claimed"}

\* sessionsConducted never passes the largest allowance that was ever in
\* force, whatever tabs race the claim and whatever is refunded or re-granted
\* between its read and its write.
WithinAllowance == Unlimited \in allowed \/ \E l \in allowed : used <= l

\* What the comments on the refund promise: every interview that holds a slot,
\* or held one to its end, is counted, so that a refund gives back the slot of
\* the connection that made it and no other.
EveryHolderIsCounted == Cardinality(Holders) <= used

\* It holds until the SDK repeats a write that was applied.
HoldersAreCounted == resends = 0 => EveryHolderIsCounted

\* With every connection over and no failure, the profile's counter and the
\* sessions' chargedAt say the same: refusals, lost races, refunded startups
\* and refunded interviews leave no trace in either.
Over(c) == boot[c] \in {"off", "refused"} \/ stop[c] = "closed"
CounterMatchesRecords ==
  account = "active" /\ faults + resends = 0 /\ (\A c \in Conn : Over(c))
    => used = Cardinality(charged)

\* Two tabs never hold one session: one stream, one transcript.
Armed(c) == boot[c] \in {"open", "live", "broken"}
OneConnectionPerSession ==
  \A c, d \in Conn : Armed(c) /\ Armed(d) /\ target[c] = target[d] => c = d

\* An interview whose answers go to be scored has been charged for.
ScoredIsCharged ==
  \A s \in Session : status[s] = "evaluating" => s \in charged

\* The counter lets nobody past the allowance, forgets nobody who holds a slot,
\* and gives no slot back for an interview whose answers are scored.
CounterIsHonest == WithinAllowance /\ HoldersAreCounted /\ ScoredIsCharged

\* Only answers that reached DynamoDB and are worth scoring are queued.
QueuedAreStored == \A c \in Conn : queued[c] \subseteq stored[c] \cap Scoreable

\* Unless something failed, the only scoreable answers left unqueued are those
\* still being written, or not yet over, when the shutdown read its list.
OnlyLateAnswersMissed ==
  \A c \in Conn :
    stop[c] = "closed" /\ faults + resends = 0
      => stored[c] \cap Scoreable \subseteq queued[c] \cup late[c]

\* What is queued for scoring is what was stored and is worth scoring, but for
\* the answers the shutdown did not wait for.
AnswersReachScoring == QueuedAreStored /\ OnlyLateAnswersMissed

\* What the comments on the close path promise: every scoreable answer that is
\* stored is queued, so the interview's last answers are not left unscored.
EveryAnswerQueued ==
  \A c \in Conn :
    stop[c] = "closed" /\ writing[c] = {} /\ faults + resends = 0
      => stored[c] \cap Scoreable \subseteq queued[c]

\* No session stays in progress: the hard stop, or a refused start, ends it.
LeavesInProgress ==
  \A s \in Session :
    status[s] = "in_progress" ~> status[s] # "in_progress" \/ faults + resends > 0

-----------------------------------------------------------------------------
(* The inductive invariants behind them.                                   *)

\* What a claim was decided on was in force, and left room for it.
DecisionStands ==
  /\ limit \in allowed
  /\ \A c \in Conn : boot[c] = "cas" =>
       /\ seen[c].limit \in allowed
       /\ seen[c].limit = Unlimited \/ seen[c].used < seen[c].limit

\* The slots the counter has to cover: held, or latched and not given back yet.
Owed == {c \in Conn : slot[c] = "claimed" \/ stop[c] = "refund"}

OwedAreCounted ==
  /\ Cardinality(Owed) <= used
  /\ \A c \in Conn :
       /\ stop[c] = "refund" => slot[c] = "refunded"
       /\ boot[c] \in {"off", "read", "cas"} => c \notin Owed

SessionsAreTaken ==
  /\ \A c \in Conn : Armed(c) => status[target[c]] # "ready"
  /\ OneConnectionPerSession

RefundedSaidNothing ==
  /\ \A s \in Session : status[s] \in {"in_progress", "evaluating"} => s \in charged
  /\ \A c \in Conn :
       /\ stop[c] = "none" => list[c] = {}
       /\ stop[c] \in {"none", "flush"} => c \notin refunded
       /\ c \in refunded \/ stop[c] = "refund" => list[c] = {}

\* Messages come from the list, the list from what is known to be stored.
ListIsStored ==
  \A c \in Conn :
    queued[c] \subseteq list[c] /\ list[c] \subseteq recorded[c]
      /\ recorded[c] \subseteq stored[c] \cap Scoreable

NothingForgotten ==
  faults + resends = 0 => \A c \in Conn :
    /\ stored[c] \cap Scoreable \subseteq recorded[c]
    /\ ListRead(c) => recorded[c] \subseteq list[c] \cup late[c] /\ writing[c] \subseteq late[c]
    /\ stop[c] \in {"sonic", "closed"} => queued[c] = list[c]
    /\ boot[c] \notin {"live", "broken"} =>
         /\ writing[c] = {} /\ recorded[c] = {} /\ list[c] = {}
         /\ queued[c] = {} /\ c \notin spoken
    /\ boot[c] = "failed" => stop[c] \in {"none", "refund", "closed"}
    /\ boot[c] \notin {"live", "broken", "failed"} => stop[c] = "none"

\* Why finishInterview's catch block has nothing left to refund.
CatchHasNoRefund ==
  \A c \in Conn : stop[c] = "finish" => ~RefundDue(c, recorded[c])

Unconnected(c) == boot[c] \in {"off", "read", "cas", "start", "refused"}

DueStaysDecided ==
  /\ CatchHasNoRefund
  /\ \A c \in Conn :
       /\ Unconnected(c) => stop[c] = "none"
       /\ stop[c] = "refund" => slot[c] = "refunded"

\* The connections whose session carries a chargedAt: those that took one, less
\* those whose refund finishInterview has noted.
Payers == {c \in Conn : Armed(c) /\ (c \in refunded => stop[c] = "finish")}

\* Without failures the counter is what is owed and the charges are the payers':
\* the two only differ while a connection is starting or shutting down.
LedgersAgree ==
  account = "active" /\ faults + resends = 0 =>
    /\ used = Cardinality(Owed)
    /\ charged = {target[c] : c \in Payers}
    /\ \A c \in Conn :
         /\ boot[c] # "dead" /\ (c \in overtime => boot[c] = "live")
         /\ boot[c] \in {"off", "read", "cas", "refused"} => slot[c] = "none"
         /\ boot[c] = "start" => slot[c] = "claimed"
         /\ Armed(c) => slot[c] # "none"
         /\ Armed(c) /\ slot[c] = "refunded" => stop[c] = "refund" \/ c \in refunded
         /\ c \in refunded => slot[c] = "refunded" /\ stop[c] # "refund"
         /\ boot[c] = "failed" /\ stop[c] = "closed" => slot[c] # "claimed"
=============================================================================
