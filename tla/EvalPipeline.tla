--------------------------- MODULE EvalPipeline ---------------------------
(***************************************************************************)
(* Asynchronous scoring of one finished interview session: the tail of the *)
(* close path that opens the rollup and queues one message per answer, the *)
(* standard SQS queue with its visibility timeout and redrive policy, the  *)
(* concurrent evaluator invocations (Lambda, or the local poller), and the *)
(* account-erasure sweep that may pass over the session at any time.       *)
(*                                                                         *)
(* Every DynamoDB request is one atomic step; everything a handler does    *)
(* between two awaits is part of the step that follows the first of them.  *)
(* A score's value is abstracted away: an EVAL# item is "there" or not,    *)
(* and the averages are the set of questions they were computed from.      *)
(***************************************************************************)
EXTENDS Naturals, FiniteSets

CONSTANTS
  Question,      \* questionIds whose answers were recorded; all are queued
  NoQuestion,    \* the job of an idle worker
  Worker,        \* evaluator invocations (Lambda maximum_concurrency)
  MaxReceives,   \* maxReceiveCount of the redrive policy
  BatchSize,     \* SQS.SEND_BATCH_SIZE
  Lambda,        \* TRUE: lambda.ts drives handleMessage; FALSE: worker.ts
  Overlap,       \* TRUE: a message may reappear while a worker still has it
  Erasable,      \* TRUE: the account may be erased while scoring runs
  MaxFaults      \* bound on crashes and failed requests

ASSUME QuestionAssumption == IsFiniteSet(Question) /\ Question # {} /\ NoQuestion \notin Question
ASSUME ReceivesAssumption == MaxReceives \in Nat \ {0}
ASSUME BatchAssumption    == BatchSize \in Nat \ {0}
ASSUME FaultsAssumption   == MaxFaults \in Nat
ASSUME SwitchAssumption   == {Lambda, Overlap, Erasable} \subseteq BOOLEAN

VARIABLES
  \* DynamoDB: the session partition and the candidate's history rows
  status,       \* META.status, "gone" once META is deleted
  rollup,       \* SUMMARY: "absent", "counted", or "orphan" (no questionCount)
  averaged,     \* SUMMARY.averages: the questions averaged, {} when not set
  unscored,     \* SUMMARY.unscoredQuestionIds
  answers,      \* questions with an ANSWER# item
  evals,        \* questions with an EVAL# item
  cards,        \* history rows; completedAt is unique per writer, so: writers
  summarised,   \* history rows that carry a session summary
  \* SQS
  msg,          \* where each question's message is
  receives,     \* ApproximateReceiveCount
  \* the close path of the interview connection
  enq,          \* "rollup", "enqueue", "done"
  \* evaluator invocations
  pc, job, receipt, seenUnscored, seenScored, row,
  \* the erasure sweep
  eraser, sweep,
  faults        \* crashes and failures so far

db      == <<status, rollup, averaged, unscored, answers, evals, cards, summarised>>
sqs     == <<msg, receives>>
memory  == <<job, receipt, seenUnscored, seenScored, row>>
workers == <<pc, memory>>
erasure == <<eraser, sweep>>
vars    == <<db, sqs, enq, workers, erasure, faults>>

Pcs == {"idle", "load", "model", "mark", "put", "rollup", "scores", "elect",
        "cardread", "cardput", "complete", "summarise", "ack"}

\* Sort keys of the session partition that the sweep can find.
Keys == ({"META", "SUMMARY"} \X {NoQuestion}) \cup ({"ANSWER", "EVAL"} \X Question)

TypeOK ==
  /\ status \in {"evaluating", "complete", "gone"}
  /\ rollup \in {"absent", "counted", "orphan"}
  /\ averaged \subseteq Question /\ unscored \subseteq Question
  /\ answers \subseteq Question  /\ evals \subseteq Question
  /\ cards \subseteq Worker /\ summarised \subseteq Worker
  /\ msg \in [Question -> {"unsent", "visible", "inflight", "deleted", "dlq"}]
  /\ receives \in [Question -> 0..MaxReceives]
  /\ enq \in {"rollup", "enqueue", "done"}
  /\ pc \in [Worker -> Pcs]
  /\ job \in [Worker -> Question \cup {NoQuestion}]
  /\ \A w \in Worker : pc[w] # "idle" => job[w] \in Question
  /\ receipt \in [Worker -> 0..MaxReceives]
  /\ seenUnscored \in [Worker -> SUBSET Question]
  /\ seenScored \in [Worker -> SUBSET Question]
  /\ row \subseteq Worker
  /\ eraser \in {"idle", "sweep", "failed", "done"}
  /\ sweep \subseteq Keys
  /\ faults \in 0..MaxFaults

\* finishInterview has just written `evaluating`; nothing is queued yet.
Init ==
  /\ status = "evaluating" /\ rollup = "absent"
  /\ averaged = {} /\ unscored = {} /\ answers = Question /\ evals = {}
  /\ cards = {} /\ summarised = {}
  /\ msg = [q \in Question |-> "unsent"]
  /\ receives = [q \in Question |-> 0]
  /\ enq = "rollup"
  /\ pc = [w \in Worker |-> "idle"]
  /\ job = [w \in Worker |-> NoQuestion]
  /\ receipt = [w \in Worker |-> 0]
  /\ seenUnscored = [w \in Worker |-> {}]
  /\ seenScored = [w \in Worker |-> {}]
  /\ row = {}
  /\ eraser = "idle" /\ sweep = {}
  /\ faults = 0

Goto(w, l) == pc' = [pc EXCEPT ![w] = l]

\* A process died, or a request failed: charged against the bound.
Fault == faults < MaxFaults /\ faults' = faults + 1

-----------------------------------------------------------------------------
(* The close path, after finishInterview                                   *)

\* PutItem of the rollup: its questionCount is Cardinality(Question). An
\* unconditional put, so one already there would be replaced.
StartEvaluationSummary ==
  /\ enq = "rollup"
  /\ enq' = "enqueue"
  /\ rollup' = "counted" /\ averaged' = {} /\ unscored' = {}
  /\ UNCHANGED <<status, answers, evals, cards, summarised>>
  /\ UNCHANGED <<sqs, workers, erasure, faults>>

Unsent == {q \in Question : msg[q] = "unsent"}

\* SendMessageBatch of the next chunk. When the request throws, or the
\* response lists failed entries, whatever was accepted stays queued and the
\* loop is left: the remaining chunks are never sent.
SendBatch ==
  /\ enq = "enqueue"
  /\ \E chunk \in SUBSET Unsent, accepted \in SUBSET Unsent, ok \in BOOLEAN :
       /\ chunk # {} /\ Cardinality(chunk) <= BatchSize
       /\ chunk = Unsent \/ Cardinality(chunk) = BatchSize
       /\ accepted \subseteq chunk
       /\ IF ok THEN accepted = chunk /\ UNCHANGED faults ELSE Fault
       /\ msg' = [q \in Question |-> IF q \in accepted THEN "visible" ELSE msg[q]]
       /\ enq' = IF ok /\ chunk # Unsent THEN "enqueue" ELSE "done"
  /\ UNCHANGED <<db, receives, workers, erasure>>

\* startEvaluationSummary throws, or the API server dies on the close path.
\* The failure is logged and nothing ever queues the rest.
CloseFails ==
  /\ enq # "done"
  /\ enq' = "done"
  /\ Fault
  /\ UNCHANGED <<db, sqs, workers, erasure>>

-----------------------------------------------------------------------------
(* The queue                                                               *)

Held(q) == \E w \in Worker : pc[w] # "idle" /\ job[w] = q

\* The visibility timeout of a delivered message runs out before it is
\* deleted. Without Overlap only once nobody works on it any more.
Expire(q) ==
  /\ msg[q] = "inflight"
  /\ Overlap \/ ~Held(q)
  /\ msg' = [msg EXCEPT ![q] = "visible"]
  /\ UNCHANGED <<db, receives, enq, workers, erasure, faults>>

\* The redrive policy: a message that has had its receives goes to the DLQ.
Redrive(q) ==
  /\ msg[q] = "visible" /\ receives[q] = MaxReceives
  /\ msg' = [msg EXCEPT ![q] = "dlq"]
  /\ UNCHANGED <<db, receives, enq, workers, erasure, faults>>

\* A delivery hands the message to an invocation and counts the receive.
Deliver(w, q, count) ==
  /\ pc[w] = "idle" /\ msg[q] = "visible"
  /\ msg' = [msg EXCEPT ![q] = "inflight"]
  /\ receives' = [receives EXCEPT ![q] = count]
  /\ receipt' = [receipt EXCEPT ![w] = count]
  /\ job' = [job EXCEPT ![w] = q]
  /\ Goto(w, "load")
  /\ UNCHANGED <<db, enq, seenUnscored, seenScored, row, erasure, faults>>

\* Wrong on purpose: no redrive policy; deliveries that are not counted.
ReceiveBeyondLimit(w, q) == Deliver(w, q, receives[q] + 1)
ReceiveUncounted(w, q)   == Deliver(w, q, receives[q])

Receive(w, q) == receives[q] < MaxReceives /\ Deliver(w, q, receives[q] + 1)

-----------------------------------------------------------------------------
(* handleMessage                                                           *)

\* What a worker forgets when its invocation ends.
Forget(w) ==
  /\ Goto(w, "idle")
  /\ job' = [job EXCEPT ![w] = NoQuestion]
  /\ receipt' = [receipt EXCEPT ![w] = 0]
  /\ seenUnscored' = [seenUnscored EXCEPT ![w] = {}]
  /\ seenScored' = [seenScored EXCEPT ![w] = {}]
  /\ row' = row \ {w}

\* handleMessage throws: the message is left for redelivery.
Abandon(w) == Forget(w) /\ UNCHANGED <<db, sqs, enq, erasure>>

\* Wrong on purpose: lambda.ts does not pass finalAttempt either.
NeverFinalAttempt(w) == FALSE

\* isFinalAttempt; the local poller never sets it.
FinalAttempt(w) == Lambda /\ receipt[w] >= MaxReceives

\* loadEvaluationJob: already scored, or no answer, go straight to the
\* completion check. An answer whose META is gone fails to parse and throws.
LoadJob(w) ==
  /\ pc[w] = "load"
  /\ \/ /\ job[w] \in evals \/ job[w] \notin answers
        /\ Goto(w, "rollup")
        /\ UNCHANGED memory
     \/ /\ job[w] \notin evals /\ job[w] \in answers /\ status # "gone"
        /\ Goto(w, "model")
        /\ UNCHANGED memory
     \/ /\ job[w] \notin evals /\ job[w] \in answers /\ status = "gone"
        /\ Forget(w)
  /\ UNCHANGED <<db, sqs, enq, erasure, faults>>

\* Wrong on purpose: a model failure is swallowed and the message acknowledged.
RunEvaluatorSwallows(w) ==
  /\ pc[w] = "model"
  /\ \E l \in {"put", "mark", "rollup"} : Goto(w, l)
  /\ UNCHANGED <<db, sqs, enq, memory, erasure, faults>>

\* runEvaluator: a score, a guardrail block, or a model failure, which only
\* the final attempt records instead of leaving for redelivery.
RunEvaluator(w) ==
  /\ pc[w] = "model"
  /\ \/ /\ \/ Goto(w, "put")                              \* scored
           \/ Goto(w, "mark")                             \* GuardrailBlockedError
           \/ FinalAttempt(w) /\ Goto(w, "mark")          \* BedrockError
        /\ UNCHANGED memory
     \/ ~FinalAttempt(w) /\ Forget(w)                     \* BedrockError
  /\ UNCHANGED <<db, sqs, enq, erasure, faults>>

\* markAnswerUnscored: ADD to a set, conditional on the rollup existing.
MarkUnscored(w) ==
  /\ pc[w] = "mark"
  /\ unscored' = IF rollup # "absent" THEN unscored \cup {job[w]} ELSE unscored
  /\ Goto(w, "rollup")
  /\ UNCHANGED <<status, rollup, averaged, answers, evals, cards, summarised>>
  /\ UNCHANGED <<sqs, enq, memory, erasure, faults>>

\* putEvaluation: an unconditional PutItem.
PutEvaluation(w) ==
  /\ pc[w] = "put"
  /\ evals' = evals \cup {job[w]}
  /\ Goto(w, "rollup")
  /\ UNCHANGED <<status, rollup, averaged, unscored, answers, cards, summarised>>
  /\ UNCHANGED <<sqs, enq, memory, erasure, faults>>

\* finalizeIfComplete, first read: no-summary and already-finalized are
\* finished with; a rollup without a questionCount fails to parse and throws.
ReadRollup(w) ==
  /\ pc[w] = "rollup"
  /\ \/ /\ rollup = "absent" \/ (rollup = "counted" /\ averaged # {})
        /\ Goto(w, "ack")
        /\ UNCHANGED memory
     \/ /\ rollup = "counted" /\ averaged = {}
        /\ seenUnscored' = [seenUnscored EXCEPT ![w] = unscored]
        /\ Goto(w, "scores")
        /\ UNCHANGED <<job, receipt, seenScored, row>>
     \/ rollup = "orphan" /\ Forget(w)
  /\ UNCHANGED <<db, sqs, enq, erasure, faults>>

\* readEvaluationScores and the comparison with questionCount: incomplete,
\* all-unscored, or on to the election with the averages of what was read.
FinalizeOn(w, accounted) ==
  /\ pc[w] = "scores"
  /\ seenScored' = [seenScored EXCEPT ![w] = evals]
  /\ Goto(w, IF accounted < Cardinality(Question) THEN "ack"
             ELSE IF evals = {} THEN "complete" ELSE "elect")
  /\ UNCHANGED <<db, sqs, enq, job, receipt, seenUnscored, row, erasure, faults>>

\* Wrong on purpose: the check fires one answer early.
ReadScoresEarly(w) ==
  FinalizeOn(w, Cardinality(evals \cup seenUnscored[w]) + 1)

\* An id that was blocked and later scored counts once, as scored.
ReadScores(w) ==
  FinalizeOn(w, Cardinality(evals) + Cardinality(seenUnscored[w] \ evals))

\* UpdateItem creates the item it does not find, so a rollup erased in the
\* meantime comes back without its questionCount.
SetAverages(w) ==
  /\ averaged' = seenScored[w]
  /\ rollup' = IF rollup = "absent" THEN "orphan" ELSE rollup
  /\ Goto(w, "cardread")

ElectionFrame ==
  /\ UNCHANGED <<status, unscored, answers, evals, cards, summarised>>
  /\ UNCHANGED <<sqs, enq, memory, erasure, faults>>

\* The election: SET averages IF attribute_not_exists(averages).
Elect(w) ==
  /\ pc[w] = "elect"
  /\ \/ averaged = {} /\ SetAverages(w)
     \/ averaged # {} /\ Goto(w, "ack") /\ UNCHANGED <<averaged, rollup>>
  /\ ElectionFrame

\* putSessionSummary reads META for the row's key; no META, no row. The read is
\* eventually consistent: it may still find a META that is gone.
CardRead(w) ==
  /\ pc[w] = "cardread"
  /\ \/ Goto(w, "cardput")
     \/ status = "gone" /\ Goto(w, "complete")
  /\ UNCHANGED <<db, sqs, enq, memory, erasure, faults>>

CardPut(w) ==
  /\ pc[w] = "cardput"
  /\ cards' = cards \cup {w}
  /\ row' = row \cup {w}
  /\ Goto(w, "complete")
  /\ UNCHANGED <<status, rollup, averaged, unscored, answers, evals, summarised>>
  /\ UNCHANGED <<sqs, enq, job, receipt, seenUnscored, seenScored, erasure, faults>>

\* The election is won but its response is lost: the SDK sends the conditional
\* write again, and the condition fails on the averages just written.
ElectRetried(w) ==
  /\ pc[w] = "elect" /\ averaged = {}
  /\ averaged' = seenScored[w]
  /\ rollup' = IF rollup = "absent" THEN "orphan" ELSE rollup
  /\ Goto(w, "ack")
  /\ Fault
  /\ UNCHANGED <<status, unscored, answers, evals, cards, summarised>>
  /\ UNCHANGED <<sqs, enq, memory, erasure>>

\* A failure of either card request is swallowed, even if the row was stored.
CardFails(w) ==
  /\ pc[w] \in {"cardread", "cardput"}
  /\ cards' \in {cards, cards \cup ({w} \cap {v \in Worker : pc[v] = "cardput"})}
  /\ Goto(w, "complete")
  /\ Fault
  /\ UNCHANGED <<status, rollup, averaged, unscored, answers, evals, summarised>>
  /\ UNCHANGED <<sqs, enq, memory, erasure>>

CompleteWith(w, next) ==
  /\ pc[w] = "complete"
  /\ status' = next
  /\ Goto(w, IF w \in row THEN "summarise" ELSE "ack")
  /\ UNCHANGED <<rollup, averaged, unscored, answers, evals, cards, summarised>>
  /\ UNCHANGED <<sqs, enq, memory, erasure, faults>>

\* Wrong on purpose: the status is written blind.
CompleteBlindly(w) == CompleteWith(w, "complete")

\* completeEvaluation: conditional on `evaluating`, a failed condition is no
\* error. Whoever wrote a history row goes on to summarise the session.
CompleteEvaluation(w) ==
  CompleteWith(w, IF status = "evaluating" THEN "complete" ELSE status)

AttachSummary(w, rows) ==
  /\ pc[w] = "summarise"
  /\ summarised' \in {summarised, summarised \cup rows}
  /\ Goto(w, "ack")
  /\ UNCHANGED <<status, rollup, averaged, unscored, answers, evals, cards>>
  /\ UNCHANGED <<sqs, enq, memory, erasure, faults>>

\* summariseSession: every failure is swallowed, an unusable summary is
\* dropped, and attachSessionSummary is conditional on the row existing.
Summarise(w) == AttachSummary(w, {w} \cap cards)

\* The handler returned: the message is deleted. With the receipt of an older
\* delivery the delete may have no effect.
Ack(w) ==
  LET q == job[w] IN
  /\ pc[w] = "ack"
  /\ \/ msg[q] \in {"visible", "inflight"} /\ msg' = [msg EXCEPT ![q] = "deleted"]
     \/ /\ receipt[w] # receives[q] \/ msg[q] \in {"deleted", "dlq"}
        /\ UNCHANGED msg
  /\ Forget(w)
  /\ UNCHANGED <<db, receives, enq, erasure, faults>>

\* A DynamoDB request throws a ServiceError out of handleMessage, the
\* invocation times out, or the process is reclaimed. Both leave the message
\* undelivered; a process can die anywhere.
WorkerFails(w) ==
  /\ pc[w] # "idle"
  /\ Abandon(w)
  /\ Fault

-----------------------------------------------------------------------------
(* eraseUserAccount, as far as it touches this session                     *)

Stored ==
  ({"META"} \X (IF status # "gone" THEN {NoQuestion} ELSE {}))
    \cup ({"SUMMARY"} \X (IF rollup # "absent" THEN {NoQuestion} ELSE {}))
    \cup ({"ANSWER"} \X answers) \cup ({"EVAL"} \X evals)

\* deleteSessionData queries the partition for its keys; a write the query does
\* not see yet counts as coming after it ...
EraseQuery ==
  /\ Erasable /\ eraser \in {"idle", "failed"}
  /\ eraser' = "sweep" /\ sweep' = Stored
  /\ UNCHANGED <<db, sqs, enq, workers, faults>>

\* ... and deletes what came back, in batches that are not atomic.
EraseItem(k) ==
  /\ eraser = "sweep" /\ k \in sweep
  /\ sweep' = sweep \ {k}
  /\ status' = IF k[1] = "META" THEN "gone" ELSE status
  /\ rollup' = IF k[1] = "SUMMARY" THEN "absent" ELSE rollup
  /\ averaged' = IF k[1] = "SUMMARY" THEN {} ELSE averaged
  /\ unscored' = IF k[1] = "SUMMARY" THEN {} ELSE unscored
  /\ answers' = IF k[1] = "ANSWER" THEN answers \ {k[2]} ELSE answers
  /\ evals' = IF k[1] = "EVAL" THEN evals \ {k[2]} ELSE evals
  /\ UNCHANGED <<cards, summarised, sqs, enq, workers, eraser, faults>>

\* deleteSessionSummaries, once the partition is swept.
EraseCards ==
  /\ eraser = "sweep" /\ sweep = {}
  /\ eraser' = "done"
  /\ cards' = {} /\ summarised' = {}
  /\ UNCHANGED <<status, rollup, averaged, unscored, answers, evals>>
  /\ UNCHANGED <<sqs, enq, workers, sweep, faults>>

\* A delete is rejected three times over, or the process dies: the account
\* stays marked `deleting` and the sweep can be asked for again.
EraseFails ==
  /\ eraser = "sweep"
  /\ eraser' = "failed" /\ sweep' = {}
  /\ Fault
  /\ UNCHANGED <<db, sqs, enq, workers>>

-----------------------------------------------------------------------------

Close == StartEvaluationSummary \/ SendBatch \/ CloseFails

\* The steps a running invocation takes on its own.
Handle(w) ==
  \/ LoadJob(w) \/ RunEvaluator(w) \/ MarkUnscored(w) \/ PutEvaluation(w)
  \/ ReadRollup(w) \/ ReadScores(w) \/ Elect(w)
  \/ CardRead(w) \/ CardPut(w) \/ CompleteEvaluation(w) \/ Summarise(w) \/ Ack(w)

Erase == EraseQuery \/ EraseCards \/ EraseFails \/ \E k \in Keys : EraseItem(k)

Next ==
  \/ Close
  \/ \E q \in Question : Expire(q) \/ Redrive(q) \/ \E w \in Worker : Receive(w, q)
  \/ \E w \in Worker : Handle(w) \/ ElectRetried(w) \/ CardFails(w) \/ WorkerFails(w)
  \/ Erase

\* The close path and every invocation run until they return (every request
\* has a client timeout), SQS polls, expires and redrives, and a sweep that
\* has begun goes on. Nothing forces a failure or an erasure.
Fairness ==
  /\ WF_vars(StartEvaluationSummary \/ SendBatch)
  /\ \A q \in Question :
       /\ WF_vars(Expire(q)) /\ WF_vars(Redrive(q))
       /\ WF_vars(\E w \in Worker : Receive(w, q))
  /\ \A w \in Worker : WF_vars(Handle(w))
  /\ WF_vars(EraseCards \/ \E k \in Keys : EraseItem(k))

SafetySpec == Init /\ [][Next]_vars
Spec == SafetySpec /\ Fairness

-----------------------------------------------------------------------------
(* Properties                                                              *)

\* No sweep has touched the session yet.
Kept == eraser = "idle"

Accounted == evals \cup unscored

\* completeEvaluation must follow the last answer, whatever the interleaving of
\* deliveries: a session reported complete has a score or an "unscored" mark
\* for every answer that was queued, and carries averages unless every answer
\* was unscored.
CompleteOnlyWhenAccounted ==
  Kept /\ status = "complete" =>
    /\ Accounted = Question
    /\ averaged = {} => unscored = Question

\* The averages the candidate reads cover every answer but those recorded as
\* unscored: no election in finalizeIfComplete is won on a partial read.
AveragesCoverAnswers ==
  Kept /\ averaged # {} =>
    /\ Question \ averaged \subseteq unscored
    /\ averaged \subseteq evals

\* A message is deleted only when its answer's outcome is stored, so a crash
\* between the evaluation and DeleteMessage never loses an answer.
DeletedMeansAccounted ==
  \A q \in Question : Kept /\ msg[q] = "deleted" => q \in Accounted

\* The conditional write elects one finisher: however many deliveries reach
\* the last check together, one history row is written, beside its averages.
OneHistoryRow ==
  Kept => Cardinality(cards) <= 1 /\ (cards # {} => averaged # {})

\* What the stored items say together: no outcome is lost, counted twice or
\* left out, and one delivery closes the session.
OutcomesAreCounted ==
  /\ DeletedMeansAccounted
  /\ CompleteOnlyWhenAccounted /\ AveragesCoverAnswers /\ OneHistoryRow

\* Once published, the averages are never recomputed by a later delivery.
AveragesAreFinal ==
  [][Kept' /\ averaged # {} => averaged' = averaged]_vars

\* attachSessionSummary never brings back a history row the sweep removed.
SummaryNeedsItsRow == summarised \subseteq cards

\* No write of the scoring pipeline recreates a META the sweep deleted.
MetaStaysErased == [][status = "gone" => status' = "gone"]_vars

\* Every SUMMARY item carries the questionCount it is completed against, as
\* markAnswerUnscored takes care to ensure.
RollupHasCount == rollup # "orphan"

\* A session whose rollup carries its averages leaves `evaluating`, or some
\* message is still there to look at it again.
NotParked ==
  Kept /\ averaged # {} /\ (\A w \in Worker : pc[w] = "idle")
       /\ (\A q \in Question : msg[q] = "deleted")
    => status = "complete"

\* With no crash, no failed request and no erasure, the session always leaves
\* `evaluating`, however often the model fails: the final attempt records the
\* answer as unscored.
EventuallyComplete == <>(status = "complete" \/ faults > 0 \/ ~Kept)

\* Every queued message is eventually deleted or in the DLQ, faults and
\* erasure included: nothing circulates for ever.
QueueDrains ==
  \A q \in Question : <>[](msg[q] \in {"unsent", "deleted", "dlq"})

-----------------------------------------------------------------------------
(* The inductive invariant behind the safety properties, until a sweep.    *)

\* Who won the election and still has to write its row, or has written it.
Elected(w) == pc[w] \in {"cardread", "cardput"} \/ w \in cards

\* The items nothing but the sweep removes.
ItemsKept == answers = Question /\ status # "gone" /\ rollup # "orphan"

\* Nothing is queued or delivered before the rollup is there to count against.
RollupFirst ==
  /\ enq = "enqueue" => rollup = "counted"
  /\ \A q \in Question : msg[q] # "unsent" => rollup = "counted"
  /\ \A w \in Worker : pc[w] # "idle" => rollup = "counted"
  /\ enq = "rollup" =>
       /\ averaged = {} /\ unscored = {} /\ evals = {} /\ cards = {}
       /\ status = "evaluating"
       /\ \A q \in Question : msg[q] = "unsent"
       /\ \A w \in Worker : pc[w] = "idle"

\* A worker past its own write has stored its answer's outcome.
OutcomeStored ==
  /\ \A w \in Worker :
       pc[w] \notin {"idle", "load", "model", "mark", "put"} => job[w] \in Accounted
  /\ \A q \in Question : msg[q] = "deleted" => q \in Accounted

\* What a worker has read is a lower bound of what is stored.
SnapshotsAreStored ==
  \A w \in Worker :
    /\ pc[w] \in {"scores", "elect"} => seenUnscored[w] \subseteq unscored
    /\ pc[w] = "elect" => /\ seenScored[w] # {} /\ seenScored[w] \subseteq evals
                          /\ Question \ seenScored[w] \subseteq seenUnscored[w]

\* Past the count, everything is accounted for and the averages are there,
\* unless there was nothing to average.
ClosingIsJustified ==
  /\ \A w \in Worker :
       /\ Elected(w) => averaged # {}
       /\ pc[w] = "complete" => averaged # {} \/ unscored = Question
  /\ status = "complete" => averaged # {} \/ unscored = Question
  /\ averaged # {} => averaged \subseteq evals /\ Question \ averaged \subseteq unscored
  /\ \A v, w \in Worker : Elected(v) /\ Elected(w) => v = w

ScoringInv ==
  Kept => /\ ItemsKept /\ RollupFirst /\ OutcomeStored
          /\ SnapshotsAreStored /\ ClosingIsJustified

-----------------------------------------------------------------------------

\* What the results page is promised (Scoring), from this session's items
\* until a sweep starts on them.
Promise == INSTANCE Scoring WITH
  scored    <- IF Kept THEN evals ELSE {},
  withheld  <- IF Kept THEN unscored ELSE {},
  result    <- IF Kept THEN averaged ELSE {},
  published <- Kept /\ status = "complete",
  erased    <- ~Kept

\* The pipeline implements that promise.
KeepsPromise == Promise!Spec
=============================================================================
