------------------------- MODULE EvalPipelineProofs -------------------------
(***************************************************************************)
(* Proofs about EvalPipeline: type correctness, the inductive invariant    *)
(* ScoringInv and the safety properties it implies, and the implementation *)
(* of Scoring.  All for any number of answers, invocations, receives and   *)
(* faults, with or without overlapping deliveries and erasure.             *)
(***************************************************************************)
EXTENDS EvalPipeline, FiniteSetTheorems, TLAPS

\* The variables of EvalPipeline are of the right types in every reachable
\* state.
THEOREM TypeCorrect == SafetySpec => []TypeOK
<1>1. Init => TypeOK
  BY QuestionAssumption, ReceivesAssumption, FaultsAssumption
  DEF Init, TypeOK, Keys, Pcs
<1>2. TypeOK /\ [Next]_vars => TypeOK'
  <2> SUFFICES ASSUME TypeOK, [Next]_vars
               PROVE  TypeOK'
    OBVIOUS
  <2> USE QuestionAssumption, ReceivesAssumption, FaultsAssumption
      DEF TypeOK, Goto, Forget, Fault, Pcs,
          db, sqs, memory, workers, erasure
  <2>1. CASE StartEvaluationSummary
    BY <2>1 DEF StartEvaluationSummary
  <2>2. CASE SendBatch
    BY <2>2 DEF SendBatch, Unsent
  <2>3. CASE CloseFails
    BY <2>3 DEF CloseFails
  <2>4. ASSUME NEW q \in Question, Expire(q) \/ Redrive(q)
        PROVE  TypeOK'
    BY <2>4 DEF Expire, Redrive
  <2>5. ASSUME NEW q \in Question, NEW w \in Worker, Receive(w, q)
        PROVE  TypeOK'
    BY <2>5 DEF Receive, Deliver
  <2>6. ASSUME NEW w \in Worker, Handle(w)
        PROVE  TypeOK'
    <3>1. CASE LoadJob(w)
      BY <3>1 DEF LoadJob
    <3>2. CASE RunEvaluator(w)
      BY <3>2 DEF RunEvaluator
    <3>3. CASE MarkUnscored(w)
      BY <3>3 DEF MarkUnscored
    <3>4. CASE PutEvaluation(w)
      BY <3>4 DEF PutEvaluation
    <3>5. CASE ReadRollup(w)
      BY <3>5 DEF ReadRollup
    <3>6. CASE ReadScores(w)
      BY <3>6 DEF ReadScores, FinalizeOn
    <3>7. CASE Elect(w)
      BY <3>7 DEF Elect, SetAverages, ElectionFrame
    <3>8. CASE CardRead(w) \/ CardPut(w)
      BY <3>8 DEF CardRead, CardPut
    <3>9. CASE CompleteEvaluation(w)
      BY <3>9 DEF CompleteEvaluation, CompleteWith
    <3>10. CASE Summarise(w)
      BY <3>10 DEF Summarise, AttachSummary
    <3>11. CASE Ack(w)
      BY <3>11 DEF Ack
    <3> QED
      BY <2>6, <3>1, <3>2, <3>3, <3>4, <3>5, <3>6, <3>7, <3>8, <3>9, <3>10, <3>11
      DEF Handle
  <2>7. ASSUME NEW w \in Worker, ElectRetried(w) \/ CardFails(w) \/ WorkerFails(w)
        PROVE  TypeOK'
    BY <2>7 DEF ElectRetried, CardFails, WorkerFails, Abandon
  <2>8. CASE EraseQuery
    BY <2>8 DEF EraseQuery, Stored, Keys
  <2>9. ASSUME NEW k \in Keys, EraseItem(k)
        PROVE  TypeOK'
    BY <2>9 DEF EraseItem
  <2>10. CASE EraseCards \/ EraseFails
    BY <2>10 DEF EraseCards, EraseFails
  <2>11. CASE UNCHANGED vars
    BY <2>11 DEF vars
  <2> QED
    BY <2>1, <2>2, <2>3, <2>4, <2>5, <2>6, <2>7, <2>8, <2>9, <2>10, <2>11
    DEF Next, Close, Erase
<1> QED
  BY <1>1, <1>2, PTL DEF SafetySpec

-----------------------------------------------------------------------------

\* What the count in finalizeIfComplete establishes: as many scored answers
\* and blocked-only answers as there are questions means every question.
LEMMA CountCoversQuestions ==
  ASSUME NEW E \in SUBSET Question, NEW U \in SUBSET Question,
         ~ (Cardinality(E) + Cardinality(U \ E) < Cardinality(Question))
  PROVE  Question \ E \subseteq U
<1>1. /\ IsFiniteSet(E) /\ Cardinality(E) \in Nat
      /\ IsFiniteSet(U \ E) /\ Cardinality(U \ E) \in Nat
      /\ Cardinality(Question) \in Nat
  <2>1. IsFiniteSet(E) /\ IsFiniteSet(U \ E)
    BY QuestionAssumption, FS_Subset
  <2> QED
    BY <2>1, QuestionAssumption, FS_CardinalityType
<1>2. Cardinality(E \cup (U \ E)) = Cardinality(E) + Cardinality(U \ E)
  <2>1. E \cap (U \ E) = {}
    OBVIOUS
  <2> QED
    BY <1>1, <2>1, FS_Union, FS_EmptySet
<1>3. E \cup (U \ E) \in SUBSET Question
  OBVIOUS
<1>4. Cardinality(E \cup (U \ E)) <= Cardinality(Question)
  BY <1>3, QuestionAssumption, FS_Subset
<1>5. Cardinality(Question) = Cardinality(E \cup (U \ E))
  BY <1>1, <1>2, <1>4
<1>6. Question = E \cup (U \ E)
  BY <1>3, <1>5, QuestionAssumption, FS_Subset
<1> QED
  BY <1>6

\* Only a sweep ends the period the invariant speaks of, and it never resumes.
LEMMA KeptBefore ==
  ASSUME [Next]_vars, Kept'
  PROVE  Kept /\ UNCHANGED erasure
<1>1. ASSUME NEW w \in Worker,
             Handle(w) \/ ElectRetried(w) \/ CardFails(w) \/ WorkerFails(w)
      PROVE  UNCHANGED erasure
  BY <1>1 DEF Handle, LoadJob, RunEvaluator, MarkUnscored, PutEvaluation, ReadRollup,
     ReadScores, FinalizeOn, Elect, ElectionFrame, CardRead, CardPut,
     CompleteEvaluation, CompleteWith, Summarise, AttachSummary, Ack,
     ElectRetried, CardFails, WorkerFails, Abandon, erasure
<1>2. ASSUME NEW q \in Question, NEW w \in Worker,
             Expire(q) \/ Redrive(q) \/ Receive(w, q)
      PROVE  UNCHANGED erasure
  BY <1>2 DEF Expire, Redrive, Receive, Deliver, erasure
<1>3. ASSUME NEW q \in Question, Expire(q) \/ Redrive(q)
      PROVE  UNCHANGED erasure
  BY <1>3 DEF Expire, Redrive, erasure
<1>4. CASE Close
  BY <1>4 DEF Close, StartEvaluationSummary, SendBatch, CloseFails, erasure, Kept
<1>5. CASE Erase
  BY <1>5 DEF Erase, EraseQuery, EraseItem, EraseCards, EraseFails, Kept
<1>6. CASE UNCHANGED vars
  BY <1>6 DEF vars, erasure, Kept
<1> QED
  BY <1>1, <1>2, <1>3, <1>4, <1>5, <1>6 DEF Next, Kept, erasure

\* Every step of the close path, the queue and the workers keeps the scoring
\* invariant; one case per action.
LEMMA ScoringInvStep ==
  ASSUME TypeOK, ScoringInv, [Next]_vars
  PROVE  ScoringInv'
<1> SUFFICES ASSUME Kept'
             PROVE  ItemsKept' /\ RollupFirst' /\ OutcomeStored'
                      /\ SnapshotsAreStored' /\ ClosingIsJustified'
  BY DEF ScoringInv
<1>0. /\ Kept /\ eraser = "idle" /\ eraser' = "idle"
      /\ ItemsKept /\ RollupFirst /\ OutcomeStored
      /\ SnapshotsAreStored /\ ClosingIsJustified
  BY KeptBefore DEF ScoringInv, Kept, erasure
<1> USE <1>0 DEF ItemsKept, RollupFirst, OutcomeStored, SnapshotsAreStored,
      ClosingIsJustified, Elected, Accounted,
      TypeOK, Pcs, Goto, Forget, Fault, db, sqs, memory, workers, erasure
<1>1. CASE StartEvaluationSummary
  BY <1>1 DEF StartEvaluationSummary
<1>2. CASE SendBatch
  BY <1>2 DEF SendBatch, Unsent
<1>3. CASE CloseFails
  BY <1>3 DEF CloseFails
<1>4. ASSUME NEW q \in Question, Expire(q) \/ Redrive(q)
      PROVE  ItemsKept' /\ RollupFirst' /\ OutcomeStored'
               /\ SnapshotsAreStored' /\ ClosingIsJustified'
  BY <1>4 DEF Expire, Redrive
<1>5. ASSUME NEW q \in Question, NEW w \in Worker, Receive(w, q)
      PROVE  ItemsKept' /\ RollupFirst' /\ OutcomeStored'
               /\ SnapshotsAreStored' /\ ClosingIsJustified'
  BY <1>5 DEF Receive, Deliver
<1>6. ASSUME NEW w \in Worker, Handle(w)
      PROVE  ItemsKept' /\ RollupFirst' /\ OutcomeStored'
               /\ SnapshotsAreStored' /\ ClosingIsJustified'
  <2>1. CASE LoadJob(w)
    BY <2>1 DEF LoadJob
  <2>2. CASE RunEvaluator(w)
    BY <2>2 DEF RunEvaluator
  <2>3. CASE MarkUnscored(w)
    BY <2>3 DEF MarkUnscored
  <2>4. CASE PutEvaluation(w)
    BY <2>4 DEF PutEvaluation
  <2>5. CASE ReadRollup(w)
    BY <2>5 DEF ReadRollup
  <2>6. CASE ReadScores(w)
    <3>1. CASE Cardinality(evals) + Cardinality(seenUnscored[w] \ evals)
                 < Cardinality(Question)
      BY <2>6, <3>1 DEF ReadScores, FinalizeOn
    <3>2. CASE ~ (Cardinality(evals) + Cardinality(seenUnscored[w] \ evals)
                    < Cardinality(Question))
      <4>1. Question \ evals \subseteq seenUnscored[w]
        BY <3>2, CountCoversQuestions
      <4> QED
        BY <2>6, <3>2, <4>1 DEF ReadScores, FinalizeOn
    <3> QED
      BY <3>1, <3>2
  <2>7. CASE Elect(w)
    BY <2>7 DEF Elect, SetAverages, ElectionFrame
  <2>8. CASE CardRead(w)
    BY <2>8 DEF CardRead
  <2>9. CASE CardPut(w)
    BY <2>9 DEF CardPut
  <2>10. CASE CompleteEvaluation(w)
    BY <2>10 DEF CompleteEvaluation, CompleteWith
  <2>11. CASE Summarise(w)
    BY <2>11 DEF Summarise, AttachSummary
  <2>12. CASE Ack(w)
    BY <2>12 DEF Ack
  <2> QED
    BY <1>6, <2>1, <2>2, <2>3, <2>4, <2>5, <2>6, <2>7, <2>8, <2>9, <2>10, <2>11, <2>12
    DEF Handle
<1>7. ASSUME NEW w \in Worker, ElectRetried(w) \/ CardFails(w) \/ WorkerFails(w)
      PROVE  ItemsKept' /\ RollupFirst' /\ OutcomeStored'
               /\ SnapshotsAreStored' /\ ClosingIsJustified'
  <2>1. CASE ElectRetried(w)
    BY <2>1 DEF ElectRetried
  <2>2. CASE CardFails(w)
    BY <2>2 DEF CardFails
  <2>3. CASE WorkerFails(w)
    BY <2>3 DEF WorkerFails, Abandon
  <2> QED
    BY <1>7, <2>1, <2>2, <2>3
<1>8. CASE Erase
  BY <1>8 DEF Erase, EraseQuery, EraseItem, EraseCards, EraseFails
<1>9. CASE UNCHANGED vars
  BY <1>9 DEF vars
<1> QED
  BY <1>1, <1>2, <1>3, <1>4, <1>5, <1>6, <1>7, <1>8, <1>9 DEF Next, Close

\* The scoring invariant holds of every reachable state.
THEOREM ScoringInvariant == SafetySpec => []ScoringInv
<1>1. Init => ScoringInv
  BY DEF Init, ScoringInv, ItemsKept, RollupFirst, OutcomeStored, SnapshotsAreStored,
     ClosingIsJustified, Elected, Accounted
<1>2. TypeOK /\ ScoringInv /\ [Next]_vars => ScoringInv'
  BY ScoringInvStep
<1> QED
  BY <1>1, <1>2, TypeCorrect, PTL DEF SafetySpec

-----------------------------------------------------------------------------

\* A session is reported complete (completeEvaluation) only when every queued
\* answer is scored or recorded as unscored, with averages if any was scored.
THEOREM CompleteIsAccounted == SafetySpec => []CompleteOnlyWhenAccounted
<1>1. TypeOK /\ ScoringInv => CompleteOnlyWhenAccounted
  BY DEF TypeOK, ScoringInv, ClosingIsJustified, CompleteOnlyWhenAccounted, Accounted
<1> QED
  BY <1>1, TypeCorrect, ScoringInvariant, PTL

\* The averages finalizeIfComplete writes leave out only unscored answers.
THEOREM AveragesCover == SafetySpec => []AveragesCoverAnswers
<1>1. ScoringInv => AveragesCoverAnswers
  BY DEF ScoringInv, ClosingIsJustified, AveragesCoverAnswers
<1> QED
  BY <1>1, ScoringInvariant, PTL

\* No message is deleted before its answer's outcome is stored.
THEOREM NoAnswerLost == SafetySpec => []DeletedMeansAccounted
<1>1. ScoringInv => DeletedMeansAccounted
  BY DEF ScoringInv, OutcomeStored, DeletedMeansAccounted
<1> QED
  BY <1>1, ScoringInvariant, PTL

\* The election has one winner, which writes the one history row.
THEOREM OneWinner == SafetySpec => []OneHistoryRow
<1>1. ASSUME TypeOK, ScoringInv, Kept
      PROVE  Cardinality(cards) <= 1 /\ (cards # {} => averaged # {})
  <2>1. \A v, w \in cards : v = w
    BY <1>1 DEF TypeOK, ScoringInv, ClosingIsJustified, Elected
  <2>2. cards # {} => averaged # {}
    BY <1>1 DEF TypeOK, ScoringInv, ClosingIsJustified, Elected
  <2>3. CASE cards = {}
    BY <2>2, <2>3, FS_EmptySet
  <2>4. ASSUME NEW w \in cards
        PROVE  Cardinality(cards) = 1
    <3>1. cards = {w}
      BY <2>1
    <3> QED
      BY <3>1, FS_Singleton
  <2> QED
    BY <2>2, <2>3, <2>4
<1> QED
  BY <1>1, TypeCorrect, ScoringInvariant, PTL DEF OneHistoryRow

\* A history row carries a session summary only while it exists, whatever the
\* sweep removes in between.
THEOREM SummaryHasRow == SafetySpec => []SummaryNeedsItsRow
<1>1. Init => SummaryNeedsItsRow
  BY DEF Init, SummaryNeedsItsRow
<1>2. SummaryNeedsItsRow /\ [Next]_vars => SummaryNeedsItsRow'
  <2> SUFFICES ASSUME SummaryNeedsItsRow, [Next]_vars
               PROVE  SummaryNeedsItsRow'
    OBVIOUS
  <2> USE DEF SummaryNeedsItsRow, db
  <2>1. ASSUME NEW w \in Worker, Handle(w)
        PROVE  SummaryNeedsItsRow'
    BY <2>1 DEF Handle, LoadJob, RunEvaluator, MarkUnscored, PutEvaluation, ReadRollup,
       ReadScores, FinalizeOn, Elect, ElectionFrame, CardRead, CardPut,
       CompleteEvaluation, CompleteWith, Summarise, AttachSummary, Ack
  <2>2. ASSUME NEW w \in Worker, ElectRetried(w) \/ CardFails(w) \/ WorkerFails(w)
        PROVE  SummaryNeedsItsRow'
    BY <2>2 DEF ElectRetried, CardFails, WorkerFails, Abandon
  <2>3. ASSUME NEW q \in Question,
               Expire(q) \/ Redrive(q) \/ \E w \in Worker : Receive(w, q)
        PROVE  SummaryNeedsItsRow'
    BY <2>3 DEF Expire, Redrive, Receive, Deliver
  <2>4. CASE Close
    BY <2>4 DEF Close, StartEvaluationSummary, SendBatch, CloseFails
  <2>5. CASE Erase
    BY <2>5 DEF Erase, EraseQuery, EraseItem, EraseCards, EraseFails
  <2>6. CASE UNCHANGED vars
    BY <2>6 DEF vars
  <2> QED
    BY <2>1, <2>2, <2>3, <2>4, <2>5, <2>6 DEF Next
<1> QED
  BY <1>1, <1>2, PTL DEF SafetySpec

\* No write of the close path or of a delivery, late or repeated, brings back the
\* META that deleteSessionData removed: completeEvaluation is the only one to
\* write the status, on the condition that it is still `evaluating`.
THEOREM ErasedMetaStays == SafetySpec => MetaStaysErased
<1>1. [Next]_vars => [status = "gone" => status' = "gone"]_vars
  <2> SUFFICES ASSUME [Next]_vars, status = "gone"
               PROVE  status' = "gone"
    OBVIOUS
  <2>1. ASSUME NEW w \in Worker, CompleteEvaluation(w)
        PROVE  status' = "gone"
    BY <2>1 DEF CompleteEvaluation, CompleteWith
  <2>2. ASSUME NEW w \in Worker, Handle(w), ~CompleteEvaluation(w)
        PROVE  status' = "gone"
    BY <2>2 DEF Handle, LoadJob, RunEvaluator, MarkUnscored, PutEvaluation, ReadRollup,
       ReadScores, FinalizeOn, Elect, ElectionFrame, CardRead, CardPut, Summarise,
       AttachSummary, Ack, db
  <2>3. ASSUME NEW w \in Worker, ElectRetried(w) \/ CardFails(w) \/ WorkerFails(w)
        PROVE  status' = "gone"
    BY <2>3 DEF ElectRetried, CardFails, WorkerFails, Abandon, db
  <2>4. ASSUME NEW q \in Question,
               Expire(q) \/ Redrive(q) \/ \E w \in Worker : Receive(w, q)
        PROVE  status' = "gone"
    BY <2>4 DEF Expire, Redrive, Receive, Deliver, db
  <2>5. CASE Close
    BY <2>5 DEF Close, StartEvaluationSummary, SendBatch, CloseFails, db
  <2>6. CASE Erase
    BY <2>6 DEF Erase, EraseQuery, EraseItem, EraseCards, EraseFails, db
  <2>7. CASE UNCHANGED vars
    BY <2>7 DEF vars, db
  <2> QED
    BY <2>1, <2>2, <2>3, <2>4, <2>5, <2>6, <2>7 DEF Next
<1> QED
  BY <1>1, PTL DEF SafetySpec, MetaStaysErased

-----------------------------------------------------------------------------

\* What a step may do to the items the results page reads, before any sweep:
\* nothing, open the rollup, store one outcome, elect, or complete.
LEMMA StepOnItems ==
  ASSUME TypeOK, ScoringInv, [Next]_vars, Kept'
  PROVE  \/ UNCHANGED <<evals, unscored, averaged, status>>
         \/ \E q \in Question : /\ evals' = evals \cup {q}
                                /\ UNCHANGED <<unscored, averaged, status>>
         \/ \E q \in Question : /\ unscored' = unscored \cup {q}
                                /\ UNCHANGED <<evals, averaged, status>>
         \/ /\ averaged = {} /\ averaged' # {} /\ averaged' \subseteq evals
            /\ Question \ averaged' \subseteq unscored
            /\ UNCHANGED <<evals, unscored, status>>
         \/ /\ status' = "complete"
            /\ averaged # {} \/ unscored = Question
            /\ UNCHANGED <<evals, unscored, averaged>>
<1> DEFINE Goal == \/ UNCHANGED <<evals, unscored, averaged, status>>
                   \/ \E q \in Question : /\ evals' = evals \cup {q}
                                          /\ UNCHANGED <<unscored, averaged, status>>
                   \/ \E q \in Question : /\ unscored' = unscored \cup {q}
                                          /\ UNCHANGED <<evals, averaged, status>>
                   \/ /\ averaged = {} /\ averaged' # {} /\ averaged' \subseteq evals
                      /\ Question \ averaged' \subseteq unscored
                      /\ UNCHANGED <<evals, unscored, status>>
                   \/ /\ status' = "complete"
                      /\ averaged # {} \/ unscored = Question
                      /\ UNCHANGED <<evals, unscored, averaged>>
<1>0. /\ Kept /\ eraser = "idle" /\ eraser' = "idle"
      /\ RollupFirst /\ SnapshotsAreStored /\ ClosingIsJustified
  BY KeptBefore DEF ScoringInv, Kept, erasure
<1>1. ASSUME NEW w \in Worker, MarkUnscored(w) \/ PutEvaluation(w)
      PROVE  Goal
  BY <1>1 DEF MarkUnscored, PutEvaluation, TypeOK
<1>2. ASSUME NEW w \in Worker, Elect(w) \/ ElectRetried(w)
      PROVE  Goal
  BY <1>0, <1>2 DEF Elect, SetAverages, ElectionFrame, ElectRetried, SnapshotsAreStored,
     TypeOK
<1>3. ASSUME NEW w \in Worker, CompleteEvaluation(w)
      PROVE  Goal
  BY <1>0, <1>3 DEF CompleteEvaluation, CompleteWith, ClosingIsJustified
<1>4. ASSUME NEW w \in Worker,
             \/ LoadJob(w) \/ RunEvaluator(w) \/ ReadRollup(w) \/ ReadScores(w)
             \/ CardRead(w) \/ CardPut(w) \/ Summarise(w) \/ Ack(w)
             \/ CardFails(w) \/ WorkerFails(w)
      PROVE  Goal
  BY <1>4 DEF LoadJob, RunEvaluator, ReadRollup, ReadScores, FinalizeOn, CardRead, CardPut,
     Summarise, AttachSummary, Ack, CardFails, WorkerFails, Abandon, db
<1>5. CASE StartEvaluationSummary
  BY <1>0, <1>5 DEF StartEvaluationSummary, RollupFirst
<1>6. CASE SendBatch \/ CloseFails
  BY <1>6 DEF SendBatch, CloseFails, db
<1>7. ASSUME NEW q \in Question,
             Expire(q) \/ Redrive(q) \/ \E w \in Worker : Receive(w, q)
      PROVE  Goal
  BY <1>7 DEF Expire, Redrive, Receive, Deliver, db
<1>8. CASE Erase
  BY <1>0, <1>8 DEF Erase, EraseQuery, EraseItem, EraseCards, EraseFails
<1>9. CASE UNCHANGED vars
  BY <1>9 DEF vars, db
<1>10. Goal
  BY <1>1, <1>2, <1>3, <1>4, <1>5, <1>6, <1>7, <1>8, <1>9 DEF Next, Close, Handle
<1> QED
  BY <1>10

\* Averages once written are never recomputed by a later delivery.
THEOREM AveragesNeverChange == SafetySpec => AveragesAreFinal
<1>1. TypeOK /\ ScoringInv /\ [Next]_vars =>
        [Kept' /\ averaged # {} => averaged' = averaged]_vars
  BY StepOnItems
<1> QED
  BY <1>1, TypeCorrect, ScoringInvariant, PTL DEF SafetySpec, AveragesAreFinal

\* The pipeline implements Scoring, the promise made to the results page.
THEOREM ImplementsScoring == SafetySpec => KeepsPromise
<1>1. Init => Promise!Init
  BY DEF Init, Promise!Init, Kept
<1>2. TypeOK /\ ScoringInv /\ [Next]_vars => [Promise!Next]_(Promise!vars)
  <2> SUFFICES ASSUME TypeOK, ScoringInv, [Next]_vars
               PROVE  [Promise!Next]_(Promise!vars)
    OBVIOUS
  <2>1. CASE ~Kept
    <3>1. ~Kept'
      BY <2>1, KeptBefore
    <3> QED
      BY <2>1, <3>1 DEF Promise!vars
  <2>2. CASE Kept /\ ~Kept'
    BY <2>2 DEF Promise!Next, Promise!Erase
  <2>3. CASE Kept /\ Kept'
    <3>1. /\ averaged # {} => Question \ averaged \subseteq unscored /\ averaged \subseteq evals
          /\ evals \subseteq Question /\ unscored \subseteq Question
      BY <2>3 DEF ScoringInv, ClosingIsJustified, TypeOK
    <3>2. ASSUME NEW q \in Question, evals' = evals \cup {q},
                 UNCHANGED <<unscored, averaged, status>>
          PROVE  Promise!Score(q)
      BY <2>3, <3>2 DEF Promise!Score
    <3>3. ASSUME NEW q \in Question, unscored' = unscored \cup {q},
                 UNCHANGED <<evals, averaged, status>>
          PROVE  Promise!Withhold(q)
      BY <2>3, <3>3 DEF Promise!Withhold
    <3>4. ASSUME averaged = {}, averaged' # {}, averaged' \subseteq evals,
                 Question \ averaged' \subseteq unscored,
                 UNCHANGED <<evals, unscored, status>>
          PROVE  Promise!Settle(averaged') /\ averaged' \in SUBSET Question
      BY <2>3, <3>1, <3>4 DEF Promise!Settle, Promise!Complete
    <3>5. ASSUME status' = "complete", averaged # {} \/ unscored = Question,
                 UNCHANGED <<evals, unscored, averaged>>
          PROVE  Promise!Publish
      BY <2>3, <3>1, <3>5 DEF Promise!Publish, Promise!Complete
    <3>6. CASE UNCHANGED <<evals, unscored, averaged, status>>
      BY <2>3, <3>6 DEF Promise!vars
    <3> QED
      BY <2>3, <3>2, <3>3, <3>4, <3>5, <3>6, StepOnItems DEF Promise!Next
  <2> QED
    BY <2>1, <2>2, <2>3
<1> QED
  BY <1>1, <1>2, TypeCorrect, ScoringInvariant, PTL
  DEF SafetySpec, KeepsPromise, Promise!Spec

\* No outcome is lost, counted twice or left out of the averages.
THEOREM OutcomesCount == SafetySpec => []OutcomesAreCounted
BY NoAnswerLost, CompleteIsAccounted, AveragesCover, OneWinner, PTL DEF OutcomesAreCounted
=============================================================================
