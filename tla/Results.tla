------------------------------ MODULE Results ------------------------------
(***************************************************************************)
(* A candidate reads the results of an interview while it is being scored: *)
(* the results page polls GET /sessions/:id/evaluation, whose three reads  *)
(* are eventually consistent and see the scoring pipeline at different     *)
(* moments, and leads on to the history and to the Coach, whose prose is   *)
(* cached under a stamp of the history it was written from.                *)
(*                                                                         *)
(* The pipeline is Scoring, which EvalPipeline is shown to implement, with *)
(* the steps of the interview's end before it and the history row after.   *)
(* An answer stands for its ANSWER# item, an average for the set of scores *)
(* it was drawn from.  History rows are numbered as they were completed;   *)
(* the watched interview's is the last.                                    *)
(***************************************************************************)
EXTENDS CoachReport

CONSTANTS
  Question,    \* the answers queued when the interview ended
  Pasts,       \* the histories a candidate may come with, newest row first
  Watched,     \* what the watched interview adds to the history: its row
  Load,        \* requests of the results page in flight at once (a bound)
  Visit,       \* requests to the Coach in flight at once (a bound)
  MaxFaults,   \* failed requests and model calls (a bound)
  MaxExpired,  \* history rows that reach their expiry date (a bound)
  Nothing      \* no rollup, no item, no request

Ids(h) == {r.id : r \in ToSet(h)}

\* Anything a candidate's history holds.
Row == {Watched} \cup UNION {ToSet(h) : h \in Pasts}

\* Ids are numbers from 1, and no two interviews have the same one.
ASSUME PastAssumption ==
  /\ \A r \in Row : r.id \in Nat \ {0}
  /\ \A h \in Pasts : /\ h \in Seq(Row) /\ Watched.id \notin Ids(h)
                      /\ \A i, j \in DOMAIN h : h[i].id = h[j].id => i = j

ASSUME RoundAssumption ==
  /\ IsFiniteSet(Question)
  /\ Nothing \notin [unscored : SUBSET Question, averages : SUBSET Question]

ASSUME BoundsAssumption == MaxFaults \in Nat /\ MaxExpired \in Nat

VARIABLES
  scored, withheld, result, published, erased,   \* see Scoring
  ended,      \* "running", "ended" (status evaluating) or "opened" (with a rollup)
  old,        \* what a replica that lags by one write still answers
  history,    \* the rows of the USER partition, newest first
  narrated,   \* the rows whose narrative is attached
  carded,     \* the watched interview's row was written, or its write failed
  at,         \* the page the candidate is on
  page,       \* the results page: its status and the result it shows
  finished,   \* finishedRef
  polling,    \* the interval is alive
  load,       \* the results page's requests
  cache,      \* the COACH item: what its prose was written from, and the prose
  visit,      \* requests to the Coach
  expired,
  faults

server == <<scored, withheld, result, published, erased, ended, old, carded>>
rows   == <<history, narrated, expired>>
screen == <<at, page, finished, polling, load>>
coach  == <<cache, visit>>
vars   == <<server, rows, screen, coach, faults>>

Pipeline == INSTANCE Scoring

-----------------------------------------------------------------------------
\* The session's items.

\* META, as the results route tells it: gone, complete or not yet.
Meta == IF erased THEN Nothing ELSE IF published THEN "complete" ELSE "evaluating"

Summary ==
  IF erased \/ ended # "opened" THEN Nothing ELSE [unscored |-> withheld, averages |-> result]

Current == [meta |-> Meta, summary |-> Summary, scored |-> scored]

\* The next write leaves a lagging replica one write behind.
Lags == old' = Current

Finish ==
  /\ ended = "running" /\ ended' = "ended"
  /\ Lags /\ UNCHANGED <<scored, withheld, result, published, erased, carded>>

StartEvaluationSummary ==
  /\ ended = "ended" /\ ~erased /\ ended' = "opened"
  /\ Lags /\ UNCHANGED <<scored, withheld, result, published, erased, carded>>

\* The election, the history row or its failure, then the status.
ScoreAnswers ==
  /\ ended = "opened"
  /\ \/ \E q \in Question : (q \notin scored /\ Pipeline!Score(q))
                            \/ (q \notin withheld /\ Pipeline!Withhold(q))
     \/ \E R \in SUBSET Question : Pipeline!Settle(R)
     \/ ~published /\ (result # {} => carded) /\ Pipeline!Publish
  /\ Lags /\ UNCHANGED <<ended, carded>>

PutSessionSummary ==
  /\ result # {} /\ ~carded /\ carded' = TRUE
  /\ \/ history' = <<Watched>> \o history /\ UNCHANGED faults
     \/ faults < MaxFaults /\ faults' = faults + 1 /\ UNCHANGED history
  /\ UNCHANGED <<scored, withheld, result, published, erased, ended, old, narrated, expired>>

\* Wrong on purpose: the narrative is written whether or not the row is there.
AttachAnyway ==
  /\ narrated' = narrated \cup {Watched.id} /\ UNCHANGED <<server, history, expired, faults>>

\* The summariser attaches a row's narrative, if the row is still there.
AttachSessionSummary ==
  /\ \E id \in Ids(history) \ narrated : narrated' = narrated \cup {id}
  /\ UNCHANGED <<server, history, expired, faults>>

\* A row's time to live ends.
RowExpires ==
  /\ expired < MaxExpired /\ expired' = expired + 1
  /\ \E i \in DOMAIN history : history' = RemoveAt(history, i)
  /\ narrated' = narrated \cap Ids(history')
  /\ UNCHANGED <<server, faults>>

EraseAccount ==
  /\ ended = "opened" /\ Pipeline!Erase
  /\ history' = <<>> /\ narrated' = {} /\ cache' = Nothing
  /\ Lags /\ UNCHANGED <<ended, carded, expired, screen, visit, faults>>

-----------------------------------------------------------------------------
\* GET /sessions/:sessionId/evaluation.

Asked == [pc |-> "asked"]

\* One BatchGet for META and the rollup; an erased session is not found.
ReadHeaders(l) ==
  /\ load[l] # Nothing /\ load[l].pc = "asked"
  /\ \E m \in {Meta, old.meta}, s \in {Summary, old.summary} :
       load' = [load EXCEPT ![l] =
         IF m = Nothing THEN [pc |-> "missing"]
         ELSE [pc |-> "headers", meta |-> m, summary |-> s,
               fresh |-> m = Meta /\ s = Summary]]
  /\ UNCHANGED <<server, rows, coach, faults, at, page, finished, polling>>

\* Answers that never got a score.
Unscored(withheldIds, views) == Cardinality(withheldIds \ views)

\* The response, from what the four reads of a request saw.
LoadSessionEvaluations(h, views) ==
  LET ids == IF h.summary = Nothing THEN {} ELSE h.summary.unscored IN
  [status    |-> h.meta, views |-> views, ids |-> ids,
   completed |-> Cardinality(views),
   total     |-> IF h.summary = Nothing THEN Cardinality(views) ELSE Cardinality(Question),
   unscored  |-> Unscored(ids, views),
   averages  |-> IF h.summary = Nothing THEN {} ELSE h.summary.averages,
   fresh     |-> h.fresh /\ views = scored]

-----------------------------------------------------------------------------
\* The results page.

\* Wrong on purpose: the round is over when the counts agree.
FinishedByCount(r) == r.total > 0 /\ r.completed + r.unscored = r.total

IsEvaluationFinished(r) == r.averages # {} \/ r.status = "complete"

\* What the page makes of the result it has.
Empty   == page.status = "ready" /\ page.result.total = 0 /\ page.result.views = {}
Scoring == /\ page.status = "ready" /\ ~Empty
           /\ page.result.averages = {} /\ page.result.status # "complete"

Ask(l) == load' = [load EXCEPT ![l] = Asked]

\* The page mounts: it asks at once and starts its interval.
OpenResults ==
  /\ at = "elsewhere" /\ at' = "results"
  /\ page' = [status |-> "loading", result |-> Nothing]
  /\ finished' = FALSE /\ polling' = TRUE
  /\ \E l \in Load : load[l] = Nothing /\ Ask(l)
  /\ UNCHANGED <<server, rows, coach, faults>>

\* Every four seconds, whether or not an earlier request is still out.
Tick ==
  /\ at = "results" /\ polling
  /\ IF finished THEN polling' = FALSE /\ UNCHANGED load
     ELSE \E l \in Load : load[l] = Nothing /\ Ask(l) /\ UNCHANGED polling
  /\ UNCHANGED <<server, rows, coach, faults, at, page, finished>>

Retry ==
  /\ at = "results" /\ page.status = "error"
  /\ \E l \in Load : load[l] = Nothing /\ Ask(l)
  /\ UNCHANGED <<server, rows, coach, faults, at, page, finished, polling>>

\* The two queries follow the headers, and the answer reaches the page.
Arrives(l) ==
  /\ load[l] # Nothing /\ load[l].pc = "headers"
  /\ load' = [load EXCEPT ![l] = Nothing]
  /\ \E views \in {scored, old.scored} :
       LET response == LoadSessionEvaluations(load[l], views) IN
       /\ finished' = IsEvaluationFinished(response)
       /\ page' = [status |-> "ready", result |-> response]
  /\ UNCHANGED <<server, rows, coach, faults, at, polling>>

\* The session is not found, or the request fails.
Fails(l) ==
  /\ load' = [load EXCEPT ![l] = Nothing]
  /\ finished' = TRUE
  /\ page' = [status |-> "error", result |-> Nothing]
  /\ UNCHANGED <<server, rows, coach, at, polling>>

RequestFails(l) ==
  /\ load[l] # Nothing
  /\ faults < MaxFaults /\ faults' = faults + 1
  /\ Fails(l)

NotFound(l) == load[l] # Nothing /\ load[l].pc = "missing" /\ Fails(l) /\ UNCHANGED faults

\* The candidate leaves: the interval is cleared, late answers go nowhere.
Leave(to) ==
  /\ at = "results" /\ page.status = "ready" /\ (to = "coach" => ~Scoring /\ ~Empty)
  /\ at' = to /\ polling' = FALSE /\ finished' = FALSE
  /\ page' = [status |-> "loading", result |-> Nothing]
  /\ load' = [l \in Load |-> Nothing]

-----------------------------------------------------------------------------
\* GET /coach.

\* Wrong on purpose: the stamp does not count the narratives.
RowsOnly(h, n) == <<Len(h), IF h = <<>> THEN 0 ELSE Head(h).id, 0>>

\* The stamp of a history: its rows, its newest one and its narratives.
CoachCacheStamp(h, n) ==
  <<Len(h), IF h = <<>> THEN 0 ELSE Head(h).id, Cardinality(n)>>

Idle == [pc |-> "idle", rows |-> <<>>, narratives |-> {}, prose |-> <<>>, from |-> Nothing]

\* The page, or a reload of it, asks; the history is read first.
OpenCoach(v) ==
  /\ visit[v] \in {Idle} \cup {[visit[v] EXCEPT !.pc = "served"]}
  /\ visit' = [visit EXCEPT ![v] = [Idle EXCEPT !.pc = "rows"]]
  /\ UNCHANGED <<cache, faults>>

ListUserSessionSummaries(v) ==
  /\ visit[v].pc = "rows"
  /\ visit' = [visit EXCEPT ![v] = [@ EXCEPT !.pc = "cache", !.rows = history, !.narratives = narrated]]
  /\ UNCHANGED <<cache, faults>>

Hit(v) == cache # Nothing /\ cache.stamp = CoachCacheStamp(visit[v].rows, visit[v].narratives)

\* Prose cached under the same stamp is used; otherwise the model is asked,
\* if there is history and the day's budget allows it.
GetCachedCoach(v) ==
  /\ visit[v].pc = "cache"
  /\ \/ /\ IF Hit(v)
               THEN visit' = [visit EXCEPT ![v] = [@ EXCEPT !.pc = "served", !.from = cache.from,
                                !.prose = StoredToProse(cache.prose, Known(visit[v].rows))]]
               ELSE \E next \in {"served"} \cup {"model" : r \in ToSet(visit[v].rows)} :
                      visit' = [visit EXCEPT ![v].pc = next]
        /\ UNCHANGED faults
     \/ /\ faults < MaxFaults /\ faults' = faults + 1 /\ visit[v].rows # <<>>
        /\ \E next \in {"served", "model"} : visit' = [visit EXCEPT ![v].pc = next]
  /\ UNCHANGED cache

Source(v) == [rows |-> Ids(visit[v].rows), narratives |-> visit[v].narratives]

\* The model writes about some of the topics, or fails.
WriteProse(v) ==
  /\ visit[v].pc = "model"
  /\ \E T \in SUBSET Known(visit[v].rows) : \E p \in SetToSeqs(T) :
       visit' = [visit EXCEPT ![v] = [@ EXCEPT !.prose = p,
                   !.from = IF p = <<>> THEN Nothing ELSE Source(v),
                   !.pc = IF p = <<>> THEN "served" ELSE "keep"]]
  /\ UNCHANGED <<cache, faults>>

\* The report is served whether or not it could be stored, behind an erasure too.
PutCachedCoach(v) ==
  /\ visit[v].pc = "keep"
  /\ visit' = [visit EXCEPT ![v].pc = "served"]
  /\ \/ /\ cache' = [stamp |-> CoachCacheStamp(visit[v].rows, visit[v].narratives),
                     from |-> visit[v].from, prose |-> ProseToStored(visit[v].prose)]
        /\ UNCHANGED faults
     \/ faults < MaxFaults /\ faults' = faults + 1 /\ UNCHANGED cache

ServeCoach ==
  /\ \E v \in Visit : \/ at = "coach" /\ OpenCoach(v)
                      \/ ListUserSessionSummaries(v) \/ GetCachedCoach(v)
                      \/ WriteProse(v) \/ PutCachedCoach(v)
  /\ UNCHANGED <<server, rows, screen>>

-----------------------------------------------------------------------------
\* The history page: one read of the rows, of which it shows the cards and,
\* reversed, a line.
TrendLine(h) == IF Len(h) < 2 THEN <<>> ELSE Reverse(Each(h, LAMBDA r : r.overall))

OpenHistory ==
  /\ at = "history" /\ page.result = Nothing
  /\ \/ /\ page' = [status |-> "ready", result |-> [cards |-> Each(history, LAMBDA r : r.id),
                                                     line  |-> TrendLine(history)]]
        /\ UNCHANGED faults
     \/ /\ faults < MaxFaults /\ faults' = faults + 1
        /\ page' = [status |-> "error", result |-> Nothing]
  /\ UNCHANGED <<server, rows, coach, at, finished, polling, load>>

\* The candidate goes from page to page.
Navigate ==
  /\ \/ \E to \in {"coach", "history"} : Leave(to)
     \/ /\ at = "elsewhere" /\ at' \in {"coach", "history"}
        /\ UNCHANGED <<page, finished, polling, load>>
     \/ /\ at \in {"coach", "history"} /\ at' = "elsewhere"
        /\ page' = [status |-> "loading", result |-> Nothing]
        /\ UNCHANGED <<finished, polling, load>>
  /\ UNCHANGED <<server, rows, coach, faults>>

CatchUp == old # Current /\ old' = Current /\ UNCHANGED <<rows, screen, coach, faults>>
           /\ UNCHANGED <<scored, withheld, result, published, erased, ended, carded>>

Init ==
  /\ Pipeline!Init /\ ended = "running" /\ carded = FALSE
  /\ old = Current
  /\ history \in Pasts /\ narrated \in SUBSET Ids(history) /\ expired = 0
  /\ at \in {"elsewhere", "coach"} /\ page = [status |-> "loading", result |-> Nothing]
  /\ finished = FALSE /\ polling = FALSE /\ load = [l \in Load |-> Nothing]
  /\ cache = Nothing /\ visit = [v \in Visit |-> Idle]
  /\ faults = 0

Score ==
  /\ Finish \/ StartEvaluationSummary \/ ScoreAnswers
  /\ UNCHANGED <<rows, screen, coach, faults>>

Card   == PutSessionSummary /\ UNCHANGED <<screen, coach>>
Attach == (AttachSessionSummary \/ RowExpires) /\ UNCHANGED <<screen, coach>>

Poll == \E l \in Load : ReadHeaders(l) \/ Arrives(l) \/ NotFound(l)

Next ==
  \/ Score \/ Card \/ Attach \/ EraseAccount \/ CatchUp
  \/ OpenResults \/ Tick \/ Retry
  \/ Poll \/ (\E l \in Load : RequestFails(l))
  \/ ServeCoach \/ OpenHistory \/ Navigate

Spec == Init /\ [][Next]_vars

\* The pipeline's steps are taken (EventuallyComplete of EvalPipeline), a
\* replica catches up, the server and the browser's timer keep running.
Fairness ==
  /\ WF_vars(Score) /\ WF_vars(Card) /\ WF_vars(CatchUp)
  /\ WF_vars(Poll) /\ WF_vars(Tick)

FairSpec == Spec /\ Fairness

-----------------------------------------------------------------------------
TypeOK ==
  /\ Pipeline!TypeOK
  /\ ended \in {"running", "ended", "opened"} /\ carded \in BOOLEAN
  /\ narrated \subseteq Ids(history)
  /\ at \in {"elsewhere", "results", "coach", "history"}
  /\ page.status \in {"loading", "error", "ready"}
  /\ finished \in BOOLEAN /\ polling \in BOOLEAN
  /\ \A l \in Load : load[l] = Nothing \/ load[l].pc \in {"asked", "headers", "missing"}
  /\ \A v \in Visit : visit[v].pc \in {"idle", "rows", "cache", "model", "keep", "served"}
  /\ faults \in 0 .. MaxFaults /\ expired \in 0 .. MaxExpired

\* When the page has stopped asking because the round is over, it shows the
\* whole round: every answer with its score or as withheld, and the averages
\* unless there was nothing to average - as long as its reads were current and
\* the account is not being erased.
FinishedShowsEverything ==
  (at = "results" /\ finished /\ ~erased /\ page.status = "ready" /\ page.result.fresh) =>
    /\ page.result.views \cup page.result.ids = Question
    /\ page.result.averages # {} \/ page.result.ids = Question

\* The progress shown never passes its total, whatever the four reads of the
\* response saw of the pipeline and of its replicas.
ProgressNeverOverruns ==
  (at = "results" /\ page.status = "ready") =>
    page.result.completed + page.result.unscored <= page.result.total

\* What the page shows of a round that is still moving adds up.
ResultsAddUp == FinishedShowsEverything /\ ProgressNeverOverruns

\* A page that says the answers are being scored stops saying so.
ScoringEnds == (at = "results" /\ Scoring) ~> (erased \/ ~(at = "results" /\ Scoring))

\* It does unless a request fails, two are out together or the account is
\* erased.
Disturbed == faults > 0 \/ erased \/ \E k, l \in Load : k # l /\ load[k] # Nothing /\ load[l] # Nothing

ScoringEndsUndisturbed ==
  (at = "results" /\ Scoring) ~> (Disturbed \/ ~(at = "results" /\ Scoring))

\* The Coach never serves cached advice that was written from other rows or
\* other narratives than the report's numbers.
AdviceIsCurrent ==
  \A v \in Visit : visit[v].pc = "served" /\ visit[v].prose # <<>> => visit[v].from = Source(v)

Opposite == [improving |-> "declining", declining |-> "improving", flat |-> "flat"]

\* The numbers of the report: a history told backwards has the opposite
\* directions, a row's strength and weakness are two ends of its scores even when
\* all are equal, what the roadmap leaves out is no worse than what it keeps, and
\* prose that went through the cache reads as it did when it was written.  Asked
\* of every history there is when the Coach opens.
ReportIsSound ==
  at = "coach" /\ (\A v \in Visit : visit[v] = Idle) =>
    LET kept == ToSet(Roadmap(history)) IN
    /\ \A t \in ToSet(Trends(history)) :
         TrendDirection(Reverse(t.scoreHistory)) = Opposite[t.direction]
    /\ \A row \in ToSet(history) : row.averages # Unrecorded =>
         LET ends == ExtremeDimensions(row.averages) IN
         /\ ends.topStrength # ends.topWeakness
         /\ \A d \in ToSet(Dimensions) :
              row.averages[d] \in row.averages[ends.topWeakness] .. row.averages[ends.topStrength]
    /\ \A i \in kept, j \in Items(history) \ kept : i.avgScore <= j.avgScore
    /\ \A T \in SUBSET Known(history) : \A p \in SetToSeqs(T) :
         Report(history, StoredToProse(ProseToStored(p), Known(history))) = Report(history, p)

\* The Coach's numbers are the history's, and its words were written from them.
CoachIsSound == AdviceIsCurrent /\ ReportIsSound
=============================================================================
