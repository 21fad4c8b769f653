# PrepPilot: a TLA+ model of the interview platform

PrepPilot (`src/my-turborepo/`) runs mock interviews: a candidate plans a
session, speaks to an interviewer over a WebSocket, and reads scores that were
computed afterwards. This directory holds a TLA+ model of the parts of it that
are hard to test, the TLC configurations that check it, and TLAPS proofs of its
main properties. Paths below are relative to `src/my-turborepo/`; `lib/`,
`routes/`, `agents/`, `worker.ts`, `lambda.ts` are in `apps/servers/`, and
`hooks/`, `pages/`, `components/`, `*.tsx` in `apps/web/src/`.

## 1. Inventory

One DynamoDB table holds everything durable. Every request to it is atomic; a
sequence of requests is not, and all multi-step handlers are such sequences.

| component | state | operations | talks to |
|---|---|---|---|
| interview connection (`routes/interview.ts`) | latches `closing`, `slot`, `streamLiveAt`; `ExchangeBuffer`; ids `recorded` | claim, start, open stream, events, shutdown | profile, session, Sonic, SQS, the page |
| exchange buffer (`lib/exchangeBuffer.ts`) | question, pending question and answer parts | append, interrupt, drop, take | interview |
| Sonic stream (`lib/sonic.ts`, `lib/interviewClock.ts`) | event queue, current and replacement stream, timers | start, renew, close, send, note, tool result | Bedrock |
| candidate profile (`lib/profile.ts`) | `sessionsConducted`, grant, `status`, version; plan and coach caches | claim and refund a slot, grant, mark deleting, save | DynamoDB, S3 |
| session records (`lib/sessions.ts`) | META `status` (planning, ready, in_progress, evaluating, complete), `chargedAt`, ANSWER items | create, attach plan, start, record answer, finish, complete, delete | DynamoDB |
| scoring (`lib/evaluations.ts`, `worker.ts`, `lambda.ts`, `lib/sqs.ts`) | SUMMARY rollup, EVAL items, history rows; the queue and its DLQ | open rollup, enqueue, score, mark unscored, elect, complete, summarise | SQS, Bedrock, DynamoDB |
| plan, gap, company agents (`routes/plan.ts`, `gap.ts`, `companyIntel.ts`) | none of their own | claim a run, spend a call, cache, plan, attach; agents left running | budget, profile, sessions |
| budget, rate limit (`lib/budget.ts`, `lib/rateLimitStore.ts`) | one counter item per user and day, or per key and window | claim, roll over | DynamoDB |
| erasure (`lib/erasure.ts`) | the `deleting` mark, the tombstone | mark, sweep sessions, refs, rows, S3, tombstone, Cognito | all of them |
| coach (`routes/coach.ts`, `agents/coach.ts`) | the COACH cache with its stamp | trends, roadmap, prose | history rows, Bedrock |
| results, history (`pages/result.tsx`, `routes/sessions.ts`) | the page's `finishedRef`, its interval | load, poll, retry | session records |
| interview page (`hooks/useInterview.ts`, `lib/audio`, `lib/interviewSocket.ts`) | `status`, refs to microphone, socket and voice | start, stop, leave, events | interview connection |
| browser session (`lib/auth.tsx`, `lib/sessionRefresh.ts`, `routes/auth.ts`) | cookies; each tab's status, profile and shared refresh | sign in, up, out, Google, refresh, guard | Cognito |
| second factor (`components/MfaSettings.tsx`, `lib/cognitoUserAuth.ts`) | the panel; Cognito's secret and preference | set up, verify, prefer, disable | Cognito |
| administration (`pages/admin.tsx`, `routes/admin.ts`, `lib/cognitoDirectory.ts`) | form, table, charts | grant, list, page, read metrics | Cognito, profile, CloudWatch |

What makes it hard:

- Deliveries of a standard queue overlap and repeat, Lambda invocations run
  concurrently, and the completion of a session is *derived* by whoever thinks
  it scored the last answer.
- Tabs race for the last quota slot, for one session and for one set of
  cookies, while refunds and an administrator's grants change what they read.
- Shutdowns, renewals and pages being left are asynchronous, and race with the
  events that still arrive and with calls nobody awaits.
- An account may be erased while any of this is in flight, and the erasure may
  fail half way.
- Reads are eventually consistent where the code does not ask otherwise, and
  caches are served under stamps of what they were made from.
- The AWS SDK repeats a request whose response was lost; several writes are not
  idempotent.

`PROJECT.json` lists every hazard with its source line, and which property
covers it or why none does.

What makes each component correct:

- *scoring*: completed once, on every answer; nothing lost by a crash; nothing
  resurrected after erasure; never stuck.
- *connection and quota*: never more interviews than allowed; a refund gives
  back one's own slot; one stream per session; an answer that is stored and
  worth scoring is queued; no session left in progress.
- *dialogue*: an answer is filed with the question it answers.
- *Sonic*: a handover neither cuts the audio nor ends the interview; each stream
  is sent what the service accepts, and the conversation so far; nothing bills
  after the end.
- *requests and erasure*: caps hold; plans fit their sessions; nothing readable
  survives an erasure but what was written behind it, and a retry finishes it.
- *browser*: cookies, tabs and profile are one session's; calls are answered; the
  microphone is released; the page shows whose turn it is.
- *results, admin*: what a page says is what is stored.

## 2. Modules

| module | role |
|---|---|
| `Scoring` | abstract: what a reader of the results is promised |
| `EvalPipeline` | the scoring pipeline of one session, refining `Scoring` |
| `EvalPipelineMC` | a small instance of it up to symmetry |
| `Interview` | the interview connections and the quota of one account |
| `ServiceHealth` | the service charts of the admin page |
| `AdminConsole` | the admin page and its routes; composes `Interview` and `ServiceHealth` |
| `InterviewMC` | a small `AdminConsole` |
| `SonicConversation` | one interview across its Sonic streams |
| `InterviewClock` | operators: nudges, phases and what a stream is told of the time |
| `SonicStream` | what is sent over those streams; composes the two |
| `SonicStreamMC` | a small `SonicStream` |
| `Dialogue` | the events of one connection, its `ExchangeBuffer` and its messages |
| `InterviewPage` | the browser's half, sharing the socket with `Dialogue`, which it extends |
| `InterviewPageMC` | three scenes of it |
| `ModelChain` | operators: the chain of text models and what an agent makes of an answer |
| `Requests` | the concurrent requests of one account, call by call |
| `AccountErasure` | the erasure beside them; extends `Requests` |
| `RateLimit` | the shared rate-limit store |
| `AccountErasureMC` | casts of three requests; composes `AccountErasure` and `RateLimit` |
| `BrowserSession` | the tabs, the cookies and the auth routes |
| `SecondFactor` | the settings of the second factor |
| `BrowserSessionMC` | a small `BrowserSession`; composes it and `SecondFactor` |
| `CoachReport` | operators: trends and roadmap |
| `Results` | results page, history and Coach, over an instance of `Scoring` |
| `ResultsMC` | a small `Results` |
| `EvalPipelineProofs`, `InterviewProofs`, `AdminConsoleProofs`, `SonicProofs`, `InterviewPageProofs`, `AccountErasureProofs`, `SignInProofs`, `ResultsProofs` | the TLAPS proofs, see 5 |

Operators commented "Wrong on purpose" are plausible bugs, kept beside the
action they alter. They are not part of `Next`: substituted for it, they show
which property would catch them. A variable marked *history* in a declaration
records what happened so that a property can speak of it; no guard reads it.

JavaScript runs one callback at a time, so in every module a step is what runs
between two awaits: one call to a service, with what its answer sets in motion.

### EvalPipeline

State and code: `status` is META's, `rollup`/`averaged`/`unscored` the SUMMARY
item, `answers`, `evals`, `cards`, `summarised` the ANSWER, EVAL and history
items; `msg` and `receives` are the queue; `pc` and the worker variables are the
local variables of `handleMessage` at each await; `eraser`, `sweep` are
`deleteSessionData` and `deleteSessionSummaries`.

| action | code |
|---|---|
| `StartEvaluationSummary`, `SendBatch`, `CloseFails` | the end of `shutdown`: rollup, then batches; a failure is logged and ends it |
| `Receive`, `Expire`, `Redrive` | SQS delivery, visibility timeout, redrive policy |
| `LoadJob` | `loadEvaluationJob`: already scored, no answer, ready, or a parse failure |
| `RunEvaluator` | `runEvaluator` and the catch around it: score, guardrail block, model failure (recorded on the final attempt, else redelivered) |
| `PutEvaluation`, `MarkUnscored` | the outcome's write |
| `ReadRollup`, `ReadScores`, `Elect`, `CardRead`, `CardPut`, `CompleteEvaluation` | `finalizeIfComplete`, one step per request |
| `Summarise`, `Ack` | `summariseSession`; DeleteMessage |
| `WorkerFails`, `CardFails`, `ElectRetried` | a crash or a DynamoDB error; a swallowed one; an SDK resend |
| `EraseQuery`, `EraseItem`, `EraseCards`, `EraseFails` | the sweep, item by item |

Score values, prompts and Bedrock's own retries are abstracted to an outcome.
`Lambda` chooses between `lambda.ts` (which knows the final attempt) and the
poller of `worker.ts` (which does not). A malformed message body is not modelled:
every message is one `enqueueEvaluations` sent.

### Interview

State and code: `used`, `limit`, `account` are the PROFILE item; `status`,
`charged` each META; `boot` is where `handleConnection` is, `stop` where its
`shutdown` is; `slot`, `recorded`, `overtime` are its closure variables;
`spoken` and `taken` are the buffer; `writing` the `flushExchange` calls that
are still in flight; `late` is history, what the shutdown did not wait for.

| action | code |
|---|---|
| `SetAccessGrant`, `MarkProfileDeleting` | an administrator; step 1 of erasure |
| `ReadQuota`, `ClaimInterviewSlot` | the two halves of the compare-and-swap loop |
| `StartInterview`, `OpenStream` | the conditional status write; `sonic.start()` |
| `AppendAnswer`, `TurnEnds`, `WriteLands` | `onEvent`, `void flushExchange()`, the return of `recordAnswer` |
| `WindowPasses` | the refund window |
| `AbortStartup`, `Shutdown`, `ReadScoredIds`, `RefundInterviewSlot`, `FinishInterview`, `Enqueue`, `CloseStream` | `shutdown`, one step per await |
| `StartupFails`, `RefundFails`, `FinishFails`, `Crash` | errors and the catch blocks; the process dies |
| `ClaimResent`, `StartResent`, `RefundResent`, `FinishResent` | the same write twice, after a lost response |

`Interview` and `EvalPipeline` meet at `Enqueue`, whose failure modes are
`EvalPipeline`'s `SendBatch` and `CloseFails`.

### AdminConsole and ServiceHealth

`AdminConsole` runs beside the connections: a grant to `Mine`, the candidate of
`Interview`, is that module's `SetAccessGrant`. `form` is `GrantForm`'s state,
`posts` its requests with the server's progress, `table` and `loads` the same of
`AccountTable`. A grant is a lookup (`FindDirectoryUser`, which refuses to guess
between accounts that share an email), a write and an answer; `GiveUp` is the
client's timeout, after which the server goes on. A page of the table is a
ListUsers and a BatchGetItem that may lag. `ServiceHealth` has `hours`, the
chosen window, and `reads`, the metric reads under way; an answer is shown
whichever window it is for, as `admin.tsx` does.

### SonicConversation, SonicStream, InterviewClock

State and code: `current`, `renewal` (for `renewing`, with what `renew` awaits),
`closed`, `timer`, `retired` are SonicConversation's fields; `previous` is
`renew`'s local; `stream` is each SonicSession (`active`, the 300 ms drain, the
end); `route` is where the connection's `shutdown` is. `own`, `ignored` and
`endedBy` are history: which streams ended by themselves, whose end the
handover's guard swallowed, and whose end shut the interview down.

| action | code |
|---|---|
| `StartSucceeds`, `StartFails` | `start()`, and the route's catch |
| `RenewTimer` | `renew()` up to its await; it returns at once if closed or renewing |
| `OpenResolves`, `OpenRejects` | the rest of `renew()`: swap, schedule, bank the usage, close the old stream; or the catch |
| `EndsByItself` | the response iterator ends, or the stream's idle or maximum timer fires |
| `DrainEnds` | the end of `SonicSession.close`, `onClose` with its guard, and whoever awaited |
| `Shutdown`, `Close` | `shutdown()` begins; after its writes it closes the conversation |

Two facts about time are used: drains take the same 300 ms and so end in the
order they began, and a renewal timer of minutes does not fire during a drain
that began before it was armed.

`SonicStream` gives each of those steps its events: `StartUp`, `Renew`,
`HandOver` and the others are the steps above with what they push. `queue` is
the stream's `EventQueue` (frames capped at `MaxQueued`), `heard` what the service
has pulled, `brief` the prompt's clock, `kickoffNote` the first note, replayed at
the head of each history; `heldOn`, `born`, `crossing` and `missed` are history.
`SendAudio`, `Nudge`, `ToolUse`, `ExchangeEnds`,
`CompletionEnds` are the route's callbacks. `InterviewClock` is
`lib/interviewClock.ts` and the prompt's clock section in seconds.

### Dialogue and InterviewPage

`Dialogue` is `handleConnection.onEvent` for one connection at a time: the
interviewer's blocks of text and audio, the candidate's words, barge-ins, ends
of turns and of the interview, as operations of `ExchangeBuffer` and messages on
`link`, the socket. A question is the number of the turn that asked it, so that
`said` (history) can say which question each fragment answers.

`InterviewPage` is `useInterview`: `status` and `shown` (what has been rendered,
which `statusRef` follows), the refs in `dev`, and `at`, the await each `start()`
is in: permission prompt, audio, socket. Events of the socket are handled in
order, with the refs they find then. `stop`, leaving the page, failures of the
worklet, the dial or the stream, and a second `start()` come at any moment.

### Requests, ModelChain, AccountErasure

`Requests` is the account's other traffic: `proc` is each request with the call
it makes next and its locals; the other variables are the items (PROFILE, the
resume file, META and INPUTS, refs, GAP and INTEL, history rows, PLAN, COACH,
USAGE, and whether there is a RATELIMIT item). What an account is made of is known by the request that saved it, a plan
by the request that generated it, so "fits" can be stated. A request's kind is
one of saving details, GitHub import, resume upload, session creation, plan
(with the agents it leaves running), gap, company, coach, and the worker's
history row.

| action | code |
|---|---|
| `SaveDetails`, `SaveGithub`, `PutResume`, `SaveResume` | `routes/profile.ts` |
| `ReadProfile`, `CreateSession` | `routes/preInterview.ts` |
| `LoadPlannerInputs`, `GetCachedPlan`, `RunPlanner`, `PutCachedPlan`, `AttachPlan` | `routes/plan.ts` |
| `ClaimSessionAgentRun`, `AddCall`, `RollDay` | `lib/budget.ts` |
| `RunGapAgent`, `RunCompanyIntelAgent`, `PutGapAnalysis`, `PutCompanyIntel` | the agents and their writes |
| `ReadRows`, `GetCachedCoach`, `RunCoachAgent`, `PutCachedCoach` | `routes/coach.ts` |
| `PutSessionSummary`, `StartInterview` | what the worker and the interview write meanwhile |
| `CountHit`, `TurnedAway` | `lib/rateLimit.ts`: the limiter counts a request, and refuses it or lets it through to its route |
| `ClientTimesOut`, `CallFails`, `Midnight` | the browser gives up, a call fails, the date changes |

`AccountErasure` is `eraseUserAccount`: the mark, the query of the refs, each
session's query and deletion, refs, rows, file, the four keys of
`deleteProfileItems` (PLAN, COACH, USAGE, the limiter's item), tombstone, Cognito.
Queries may miss items, any call may fail, and the candidate may try again.

### RateLimit

`increment` of the shared store: it reads the clock once, then tries at most
three rounds of "one more if the item is of my window" and "start my window if
the item is of another". `hit` is each request, `tally` what became of them.
`DeleteCounter` is the erasure's delete of the item, at any moment after the caller
got a request through; the count starts again behind it, so `CapPerWindow` allows
the limit once more for each. In `Requests` and `AccountErasure` the same item is
there or not, because what it counts does not matter to an erasure. The default
store, a counter in the memory of one process, is express-rate-limit's.

### BrowserSession and SecondFactor

`jar` is the browser's cookies, `owner` whose each session is, `page` each tab's
`AuthProvider` with its sign-in form and the profile it shows, `call` its
requests through the api client, `renewal` its refresh in flight. A request
carries the cookies of the moment it is sent; an answer sets cookies when it
arrives. Each cookie runs out at its own time (`Lapses`): the refresh cookie lasts
a week from the sign-in, is not renewed by a refresh, and may go before an access
cookie that a refresh has just set, so a session is there while either cookie is
(`Holding`). `stale` are the tabs whose session ended or changed behind them, by
another tab or with the last of its cookies, until they hear of it. `SecondFactor` is the Security section of the profile page in several
tabs: `panel` is each section with the call it awaits, `totp` what Cognito keeps
(the secret set up last, the one verified last, the preference),
`authenticator` the secrets in the candidate's app.

### CoachReport and Results

`Results` puts a candidate's pages over `Pipeline == INSTANCE Scoring`, with the
steps before it (the session ends, the rollup is opened) and after it (history
row, narrative, expiry). A request of the results page is `ReadHeaders` and
`Arrives`, whose reads see one of two versions of each item. `CoachReport` is the
arithmetic of `agents/coach.ts`, on scores in tenths; `Results` asks for its
properties on every history of up to three rows when the Coach opens. A candidate comes
with rows of earlier interviews, any of which may have its narrative already;
`PastAssumption` says no two of them are of one interview.

## 3. Runs

| run | instance | shows |
|---|---|---|
| `eval_pipeline` | 2 answers, 2 invocations, 2 receives, batches of 2, 1 fault, Lambda | one election, every answer accounted for (`OutcomesAreCounted`); refinement of `Scoring` (`KeepsPromise`); the session leaves `evaluating` (`EventuallyComplete`) |
| `eval_erasure` | 1 answer, 2 overlapping poller deliveries, erasure, 1 fault | erased sessions stay erased, the queue drains |
| `eval_parked` (violated) | one fault | a session parked in `evaluating`, see 6 |
| `interview` | 2 tabs and 2 sessions without failures; 1 tab with 3 exchanges, 2 faults, 1 resend, a crash and the erasure mark; the admin page with 2 grants, 3 loads, 1 failure and 3 reads of the charts | quota and records (`CounterIsHonest`, `CounterMatchesRecords`), exclusivity, which answers are queued (`AnswersReachScoring`), `LeavesInProgress`; the admin page (`ConsoleTellsTheTruth`, `GrantsHitOneAccount`) |
| `interview_flush` (violated) | 1 connection, 2 exchanges, no fault | an answer the shutdown overtakes, see 6 |
| `sonic` | 6 streams that carry nothing; 3 streams with frames, tools and exchanges; 3 streams by the clock | `HandoverIsSeamless`, `StreamsAreWellFormed`, `ConversationIsCarried`, `NothingReopens`, `EverythingEnds` |
| `sonic_leak` (violated) | 2 streams | a replacement nobody closes, see 6 |
| `page` | 3 turns of up to 2 blocks, 2 words; 2 starts, stops and leaves around one turn, 1 fault | `AnswersFitTheirQuestions`, `TurnIsTheTurns`, `ReasonIsKept`, `MicIsReleased` |
| `page_leak` (violated) | 1 start, left at the permission prompt | an interview behind the page, see 6 |
| `account` | 5 casts of 3 requests, 1 call a day, 2 runs a session, 2 erasures, 1 fault, 1 missed item; 4 requests under a limit of 1 in 2 windows, with 1 failed write or 1 deletion of the counter | `ErasureIsExact`, `ErasureSticks`, `CapPerDay`, `PlansHold`, `LimitIsExact` |
| `browser` | 2 tabs, 2 sessions, 1 fault; 2 settings panels, 2 secrets, 1 failure | `TabsMatchTheJar`, `StaysSignedIn`, `EveryCallSettles`, `FactorIsUsable` |
| `results` | 2 answers, 1 request, a lagging replica, 2 visits to the Coach, 1,729 histories with any of their narratives | `ResultsAddUp`, `ScoringEndsUndisturbed`, `CoachIsSound` |

Several of these properties are conjunctions of named parts, each with its own
comment in its module.

Scenes. A constraint called `Focus` bounds combinations, not values: each MC
module names a few scenes (one tab that fails, or two that race; a long dialogue
on a quick page, or a short one on a slow page) whose states are explored in
full, instead of one instance of everything at once. A state that satisfies no
scene is still generated and checked, but not explored further. Components that
share nothing are composed in one run by a guard on the other's initial state.

Why the bounds suffice: the races here are between two actors, or between two
and an erasure, so two workers, tabs or panels and three requests exhibit them;
two answers make "the last answer" ambiguous and two receives give a non-final
and a final attempt; one fault reaches every error path once, and where an error
path meets a second failure (the refund and the status write of `shutdown`) two
are allowed. Three turns are the fewest in which an answer can be filed one turn
off and the buffer still hold another. The code's own values (15 answers, 3
receives, batches of 10, 3 claim attempts) are larger, and the theorems of
section 5 hold for all of them. `Max...` constants are the model's bounds; the
others are parameters of the code.

Where the history of a defect would make a property vacuous or false, the
property says so by name and promises nothing behind it: `crossed` (the session
changed or started under a refresh, the account under a form), `stale` (a tab whose
session ended behind it), `straddled` (a date that was
over was written), `turnedBack`, `outdated`, `tangled`, `lagged`, `mixed`. Section
6 lists what those excuse. Deadlock is not checked: a session that is over, a
page that is left and a request that is answered stop.

## 4. Fairness

`EvalPipeline`: the close path and each invocation run on (every request has a
client timeout, and Lambda its own), SQS keeps delivering, expiring and
redriving, and a sweep that has begun goes on. No fault, resend or erasure is
ever forced. Where a handler can take several outcomes of one call, weak
fairness lets any one of them be taken for ever: `EventuallyComplete` therefore
holds even when the model fails on every attempt.

`Interview`: startup, each write and the closing steps return, and `Shutdown` is
fair because `hardStopTimer` fires at the latest. Candidates need not speak.

`SonicConversation` and `SonicStream`: a stream's opening settles (the SDK's
timeouts), a drain and the shutdown's writes end, every stream has its maximum
timer and every interview its hard stop. No renewal need ever succeed, and the
service need not pull.

`InterviewPage`: what the browser has begun it finishes, except the permission
prompt, which waits for the candidate; the server's start resolves, its hard stop
fires, its shutdown ends; what was sent is delivered.

`BrowserSession`: a call is answered, or refused, or the client's timeout ends it.
`Results`: the pipeline's steps are taken (that is `EventuallyComplete`), a replica
catches up, the server answers and the browser's interval fires.

`EventuallyComplete` and `LeavesInProgress` are stated for executions without a
fault, because the code does not recover from one there: a crash can leave a
session in progress or in `evaluating` for good. `QueueDrains`, `EverythingEnds`,
`MicIsReleased` and `EveryCallSettles` hold with faults too.

## 5. Proofs

All theorems are about the safety part of a specification, hence about the
specification, and hold for every value of the constants under the modules'
named assumptions.

`EvalPipelineProofs`: `ScoringInv` is the inductive invariant, and is stated
until a sweep begins. The properties alone are not inductive: that averages
cover the answers depends on what a worker had read when it decided. So
`SnapshotsAreStored` says what a worker has read is a lower bound of what is
stored (nothing but the sweep removes items), `OutcomeStored` that a worker past
its write has stored its outcome, `RollupFirst` that there is nothing to score
before there is a rollup, and `ClosingIsJustified` that at most one worker is
past the election. `CountCoversQuestions` turns the code's comparison of numbers
into a statement about sets. From these follow `CompleteIsAccounted`,
`AveragesCover`, `NoAnswerLost`, `OneWinner`, together `OutcomesCount`; the action
property `AveragesNeverChange`; and `ImplementsScoring` (every step is a step of
`Scoring` or a stutter). `SummaryHasRow` and the action property `ErasedMetaStays`
need no invariant and hold through erasure.

`InterviewProofs`: `QuotaHolds` needs that a pending claim's decision was made
under an allowance that was in force and left room (`DecisionStands`);
`SlotsAreCounted` counts, besides the holders, the connections that have latched
a refund and not made it (`OwedAreCounted`), and assumes no resend, since a
repeated refund takes two slots off (section 6); `OneConnection` rests on
`SessionsAreTaken`; `ScoredMeansCharged` on `RefundedSaidNothing`;
`MessagesHaveAnswers` on `ListIsStored`; `AnswersAreQueued` on
`NothingForgotten`. `RecordsMatch` relates two items that no request writes together:
`LedgersAgree` says that without failures the counter is the number of slots owed and
the charges are the sessions of the `Payers`; each claim, start, refund and finish moves
the two sides by the same connection, and when all are over those who owe and those who
pay are the same, no two with one session. `NoRefundIsLeft` justifies a simplification:
the refund `finishInterview`'s catch block tries again (`routes/interview.ts:436`) is
never due, so `FinishFails` has none. `CounterHolds` and `AnswersArrive` state the other
properties of the run.

`AdminConsoleProofs`: `ConsoleInterviews` says that the admin page does nothing to the
account that `Interview` does not allow, so that the theorems above hold beside it. This
needs the types of both together (`ConsoleTyped`), since what a post grants must be an
allowance. `ConsoleTruth` rests on three invariants.

- *Form* (`FormInv`): one post at most is heard, only while the form is saving, and a
  grant whose answer is under way is in force unless the account was changed again behind
  the form's back. Before the page is open there is nothing to hear (`NothingYet`).
- *Table* (`TableInv`): while one load is out at a time and none has lagged, the rows on
  screen, those a "load more" will append to and those an answer carries fit what is stored
  (`RowsFit`), but for an account that is not `Settled`: changed by a grant whose answer is
  still to come, which will reload the table, or by one the form does not hear of.
  `AccountsKept` is what each step but that answer leaves of it.
- *Charts* (`ChartsInv`): while one read is out at a time, it and the charts shown are of
  the window chosen.

`OneAccountPerGrant` needs `OneIsMeant`: a post about to write has found exactly one
account, and neither its username nor its email has changed since. A directory is finite.

`SonicProofs`: `ConversationInv` says that streams are opened in
order and only the current one is live (`OthersAreOver`), that a renewal replaces
the current stream by a later one (`RenewalFromCurrent`), and why a stream drains
that did not end by itself: the shutdown, or a renewal still waiting for it
(`ClosedForAReason`). Types need it too, as what is banked must be a stream. From
it follow `TwoStreamsAtMost`, `HandoverIsRoutine`, `AudioLands` and
`UsageIsWhole`; `CloseIsFinal` needs no invariant.

It goes on to what the streams carry. `StreamsConverse`: a step of `SonicStream` is a
step of `SonicConversation` or a stutter, so that all of this holds under traffic.
For `StreamsWellFormed`, lemmas on sequences say what an input Bedrock accepts may
gain and lose: something that belongs in an open block (`SaysMore`), its three ends
(`SaysItsEnds`), a frame that was pulled (`FrameIsPulled`); and that what a stream is
opened with is accepted (`OpeningFits`). `EveryStepMoves` shows that each action does one
of these to each stream or leaves it alone (`Moved`), with the invariant
`StreamInv`: what `start` and `renew` wait for is opening (`Waits`), and the note that
heads the history is there once there is a history (`KickedOff`).

For `ConversationCarried`, `TalkInv` adds what the streams know: a stream in being
forgets only frames (`ToldStays`) and so still knows what it was opened with
(`Recalled`), what came after was held on it or during its opening (`Unheard`), no nudge is
early (`Timed`), and the nudges that fired are known to the stream in use and to the
one that opens (`OnTime`). The last needs that the prompt's phase, computed in whole
minutes, is the nudges' (`PhasesMeet`), which holds for the settings of
`constants.ts` (`InProduction`: no test mode, whole minutes, the final call no earlier than
the wrap-up), under which the theorem is stated.

`AccountErasureProofs`, of `RateLimit`: for the cap (`LimiterCapHolds`), `PassedAreCounted` says that, until the counter is
turned back, what has passed in the counter's window is at most its hits and the
limit, and that a window the counter has not reached has let nobody pass; each of
them beyond what the deletions of the counter made it forget (`Forgotten`, a limit
for each), as a deleted counter has reached no window. For the other side, `HitsAreRequests` counts by cardinality: without a failed or repeated
write the hits of the item are requests that have asked, those still on their way
apart, so that a refusal, which needs more hits than the limit, needs more
requests. `TypeOK` is inductive with the fact that a request on its way read a
window that had begun.

`SignInProofs`, of `SecondFactor`: `CodesInv` follows a secret from the setup's answer to the
preference: what a panel verifies is in the authenticator, and the device Cognito
holds is a secret some panel verified. `PanelsMatch` is the strengthening of
`PanelIsTrue` by what a call in flight will make of the preference. That a panel
which sets up has a secret (`EnrollingHasSecret`) is needed for the types.

`AccountErasureProofs`, of `AccountErasure`, is about `Requests` and the erasure together, for any number of
requests, agents they leave running, attempts, failures and missed items. Its base is
`ProcessesMove`: a step moves a process to the next call of its kind, ends it, starts
it, or starts it as an agent of a plan (`Moves`), and what is written, `OnlyTheseWrite`.
On that rest four inductive invariants.

- *Types* (`ProcessesAreSound`): a version or a history row is the work of a request
  that is done, so neither outnumbers them (`Numbered`, by cardinality); a process is
  at a call of its kind, with what the earlier ones found. Without either, the types
  are not inductive.
- *Erasure* (`ErasureIsSound`): until the first mark, refs lead to all there is of a
  session and to whatever is being made for it (`Untouched`), which is why a session
  that no ref leads to must have been written late or missed. From then on what the
  sweep has gone past is excused (`Swept`), by the order of its calls (`Rank`): refs go
  after the sessions they point at. `StaysErased` and `LeavesNothing` say that an account
  whose tombstone stands only empties, and what an attempt that runs alone has left.
- *Budget* (`BudgetIsKept`): the counter is never behind what was granted, and nothing
  is counted ahead of the day, until a date that is over is written.
- *Plans* (`PlansStayFit`): a version stands for one material, wherever it is kept
  (`VersionsHold`), so the stamp of the cached plan means what it says; a session is
  created once (`SessionsAreMadeOnce`); what a process plans fits the session it has
  read (`PlansFit`), which outlives that session's deletion; nobody is planning a
  session whose plan the page shows, unless two requests planned it at once
  (`OnePlanAtATime`).

They give `TypeCorrect`, `ErasureExact`, `ErasedForGood`, `CapHolds` and `PlansKept`.
Requests are finitely many (`RequestAssumption`), as they are in any execution up to a
moment; no other bound is used.

`SignInProofs`, of `BrowserSession`: `TabsAreCoherent` says what a tab can show and wait for in each
status; `OneSessionAtATime` that, until a session changes
or starts under a refresh, there is one session of which the cookies, the refreshes and
what tabs ask for and show all are, also while a refresh is about to bring back
cookies that have run out; `TabsKnow` that, without failures, a
tab at rest is right, because whatever may still change it carries the cookies' own
session, and no refresh asks for one while a tab says there is none. They give `TypeCorrect` and `TabsAreRight`. `NoSilentSignOut`, an action
property, needs what the calls that end a session carry.

`InterviewPageProofs` is about the page, its sockets and the dialogue together, for any
number of attempts, turns, blocks, words and messages under way (a turn has at least
one block). Three invariants carry it.

- *Dialogue* (`DialogueIsSound`): until the shutdown takes the buffer, text is pending
  exactly when the turn began behind an answer (`PendingFits`), which is what makes
  the end of a turn file an exchange, and the answer under way began where the last
  one filed ends (`AnswerFits`); from then on all that is said is too late
  (`RestIsTooLate`). One server runs at a time (`OneServer`), or two would share the
  buffer. From it follows `AnswersFit`.
- *Sockets* (`SocketsAreSound`, `WiresAreSound`): audio is of a later turn than the
  barge-in in front of it, a turn that was cut off is over, and a turn that is over
  has its end on the wire behind its beginning.
- *Page* (`PageIsSound`): a start that crossed no earlier one is alone with what it
  opened (`OneStart`), and a page that says the interviewer speaks has before it
  the rest of the turn, its end or its last chunk (`WillBeTold`).

They give `TurnIsShown`; `ReasonKept`, an action property, needs only that the types hold.

`ResultsProofs` is about the results page and the Coach over the pipeline, for any
answers, histories, narratives they come with, requests at once, rows that expire and
failures. The pipeline's steps are those of `Scoring` (`RunsScoring`), which
`ImplementsScoring` shows `EvalPipeline` to take. Two invariants carry the rest, and the
types are inductive only with the second, since a narrative must have its row.

- *Results page* (`PageAddsUp`): headers and scores are read at different moments. So
  headers that were current when they were read are a lower bound of what is scored, until
  the account is erased (`HeadersFit`), because scores only come until then
  (`ScoresOnlyCome`): with averages or `complete` in the headers, whatever the later query
  finds makes the round whole. The progress needs no such thing: unscored answers with a
  score are not counted twice, and a lagging replica too answers a set of the round's
  answers (`ReplicaFits`, `AnswersAddUp`). It gives `PageAddsUpAlways`.
- *Coach* (`CoachInv`): the stamp on cached prose counts rows and narratives and names the
  newest row, which alone would not tell two histories with as many of each apart. But all
  that was ever read is of one history (`OneStory`): rows of earlier interviews only leave
  it, narratives only come to the rows that stay (`Earlier`), and the watched interview's
  row comes once, in front. Of two such readings with the same stamp neither has lost or
  gained anything (`SameStampSameSource`), so prose from the cache was written from the
  rows and narratives it is served with (`HitIsOfSource`). It gives `AdviceHolds`, the
  first half of `CoachIsSound`. One interview at a time is completed in this model; its
  row stays in front as long as it does not expire.

Model-checked only: every property with fairness, which is beyond the prover
(liveness needs ENABLED), and `ReportIsSound`, the second half of `CoachIsSound`: means,
sorts and selections of sequences of any length, whose proof is an induction over data.

## 6. Where the code and its comments disagree

With a run that shows it:

- *Parked session* (`eval_parked`): the election's winner fails before
  `completeEvaluation`; every redelivery sees the averages, stops and is
  acknowledged. `worker.ts:175` says a failure there makes the check run again.
- *Overtaken answer* (`interview_flush`): the write started at END_TURN is not
  awaited by the shutdown. When the interviewer ends the interview,
  `completionEnd` follows that END_TURN, so this is the ordinary ending rather
  than a rare one. `routes/interview.ts:620` says the flush is always awaited.
- *Leaked stream* (`sonic_leak`): a close that lands while `renew` opens the
  replacement closes the old stream only. `routes/interview.ts:350` says that
  whatever ends first must end the other.
- *Interview behind the page* (`page_leak`): `start()` goes on after the page was
  left at the permission prompt. `hooks/useInterview.ts:89` says every unmount path
  releases the microphone and the socket.

Found in the same way, without a run of their own:

- The election's `UpdateItem` creates a SUMMARY the sweep has deleted
  (`EvalPipeline.RollupHasCount`); `lib/evaluations.ts:891` explains why the
  neighbouring write must not.
- `ADD -1` of a refund is repeated by the SDK after a lost response, against
  `lib/profile.ts:733` ("at most once per claim"); `HoldersAreCounted` is therefore
  stated until a write is repeated.
- `components/MfaSettings.tsx:38` says nothing is ever on and enrolling at once. Two
  setups can be: the first is verified, the answer of the second puts the section
  back to enrolling, and Cancel then says "off" while the factor is on
  (`SecondFactor.NeverOnAndEnrolling`).
- `pages/result.tsx:193`: an error stops the interval and Retry asks once, so behind it
  the page says answers are being scored and to stay, and does not ask again
  (`Results.ScoringEnds` without its exceptions; `messages.ts:363`).
- `lib/erasure.ts:38` says every mutating path refuses a marked account, requests in
  flight included. `createSession`, the history row, caches, agents' output and
  files look at no mark; `ErasureIsExact` lists what may be written behind it. The
  limiter counts every request with a token that is still valid, so after an erasure
  an item that names the user may be there again (`NothingComesBack` excepts it).
- `lib/profile.ts:332` deletes the limiter's count in mid-window, so each erasure
  that is tried again lets the limit pass once more; `CapPerWindow` says how much.
- `routes/auth.ts:253`: an answer to /refresh that arrives after a sign-out sets
  the access cookie again, and one of A's that arrives after B signed in gives B's
  browser A's access. A refused one clears whatever cookies are there. No page
  hears that the cookies have run out (`lib/authCookies.ts:59`): a tab with nothing to
  ask for says it is signed in until its next request is refused.
- `pages/admin.tsx:391` promises that a change is visible without a refresh, and
  `:417` that the rows on screen are kept: the table's read may lag, overlapping
  loads replace each other in the order they are answered, and a failed "load
  more" replaces the rows by the error. Overlapping reads of the charts likewise
  leave those of another window.
- `lib/rateLimitStore.ts:99` and `lib/budget.ts:99` compare with "another", not "an
  earlier", window or day: a delayed request turns the counter back.
- `hooks/useInterview.ts:248`: Stop while `start()` awaits is undone when it goes on;
  a second start drops the handle of the first one's microphone.
- `lib/exchangeBuffer.ts:161`: the end of a turn noted after `take` applies to the
  next question. A turn that was talked over stays as the prefix of the next one.
- `routes/interview.ts:913` says a nudge is skipped once the end was requested; the
  wrap-up is not. What is said while a replacement opens is not told to it.
- `lib/interviewClock.ts`: in test mode a renewed stream can be told it is in the
  core phase and in the closing window at once; `PhasesAgree` holds otherwise.
- `lib/sonic.ts:830`: when the old stream has begun to end by itself just before the
  replacement comes up, its close returns at once, `renewing` drops, and its
  `onClose` then shuts down an interview whose new stream works. The properties
  allow this path, since that stream ended by itself.

## 7. Not modelled

- Prompts, parsing and validation of what models answer; the scores' values and
  the guardrail's verdicts are outcomes. Redaction and resume extraction are text
  processing without state.
- Password reset, JWT verification and the origin check: a call or a computation
  each.
- Audio: encoding, resampling and the worklet's buffer. A chunk is its turn.
- The default rate-limit store (in a library), TTL deletion other than of history
  rows, and the SDK's retries other than those that repeat a write.
- Forms, the landing page, and rendering: no protocol state.

## 8. Plan

The composition of `SonicConversation` with `Interview`'s shutdown writes.
