------------------------------ MODULE Requests ------------------------------
(***************************************************************************)
(* The requests of one signed-in candidate against the items of the        *)
(* account: profile saves, a resume upload, the creation of a session, its *)
(* plan, the gap and company agents, the coach, and the worker that scores *)
(* an interview.  They run concurrently (tabs, retries, tasks nobody       *)
(* awaits) and each is a sequence of separate calls to DynamoDB, S3 and    *)
(* Bedrock, one step per call.                                             *)
(*                                                                         *)
(* The material of an account, its resume and repositories, is known by    *)
(* the request that saved it last, a plan by the request that generated    *)
(* it.  Who erases the account is the matter of AccountErasure.            *)
(***************************************************************************)
EXTENDS ModelChain, FiniteSets

CONSTANTS
  Request,      \* requests of the browser, each made at most once
  FirstSession, \* a session that exists from the start
  None,
  Role,         \* target roles
  Casts,        \* what the requests may be: sets of functions to Kind
  Postings,     \* the agents a plan request may start: sets of Agent
  CallsPerDay,  \* config.modelCallsPerDay
  RunsPerSession, \* config.agentRunsPerSession
  LastDay,      \* bound on the days
  MaxFaults     \* bound on failed calls

Agent == {"gap", "intel"}
Kind == {"details", "github", "resume", "create", "plan", "coach", "row"} \cup Agent

\* What runs: a request, or an agent its plan route left running.
Task == Request \X UNION Postings
Process == Request \cup Task
Session == Request \cup {FirstSession}

Material == Request \cup {FirstSession, None}
Plan == [by : Session, mat : Material, role : Role]

ASSUME RequestAssumption ==
  /\ IsFiniteSet(Request)
  /\ FirstSession \notin Request /\ None \notin Session \cup Plan
  /\ Request \cap Task = {}
  /\ Casts \subseteq [Request -> Kind] /\ Postings \subseteq SUBSET Agent
  /\ \A post \in Postings : "intel" \in post => "gap" \in post
ASSUME BudgetAssumption ==
  {CallsPerDay, RunsPerSession, MaxFaults} \subseteq Nat /\ LastDay \in Nat \ {0}

VARIABLES
  profile,  \* the PROFILE item
  file,     \* the stored resume: the request that uploaded it
  meta,     \* each session's META and INPUTS
  refs,     \* the sessions with an item under USER#
  output,   \* each session's GAP and INTEL items
  rows,     \* the history rows, as their number
  plans,    \* the PLAN item: the last plan generated, and what it is stamped with
  coach,    \* the COACH item: the stamp of the cached prose, 0 if none
  usage,    \* the USAGE item: calls spent on a day, 0 if none
  limiter,  \* is there a RATELIMIT item (RateLimit says what it counts)
  day,      \* the UTC day
  proc,     \* each process: the call it makes next, and its locals; astray is
            \* history: it came to an erased account and has found nothing in it
  shown,    \* the plan the browser shows for each session
  faults,
  \* history: model calls granted under each date; did a claim write a date
  \* that was over; sessions planned by two requests at a time; the plan each
  \* interview started with; the material saved under each version; has an
  \* erasure begun; what was written since
  granted, straddled, overlapped, briefed, saved, begun, late

items   == <<profile, file, meta, refs, output, rows, plans, coach, usage, limiter>>
history == <<granted, straddled, overlapped, briefed, saved, begun, late>>
requestVars == <<items, day, proc, shown, faults, history>>

Day == 1..LastDay
Version == 0..(Cardinality(Request) + 1)
Rows == 0..(Cardinality(Request) + 1)
CachedPlan == [plan : Plan, ver : Version, role : Role]

Step == {"idle", "details", "github", "store", "resume", "read", "create", "load", "cached",
         "run", "day", "roll", "model", "keep", "attach", "put", "rows", "prose", "write", "row",
         "done"}

Idle == [pc |-> "idle", kind |-> "plan", s |-> FirstSession, role |-> None, ver |-> 0,
         mat |-> None, post |-> {}, plan |-> None, day |-> 0, again |-> FALSE, heard |-> FALSE,
         astray |-> FALSE]
Done(p) == [Idle EXCEPT !.pc = "done", !.kind = proc[p].kind]

NoProfile == [status |-> "none", named |-> FALSE, ver |-> 0, text |-> None, mat |-> None]
NoMeta == [status |-> "none", ver |-> 0, mat |-> None, role |-> None, plan |-> None, runs |-> 0]

Item == ({"meta", "ref", "gap", "intel"} \X Session)
          \cup ({"profile", "file", "rows", "plan", "coach", "usage", "window"} \X {None})

\* The PROFILE item, a session's META with its INPUTS, and what a process holds.
Profile == [status : {"none", "active", "deleting", "erased"}, named : BOOLEAN,
            ver : Version, text : Material, mat : Material]
Meta == [status : {"none", "planning", "ready", "in_progress"}, ver : Version, mat : Material,
         role : Role \cup {None}, plan : Plan \cup {None}, runs : 0..RunsPerSession]
Locals == [pc : Step, kind : Kind, s : Session, role : Role \cup {None}, ver : Version,
           mat : Material, post : SUBSET UNION Postings, plan : Plan \cup {None},
           day : Day \cup {0}, again : BOOLEAN, heard : BOOLEAN, astray : BOOLEAN]

RequestTypeOK ==
  /\ profile \in Profile
  /\ file \in Material
  /\ meta \in [Session -> Meta]
  /\ refs \subseteq Session
  /\ output \in [Session -> SUBSET Agent]
  /\ rows \in Rows
  /\ plans \in CachedPlan \cup {None}
  /\ coach \in Rows
  /\ usage \in [day : Day \cup {0}, calls : Nat]
  /\ limiter \in BOOLEAN
  /\ day \in Day
  /\ proc \in [Process -> Locals]
  /\ shown \in [Session -> Plan \cup {None}]
  /\ faults \in 0..MaxFaults
  /\ granted \in [Day -> Nat]
  /\ straddled \in BOOLEAN
  /\ overlapped \subseteq Session
  /\ briefed \in [Session -> Plan \cup {None}]
  /\ saved \in [Version -> Material]
  /\ begun \in BOOLEAN /\ late \subseteq Item

\* An account without a profile; or with a complete one and a session created
\* from it, whose plan may be cached and whose interview may have begun.
FirstPlan(role) == [by |-> FirstSession, mat |-> FirstSession, role |-> role]
FirstMeta(role) ==
  LET created == [NoMeta EXCEPT !.status = "planning", !.ver = 1, !.mat = FirstSession] IN
  {created, [created EXCEPT !.status = "in_progress", !.role = role, !.plan = FirstPlan(role)]}

RequestInit ==
  /\ profile \in {NoProfile, [status |-> "active", named |-> TRUE, ver |-> 1,
                              text |-> FirstSession, mat |-> FirstSession]}
  /\ file = profile.text
  /\ \E role \in Role : \E first \in IF profile = NoProfile THEN {NoMeta} ELSE FirstMeta(role) :
       /\ meta = [s \in Session |-> IF s = FirstSession THEN first ELSE NoMeta]
       /\ plans \in IF profile = NoProfile THEN {None}
                   ELSE {None, [plan |-> FirstPlan(role), ver |-> 1, role |-> role]}
  /\ refs = {s \in Session : meta[s].status # "none"}
  /\ output = [s \in Session |-> {}]
  /\ rows \in IF meta[FirstSession].status = "in_progress" THEN {0, 1} ELSE {0}
  /\ coach = 0
  /\ usage = [day |-> 0, calls |-> 0] /\ limiter \in BOOLEAN /\ day = 1
  /\ \E cast \in Casts :
       proc = [p \in Process |-> IF p \in Request THEN [Idle EXCEPT !.kind = cast[p]] ELSE Idle]
  /\ shown = [s \in Session |-> meta[s].plan] /\ faults = 0
  /\ granted = [d \in Day |-> 0] /\ straddled = FALSE /\ overlapped = {}
  /\ briefed = [s \in Session |-> meta[s].plan] /\ begun = FALSE /\ late = {}
  /\ saved = [v \in Version |-> IF v = profile.ver THEN profile.mat ELSE None]

Marked == profile.status \in {"deleting", "erased"}

\* The condition NOT_DELETING of every write to the PROFILE item.
NotDeleting == ~Marked

At(p, step)   == proc[p].pc = step
Goto(p, step) == proc' = [proc EXCEPT ![p].pc = step]
Ends(p)       == proc' = [proc EXCEPT ![p] = Done(p)]
Arrived(p)    == proc[p].pc \notin {"idle", "done"}

\* Items are written by somebody who does not look at the mark.
Writes(new) == late' = IF begun THEN late \cup new ELSE late

Uncounted ==
  UNCHANGED <<limiter, day, shown, faults, granted, straddled, overlapped, briefed, begun>>
Bookkeeping == Uncounted /\ UNCHANGED saved

\* The plan requests for session s that the server has not finished.
InFlight(s) == {r \in Request : Arrived(r) /\ proc[r].kind = "plan" /\ proc[r].s = s}

-----------------------------------------------------------------------------
\* apiRateLimiter counts a request of the browser before any route looks at it, in
\* the item of its user; not if the store is the server's memory, or fails.
CountHit ==
  \/ limiter' = TRUE /\ Writes({<<"window", None>>})
  \/ UNCHANGED <<limiter, late>>

\* A request arrives with a valid access token, which it may be for an hour
\* after the account is gone.
Arrives(r, k, locals) ==
  /\ At(r, "idle") /\ proc[r].kind = k
  /\ proc' = [proc EXCEPT ![r] =
       [locals EXCEPT !.kind = k, !.astray = (profile.status = "erased")]]
  /\ CountHit
  /\ UNCHANGED <<profile, file, meta, refs, output, rows, plans, coach, usage,
                 day, shown, faults, granted, straddled, briefed, saved, begun>>

\* The limiter refuses it, 429; or a route turns it away at once.
TurnedAway(r) ==
  /\ At(r, "idle") /\ proc[r].kind # "row" /\ Ends(r) /\ CountHit
  /\ UNCHANGED <<profile, file, meta, refs, output, rows, plans, coach, usage,
                 day, shown, faults, granted, straddled, overlapped, briefed, saved, begun>>

First(step) == [Idle EXCEPT !.pc = step]

\* What the profile page saves: details, a GitHub user whose repositories have
\* been read, and a resume that has been parsed and redacted.
PutDetails(r) == Arrives(r, "details", First("details")) /\ UNCHANGED overlapped
PutGithub(r)  == Arrives(r, "github", First("github")) /\ UNCHANGED overlapped
PostResume(r) == Arrives(r, "resume", First("store")) /\ UNCHANGED overlapped

\* The form of the start page makes a session of its own first.
PostPreInterview(r) ==
  Arrives(r, "create", [First("read") EXCEPT !.s = r]) /\ UNCHANGED overlapped

\* The page is busy with a plan of session s it has asked for.
IsBusy(s) == \E p \in InFlight(s) : proc[p].heard

\* It plans the session, and offers to do so again when the plan it waited for
\* has failed or did not come in time.
OffersPlan(s) == shown[s] = None /\ ~IsBusy(s)
RequestPlan(r) ==
  \E s \in Session, role \in Role, post \in Postings :
    /\ OffersPlan(s)
    /\ Arrives(r, "plan", [First("load") EXCEPT !.s = s, !.role = role, !.post = post,
                                                !.heard = TRUE])
    /\ overlapped' = IF InFlight(s) # {} THEN overlapped \cup {s} ELSE overlapped

\* The two agents asked for directly.
PostGap(r) ==
  \E s \in Session :
    Arrives(r, "gap", [First("load") EXCEPT !.s = s]) /\ UNCHANGED overlapped
PostCompanyIntel(r) ==
  \E s \in Session :
    Arrives(r, "intel", [First("load") EXCEPT !.s = s]) /\ UNCHANGED overlapped

GetCoach(r) == Arrives(r, "coach", First("rows")) /\ UNCHANGED overlapped

\* A worker has completed a session that was interviewed, and read its META.
SessionCompletes(r) ==
  /\ At(r, "idle") /\ proc[r].kind = "row"
  /\ \E s \in Session : meta[s].status = "in_progress"
                        /\ proc' = [proc EXCEPT ![r].pc = "row", ![r].s = s]
  /\ UNCHANGED <<items, day, shown, faults, history>>

\* API_TIMEOUT_MS passes in the browser; the server does not know.
ClientTimesOut(r) ==
  /\ Arrived(r) /\ proc[r].heard
  /\ proc' = [proc EXCEPT ![r].heard = FALSE]
  /\ UNCHANGED <<items, day, shown, faults, history>>

\* An account that is being erased refuses the write: 409.
HandleFailure == UNCHANGED <<profile, saved>>

\* PUT /profile.
SaveDetails(r) ==
  /\ At(r, "details") /\ Ends(r)
  /\ IF NotDeleting
       THEN profile' = [profile EXCEPT !.status = "active", !.named = TRUE] /\ UNCHANGED saved
       ELSE HandleFailure
  /\ UNCHANGED late /\ Uncounted
  /\ UNCHANGED <<file, meta, refs, output, rows, plans, coach, usage>>

\* PUT /profile/github: other repositories are other material, another version.
SaveGithub(r) ==
  /\ At(r, "github") /\ Ends(r)
  /\ IF NotDeleting
       THEN /\ profile' = [profile EXCEPT !.status = "active", !.ver = @ + 1, !.mat = r]
            /\ saved' = [saved EXCEPT ![profile.ver + 1] = r]
       ELSE HandleFailure
  /\ UNCHANGED late /\ Uncounted
  /\ UNCHANGED <<file, meta, refs, output, rows, plans, coach, usage>>

\* POST /profile/resume, once the PDF is parsed and redacted: the file goes to
\* its one key first ...
PutResume(r) ==
  /\ At(r, "store") /\ Goto(r, "resume")
  /\ file' = r
  /\ Writes({<<"file", None>>}) /\ Bookkeeping
  /\ UNCHANGED <<profile, meta, refs, output, rows, plans, coach, usage>>

\* ... and what was read from it to the profile, which may refuse it.
SaveResume(r) ==
  /\ At(r, "resume") /\ Ends(r)
  /\ IF NotDeleting
       THEN /\ profile' = [profile EXCEPT !.status = "active", !.ver = @ + 1, !.mat = r,
                                          !.text = r]
            /\ saved' = [saved EXCEPT ![profile.ver + 1] = r]
       ELSE HandleFailure
  /\ UNCHANGED late /\ Uncounted
  /\ UNCHANGED <<file, meta, refs, output, rows, plans, coach, usage>>

-----------------------------------------------------------------------------
\* POST /pre-interview: the profile as it is now, a candidate whose quota is
\* used up refused.
ReadProfile(r) ==
  /\ At(r, "read")
  /\ \/ /\ profile.status = "active" /\ profile.named /\ profile.text # None
        /\ proc' = [proc EXCEPT ![r].pc = "create", ![r].ver = profile.ver,
                                ![r].mat = profile.mat]
     \/ Ends(r)
  /\ UNCHANGED late /\ Bookkeeping /\ UNCHANGED items

\* META, INPUTS and the ref, in one transaction that does not look at the profile.
\* The counter of sessions minted follows, which only an administrator sees.
CreateSession(r) ==
  /\ At(r, "create") /\ Ends(r)
  /\ meta' = [meta EXCEPT ![r] = [NoMeta EXCEPT !.status = "planning", !.ver = proc[r].ver,
                                        !.mat = proc[r].mat]]
  /\ refs' = refs \cup {r}
  /\ Writes({<<"meta", r>>, <<"ref", r>>})
  /\ Bookkeeping
  /\ UNCHANGED <<profile, file, output, rows, plans, coach, usage>>

-----------------------------------------------------------------------------
Replannable(s) == meta[s].status \in {"planning", "ready"}

\* What was typed for a plan is screened by the guardrail, which is passed over
\* when it fails.
RefusedField(r) == {FALSE, proc[r].kind = "plan"}

\* Then META and INPUTS in one consistent read; no such session, or one that has
\* begun, ends the request.
LoadPlannerInputs(r) ==
  /\ At(r, "load")
  /\ \E refused \in RefusedField(r) :
     IF Replannable(proc[r].s) /\ ~refused
       THEN proc' = [proc EXCEPT ![r].ver = meta[proc[r].s].ver, ![r].mat = meta[proc[r].s].mat,
              ![r].astray = FALSE,
              ![r].pc = IF proc[r].kind = "plan" THEN "cached" ELSE "run"]
       ELSE Ends(r)
  /\ UNCHANGED late /\ Bookkeeping /\ UNCHANGED items

\* isCachedPlanFresh: the material of this session and the role asked for.
Fresh(r) == plans # None /\ plans.ver = proc[r].ver /\ plans.role = proc[r].role

GetCachedPlan(r) ==
  /\ At(r, "cached")
  /\ proc' = IF Fresh(r) THEN [proc EXCEPT ![r].pc = "attach", ![r].plan = plans.plan]
                         ELSE [proc EXCEPT ![r].pc = "run"]
  /\ UNCHANGED late /\ Bookkeeping /\ UNCHANGED items

-----------------------------------------------------------------------------
\* Wrong on purpose: a session's runs are counted and not limited.
ClaimAnyRun(p) ==
  /\ At(p, "run") /\ meta[proc[p].s].status # "none"
  /\ meta' = [meta EXCEPT ![proc[p].s].runs = @ + 1]
  /\ proc' = [proc EXCEPT ![p].pc = "day", ![p].day = day]
  /\ UNCHANGED late /\ Bookkeeping
  /\ UNCHANGED <<profile, file, refs, output, rows, plans, coach, usage>>

\* spendModelCall: one of the session's runs, and then a date for the day's.
ClaimSessionAgentRun(p) ==
  /\ At(p, "run")
  /\ LET s == proc[p].s IN
       IF meta[s].status # "none" /\ meta[s].runs < RunsPerSession
         THEN /\ meta' = [meta EXCEPT ![s].runs = @ + 1]
              /\ proc' = [proc EXCEPT ![p].pc = "day", ![p].day = day]
         ELSE Ends(p) /\ UNCHANGED meta
  /\ UNCHANGED late /\ Bookkeeping
  /\ UNCHANGED <<profile, file, refs, output, rows, plans, coach, usage>>

\* A call is granted to p under the date it carries, which may be over by now.
Granted(p) ==
  /\ granted' = [granted EXCEPT ![proc[p].day] = @ + 1]
  /\ straddled' = (straddled \/ proc[p].day # day)
  /\ Goto(p, "model")

\* claimDailyModelCall, first write: one more, if the item is of this day and
\* below the cap.  A full item of this day refuses; another day's is rolled.
AddCall(p) ==
  /\ At(p, "day")
  /\ \/ /\ usage.day = proc[p].day /\ usage.calls < CallsPerDay
        /\ usage' = [usage EXCEPT !.calls = @ + 1]
        /\ Granted(p) /\ Writes({<<"usage", None>>})
     \/ /\ usage.day = proc[p].day /\ usage.calls >= CallsPerDay
        /\ Ends(p) /\ UNCHANGED late /\ UNCHANGED <<usage, granted, straddled>>
     \/ /\ usage.day # proc[p].day
        /\ Goto(p, "roll") /\ UNCHANGED late /\ UNCHANGED <<usage, granted, straddled>>
  /\ UNCHANGED <<profile, file, meta, refs, output, rows, plans, coach, limiter,
                 day, shown, faults, overlapped, briefed, saved, begun>>

Rolled(p) ==
  /\ usage' = [day |-> proc[p].day, calls |-> 1]
  /\ Writes({<<"usage", None>>})
  /\ straddled' = (straddled \/ proc[p].day # day)
  /\ IF CallsPerDay > 0
       THEN granted' = [granted EXCEPT ![proc[p].day] = @ + 1] /\ Goto(p, "model")
       ELSE UNCHANGED granted /\ Ends(p)

\* Wrong on purpose: the roll is not conditional.
RollAlways(p) ==
  /\ At(p, "roll") /\ Rolled(p)
  /\ UNCHANGED <<profile, file, meta, refs, output, rows, plans, coach, limiter,
                 day, shown, faults, overlapped, briefed, saved, begun>>

\* Second write: the item starts this day, unless somebody else has started it;
\* then once more from the first.
RollDay(p) ==
  /\ At(p, "roll")
  /\ IF usage.day # proc[p].day THEN Rolled(p)
     ELSE /\ IF proc[p].again THEN Ends(p)
             ELSE proc' = [proc EXCEPT ![p].pc = "day", ![p].again = TRUE]
          /\ UNCHANGED late /\ UNCHANGED <<usage, granted, straddled>>
  /\ UNCHANGED <<profile, file, meta, refs, output, rows, plans, coach, limiter,
                 day, shown, faults, overlapped, briefed, saved, begun>>

-----------------------------------------------------------------------------
\* The model call, on what the process holds.
RunPlanner(r) ==
  /\ At(r, "model") /\ proc[r].kind = "plan"
  /\ \E planned \in {Planned(answers) : answers \in Answers} :
       IF planned
         THEN proc' = [proc EXCEPT ![r].pc = "keep",
                ![r].plan = [by |-> r, mat |-> proc[r].mat, role |-> proc[r].role]]
         ELSE Ends(r)
  /\ UNCHANGED late /\ Bookkeeping /\ UNCHANGED items

RunGapAgent(p) ==
  /\ At(p, "model") /\ proc[p].kind = "gap"
  /\ \E analysed \in {Analysed(first, second) : first, second \in Answers} :
       IF analysed THEN Goto(p, "put") ELSE Ends(p)
  /\ UNCHANGED late /\ Bookkeeping /\ UNCHANGED items

\* It classifies as unknown what it cannot classify.
RunCompanyIntelAgent(p) ==
  /\ At(p, "model") /\ proc[p].kind = "intel" /\ Goto(p, "put")
  /\ UNCHANGED late /\ Bookkeeping /\ UNCHANGED items

\* GAP and INTEL, written whatever has become of the session.
PutOutput(p, agent) ==
  /\ At(p, "put") /\ proc[p].kind = agent /\ Ends(p)
  /\ output' = [output EXCEPT ![proc[p].s] = @ \cup {agent}]
  /\ Writes({<<agent, proc[p].s>>}) /\ Bookkeeping
  /\ UNCHANGED <<profile, file, meta, refs, rows, plans, coach, usage>>

PutGapAnalysis(p)  == PutOutput(p, "gap")
PutCompanyIntel(p) == PutOutput(p, "intel")

\* The cache is stamped with the version the session was created from.
PutCachedPlan(r) ==
  /\ At(r, "keep") /\ Goto(r, "attach")
  /\ plans' = [plan |-> proc[r].plan, ver |-> proc[r].ver, role |-> proc[r].role]
  /\ Writes({<<"plan", None>>}) /\ Bookkeeping
  /\ UNCHANGED <<profile, file, meta, refs, output, rows, coach, usage>>

\* The agents a plan leaves running once its plan is attached.
Started(r) ==
  [p \in Process |->
     IF p = r THEN Done(r)
     ELSE IF \E a \in proc[r].post : p = <<r, a>>
       THEN [proc[r] EXCEPT !.pc = "run", !.kind = p[2], !.plan = None, !.post = {},
                            !.heard = FALSE, !.day = 0, !.again = FALSE]
       ELSE proc[p]]

Attached(r) ==
  LET s == proc[r].s IN
  /\ meta' = [meta EXCEPT ![s].status = "ready", ![s].plan = proc[r].plan,
                          ![s].role = proc[r].role]
  /\ shown' = IF proc[r].heard THEN [shown EXCEPT ![s] = proc[r].plan] ELSE shown
  /\ proc' = Started(r)

\* Wrong on purpose: the plan is attached whatever the session's status.
AttachAlways(r) ==
  /\ At(r, "attach") /\ Attached(r) /\ Writes({<<"meta", proc[r].s>>})
  /\ UNCHANGED <<profile, file, refs, output, rows, plans, coach, usage, limiter,
                 day, faults, granted, straddled, overlapped, briefed, saved, begun>>

\* The plan replaces the session's, in the write that checks it has not begun;
\* the response and the two agents follow.
AttachPlan(r) ==
  /\ At(r, "attach")
  /\ IF Replannable(proc[r].s) THEN Attached(r)
                               ELSE Ends(r) /\ UNCHANGED <<meta, shown>>
  /\ UNCHANGED late
  /\ UNCHANGED <<profile, file, refs, output, rows, plans, coach, usage, limiter,
                 day, faults, granted, straddled, overlapped, briefed, saved, begun>>

-----------------------------------------------------------------------------
\* GET /coach: the stamp of the history, the cached prose for that stamp, a
\* call if there is history and no prose.
ReadRows(r) ==
  /\ At(r, "rows")
  /\ proc' = [proc EXCEPT ![r].pc = "prose", ![r].ver = rows, ![r].astray = @ /\ rows = 0]
  /\ UNCHANGED late /\ Bookkeeping /\ UNCHANGED items

GetCachedCoach(r) ==
  /\ At(r, "prose")
  /\ IF proc[r].ver = 0 \/ coach = proc[r].ver THEN Ends(r)
     ELSE proc' = [proc EXCEPT ![r].pc = "day", ![r].day = day]
  /\ UNCHANGED late /\ Bookkeeping /\ UNCHANGED items

RunCoachAgent(r) ==
  /\ At(r, "model") /\ proc[r].kind = "coach"
  /\ \E written \in {Written(answers) : answers \in Answers} : IF written THEN Goto(r, "write") ELSE Ends(r)
  /\ UNCHANGED late /\ Bookkeeping /\ UNCHANGED items

PutCachedCoach(r) ==
  /\ At(r, "write") /\ Ends(r)
  /\ coach' = proc[r].ver
  /\ Writes({<<"coach", None>>}) /\ Bookkeeping
  /\ UNCHANGED <<profile, file, meta, refs, output, rows, plans, usage>>

\* The worker that has completed a session and read its META writes its row.
PutSessionSummary(r) ==
  /\ At(r, "row") /\ Ends(r)
  /\ rows' = rows + 1
  /\ Writes({<<"rows", None>>}) /\ Bookkeeping
  /\ UNCHANGED <<profile, file, meta, refs, output, plans, coach, usage>>

-----------------------------------------------------------------------------
\* A call fails, or the server dies.  The caches and the counter are tried and
\* passed over; any other failure ends the request.
CallFails(p) ==
  /\ Arrived(p) /\ faults < MaxFaults
  /\ faults' = faults + 1
  /\ \/ Ends(p)
     \/ At(p, "cached") /\ Goto(p, "run")
     \/ At(p, "keep") /\ Goto(p, "attach")
     \/ At(p, "prose") /\ proc[p].ver # 0
        /\ proc' = [proc EXCEPT ![p].pc = "day", ![p].day = day]
  /\ UNCHANGED <<items, day, shown, history>>

\* The candidate begins the interview from the plan on the page ...
Begin(s) == shown[s] # None /\ ~IsBusy(s)

\* ... and the server asks for an account that is not being erased and a session
\* that is ready.
StartInterview(s) ==
  /\ Begin(s)
  /\ profile.status = "active" /\ meta[s].status = "ready"
  /\ meta' = [meta EXCEPT ![s].status = "in_progress"]
  /\ briefed' = [briefed EXCEPT ![s] = meta[s].plan]
  /\ UNCHANGED <<profile, file, refs, output, rows, plans, coach, usage, limiter, day,
                 proc, shown, faults, granted, straddled, overlapped, saved, begun, late>>

Midnight ==
  /\ day < LastDay /\ day' = day + 1
  /\ UNCHANGED <<items, proc, shown, faults, history>>

RequestStep(r) ==
  \/ PutDetails(r) \/ PutGithub(r) \/ PostResume(r) \/ PostPreInterview(r) \/ RequestPlan(r)
  \/ PostGap(r) \/ PostCompanyIntel(r) \/ GetCoach(r) \/ SessionCompletes(r)
  \/ TurnedAway(r) \/ ClientTimesOut(r)
  \/ SaveDetails(r) \/ SaveGithub(r) \/ PutResume(r) \/ SaveResume(r)
  \/ ReadProfile(r) \/ CreateSession(r)
  \/ LoadPlannerInputs(r) \/ GetCachedPlan(r)
  \/ RunPlanner(r) \/ PutCachedPlan(r) \/ AttachPlan(r)
  \/ ReadRows(r) \/ GetCachedCoach(r) \/ RunCoachAgent(r) \/ PutCachedCoach(r)
  \/ PutSessionSummary(r)

SpendStep(p) ==
  \/ ClaimSessionAgentRun(p) \/ AddCall(p) \/ RollDay(p)
  \/ RunGapAgent(p) \/ RunCompanyIntelAgent(p)
  \/ PutGapAnalysis(p) \/ PutCompanyIntel(p) \/ CallFails(p)

RequestNext ==
  \/ \E r \in Request : RequestStep(r)
  \/ \E p \in Process : SpendStep(p)
  \/ \E s \in Session : StartInterview(s)
  \/ Midnight
=============================================================================
