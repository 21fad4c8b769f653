--------------------------- MODULE AccountErasure ---------------------------
(***************************************************************************)
(* DELETE /profile: the erasure of an account while its requests run.  The *)
(* account is marked, everything found under it deleted call by call, the  *)
(* profile replaced by a tombstone and the identity deleted last.  Any     *)
(* call may fail, which ends the erasure; the candidate tries again.       *)
(*                                                                         *)
(* The queries that find what to delete are not consistent reads: they may *)
(* miss an item.                                                           *)
(***************************************************************************)
EXTENDS Requests

CONSTANTS
  MaxErasures,  \* bound on the attempts
  MaxMissed     \* bound on the items the queries miss

ASSUME ErasureAssumption == {MaxErasures, MaxMissed} \subseteq Nat

VARIABLES
  sweep,     \* the erasure: its next call and its locals
  identity,  \* does the Cognito user exist
  \* history: what queries missed; how many erasures were tried
  missed, erasures

erasureVars == <<sweep, identity, missed, erasures>>
vars == <<requestVars, erasureVars>>

NoSweep == [pc |-> "idle", list |-> {}, left |-> {}, keys |-> {}, whole |-> TRUE, idle |-> {}]

TypeOK ==
  /\ RequestTypeOK
  /\ sweep \in [pc : {"idle", "list", "query", "delete", "refs", "rows", "file", "plan",
                      "coach", "usage", "window", "tombstone", "identity"},
                list : SUBSET Session, left : SUBSET Session, keys : SUBSET Item,
                whole : BOOLEAN, idle : SUBSET Request]
  /\ identity \in BOOLEAN
  /\ missed \subseteq Item
  /\ erasures \in 0..MaxErasures

Init ==
  /\ RequestInit
  /\ sweep = NoSweep /\ identity = TRUE /\ missed = {} /\ erasures = 0

\* What is stored under session s, and of the account.
Partition(s) ==
  {i \in {<<"meta", s>>} : meta[s].status # "none"} \cup {<<a, s>> : a \in output[s]}

Survivors ==
  (UNION {Partition(s) : s \in Session}) \cup {<<"ref", s>> : s \in refs}
    \cup {i \in {<<"profile", None>>} : profile.named \/ profile.text # None
                                        \/ profile.status = "active"}
    \cup {i \in {<<"file", None>>} : file # None}
    \cup {i \in {<<"rows", None>>} : rows # 0}
    \cup {i \in {<<"plan", None>>} : plans # None}
    \cup {i \in {<<"coach", None>>} : coach # 0}
    \cup {i \in {<<"usage", None>>} : usage.day # 0}
    \cup {i \in {<<"window", None>>} : limiter}

\* A query that should return all the items there are.  What the account had
\* from the start it does not miss.
Queried(all, found) ==
  /\ found \subseteq all /\ Cardinality(missed \cup (all \ found)) <= MaxMissed
  /\ \A i \in all \ found : i[2] # FirstSession
  /\ missed' = missed \cup (all \ found)

Goes(pc) == sweep' = [sweep EXCEPT !.pc = pc]
Idlers == {r \in Request : At(r, "idle")}
Busy == \E p \in Process : Arrived(p)

Others == UNCHANGED <<limiter, day, proc, shown, faults, granted, straddled, overlapped, briefed,
                      saved, late>>

-----------------------------------------------------------------------------
\* The dialog lets the candidate delete the account, and try again after a
\* failure, but not while an attempt is answered.
CanDelete == sweep.pc = "idle" /\ erasures < MaxErasures

\* The mark, on a profile or a tombstone; there may be neither.  The limiter has
\* counted the request that asks for it.
MarkProfileDeleting ==
  /\ CanDelete /\ CountHit
  /\ erasures' = erasures + 1
  /\ begun' = TRUE
  /\ profile' = IF profile.status \in {"none", "erased"} THEN profile
                ELSE [profile EXCEPT !.status = "deleting"]
  /\ sweep' = [NoSweep EXCEPT !.pc = "list", !.whole = ~Busy, !.idle = Idlers]
  /\ UNCHANGED <<file, meta, refs, output, rows, plans, coach, usage, identity, missed, day,
                 proc, shown, faults, granted, straddled, overlapped, briefed, saved>>

Visit(todo) == IF todo = {} THEN "refs" ELSE "query"

\* Wrong on purpose: the refs go before the sessions they point at.
ListThenForget ==
  /\ sweep.pc = "list" /\ refs' = {} /\ UNCHANGED missed
  /\ sweep' = [sweep EXCEPT !.list = refs, !.left = refs, !.pc = Visit(refs)]
  /\ UNCHANGED <<profile, file, meta, output, rows, plans, coach, usage, begun, identity,
                 erasures>>
  /\ Others

ListUserSessionIds ==
  /\ sweep.pc = "list"
  /\ \E found \in SUBSET refs :
       /\ Queried({<<"ref", s>> : s \in refs}, {<<"ref", s>> : s \in found})
       /\ sweep' = [sweep EXCEPT !.list = found, !.left = found, !.pc = Visit(found),
                                 !.whole = @ /\ found = refs]
  /\ UNCHANGED <<items, begun, identity, erasures>> /\ Others

\* deleteSessionData: the keys of one partition, and then their deletion.
QuerySession ==
  /\ sweep.pc = "query"
  /\ \E s \in sweep.left : \E found \in SUBSET Partition(s) :
       /\ Queried(Partition(s), found)
       /\ sweep' = [sweep EXCEPT !.left = @ \ {s}, !.keys = found, !.pc = "delete",
                                 !.whole = @ /\ found = Partition(s)]
  /\ UNCHANGED <<items, begun, identity, erasures>> /\ Others

Delete(keys) ==
  /\ meta' = [s \in Session |-> IF <<"meta", s>> \in keys THEN NoMeta ELSE meta[s]]
  /\ output' = [s \in Session |-> {a \in output[s] : <<a, s>> \notin keys}]

DeleteKeys ==
  /\ sweep.pc = "delete" /\ Delete(sweep.keys)
  /\ sweep' = [sweep EXCEPT !.keys = {}, !.pc = Visit(sweep.left)]
  /\ UNCHANGED <<profile, file, refs, rows, plans, coach, usage, begun, identity, missed,
                 erasures>>
  /\ Others

DeleteUserSessionRefs ==
  /\ sweep.pc = "refs" /\ Goes("rows")
  /\ refs' = refs \ sweep.list
  /\ UNCHANGED <<profile, file, meta, output, rows, plans, coach, usage, begun, identity,
                 missed, erasures>>
  /\ Others

\* Wrong on purpose: the history rows are those of the sessions found.
SummariesOfListed ==
  /\ sweep.pc = "rows" /\ Goes("file")
  /\ rows' = IF sweep.list # {} THEN 0 ELSE rows
  /\ UNCHANGED <<profile, file, meta, refs, output, plans, coach, usage, begun, identity, missed,
                 erasures>>
  /\ Others

DeleteSessionSummaries ==
  /\ sweep.pc = "rows"
  /\ LET all == {i \in {<<"rows", None>>} : rows # 0} IN \E found \in SUBSET all :
       /\ Queried(all, found)
       /\ rows' = IF found = all THEN 0 ELSE rows
       /\ sweep' = [sweep EXCEPT !.pc = "file", !.whole = @ /\ found = all]
  /\ UNCHANGED <<profile, file, meta, refs, output, plans, coach, usage, begun, identity,
                 erasures>>
  /\ Others

DeleteResume ==
  /\ sweep.pc = "file" /\ Goes("plan")
  /\ file' = None
  /\ UNCHANGED <<profile, meta, refs, output, rows, plans, coach, usage, begun, identity,
                 missed, erasures>>
  /\ Others

\* deleteProfileItems: PLAN, COACH, USAGE and the limiter's item, one after the
\* other ...
DeleteProfileItem ==
  /\ sweep.pc \in {"plan", "coach", "usage", "window"}
  /\ \/ sweep.pc = "plan" /\ plans' = None /\ Goes("coach") /\ UNCHANGED <<coach, usage, limiter>>
     \/ sweep.pc = "coach" /\ coach' = 0 /\ Goes("usage") /\ UNCHANGED <<plans, usage, limiter>>
     \/ sweep.pc = "usage" /\ usage' = [day |-> 0, calls |-> 0]
        /\ Goes("window") /\ UNCHANGED <<plans, coach, limiter>>
     \/ sweep.pc = "window" /\ limiter' = FALSE
        /\ Goes("tombstone") /\ UNCHANGED <<plans, coach, usage>>
  /\ UNCHANGED <<profile, file, meta, refs, output, rows, identity, missed, erasures, day, proc,
                 shown, faults, history>>

\* ... and the tombstone, which replaces the item whatever it holds.
PutTombstone ==
  /\ sweep.pc = "tombstone" /\ Goes("identity")
  /\ profile' = [NoProfile EXCEPT !.status = "erased"]
  /\ UNCHANGED <<file, meta, refs, output, rows, plans, coach, usage, begun, identity, missed,
                 erasures>>
  /\ Others

\* A user who is gone already is a success.
DeleteCognitoUser ==
  /\ sweep.pc = "identity" /\ sweep' = NoSweep
  /\ identity' = FALSE
  /\ UNCHANGED <<items, begun, missed, erasures>> /\ Others

\* A call of the erasure fails: 500, and nothing is undone.  A batch of deletes
\* may have done some of them.
ErasureFails ==
  /\ sweep.pc # "idle" /\ faults < MaxFaults
  /\ faults' = faults + 1 /\ sweep' = NoSweep
  /\ \/ UNCHANGED <<meta, output>>
     \/ sweep.pc = "delete" /\ \E keys \in SUBSET sweep.keys : Delete(keys)
  /\ UNCHANGED <<profile, file, refs, rows, plans, coach, usage, limiter, day, proc, shown,
                 history, identity, missed, erasures>>

ErasureNext ==
  \/ MarkProfileDeleting \/ ListUserSessionIds \/ QuerySession \/ DeleteKeys
  \/ DeleteUserSessionRefs \/ DeleteSessionSummaries \/ DeleteResume
  \/ DeleteProfileItem \/ PutTombstone \/ DeleteCognitoUser \/ ErasureFails

Next ==
  \/ RequestNext /\ UNCHANGED erasureVars
  \/ ErasureNext

Spec == Init /\ [][Next]_vars

-----------------------------------------------------------------------------
\* What an erasure has gone through leaves nothing but what its queries missed
\* and what was written behind its back, by calls that do not look at the mark.
\* No session is left without the ref that leads to it because an erasure
\* failed half way (lib/erasure.ts).
ErasureIsExact ==
  profile.status = "erased" \/ ~identity =>
    \A i \in Survivors : i \in late \cup missed \/ <<"ref", i[2]>> \in missed

\* Requests that arrive at an erased account bring nothing back but the file of
\* a resume, which goes to S3 before the profile is asked, and the item of the rate
\* limit, which counts a request before any route asks (rateLimit.ts:31), unless
\* they find a session or a history row that was left behind.
NothingComesBack ==
  profile.status = "erased" /\ (\A p \in Process : Arrived(p) => proc[p].astray)
    => Survivors' \subseteq Survivors \cup {<<"file", None>>, <<"window", None>>}

\* A further erasure that runs alone and misses nothing deletes what was left
\* behind, but for what lies in sessions nothing leads to any more.
RetrySweepsTheRest ==
  sweep.pc = "tombstone" /\ sweep'.pc = "identity" /\ sweep.whole /\ sweep.idle = Idlers
    => \A i \in Survivors' : i[2] \in Session \ (refs' \cup sweep.list)

\* An erased account only empties: late requests do not fill it again, and the
\* same request made once more finishes what an attempt left (routes/profile.ts).
ErasureSticks == [][NothingComesBack /\ RetrySweepsTheRest]_vars

\* claimDailyModelCall grants no more calls under a date than the cap, whoever
\* asks at once, unless a server writes a date that is over or the count is erased.
CapPerDay == ~straddled /\ ~begun => \A d \in Day : granted[d] <= CallsPerDay

\* The plan of a session was made from the material the session was created
\* from, for the role it carries, whichever caches it went through.
PlanFitsSession ==
  \A s \in Session : meta[s].plan # None =>
    meta[s].plan.mat = meta[s].mat /\ meta[s].plan.role = meta[s].role

\* An interview keeps the plan it started with, and that is the plan the
\* candidate saw, unless the session was planned by two requests at once.
InterviewRunsShownPlan ==
  \A s \in Session : briefed[s] # None /\ meta[s].status # "none" =>
    /\ meta[s].status = "in_progress" /\ meta[s].plan = briefed[s]
    /\ s \in overlapped \/ briefed[s] = shown[s]

\* From the cache, through a retry and into the interview a plan stays the one
\* that was made for its session.
PlansHold == PlanFitsSession /\ InterviewRunsShownPlan

-----------------------------------------------------------------------------
(***************************************************************************)
(* The inductive invariants behind them.                                   *)
(***************************************************************************)

\* The calls a request of each kind makes.
Agents == {"load", "run", "day", "roll", "model", "put"}
StepsOf ==
  [details |-> {"details"}, github |-> {"github"}, resume |-> {"store", "resume"},
   create |-> {"read", "create"}, row |-> {"row"}, gap |-> Agents, intel |-> Agents,
   plan |-> {"load", "cached", "run", "day", "roll", "model", "keep", "attach"},
   coach |-> {"rows", "prose", "day", "roll", "model", "write"}]

\* A process makes the calls of its kind, each with what the earlier ones found.
KeepsToItsKind(p) ==
  /\ ~Arrived(p) => proc[p] = [Idle EXCEPT !.pc = proc[p].pc, !.kind = proc[p].kind]
  /\ Arrived(p) => proc[p].pc \in StepsOf[proc[p].kind]
  /\ Arrived(p) /\ proc[p].kind = "plan" => proc[p].role \in Role
  /\ proc[p].pc \in {"keep", "attach"} => proc[p].plan # None
  /\ proc[p].pc \in {"day", "roll"} => proc[p].day # 0

\* Every version and every row is the work of a request that is done.
Finished == {r \in Request : At(r, "done")}
Numbered == profile.ver <= Cardinality(Finished) + 1 /\ rows <= Cardinality(Finished) + 1

ProcessesAreSound == (\A p \in Process : KeepsToItsKind(p)) /\ Numbered

\* Until a server writes a date that is over, nothing is counted ahead of the
\* day, and the counter is never behind what was granted.
BudgetIsKept ==
  ~straddled /\ ~begun =>
    /\ usage.day <= day
    /\ \A d \in Day : /\ granted[d] <= CallsPerDay
                      /\ d = usage.day => granted[d] <= usage.calls
                      /\ d # usage.day /\ d >= day => granted[d] = 0

\* What has read the session it is for, and what plans it.
HasLoaded(p) ==
  proc[p].kind \in {"plan", "gap", "intel"} /\ Arrived(p) /\ ~At(p, "load")
Plans(p) == HasLoaded(p) /\ proc[p].kind = "plan"

\* A session is created once, before anything is made of it.
SessionsAreMadeOnce ==
  /\ \A s \in Session : meta[s].status = "none" => meta[s] = NoMeta
  /\ \A r \in Request :
       \/ meta[r].status # "none" \/ shown[r] # None \/ briefed[r] # None
       \/ \E p \in Process : HasLoaded(p) /\ proc[p].s = r
       => At(r, "done")

\* A version stands for one material, wherever it is kept.
Known(ver, mat) == saved[ver] = mat /\ (NotDeleting => ver <= profile.ver)
VersionsHold ==
  /\ Known(0, None)
  /\ NotDeleting => saved[profile.ver] = profile.mat
  /\ \A s \in Session : Known(meta[s].ver, meta[s].mat)
  /\ \A p \in Process : proc[p].kind # "coach" => Known(proc[p].ver, proc[p].mat)
  /\ plans # None => Known(plans.ver, plans.plan.mat) /\ plans.plan.role = plans.role

\* What a process plans fits the session it plans for.
PlansFit ==
  /\ PlanFitsSession
  /\ \A p \in Process :
       /\ proc[p].kind = "plan" /\ proc[p].plan # None =>
            /\ Plans(p)
            /\ proc[p].plan.mat = proc[p].mat /\ proc[p].plan.role = proc[p].role
       /\ Plans(p) /\ meta[proc[p].s].status # "none" => meta[proc[p].s].mat = proc[p].mat

\* One plan at a time: once the page shows one, nobody is planning the session.
OnePlanAtATime ==
  \A s \in Session \ overlapped :
    /\ \A p, q \in InFlight(s) : p = q
    /\ shown[s] # None =>
         InFlight(s) = {} /\ (meta[s].status # "none" => meta[s].plan = shown[s])

PlansStayFit == SessionsAreMadeOnce /\ VersionsHold /\ PlansFit /\ OnePlanAtATime
                  /\ InterviewRunsShownPlan

\* What an erasure is excused of leaving behind.
Excused(i) == i \in late \cup missed \/ <<"ref", i[2]>> \in missed

\* How far an erasure is.
Rank == [idle |-> 0, list |-> 1, query |-> 2, delete |-> 2, refs |-> 3, rows |-> 4, file |-> 5,
         plan |-> 6, coach |-> 7, usage |-> 8, window |-> 9, tombstone |-> 10,
         identity |-> 11]
Past(step) == Rank[sweep.pc] > Rank[step]

\* Before the first erasure a ref leads to everything there is of a session and
\* to whatever is being made for it.
Untouched ==
  ~begun =>
    /\ sweep = NoSweep /\ identity /\ missed = {} /\ late = {} /\ ~Marked
    /\ \A s \in Session : Partition(s) # {} => s \in refs
    /\ \A p \in Process : HasLoaded(p) => proc[p].s \in refs

\* From then on what no ref leads to is excused, and an erasure has excuses for
\* all it has gone past.
Swept ==
  begun =>
    /\ \A s \in Session \ refs : \A i \in Partition(s) : Excused(i)
    /\ Past("list") =>
         \A s \in Session :
           /\ s \notin sweep.list /\ s \in refs => Excused(<<"ref", s>>)
           /\ s \notin sweep.left => \A i \in Partition(s) : Excused(i) \/ i \in sweep.keys
    /\ Past("delete") => sweep.left = {}
    /\ sweep.pc # "delete" => sweep.keys = {}
    /\ Past("refs") => \A s \in refs : Excused(<<"ref", s>>)
    /\ Past("rows") /\ rows # 0 => Excused(<<"rows", None>>)
    /\ Past("file") /\ file # None => Excused(<<"file", None>>)
    /\ Past("plan") /\ plans # None => Excused(<<"plan", None>>)
    /\ Past("coach") /\ coach # 0 => Excused(<<"coach", None>>)
    /\ Past("usage") /\ usage.day # 0 => Excused(<<"usage", None>>)
    /\ Past("window") /\ limiter => Excused(<<"window", None>>)

\* An account that is erased stays so, and clean.
StaysErased ==
  /\ ~identity \/ sweep.pc = "identity" => profile.status = "erased"
  /\ profile.status = "erased" =>
       ~profile.named /\ profile.text = None /\ \A i \in Survivors : Excused(i)

ErasureIsSound == Untouched /\ Swept /\ StaysErased

\* Who comes to an erased account gets no further than what asks for its items.
AstrayIsHarmless ==
  \A p \in Process : proc[p].astray =>
    /\ profile.status = "erased"
    /\ \/ proc[p].pc \in {"details", "github", "store", "resume", "read", "load", "rows"}
       \/ At(p, "prose") /\ proc[p].ver = 0

\* An erasure that has missed nothing and met nobody has emptied what it is past.
Alone == sweep.pc # "idle" /\ sweep.whole /\ sweep.idle = Idlers
LeavesNothing ==
  /\ sweep.pc # "idle" => Idlers \subseteq sweep.idle
  /\ Alone =>
       /\ ~Busy
       /\ Past("list") => refs \subseteq sweep.list
                          /\ \A s \in sweep.list \ sweep.left : Partition(s) \subseteq sweep.keys
       /\ Past("refs") => refs = {}
       /\ Past("rows") => rows = 0
       /\ Past("file") => file = None
       /\ Past("plan") => plans = None
       /\ Past("coach") => coach = 0
       /\ Past("usage") => usage.day = 0
       /\ Past("window") => ~limiter
=============================================================================
