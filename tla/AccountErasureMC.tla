-------------------------- MODULE AccountErasureMC --------------------------
(* A small account: three requests of kinds that meet, and the bounds that *)
(* are worth combining with each; and the rate limit every request of the  *)
(* account passes first.  The two share its item, which the requests make  *)
(* and the erasure deletes: here it is there or not, and what it counts is *)
(* the matter of RateLimit, where DeleteCounter is the erasure's delete.   *)
EXTENDS AccountErasure, RateLimit, TLC

CONSTANTS r1, r2, r3, s0, role1, role2

ThreeRequests == {r1, r2, r3}
Cast(a, b, c) == (r1 :> a) @@ (r2 :> b) @@ (r3 :> c)
SomeCasts ==
  {Cast("github", "create", "plan"), Cast("plan", "plan", "coach"),
   Cast("create", "row", "plan"), Cast("details", "intel", "coach"),
   Cast("row", "create", "resume")}
TwoRoles == {role1, role2}
SomePostings == {{}, {"gap"}}

\* Erasures tried beside each cast, by its first request.  Midnight matters to
\* the budget, whose count an erasure deletes, and failures come on one day.  A
\* second role, and agents left running, are for different casts.  The last
\* attempt meets two requests of the three.  The limiter's item matters once an
\* erasure has begun: that it is there before is no different from its being made
\* by the request that asks for the first erasure, and
\* failures of either kind come without it.
Attempts == [github |-> 0, plan |-> 0, create |-> 1, details |-> 1, row |-> 2]

Focus ==
  /\ erasures <= Attempts[proc[r1].kind]
  /\ erasures + faults = 0 \/ day = 1
  /\ erasures > 0 /\ erasures = Attempts[proc[r1].kind] => At(r2, "idle") \/ At(r3, "idle")
  /\ limiter => erasures > 0 /\ missed = {} /\ faults = 0 /\ proc[r1].kind = "row"
  /\ deleted = 0 \/ errors = 0
  /\ missed = {} \/ faults = 0
  /\ proc[r1].kind \in {"github", "plan", "create"} \/ plans = None
  /\ proc[r1].kind = "create" => erasures = 0 \/ faults = 0
  /\ \A r \in {r2, r3} : proc[r].post = {}
  /\ \/ role2 \notin {proc[p].role : p \in Process} \cup {meta[s0].role}
        /\ (plans = None \/ plans.role = role1)
     \/ proc[r1].kind = "github" /\ erasures = 0

-----------------------------------------------------------------------------
\* The limit is exercised beside an account without a profile that does nothing.
Rests ==
  /\ profile = NoProfile /\ erasures = 0 /\ day = 1 /\ proc[r1].kind = "row"
  /\ \A p \in Process : At(p, "idle")

LimitedInit == Init /\ LimiterInit
LimitedNext ==
  \/ LimiterInit /\ Next /\ UNCHANGED limiterVars
  \/ Rests /\ LimiterNext /\ UNCHANGED vars
LimitedSpec == LimitedInit /\ [][LimitedNext]_<<vars, limiterVars>>
=============================================================================
