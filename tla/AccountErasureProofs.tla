------------------------ MODULE AccountErasureProofs ------------------------
(***************************************************************************)
(* Proofs about AccountErasure and the requests it runs beside: the types, *)
(* the daily cap on model calls, that plans stay what they were made for,  *)
(* and what an erasure leaves behind.  For any number of requests, agents, *)
(* days, erasures, failures and missed items.  And about the rate limit    *)
(* those requests pass first, for any number of requests, windows and      *)
(* failures.                                                               *)
(***************************************************************************)
EXTENDS AccountErasure, RateLimit, FiniteSetTheorems, TLAPS

\* The starting points of every record are of its type.
LEMMA BlankRecords ==
  /\ Cardinality(Request) \in Nat /\ 0 \in Version /\ 1 \in Version /\ Rows = Version
  /\ Idle \in Locals /\ NoProfile \in Profile /\ NoMeta \in Meta
<1>1. Cardinality(Request) \in Nat
  BY RequestAssumption, FS_CardinalityType
<1>2. 0 \in Version /\ 1 \in Version /\ Rows = Version
  BY <1>1 DEF Version, Rows
<1>3. Idle \in Locals
  BY <1>2 DEF Idle, Locals, Step, Kind, Session, Material
<1>4. NoProfile \in Profile
  BY <1>2 DEF NoProfile, Profile, Material
<1>5. NoMeta \in Meta
  BY <1>2, BudgetAssumption DEF NoMeta, Meta, Material
<1> QED
  BY <1>1, <1>2, <1>3, <1>4, <1>5

\* What becomes of a process: its next step, its end, what it has found.
LEMMA LocalsStay ==
  ASSUME NEW q \in Locals
  PROVE  /\ \A step \in Step : [q EXCEPT !.pc = step] \in Locals
         /\ \A step \in Step, ver \in Version, mat \in Material :
              [q EXCEPT !.pc = step, !.ver = ver, !.mat = mat] \in Locals
         /\ \A step \in Step, ver \in Version, mat \in Material :
              [q EXCEPT !.ver = ver, !.mat = mat, !.astray = FALSE, !.pc = step] \in Locals
         /\ \A step \in Step, ver \in Version, b \in BOOLEAN :
              [q EXCEPT !.pc = step, !.ver = ver, !.astray = b] \in Locals
         /\ \A step \in Step, plan \in Plan \cup {None} :
              [q EXCEPT !.pc = step, !.plan = plan] \in Locals
         /\ \A step \in Step, d \in Day \cup {0} : [q EXCEPT !.pc = step, !.day = d] \in Locals
         /\ \A step \in Step : [q EXCEPT !.pc = step, !.again = TRUE] \in Locals
         /\ \A step \in Step, s \in Session : [q EXCEPT !.pc = step, !.s = s] \in Locals
         /\ [q EXCEPT !.heard = FALSE] \in Locals
         /\ \A kind \in Kind, b \in BOOLEAN : [q EXCEPT !.kind = kind, !.astray = b] \in Locals
         /\ \A kind \in Kind : [Idle EXCEPT !.pc = "done", !.kind = kind] \in Locals
<1>1. \A step \in Step : [q EXCEPT !.pc = step] \in Locals
  BY DEF Locals
<1>2. \A step \in Step, ver \in Version, mat \in Material :
        [q EXCEPT !.pc = step, !.ver = ver, !.mat = mat] \in Locals
  BY DEF Locals
<1>3. \A step \in Step, ver \in Version, mat \in Material :
        [q EXCEPT !.ver = ver, !.mat = mat, !.astray = FALSE, !.pc = step] \in Locals
  BY DEF Locals
<1>4. \A step \in Step, ver \in Version, b \in BOOLEAN :
        [q EXCEPT !.pc = step, !.ver = ver, !.astray = b] \in Locals
  BY DEF Locals
<1>5. \A step \in Step, plan \in Plan \cup {None} : [q EXCEPT !.pc = step, !.plan = plan] \in Locals
  BY DEF Locals
<1>6. \A step \in Step, d \in Day \cup {0} : [q EXCEPT !.pc = step, !.day = d] \in Locals
  BY DEF Locals
<1>7. \A step \in Step : [q EXCEPT !.pc = step, !.again = TRUE] \in Locals
  BY DEF Locals
<1>8. \A step \in Step, s \in Session : [q EXCEPT !.pc = step, !.s = s] \in Locals
  BY DEF Locals
<1>9. [q EXCEPT !.heard = FALSE] \in Locals
  BY DEF Locals
<1>10. \A kind \in Kind, b \in BOOLEAN : [q EXCEPT !.kind = kind, !.astray = b] \in Locals
  BY DEF Locals
<1>11. \A kind \in Kind : [Idle EXCEPT !.pc = "done", !.kind = kind] \in Locals
  BY BlankRecords DEF Locals, Step
<1> QED
  BY <1>1, <1>2, <1>3, <1>4, <1>5, <1>6, <1>7, <1>8, <1>9, <1>10, <1>11

\* A request that ends makes one more that is finished, and there was room for it.
LEMMA OneMoreFinished ==
  ASSUME NEW r \in Request, ~At(r, "done")
  PROVE  /\ Cardinality(Finished) \in Nat /\ Cardinality(Finished) + 1 <= Cardinality(Request)
         /\ Cardinality(Finished \cup {r}) = Cardinality(Finished) + 1
<1>1. Finished \subseteq Request /\ r \notin Finished
  BY DEF Finished
<1>2. IsFiniteSet(Finished) /\ Cardinality(Finished) \in Nat
  BY <1>1, RequestAssumption, FS_Subset, FS_CardinalityType
<1>3. Cardinality(Finished \cup {r}) = Cardinality(Finished) + 1
  BY <1>1, <1>2, FS_AddElement
<1>4. Finished \cup {r} \subseteq Request
  BY <1>1
<1>5. Cardinality(Finished \cup {r}) <= Cardinality(Request)
  BY <1>4, RequestAssumption, FS_Subset
<1> QED
  BY <1>2, <1>3, <1>5

\* The types as the proofs use them.
LEMMA RequestTypesOf ==
  ASSUME RequestTypeOK
  PROVE  /\ Request \subseteq Process /\ Request \subseteq Session /\ FirstSession \in Session
         /\ \A p \in Process :
              /\ proc[p] \in Locals /\ proc[p].pc \in Step /\ proc[p].kind \in Kind
              /\ proc[p].s \in Session /\ proc[p].ver \in Version /\ proc[p].mat \in Material
              /\ proc[p].plan \in Plan \cup {None} /\ proc[p].day \in Day \cup {0}
              /\ proc[p].role \in Role \cup {None}
              /\ proc[p].post \subseteq UNION Postings /\ proc[p].post \subseteq Agent
              /\ proc[p].astray \in BOOLEAN
         /\ \A s \in Session :
              /\ meta[s] \in Meta /\ meta[s].ver \in Version /\ meta[s].mat \in Material
              /\ meta[s].plan \in Plan \cup {None}
              /\ meta[s].status \in {"none", "planning", "ready", "in_progress"}
         /\ profile \in Profile /\ profile.ver \in Version /\ profile.mat \in Material
         /\ profile.status \in {"none", "active", "deleting", "erased"}
BY RequestAssumption DEF RequestTypeOK, Process, Session, Locals, Meta, Profile

\* Which kind of request makes which call.
LEMMA StepsByKind ==
  ASSUME NEW k \in Kind
  PROVE  /\ "load" \in StepsOf[k] <=> k \in {"plan", "gap", "intel"}
         /\ "run" \in StepsOf[k] <=> k \in {"plan", "gap", "intel"}
         /\ "day" \in StepsOf[k] <=> k \in {"plan", "gap", "intel", "coach"}
         /\ "roll" \in StepsOf[k] <=> k \in {"plan", "gap", "intel", "coach"}
         /\ "model" \in StepsOf[k] <=> k \in {"plan", "gap", "intel", "coach"}
         /\ "put" \in StepsOf[k] <=> k \in {"gap", "intel"}
         /\ "cached" \in StepsOf[k] <=> k = "plan"
         /\ "keep" \in StepsOf[k] <=> k = "plan"
         /\ "attach" \in StepsOf[k] <=> k = "plan"
         /\ "rows" \in StepsOf[k] <=> k = "coach"
         /\ "prose" \in StepsOf[k] <=> k = "coach"
         /\ "write" \in StepsOf[k] <=> k = "coach"
         /\ "read" \in StepsOf[k] <=> k = "create"
         /\ "create" \in StepsOf[k] <=> k = "create"
         /\ "store" \in StepsOf[k] <=> k = "resume"
         /\ "resume" \in StepsOf[k] <=> k = "resume"
         /\ "details" \in StepsOf[k] <=> k = "details"
         /\ "github" \in StepsOf[k] <=> k = "github"
         /\ "row" \in StepsOf[k] <=> k = "row"
BY DEF StepsOf, Agents, Kind, Agent

\* A process that has arrived is at a call of its kind.
LEMMA KindAtStep ==
  ASSUME RequestTypeOK, ProcessesAreSound, NEW p \in Process, NEW step, At(p, step),
         step \notin {"idle", "done"}
  PROVE  step \in StepsOf[proc[p].kind] /\ proc[p].kind \in Kind
         /\ (proc[p].kind = "plan" => proc[p].role \in Role)
BY RequestTypesOf DEF ProcessesAreSound, KeepsToItsKind, Arrived, At

\* What is written unseen is items.
LEMMA WrittenItems ==
  ASSUME RequestTypeOK, NEW new \in SUBSET Item, Writes(new)
  PROVE  late' \subseteq Item
BY DEF Writes, RequestTypeOK

\* A request that is counted leaves an item of the limiter, or none.
LEMMA CountsAreTyped ==
  ASSUME RequestTypeOK, CountHit
  PROVE  limiter' \in BOOLEAN /\ late' \subseteq Item
<1>1. {<<"window", None>>} \in SUBSET Item
  BY DEF Item
<1>2. CASE limiter' = TRUE /\ Writes({<<"window", None>>})
  BY <1>1, <1>2, WrittenItems
<1>3. CASE UNCHANGED <<limiter, late>>
  BY <1>3 DEF RequestTypeOK
<1> QED
  BY <1>2, <1>3 DEF CountHit

\* RequestTypeOK through a step of a request.
LEMMA RequestTypesStay ==
  ASSUME RequestTypeOK, ProcessesAreSound, RequestNext
  PROVE  RequestTypeOK'
<1> USE RequestTypesOf, BlankRecords, RequestAssumption
    DEF items, history, Bookkeeping, Uncounted
<1>0. ASSUME NEW p \in Process, NEW q \in Locals, proc' = [proc EXCEPT ![p] = q]
      PROVE  proc' \in [Process -> Locals]
  BY <1>0 DEF RequestTypeOK
<1>00. ASSUME NEW p \in Process
       PROVE  /\ Done(p) \in Locals /\ \A step \in Step : [proc[p] EXCEPT !.pc = step] \in Locals
  BY LocalsStay DEF Done
<1>e. ASSUME NEW p \in Process, Ends(p)
      PROVE  proc' \in [Process -> Locals]
  BY <1>e, <1>0, <1>00 DEF Ends
<1>g. ASSUME NEW p \in Process, NEW step \in Step, Goto(p, step)
      PROVE  proc' \in [Process -> Locals]
  <2>1. proc' = [proc EXCEPT ![p] = [proc[p] EXCEPT !.pc = step]]
    BY <1>g DEF Goto
  <2> QED
    BY <1>0, <1>00, <2>1
<1>d. ASSUME NEW p \in Process
      PROVE  [proc[p] EXCEPT !.pc = "day", !.day = day] \in Locals
  <2>1. "day" \in Step /\ day \in Day \cup {0}
    BY DEF Step, RequestTypeOK
  <2> QED
    BY <2>1, LocalsStay
<1>1. ASSUME NEW r \in Request, NEW k \in Kind, NEW locals \in Locals, Arrives(r, k, locals),
             overlapped' \subseteq Session
      PROVE  RequestTypeOK'
  <2>1. [locals EXCEPT !.kind = k, !.astray = (profile.status = "erased")] \in Locals
    BY LocalsStay
  <2>2. limiter' \in BOOLEAN /\ late' \subseteq Item
    BY <1>1, CountsAreTyped DEF Arrives
  <2> QED
    BY <1>0, <1>1, <2>1, <2>2 DEF Arrives, RequestTypeOK
<1>2. ASSUME NEW r \in Request,
             PutDetails(r) \/ PutGithub(r) \/ PostResume(r) \/ PostPreInterview(r) \/ RequestPlan(r)
             \/ PostGap(r) \/ PostCompanyIntel(r) \/ GetCoach(r)
      PROVE  RequestTypeOK'
  <2>1. \A step \in Step : First(step) \in Locals
    BY LocalsStay DEF First
  <2>2. \A step \in Step, s \in Session : [First(step) EXCEPT !.s = s] \in Locals
    BY DEF First, Idle, Locals
  <2>3. \A s \in Session, role \in Role, post \in Postings :
          [First("load") EXCEPT !.s = s, !.role = role, !.post = post, !.heard = TRUE] \in Locals
    <3> SUFFICES ASSUME NEW s \in Session, NEW role \in Role, NEW post \in Postings
                 PROVE  [First("load") EXCEPT !.s = s, !.role = role, !.post = post,
                                              !.heard = TRUE] \in Locals
      OBVIOUS
    <3>1. First("load") \in Locals
      BY <2>1 DEF Step
    <3>2. post \subseteq UNION Postings
      OBVIOUS
    <3> QED
      BY <3>1, <3>2 DEF Locals
  <2>4. {"details", "github", "resume", "create", "plan", "coach", "gap", "intel"} \subseteq Kind
        /\ {"details", "github", "store", "read", "load", "rows"} \subseteq Step
    BY DEF Kind, Agent, Step
  <2>5. overlapped \subseteq Session
    BY DEF RequestTypeOK
  <2>6. CASE PutDetails(r) \/ PutGithub(r) \/ PostResume(r) \/ GetCoach(r)
    BY <1>1, <2>1, <2>4, <2>5, <2>6 DEF PutDetails, PutGithub, PostResume, GetCoach
  <2>7. CASE PostPreInterview(r) \/ PostGap(r) \/ PostCompanyIntel(r)
    BY <1>1, <2>2, <2>4, <2>5, <2>7 DEF PostPreInterview, PostGap, PostCompanyIntel
  <2>8. CASE RequestPlan(r)
    <3>1. PICK s \in Session, role \in Role, post \in Postings :
            /\ Arrives(r, "plan", [First("load") EXCEPT !.s = s, !.role = role, !.post = post,
                                                        !.heard = TRUE])
            /\ overlapped' = IF InFlight(s) # {} THEN overlapped \cup {s} ELSE overlapped
      BY <2>8 DEF RequestPlan
    <3> QED
      BY <1>1, <2>3, <2>4, <2>5, <3>1
  <2> QED
    BY <1>2, <2>6, <2>7, <2>8
<1>3. ASSUME NEW r \in Request, SessionCompletes(r) \/ ClientTimesOut(r)
      PROVE  RequestTypeOK'
  <2>1. CASE SessionCompletes(r)
    <3>1. PICK s \in Session : proc' = [proc EXCEPT ![r].pc = "row", ![r].s = s]
      BY <2>1 DEF SessionCompletes
    <3>2. [proc[r] EXCEPT !.pc = "row", !.s = s] \in Locals
      BY DEF Locals, Step
    <3>3. proc' \in [Process -> Locals]
      BY <3>1, <3>2 DEF RequestTypeOK
    <3> QED
      BY <2>1, <3>3 DEF SessionCompletes, RequestTypeOK
  <2>2. CASE ClientTimesOut(r)
    <3>1. [proc[r] EXCEPT !.heard = FALSE] \in Locals
      BY LocalsStay
    <3>2. proc' \in [Process -> Locals]
      BY <2>2, <3>1 DEF ClientTimesOut, RequestTypeOK
    <3> QED
      BY <2>2, <3>2 DEF ClientTimesOut, RequestTypeOK
  <2> QED
    BY <1>3, <2>1, <2>2
<1>4. ASSUME NEW r \in Request, SaveDetails(r) \/ SaveGithub(r) \/ SaveResume(r)
      PROVE  RequestTypeOK'
  <2>1. proc' \in [Process -> Locals]
    BY <1>4, <1>e DEF SaveDetails, SaveGithub, SaveResume
  <2>2. profile.ver + 1 \in Version
    <3>1. ~At(r, "done") /\ profile.ver <= Cardinality(Finished) + 1
      BY <1>4 DEF SaveDetails, SaveGithub, SaveResume, At, ProcessesAreSound, Numbered
    <3>2. /\ Cardinality(Finished) \in Nat
          /\ Cardinality(Finished) + 1 <= Cardinality(Request)
      BY <3>1, OneMoreFinished
    <3>3. profile.ver \in Nat
      BY DEF Version
    <3>4. profile.ver + 1 <= Cardinality(Request) + 1
      BY <3>1, <3>2, <3>3
    <3> QED
      BY <3>3, <3>4 DEF Version
  <2>3. profile' \in Profile /\ saved' \in [Version -> Material]
    <3>0. r \in Material /\ saved \in [Version -> Material] /\ "active" # "none"
      BY DEF Material, RequestTypeOK
    <3>1. CASE UNCHANGED <<profile, saved>>
      BY <3>0, <3>1
    <3>2. CASE profile' = [profile EXCEPT !.status = "active", !.named = TRUE] /\ UNCHANGED saved
      BY <3>0, <3>2 DEF Profile
    <3>3. CASE /\ profile' = [profile EXCEPT !.status = "active", !.ver = @ + 1, !.mat = r]
               /\ saved' = [saved EXCEPT ![profile.ver + 1] = r]
      <4>1. profile' \in Profile
        BY <2>2, <3>0, <3>3 DEF Profile
      <4>2. saved' \in [Version -> Material]
        BY <3>0, <3>3
      <4> QED
        BY <4>1, <4>2
    <3>4. CASE /\ profile' = [profile EXCEPT !.status = "active", !.ver = @ + 1, !.mat = r,
                                             !.text = r]
               /\ saved' = [saved EXCEPT ![profile.ver + 1] = r]
      <4>1. profile' \in Profile
        BY <2>2, <3>0, <3>4 DEF Profile
      <4>2. saved' \in [Version -> Material]
        BY <3>0, <3>4
      <4> QED
        BY <4>1, <4>2
    <3> QED
      BY <1>4, <3>1, <3>2, <3>3, <3>4 DEF SaveDetails, SaveGithub, SaveResume, HandleFailure
  <2> QED
    BY <1>4, <2>1, <2>3 DEF SaveDetails, SaveGithub, SaveResume, RequestTypeOK
<1>5. ASSUME NEW r \in Request, PutResume(r)
      PROVE  RequestTypeOK'
  <2>1. proc' \in [Process -> Locals]
    BY <1>5, <1>g DEF PutResume, Step
  <2>2. file' \in Material /\ late' \subseteq Item
    <3>1. {<<"file", None>>} \subseteq Item
      BY DEF Item
    <3> QED
      BY <1>5, <3>1, WrittenItems DEF PutResume, Material
  <2> QED
    BY <1>5, <2>1, <2>2 DEF PutResume, RequestTypeOK
<1>6. ASSUME NEW r \in Request, ReadProfile(r)
      PROVE  RequestTypeOK'
  <2>1. [proc[r] EXCEPT !.pc = "create", !.ver = profile.ver, !.mat = profile.mat] \in Locals
    BY LocalsStay DEF Step
  <2>2. proc' \in [Process -> Locals]
    <3>1. CASE Ends(r)
      BY <1>e, <3>1
    <3>2. CASE ~Ends(r)
      <4>1. proc' = [proc EXCEPT ![r] = [proc[r] EXCEPT !.pc = "create", !.ver = profile.ver,
                                                        !.mat = profile.mat]]
        BY <1>6, <3>2 DEF ReadProfile, RequestTypeOK
      <4> QED
        BY <1>0, <2>1, <4>1
    <3> QED
      BY <3>1, <3>2
  <2> QED
    BY <1>6, <2>2 DEF ReadProfile, RequestTypeOK
<1>7. ASSUME NEW r \in Request, CreateSession(r)
      PROVE  RequestTypeOK'
  <2>1. proc' \in [Process -> Locals]
    BY <1>7, <1>e DEF CreateSession
  <2>2. [NoMeta EXCEPT !.status = "planning", !.ver = proc[r].ver, !.mat = proc[r].mat] \in Meta
    BY DEF Meta
  <2>3. {<<"meta", r>>, <<"ref", r>>} \subseteq Item
    BY DEF Item
  <2>4. late' \subseteq Item
    BY <1>7, <2>3, WrittenItems DEF CreateSession
  <2> QED
    BY <1>7, <2>1, <2>2, <2>4 DEF CreateSession, RequestTypeOK
<1>8. ASSUME NEW r \in Request, LoadPlannerInputs(r) \/ GetCachedPlan(r)
      PROVE  RequestTypeOK'
  <2>1. \A step \in Step :
          [proc[r] EXCEPT !.ver = meta[proc[r].s].ver, !.mat = meta[proc[r].s].mat,
                          !.astray = FALSE, !.pc = step] \in Locals
    BY DEF Locals
  <2>2. plans # None => [proc[r] EXCEPT !.pc = "attach", !.plan = plans.plan] \in Locals
    BY LocalsStay DEF RequestTypeOK, CachedPlan, Step
  <2>3. [proc[r] EXCEPT !.pc = "run"] \in Locals
    BY LocalsStay DEF Step
  <2>4. proc' \in [Process -> Locals]
    <3>1. CASE LoadPlannerInputs(r)
      <4>1. CASE Ends(r)
        BY <1>e, <4>1
      <4>2. CASE ~Ends(r)
        <5>1. \E step \in {"cached", "run"} :
                proc' = [proc EXCEPT ![r] =
                  [proc[r] EXCEPT !.ver = meta[proc[r].s].ver, !.mat = meta[proc[r].s].mat,
                                  !.astray = FALSE, !.pc = step]]
          BY <3>1, <4>2 DEF LoadPlannerInputs, RequestTypeOK
        <5> QED
          BY <1>0, <2>1, <5>1 DEF Step
      <4> QED
        BY <4>1, <4>2
    <3>2. CASE GetCachedPlan(r)
      BY <2>2, <2>3, <3>2 DEF GetCachedPlan, Fresh, RequestTypeOK
    <3> QED
      BY <1>8, <3>1, <3>2
  <2> QED
    BY <1>8, <2>4 DEF LoadPlannerInputs, GetCachedPlan, RequestTypeOK
<1>9. ASSUME NEW p \in Process, ClaimSessionAgentRun(p)
      PROVE  RequestTypeOK'
  <2>1. Ends(p) \/ proc' = [proc EXCEPT ![p] = [proc[p] EXCEPT !.pc = "day", !.day = day]]
    BY <1>9 DEF ClaimSessionAgentRun, RequestTypeOK
  <2>2. proc' \in [Process -> Locals]
    BY <1>0, <1>d, <1>e, <2>1
  <2>3. meta' \in [Session -> Meta]
    <3>1. meta[proc[p].s].runs < RunsPerSession =>
            [meta[proc[p].s] EXCEPT !.runs = @ + 1] \in Meta
      BY BudgetAssumption DEF Meta
    <3> QED
      BY <1>9, <3>1 DEF ClaimSessionAgentRun, RequestTypeOK
  <2> QED
    BY <1>9, <2>2, <2>3 DEF ClaimSessionAgentRun, RequestTypeOK
<1>10. ASSUME NEW p \in Process, AddCall(p) \/ RollDay(p)
       PROVE  RequestTypeOK'
  <2>1. [proc[p] EXCEPT !.pc = "day", !.again = TRUE] \in Locals
    BY LocalsStay DEF Step
  <2>2. proc' \in [Process -> Locals]
    <3>1. \/ Ends(p) \/ Goto(p, "model") \/ Goto(p, "roll")
          \/ proc' = [proc EXCEPT ![p] = [proc[p] EXCEPT !.pc = "day", !.again = TRUE]]
      BY <1>10 DEF AddCall, RollDay, Rolled, Granted, RequestTypeOK
    <3> QED
      BY <1>0, <1>e, <1>g, <2>1, <3>1 DEF Step
  <2>3. late' \subseteq Item
    <3>1. {<<"usage", None>>} \subseteq Item
      BY DEF Item
    <3>2. late' = late \/ Writes({<<"usage", None>>})
      BY <1>10 DEF AddCall, RollDay, Rolled
    <3> QED
      BY <3>1, <3>2, WrittenItems DEF RequestTypeOK
  <2>4. usage' \in [day : Day \cup {0}, calls : Nat] /\ granted' \in [Day -> Nat]
    BY <1>10 DEF AddCall, RollDay, Rolled, Granted, RequestTypeOK
  <2>5. straddled' \in BOOLEAN
    BY <1>10 DEF AddCall, RollDay, Rolled, Granted, RequestTypeOK
  <2> QED
    BY <1>10, <2>2, <2>3, <2>4, <2>5 DEF AddCall, RollDay, RequestTypeOK
<1>11. ASSUME NEW r \in Request, RunPlanner(r) \/ RunCoachAgent(r) \/ ReadRows(r) \/ GetCachedCoach(r)
       PROVE  RequestTypeOK'
  <2>1. proc' \in [Process -> Locals]
    <3>1. CASE RunPlanner(r)
      <4>1. [by |-> r, mat |-> proc[r].mat, role |-> proc[r].role] \in Plan
        BY <3>1 DEF RunPlanner, At, Arrived, ProcessesAreSound, KeepsToItsKind, Plan
      <4>2. [proc[r] EXCEPT !.pc = "keep", !.plan = [by |-> r, mat |-> proc[r].mat,
                                                     role |-> proc[r].role]] \in Locals
        BY <4>1, LocalsStay DEF Step
      <4> QED
        <5>1. Ends(r) \/ proc' = [proc EXCEPT ![r] =
                [proc[r] EXCEPT !.pc = "keep", !.plan = [by |-> r, mat |-> proc[r].mat,
                                                         role |-> proc[r].role]]]
          BY <3>1 DEF RunPlanner, RequestTypeOK
        <5> QED
          BY <1>0, <1>e, <4>2, <5>1
    <3>2. CASE RunCoachAgent(r)
      BY <1>e, <1>g, <3>2 DEF RunCoachAgent, Step
    <3>3. CASE ReadRows(r)
      <4>1. [proc[r] EXCEPT !.pc = "prose", !.ver = rows, !.astray = @ /\ rows = 0] \in Locals
        <5>1. "prose" \in Step /\ rows \in Version /\ proc[r] \in Locals
          BY <1>0 DEF Step, RequestTypeOK
        <5>2. PICK b \in BOOLEAN : b = (proc[r].astray /\ rows = 0)
          OBVIOUS
        <5>3. [proc[r] EXCEPT !.pc = "prose", !.ver = rows, !.astray = b] \in Locals
          BY <5>1, LocalsStay
        <5> QED
          BY <5>2, <5>3
      <4> QED
        BY <3>3, <4>1 DEF ReadRows, RequestTypeOK
    <3>4. CASE GetCachedCoach(r)
      <4>1. Ends(r) \/ proc' = [proc EXCEPT ![r] = [proc[r] EXCEPT !.pc = "day", !.day = day]]
        BY <3>4 DEF GetCachedCoach, RequestTypeOK
      <4> QED
        BY <1>0, <1>d, <1>e, <4>1
    <3> QED
      BY <1>11, <3>1, <3>2, <3>3, <3>4
  <2> QED
    BY <1>11, <2>1 DEF RunPlanner, RunCoachAgent, ReadRows, GetCachedCoach, RequestTypeOK
<1>12. ASSUME NEW p \in Process, RunGapAgent(p) \/ RunCompanyIntelAgent(p)
       PROVE  RequestTypeOK'
  <2>1. proc' \in [Process -> Locals]
    BY <1>12, <1>e, <1>g DEF RunGapAgent, RunCompanyIntelAgent, Step
  <2> QED
    BY <1>12, <2>1 DEF RunGapAgent, RunCompanyIntelAgent, RequestTypeOK
<1>13. ASSUME NEW p \in Process, NEW agent \in Agent, PutOutput(p, agent)
       PROVE  RequestTypeOK'
  <2>1. proc' \in [Process -> Locals]
    BY <1>13, <1>e DEF PutOutput
  <2>2. {<<agent, proc[p].s>>} \subseteq Item
    BY DEF Item, Agent
  <2>3. late' \subseteq Item
    BY <1>13, <2>2, WrittenItems DEF PutOutput
  <2>4. output' \in [Session -> SUBSET Agent]
    BY <1>13 DEF PutOutput, RequestTypeOK
  <2> QED
    BY <1>13, <2>1, <2>3, <2>4 DEF PutOutput, RequestTypeOK
<1>14. ASSUME NEW r \in Request, PutCachedPlan(r) \/ PutCachedCoach(r) \/ PutSessionSummary(r)
       PROVE  RequestTypeOK'
  <2>1. proc' \in [Process -> Locals]
    BY <1>14, <1>e, <1>g DEF PutCachedPlan, PutCachedCoach, PutSessionSummary, Step
  <2>2. late' \subseteq Item
    <3>1. <<"plan", None>> \in Item /\ <<"coach", None>> \in Item /\ <<"rows", None>> \in Item
      BY DEF Item
    <3>2. \/ Writes({<<"plan", None>>}) \/ Writes({<<"coach", None>>})
          \/ Writes({<<"rows", None>>})
      BY <1>14 DEF PutCachedPlan, PutCachedCoach, PutSessionSummary
    <3> QED
      BY <3>1, <3>2, WrittenItems
  <2>3. plans' \in CachedPlan \cup {None}
    <3>1. CASE PutCachedPlan(r)
      <4>1. proc[r].plan \in Plan /\ proc[r].role \in Role
        <5>1. At(r, "keep")
          BY <3>1 DEF PutCachedPlan
        <5>2. proc[r].role \in Role
          BY <5>1, KindAtStep, StepsByKind
        <5>3. proc[r].plan # None
          BY <5>1 DEF At, ProcessesAreSound, KeepsToItsKind
        <5> QED
          BY <5>2, <5>3
      <4> QED
        BY <3>1, <4>1 DEF PutCachedPlan, CachedPlan
    <3> QED
      BY <1>14, <3>1 DEF PutCachedCoach, PutSessionSummary, RequestTypeOK
  <2>4. rows' \in Rows /\ coach' \in Rows
    <3>1. CASE PutSessionSummary(r)
      <4>1. ~At(r, "done") /\ rows <= Cardinality(Finished) + 1 /\ rows \in Nat
        BY <3>1 DEF PutSessionSummary, At, ProcessesAreSound, Numbered, RequestTypeOK, Rows
      <4> QED
        <5>1. /\ Cardinality(Finished) \in Nat
              /\ Cardinality(Finished) + 1 <= Cardinality(Request)
          BY <4>1, OneMoreFinished
        <5>2. rows + 1 <= Cardinality(Request) + 1
          BY <4>1, <5>1
        <5>3. rows' = rows + 1 /\ UNCHANGED coach /\ coach \in Rows
          BY <3>1 DEF PutSessionSummary, RequestTypeOK
        <5> QED
          BY <4>1, <5>2, <5>3 DEF Rows
    <3> QED
      BY <1>14, <3>1 DEF PutCachedPlan, PutCachedCoach, RequestTypeOK
  <2> QED
    BY <1>14, <2>1, <2>2, <2>3, <2>4
    DEF PutCachedPlan, PutCachedCoach, PutSessionSummary, RequestTypeOK
<1>15. ASSUME NEW r \in Request, AttachPlan(r)
       PROVE  RequestTypeOK'
  <2>1. CASE Ends(r) /\ UNCHANGED <<meta, shown>>
    BY <1>15, <1>e, <2>1 DEF AttachPlan, RequestTypeOK
  <2>2. CASE Attached(r)
    <3>1. proc' \in [Process -> Locals]
      <4>1. \A a \in Agent :
              [proc[r] EXCEPT !.pc = "run", !.kind = a, !.plan = None, !.post = {},
                              !.heard = FALSE, !.day = 0, !.again = FALSE] \in Locals
        <5>1. "run" \in Step /\ Agent \subseteq Kind
          BY DEF Step, Kind
        <5> QED
          BY <5>1 DEF Locals
      <4>2. \A p \in Process : Started(r)[p] \in Locals
        <5> SUFFICES ASSUME NEW p \in Process
                     PROVE  Started(r)[p] \in Locals
          OBVIOUS
        <5>1. CASE p = r
          BY <1>00, <5>1 DEF Started
        <5>2. CASE p # r /\ \E a \in proc[r].post : p = <<r, a>>
          <6>1. PICK a \in Agent : p = <<r, a>>
            BY <5>2
          <6>2. p[2] = a
            BY <6>1
          <6>3. Started(r)[p] =
                  [proc[r] EXCEPT !.pc = "run", !.kind = a, !.plan = None, !.post = {},
                                  !.heard = FALSE, !.day = 0, !.again = FALSE]
            BY <5>2, <6>2 DEF Started
          <6> QED
            BY ONLY <4>1, <6>3, a \in Agent, Zenon
        <5>3. CASE p # r /\ ~\E a \in proc[r].post : p = <<r, a>>
          BY <5>3 DEF Started
        <5> QED
          BY <5>1, <5>2, <5>3
      <4> QED
        BY <2>2, <4>2 DEF Attached, Started
    <3>2. meta' \in [Session -> Meta]
      <4>1. [meta[proc[r].s] EXCEPT !.status = "ready", !.plan = proc[r].plan,
                                    !.role = proc[r].role] \in Meta
        BY DEF Meta
      <4> QED
        BY <2>2, <4>1 DEF Attached, RequestTypeOK
    <3>3. shown' \in [Session -> Plan \cup {None}]
      BY <2>2 DEF Attached, RequestTypeOK
    <3> QED
      BY <1>15, <3>1, <3>2, <3>3 DEF AttachPlan, RequestTypeOK
  <2> QED
    BY <1>15, <2>1, <2>2 DEF AttachPlan
<1>16. ASSUME NEW p \in Process, CallFails(p)
       PROVE  RequestTypeOK'
  <2>1. \/ Ends(p) \/ Goto(p, "run") \/ Goto(p, "attach")
        \/ proc' = [proc EXCEPT ![p] = [proc[p] EXCEPT !.pc = "day", !.day = day]]
    BY <1>16 DEF CallFails, RequestTypeOK
  <2>2. proc' \in [Process -> Locals]
    BY <1>0, <1>d, <1>e, <1>g, <2>1 DEF Step
  <2>3. faults' \in 0..MaxFaults
    BY <1>16, BudgetAssumption DEF CallFails, RequestTypeOK
  <2> QED
    BY <1>16, <2>2, <2>3 DEF CallFails, RequestTypeOK
<1>17. ASSUME NEW s \in Session, StartInterview(s)
       PROVE  RequestTypeOK'
  <2>1. [meta[s] EXCEPT !.status = "in_progress"] \in Meta
    BY DEF Meta
  <2> QED
    BY <1>17, <2>1 DEF StartInterview, RequestTypeOK
<1>18. ASSUME Midnight
       PROVE  RequestTypeOK'
  BY <1>18, BudgetAssumption DEF Midnight, RequestTypeOK, Day
<1>c. ASSUME NEW r \in Request, TurnedAway(r)
      PROVE  RequestTypeOK'
  <2>1. limiter' \in BOOLEAN /\ late' \subseteq Item
    BY <1>c, CountsAreTyped DEF TurnedAway
  <2> QED
    BY <1>c, <1>e, <2>1 DEF TurnedAway, RequestTypeOK
<1>19. ASSUME NEW r \in Request, RequestStep(r)
       PROVE  RequestTypeOK'
  BY <1>c, <1>2, <1>3, <1>4, <1>5, <1>6, <1>7, <1>8, <1>11, <1>14, <1>15, <1>19 DEF RequestStep
<1>20. ASSUME NEW p \in Process, SpendStep(p)
       PROVE  RequestTypeOK'
  BY <1>9, <1>10, <1>12, <1>13, <1>16, <1>20
  DEF SpendStep, PutGapAnalysis, PutCompanyIntel, Agent
<1> QED
  BY <1>17, <1>18, <1>19, <1>20 DEF RequestNext

-----------------------------------------------------------------------------
(* What a step does to the processes, as far as the properties can tell.   *)

\* It carries on with what it holds.
Holding(o, q) ==
  q.ver = o.ver /\ q.mat = o.mat /\ q.plan = o.plan /\ (q.astray <=> o.astray)

\* From the locals o to q, by a call that did not end the process.
Advances(o, q) ==
  /\ q.kind = o.kind /\ q.s = o.s /\ q.role = o.role
  /\ \/ /\ Holding(o, q) /\ q.day = o.day
        /\ \/ q.pc = o.pc
           \/ o.pc = "store" /\ q.pc = "resume"
           \/ o.pc = "cached" /\ q.pc = "run"
           \/ o.pc = "keep" /\ q.pc = "attach"
           \/ o.pc = "day" /\ q.pc \in {"roll", "model"}
           \/ o.pc = "roll" /\ q.pc \in {"day", "model"}
           \/ o.pc = "model" /\ o.kind \in {"gap", "intel"} /\ q.pc = "put"
           \/ o.pc = "model" /\ o.kind = "coach" /\ q.pc = "write"
     \/ /\ Holding(o, q) /\ q.day = day
        /\ o.pc = "run" \/ (o.pc = "prose" /\ o.ver # 0)
        /\ q.pc = "day"
     \/ /\ o.pc = "read" /\ q.pc = "create" /\ profile.status = "active"
        /\ q.ver = profile.ver /\ q.mat = profile.mat /\ q.plan = o.plan
        /\ (q.astray <=> o.astray) /\ q.day = o.day
     \/ /\ o.pc = "load" /\ Replannable(o.s)
        /\ q.pc = (IF o.kind = "plan" THEN "cached" ELSE "run")
        /\ q.ver = meta[o.s].ver /\ q.mat = meta[o.s].mat /\ q.plan = o.plan
        /\ ~q.astray /\ q.day = o.day
     \/ /\ o.pc = "cached" /\ q.pc = "attach"
        /\ plans # None /\ plans.ver = o.ver /\ plans.role = o.role
        /\ q.ver = o.ver /\ q.mat = o.mat /\ q.plan = plans.plan
        /\ (q.astray <=> o.astray) /\ q.day = o.day
     \/ /\ o.pc = "model" /\ o.kind = "plan" /\ q.pc = "keep"
        /\ q.ver = o.ver /\ q.mat = o.mat
        /\ q.plan \in Plan /\ q.plan.mat = o.mat /\ q.plan.role = o.role
        /\ (q.astray <=> o.astray) /\ q.day = o.day
     \/ /\ o.pc = "rows" /\ q.pc = "prose" /\ q.ver = rows /\ q.mat = o.mat /\ q.plan = o.plan
        /\ (q.astray <=> o.astray /\ rows = 0) /\ q.day = o.day

\* A request of the browser, or a worker, begins.
Comes(o, q) ==
  /\ o.pc = "idle" /\ q.kind = o.kind /\ q.ver = 0 /\ q.mat = None /\ q.plan = None /\ q.day = 0
  /\ q.pc \in StepsOf[q.kind] /\ q.pc \in {"details", "github", "store", "read", "load", "rows", "row"}
  /\ q.kind = "plan" => q.role \in Role
  /\ q.pc = "row" => ~q.astray
  /\ q.astray => profile.status = "erased"

\* An agent is started by the plan request with the locals o.
Begins(o, q) ==
  /\ o.pc = "attach" /\ q.pc = "run" /\ q.kind \in {"gap", "intel"} /\ q.s = o.s
  /\ q.ver = o.ver /\ q.mat = o.mat /\ q.plan = None /\ q.day = 0 /\ (q.astray <=> o.astray)

Moves(w) ==
  \/ proc'[w] = proc[w]
  \/ Arrived(w) /\ proc'[w] = Done(w)
  \/ w \in Request /\ At(w, "idle") /\ proc'[w] = Done(w)
  \/ Arrived(w) /\ Advances(proc[w], proc'[w])
  \/ w \in Request /\ Comes(proc[w], proc'[w])
  \/ w \notin Request /\ \E r \in Request : Begins(proc[r], proc'[w])

\* A step moves each process in one of these ways.
LEMMA ProcessesMove ==
  ASSUME RequestTypeOK, ProcessesAreSound, RequestNext, NEW w \in Process
  PROVE  Moves(w)
<1> USE RequestTypesOf DEF items, history, Bookkeeping, Uncounted
<1>0. DOMAIN proc = Process
  BY DEF RequestTypeOK
<1>e. ASSUME NEW p \in Process, Arrived(p), Ends(p)
      PROVE  Moves(w)
  BY <1>0, <1>e DEF Ends, Moves
<1>a. ASSUME NEW p \in Process, Arrived(p), NEW q, proc' = [proc EXCEPT ![p] = q],
             Advances(proc[p], q)
      PROVE  Moves(w)
  BY <1>0, <1>a DEF Moves
<1>g. ASSUME NEW p \in Process, Arrived(p), NEW step, Goto(p, step),
             \/ proc[p].pc = "store" /\ step = "resume"
             \/ proc[p].pc = "cached" /\ step = "run"
             \/ proc[p].pc = "keep" /\ step = "attach"
             \/ proc[p].pc = "day" /\ step \in {"roll", "model"}
             \/ proc[p].pc = "roll" /\ step \in {"day", "model"}
             \/ proc[p].pc = "model" /\ proc[p].kind \in {"gap", "intel"} /\ step = "put"
             \/ proc[p].pc = "model" /\ proc[p].kind = "coach" /\ step = "write"
      PROVE  Moves(w)
  <2> DEFINE q == [proc[p] EXCEPT !.pc = step]
  <2>1. proc' = [proc EXCEPT ![p] = q]
    BY <1>g DEF Goto
  <2>2. /\ q.pc = step /\ q.kind = proc[p].kind /\ q.s = proc[p].s /\ q.role = proc[p].role
        /\ q.day = proc[p].day /\ Holding(proc[p], q)
    BY DEF Locals, Holding
  <2>3. Advances(proc[p], q)
    BY <1>g, <2>2 DEF Advances
  <2> QED
    BY <1>a, <1>g, <2>1, <2>3
<1>d. ASSUME NEW p \in Process, Arrived(p),
             proc[p].pc = "run" \/ (proc[p].pc = "prose" /\ proc[p].ver # 0),
             proc' = [proc EXCEPT ![p].pc = "day", ![p].day = day]
      PROVE  Moves(w)
  <2> DEFINE q == [proc[p] EXCEPT !.pc = "day", !.day = day]
  <2>1. proc' = [proc EXCEPT ![p] = q]
    BY <1>0, <1>d
  <2>2. /\ q.pc = "day" /\ q.kind = proc[p].kind /\ q.s = proc[p].s /\ q.role = proc[p].role
        /\ q.day = day /\ Holding(proc[p], q)
    BY DEF Locals, Holding
  <2>3. Advances(proc[p], q)
    BY <1>d, <2>2 DEF Advances
  <2> QED
    BY <1>a, <1>d, <2>1, <2>3
<1>c. ASSUME NEW r \in Request, NEW k \in Kind, NEW locals \in Locals, Arrives(r, k, locals),
             locals.ver = 0, locals.mat = None, locals.plan = None, locals.day = 0,
             locals.pc \in StepsOf[k],
             locals.pc \in {"details", "github", "store", "read", "load", "rows"},
             k = "plan" => locals.role \in Role
      PROVE  Moves(w)
  <2> DEFINE q == [locals EXCEPT !.kind = k, !.astray = (profile.status = "erased")]
  <2>1. proc' = [proc EXCEPT ![r] = q] /\ proc[r].pc = "idle" /\ proc[r].kind = k
    BY <1>c DEF Arrives, At
  <2>2. /\ q.pc = locals.pc /\ q.kind = k /\ q.ver = 0 /\ q.mat = None /\ q.plan = None
        /\ q.day = 0 /\ q.role = locals.role /\ (q.astray <=> profile.status = "erased")
    BY <1>c DEF Locals
  <2>3. Comes(proc[r], q)
    BY <1>c, <2>1, <2>2 DEF Comes
  <2> QED
    BY <1>0, <2>1, <2>3 DEF Moves
<1>1. ASSUME NEW r \in Request,
             PutDetails(r) \/ PutGithub(r) \/ PostResume(r) \/ PostPreInterview(r) \/ RequestPlan(r)
             \/ PostGap(r) \/ PostCompanyIntel(r) \/ GetCoach(r)
      PROVE  Moves(w)
  <2>1. \A step \in Step :
          /\ First(step) \in Locals /\ First(step).pc = step /\ First(step).ver = 0
          /\ First(step).mat = None /\ First(step).plan = None /\ First(step).day = 0
    BY BlankRecords DEF First, Idle, Locals
  <2>2. \A step \in Step, s \in Session :
          LET q == [First(step) EXCEPT !.s = s] IN
          /\ q \in Locals /\ q.pc = step /\ q.ver = 0 /\ q.mat = None /\ q.plan = None /\ q.day = 0
    BY <2>1 DEF Locals
  <2>4. {"details", "github", "resume", "create", "plan", "coach", "gap", "intel"} \subseteq Kind
        /\ {"details", "github", "store", "read", "load", "rows"} \subseteq Step
    BY DEF Kind, Agent, Step
  <2>5. CASE PutDetails(r) \/ PutGithub(r) \/ PostResume(r) \/ GetCoach(r)
    BY <1>c, <2>1, <2>4, <2>5, StepsByKind DEF PutDetails, PutGithub, PostResume, GetCoach
  <2>6. ASSUME NEW s \in Session, NEW k \in {"create", "gap", "intel"}, NEW step \in {"read", "load"},
               step \in StepsOf[k], Arrives(r, k, [First(step) EXCEPT !.s = s])
        PROVE  Moves(w)
    <3> DEFINE q == [First(step) EXCEPT !.s = s]
    <3>1. q \in Locals /\ q.pc = step /\ q.ver = 0 /\ q.mat = None /\ q.plan = None /\ q.day = 0
      BY <2>2, <2>4
    <3>2. k \in Kind /\ k # "plan"
      BY <2>4
    <3> HIDE DEF q
    <3> QED
      BY <1>c, <2>6, <3>1, <3>2 DEF q
  <2>7. CASE PostPreInterview(r) \/ PostGap(r) \/ PostCompanyIntel(r)
    <3>1. "read" \in StepsOf["create"] /\ "load" \in StepsOf["gap"] /\ "load" \in StepsOf["intel"]
      BY <2>4, StepsByKind
    <3> QED
      BY <2>6, <2>7, <3>1 DEF PostPreInterview, PostGap, PostCompanyIntel
  <2>8. CASE RequestPlan(r)
    <3>1. PICK s \in Session, role \in Role, post \in Postings :
            Arrives(r, "plan", [First("load") EXCEPT !.s = s, !.role = role, !.post = post,
                                                     !.heard = TRUE])
      BY <2>8 DEF RequestPlan
    <3> DEFINE q == [First("load") EXCEPT !.s = s, !.role = role, !.post = post, !.heard = TRUE]
    <3>2. /\ q \in Locals /\ q.pc = "load" /\ q.ver = 0 /\ q.mat = None /\ q.plan = None
          /\ q.day = 0 /\ q.role = role
      <4>1. "load" \in Step /\ post \in SUBSET UNION Postings
        BY DEF Step
      <4> DEFINE o == First("load")
      <4>2. /\ o \in Locals /\ o.pc = "load" /\ o.ver = 0 /\ o.mat = None /\ o.plan = None
            /\ o.day = 0
        BY <2>1, <4>1
      <4>5. q = [o EXCEPT !.s = s, !.role = role, !.post = post, !.heard = TRUE]
        OBVIOUS
      <4> HIDE DEF o, q
      <4>3. q \in Locals
        BY ONLY <4>1, <4>2, <4>5, s \in Session, role \in Role DEF Locals
      <4>4. /\ q.pc = "load" /\ q.ver = 0 /\ q.mat = None /\ q.plan = None /\ q.day = 0
            /\ q.role = role
        BY ONLY <4>2, <4>5 DEF Locals
      <4> QED
        BY <4>3, <4>4
    <3>3. "plan" \in Kind /\ "load" \in StepsOf["plan"]
      BY <2>4, StepsByKind
    <3>4. Arrives(r, "plan", q)
      BY <3>1
    <3> HIDE DEF q
    <3> QED
      BY <1>c, <3>2, <3>3, <3>4
  <2> QED
    BY <1>1, <2>5, <2>7, <2>8
<1>2. ASSUME NEW r \in Request, SessionCompletes(r)
      PROVE  Moves(w)
  <2>1. PICK s \in Session : proc' = [proc EXCEPT ![r].pc = "row", ![r].s = s]
    BY <1>2 DEF SessionCompletes
  <2> DEFINE q == [proc[r] EXCEPT !.pc = "row", !.s = s]
  <2>2. proc' = [proc EXCEPT ![r] = q] /\ proc[r].pc = "idle" /\ proc[r].kind = "row"
    BY <1>0, <1>2, <2>1 DEF SessionCompletes, At
  <2>3. proc[r] = [Idle EXCEPT !.pc = "idle", !.kind = "row"]
    <3>1. KeepsToItsKind(r) /\ ~Arrived(r)
      BY <2>2 DEF ProcessesAreSound, Arrived
    <3> QED
      BY ONLY <2>2, <3>1 DEF KeepsToItsKind
  <2>4. /\ q.pc = "row" /\ q.kind = "row" /\ q.ver = 0 /\ q.mat = None /\ q.plan = None
        /\ q.day = 0 /\ ~q.astray
    BY <2>3 DEF Idle
  <2>5. Comes(proc[r], q)
    BY <2>2, <2>4, StepsByKind DEF Comes, Kind
  <2> QED
    BY <1>0, <2>2, <2>5 DEF Moves
<1>3. ASSUME NEW r \in Request, ClientTimesOut(r)
      PROVE  Moves(w)
  <2> DEFINE q == [proc[r] EXCEPT !.heard = FALSE]
  <2>1. proc' = [proc EXCEPT ![r] = q] /\ Arrived(r)
    BY <1>3 DEF ClientTimesOut
  <2>2. /\ q.pc = proc[r].pc /\ q.kind = proc[r].kind /\ q.s = proc[r].s /\ q.role = proc[r].role
        /\ q.day = proc[r].day /\ Holding(proc[r], q)
    BY DEF Locals, Holding
  <2>3. Advances(proc[r], q)
    BY <2>2 DEF Advances
  <2> QED
    BY <1>a, <2>1, <2>3
<1>4. ASSUME NEW r \in Request,
             \/ SaveDetails(r) \/ SaveGithub(r) \/ SaveResume(r) \/ CreateSession(r)
             \/ PutCachedCoach(r) \/ PutSessionSummary(r)
      PROVE  Moves(w)
  BY <1>4, <1>e
  DEF SaveDetails, SaveGithub, SaveResume, CreateSession, PutCachedCoach, PutSessionSummary, At,
      Arrived
<1>5. ASSUME NEW r \in Request, PutResume(r) \/ PutCachedPlan(r)
      PROVE  Moves(w)
  BY <1>5, <1>g DEF PutResume, PutCachedPlan, At, Arrived
<1>6. ASSUME NEW r \in Request, ReadProfile(r)
      PROVE  Moves(w)
  <2> DEFINE q == [proc[r] EXCEPT !.pc = "create", !.ver = profile.ver, !.mat = profile.mat]
  <2>1. Arrived(r) /\ proc[r].pc = "read"
    BY <1>6 DEF ReadProfile, At, Arrived
  <2>2. CASE Ends(r)
    BY <1>e, <2>1, <2>2
  <2>3. CASE ~Ends(r)
    <3>1. proc' = [proc EXCEPT ![r] = q] /\ profile.status = "active"
      BY <1>0, <1>6, <2>3 DEF ReadProfile
    <3>2. /\ q.pc = "create" /\ q.kind = proc[r].kind /\ q.s = proc[r].s /\ q.role = proc[r].role
          /\ q.ver = profile.ver /\ q.mat = profile.mat /\ q.plan = proc[r].plan
          /\ q.day = proc[r].day /\ (q.astray <=> proc[r].astray)
      BY DEF Locals
    <3>3. Advances(proc[r], q)
      BY <2>1, <3>1, <3>2 DEF Advances
    <3> QED
      BY <1>a, <2>1, <3>1, <3>3
  <2> QED
    BY <2>2, <2>3
<1>7. ASSUME NEW r \in Request, LoadPlannerInputs(r)
      PROVE  Moves(w)
  <2> DEFINE to == IF proc[r].kind = "plan" THEN "cached" ELSE "run"
  <2> DEFINE q == [proc[r] EXCEPT !.ver = meta[proc[r].s].ver, !.mat = meta[proc[r].s].mat,
                                  !.astray = FALSE, !.pc = to]
  <2>1. Arrived(r) /\ proc[r].pc = "load"
    BY <1>7 DEF LoadPlannerInputs, At, Arrived
  <2>2. CASE Ends(r)
    BY <1>e, <2>1, <2>2
  <2>3. CASE ~Ends(r)
    <3>1. proc' = [proc EXCEPT ![r] = q] /\ Replannable(proc[r].s)
      BY <1>0, <1>7, <2>3 DEF LoadPlannerInputs
    <3>2. /\ q.pc = to /\ q.kind = proc[r].kind /\ q.s = proc[r].s /\ q.role = proc[r].role
          /\ q.ver = meta[proc[r].s].ver /\ q.mat = meta[proc[r].s].mat /\ q.plan = proc[r].plan
          /\ q.day = proc[r].day /\ ~q.astray
      BY DEF Locals
    <3>3. Advances(proc[r], q)
      BY <2>1, <3>1, <3>2 DEF Advances
    <3> QED
      BY <1>a, <2>1, <3>1, <3>3
  <2> QED
    BY <2>2, <2>3
<1>8. ASSUME NEW r \in Request, GetCachedPlan(r)
      PROVE  Moves(w)
  <2>1. Arrived(r) /\ proc[r].pc = "cached"
    BY <1>8 DEF GetCachedPlan, At, Arrived
  <2>2. CASE ~Fresh(r)
    <3>1. Goto(r, "run")
      BY <1>0, <1>8, <2>2 DEF GetCachedPlan, Goto
    <3> QED
      BY <1>g, <2>1, <3>1
  <2>3. CASE Fresh(r)
    <3> DEFINE q == [proc[r] EXCEPT !.pc = "attach", !.plan = plans.plan]
    <3>1. proc' = [proc EXCEPT ![r] = q]
      BY <1>0, <1>8, <2>3 DEF GetCachedPlan
    <3>2. /\ q.pc = "attach" /\ q.kind = proc[r].kind /\ q.s = proc[r].s /\ q.role = proc[r].role
          /\ q.ver = proc[r].ver /\ q.mat = proc[r].mat /\ q.plan = plans.plan
          /\ q.day = proc[r].day /\ (q.astray <=> proc[r].astray)
      BY DEF Locals
    <3>3. Advances(proc[r], q)
      BY <2>1, <2>3, <3>2 DEF Advances, Fresh
    <3> QED
      BY <1>a, <2>1, <3>1, <3>3
  <2> QED
    BY <2>2, <2>3
<1>9. ASSUME NEW p \in Process, ClaimSessionAgentRun(p)
      PROVE  Moves(w)
  BY <1>9, <1>d, <1>e DEF ClaimSessionAgentRun, At, Arrived
<1>10. ASSUME NEW p \in Process, AddCall(p)
       PROVE  Moves(w)
  BY <1>10, <1>e, <1>g DEF AddCall, Granted, At, Arrived
<1>11. ASSUME NEW p \in Process, RollDay(p)
       PROVE  Moves(w)
  <2>1. Arrived(p) /\ proc[p].pc = "roll"
    BY <1>11 DEF RollDay, At, Arrived
  <2>2. CASE Ends(p) \/ Goto(p, "model")
    BY <1>e, <1>g, <2>1, <2>2
  <2>3. CASE proc' = [proc EXCEPT ![p].pc = "day", ![p].again = TRUE]
    <3> DEFINE q == [proc[p] EXCEPT !.pc = "day", !.again = TRUE]
    <3>1. proc' = [proc EXCEPT ![p] = q]
      BY <1>0, <2>3
    <3>2. /\ q.pc = "day" /\ q.kind = proc[p].kind /\ q.s = proc[p].s /\ q.role = proc[p].role
          /\ q.day = proc[p].day /\ Holding(proc[p], q)
      BY DEF Locals, Holding
    <3>3. Advances(proc[p], q)
      BY <2>1, <3>2 DEF Advances
    <3> QED
      BY <1>a, <2>1, <3>1, <3>3
  <2> QED
    BY <1>11, <2>2, <2>3 DEF RollDay, Rolled
<1>12. ASSUME NEW r \in Request, RunPlanner(r)
       PROVE  Moves(w)
  <2> DEFINE plan == [by |-> r, mat |-> proc[r].mat, role |-> proc[r].role]
  <2> DEFINE q == [proc[r] EXCEPT !.pc = "keep", !.plan = plan]
  <2>1. Arrived(r) /\ proc[r].pc = "model" /\ proc[r].kind = "plan" /\ At(r, "model")
    BY <1>12 DEF RunPlanner, At, Arrived
  <2>2. CASE Ends(r)
    BY <1>e, <2>1, <2>2
  <2>3. CASE ~Ends(r)
    <3>1. proc' = [proc EXCEPT ![r] = q]
      BY <1>0, <1>12, <2>3 DEF RunPlanner
    <3>2. /\ q.pc = "keep" /\ q.kind = proc[r].kind /\ q.s = proc[r].s /\ q.role = proc[r].role
          /\ q.ver = proc[r].ver /\ q.mat = proc[r].mat /\ q.plan = plan
          /\ q.day = proc[r].day /\ (q.astray <=> proc[r].astray)
      BY DEF Locals
    <3>3. plan \in Plan
      BY <2>1, KindAtStep DEF Plan
    <3>4. Advances(proc[r], q)
      BY <2>1, <3>2, <3>3 DEF Advances
    <3> QED
      BY <1>a, <2>1, <3>1, <3>4
  <2> QED
    BY <2>2, <2>3
<1>13. ASSUME NEW p \in Process, RunGapAgent(p) \/ RunCompanyIntelAgent(p)
       PROVE  Moves(w)
  BY <1>13, <1>e, <1>g DEF RunGapAgent, RunCompanyIntelAgent, At, Arrived
<1>14. ASSUME NEW p \in Process, PutGapAnalysis(p) \/ PutCompanyIntel(p)
       PROVE  Moves(w)
  BY <1>14, <1>e DEF PutGapAnalysis, PutCompanyIntel, PutOutput, At, Arrived
<1>15. ASSUME NEW r \in Request, AttachPlan(r)
       PROVE  Moves(w)
  <2>1. Arrived(r) /\ proc[r].pc = "attach"
    BY <1>15 DEF AttachPlan, At, Arrived
  <2>2. CASE Ends(r)
    BY <1>e, <2>1, <2>2
  <2>3. CASE ~Ends(r)
    <3>1. proc' = Started(r)
      BY <1>15, <2>3 DEF AttachPlan, Attached
    <3>2. CASE w = r
      BY <2>1, <3>1, <3>2 DEF Started, Moves
    <3>3. CASE w # r /\ ~\E a \in proc[r].post : w = <<r, a>>
      BY <3>1, <3>3 DEF Started, Moves
    <3>4. CASE w # r /\ \E a \in proc[r].post : w = <<r, a>>
      <4>1. PICK a \in proc[r].post : w = <<r, a>>
        BY <3>4
      <4>2. w \notin Request
        <5>1. <<r, a>> \in Task
          BY DEF Task
        <5> QED
          BY <4>1, <5>1, RequestAssumption
      <4> DEFINE q == [proc[r] EXCEPT !.pc = "run", !.kind = a, !.plan = None, !.post = {},
                                      !.heard = FALSE, !.day = 0, !.again = FALSE]
      <4>3. w[2] = a
        BY <4>1
      <4>4. proc'[w] = q
        BY <3>1, <3>4, <4>3 DEF Started
      <4>5. /\ q.pc = "run" /\ q.kind = a /\ q.s = proc[r].s /\ q.ver = proc[r].ver
            /\ q.mat = proc[r].mat /\ q.plan = None /\ q.day = 0
            /\ (q.astray <=> proc[r].astray)
        BY DEF Locals
      <4>6. Begins(proc[r], q)
        BY <2>1, <4>5 DEF Begins, Agent
      <4> QED
        BY <4>2, <4>4, <4>6 DEF Moves
    <3> QED
      BY <3>2, <3>3, <3>4
  <2> QED
    BY <2>2, <2>3
<1>16. ASSUME NEW r \in Request, ReadRows(r)
       PROVE  Moves(w)
  <2> DEFINE q == [proc[r] EXCEPT !.pc = "prose", !.ver = rows, !.astray = @ /\ rows = 0]
  <2>1. Arrived(r) /\ proc[r].pc = "rows" /\ proc' = [proc EXCEPT ![r] = q]
    BY <1>0, <1>16 DEF ReadRows, At, Arrived
  <2>2. /\ q.pc = "prose" /\ q.kind = proc[r].kind /\ q.s = proc[r].s /\ q.role = proc[r].role
        /\ q.ver = rows /\ q.mat = proc[r].mat /\ q.plan = proc[r].plan
        /\ q.day = proc[r].day /\ (q.astray <=> proc[r].astray /\ rows = 0)
    BY DEF Locals
  <2>3. Advances(proc[r], q)
    BY <2>1, <2>2 DEF Advances
  <2> QED
    BY <1>a, <2>1, <2>3
<1>17. ASSUME NEW r \in Request, GetCachedCoach(r)
       PROVE  Moves(w)
  BY <1>17, <1>d, <1>e DEF GetCachedCoach, At, Arrived
<1>18. ASSUME NEW r \in Request, RunCoachAgent(r)
       PROVE  Moves(w)
  BY <1>18, <1>e, <1>g DEF RunCoachAgent, At, Arrived
<1>19. ASSUME NEW p \in Process, CallFails(p)
       PROVE  Moves(w)
  BY <1>19, <1>d, <1>e, <1>g DEF CallFails, At
<1>20. ASSUME NEW s \in Session, StartInterview(s)
       PROVE  Moves(w)
  BY <1>20 DEF StartInterview, Moves
<1>21. ASSUME Midnight
       PROVE  Moves(w)
  BY <1>21 DEF Midnight, Moves
<1>away. ASSUME NEW r \in Request, TurnedAway(r)
      PROVE  Moves(w)
  BY <1>0, <1>away DEF TurnedAway, Ends, Moves, At
<1>22. ASSUME NEW r \in Request, RequestStep(r)
       PROVE  Moves(w)
  BY <1>away, <1>1, <1>2, <1>3, <1>4, <1>5, <1>6, <1>7, <1>8, <1>12, <1>15, <1>16, <1>17, <1>18, <1>22
  DEF RequestStep
<1>23. ASSUME NEW p \in Process, SpendStep(p)
       PROVE  Moves(w)
  BY <1>9, <1>10, <1>11, <1>13, <1>14, <1>19, <1>23 DEF SpendStep
<1> QED
  BY <1>20, <1>21, <1>22, <1>23 DEF RequestNext

-----------------------------------------------------------------------------
(* Processes keep to their kind, and every number is somebody's work.      *)

\* KeepsToItsKind through a step.
LEMMA KindsStay ==
  ASSUME RequestTypeOK, ProcessesAreSound, RequestNext, NEW p \in Process
  PROVE  KeepsToItsKind(p)'
<1> DEFINE o == proc[p]
           q == proc'[p]
<1>1. Moves(p) /\ KeepsToItsKind(p)
  BY ProcessesMove DEF ProcessesAreSound
<1>2. /\ o \in Locals /\ o.pc \in Step /\ o.kind \in Kind /\ o.day \in Day \cup {0}
      /\ q \in Locals /\ q.pc \in Step /\ q.kind \in Kind
  BY RequestTypesOf, RequestTypesStay DEF RequestTypeOK, Locals
<1>3. /\ ~Arrived(p)' => q = [Idle EXCEPT !.pc = q.pc, !.kind = q.kind]
      /\ Arrived(p)' => q.pc \in StepsOf[q.kind]
      /\ Arrived(p)' /\ q.kind = "plan" => q.role \in Role
      /\ q.pc \in {"keep", "attach"} => q.plan # None
      /\ q.pc \in {"day", "roll"} => q.day # 0
  <2>1. CASE q = o
    BY <1>1, <2>1 DEF KeepsToItsKind, Arrived
  <2>2. CASE q = Done(p)
    <3>1. q = [Idle EXCEPT !.pc = "done", !.kind = o.kind]
      BY <2>2 DEF Done
    <3>2. q.pc = "done" /\ q.kind = o.kind
      BY <3>1 DEF Idle
    <3> QED
      BY <3>1, <3>2 DEF Arrived
  <2>3. CASE Arrived(p) /\ Advances(o, q)
    <3>1. o.pc \in StepsOf[o.kind] /\ q.kind = o.kind /\ q.role = o.role
      BY <1>1, <2>3 DEF KeepsToItsKind, Advances
    <3>2. q.pc \in StepsOf[q.kind]
      BY <1>2, <2>3, <3>1, StepsByKind DEF Advances
    <3>3. Arrived(p)'
      BY <1>2, <2>3 DEF Arrived, Advances
    <3>4. q.kind = "plan" => q.role \in Role
      BY <1>1, <2>3, <3>1 DEF KeepsToItsKind
    <3>5. q.pc \in {"keep", "attach"} => q.plan # None
      BY <1>1, <2>3, RequestAssumption DEF KeepsToItsKind, Advances, Holding, RequestTypeOK, CachedPlan
    <3>6. q.pc \in {"day", "roll"} => q.day # 0
      BY <1>1, <2>3 DEF KeepsToItsKind, Advances, Holding, RequestTypeOK, Day
    <3> QED
      BY <3>2, <3>3, <3>4, <3>5, <3>6
  <2>4. CASE Comes(o, q)
    BY <2>4 DEF Comes, Arrived
  <2>5. CASE \E r \in Request : Begins(proc[r], q)
    BY <2>5, <1>2, StepsByKind DEF Begins, Arrived
  <2> QED
    BY <1>1, <2>1, <2>2, <2>3, <2>4, <2>5 DEF Moves
<1> QED
  BY <1>3 DEF KeepsToItsKind, Arrived

\* A request that is done stays done.
LEMMA DoneIsDone ==
  ASSUME RequestTypeOK, ProcessesAreSound, RequestNext
  PROVE  Finished \subseteq Finished'
<1> SUFFICES ASSUME NEW r \in Request, At(r, "done")
             PROVE  At(r, "done")'
  BY DEF Finished, At
<1>1. Moves(r)
  BY ProcessesMove, RequestTypesOf
<1> QED
  BY <1>1 DEF Moves, Comes, Arrived, At

\* Only these steps write items, give out versions or brief an interview.
Writing ==
  \/ \E r \in Request :
       \/ SaveDetails(r) \/ SaveGithub(r) \/ PutResume(r) \/ SaveResume(r) \/ CreateSession(r)
       \/ PutCachedPlan(r) \/ AttachPlan(r) \/ PutCachedCoach(r) \/ PutSessionSummary(r)
  \/ \E p \in Process :
       \/ ClaimSessionAgentRun(p) \/ AddCall(p) \/ RollDay(p) \/ PutOutput(p, "gap")
       \/ PutOutput(p, "intel")
  \/ \E s \in Session : StartInterview(s)

\* A request comes, and is counted or not.
Counting ==
  /\ CountHit /\ \E r \in Request : At(r, "idle") /\ ~At(r, "idle")'
  /\ UNCHANGED <<profile, file, meta, refs, output, rows, plans, coach, usage,
                 granted, straddled, briefed, saved, begun>>

LEMMA ArrivalCounts ==
  ASSUME RequestTypeOK, NEW r \in Request, NEW k, NEW locals, locals.pc \notin {"idle", "done"},
         Arrives(r, k, locals)
  PROVE  Counting
<1>1. At(r, "idle") /\ ~At(r, "idle")'
  BY RequestTypesOf DEF Arrives, At, RequestTypeOK
<1> QED
  BY <1>1 DEF Arrives, Counting

LEMMA OnlyTheseWrite ==
  ASSUME RequestTypeOK, RequestNext
  PROVE  Writing \/ Counting \/ UNCHANGED <<items, granted, straddled, briefed, saved, begun, late>>
<1> USE DEF items, history, Bookkeeping, Uncounted
<1>1. ASSUME NEW r \in Request, RequestStep(r)
      PROVE  Writing \/ Counting \/ UNCHANGED <<items, granted, straddled, briefed, saved, begun, late>>
  <2>1. CASE \/ PutDetails(r) \/ PutGithub(r) \/ PostResume(r) \/ PostPreInterview(r)
             \/ RequestPlan(r) \/ PostGap(r) \/ PostCompanyIntel(r) \/ GetCoach(r)
    <3>1. PutDetails(r) => Counting
      BY ArrivalCounts DEF PutDetails, First, Idle
    <3>2. PutGithub(r) => Counting
      BY ArrivalCounts DEF PutGithub, First, Idle
    <3>3. PostResume(r) => Counting
      BY ArrivalCounts DEF PostResume, First, Idle
    <3>4. PostPreInterview(r) => Counting
      BY ArrivalCounts DEF PostPreInterview, First, Idle
    <3>5. RequestPlan(r) => Counting
      BY ArrivalCounts DEF RequestPlan, First, Idle
    <3>6. PostGap(r) => Counting
      BY ArrivalCounts DEF PostGap, First, Idle
    <3>7. PostCompanyIntel(r) => Counting
      BY ArrivalCounts DEF PostCompanyIntel, First, Idle
    <3>8. GetCoach(r) => Counting
      BY ArrivalCounts DEF GetCoach, First, Idle
    <3> QED
      BY <2>1, <3>1, <3>2, <3>3, <3>4, <3>5, <3>6, <3>7, <3>8
  <2>4. CASE TurnedAway(r)
    <3>1. At(r, "idle") /\ ~At(r, "idle")'
      BY <2>4, RequestTypesOf DEF TurnedAway, At, Ends, Done, Idle, RequestTypeOK
    <3> QED
      BY <2>4, <3>1 DEF TurnedAway, Counting
  <2>2. CASE \/ SessionCompletes(r) \/ ClientTimesOut(r) \/ ReadProfile(r) \/ LoadPlannerInputs(r)
             \/ GetCachedPlan(r)
    BY <2>2 DEF SessionCompletes, ClientTimesOut, ReadProfile, LoadPlannerInputs, GetCachedPlan
  <2>3. CASE RunPlanner(r) \/ ReadRows(r) \/ GetCachedCoach(r) \/ RunCoachAgent(r)
    BY <2>3 DEF RunPlanner, ReadRows, GetCachedCoach, RunCoachAgent
  <2> QED
    BY <1>1, <2>1, <2>2, <2>3, <2>4 DEF RequestStep, Writing
<1>2. ASSUME NEW p \in Process, SpendStep(p)
      PROVE  Writing \/ Counting \/ UNCHANGED <<items, granted, straddled, briefed, saved, begun, late>>
  <2>1. CASE RunGapAgent(p) \/ RunCompanyIntelAgent(p) \/ CallFails(p)
    BY <2>1 DEF RunGapAgent, RunCompanyIntelAgent, CallFails
  <2> QED
    BY <1>2, <2>1 DEF SpendStep, Writing, PutGapAnalysis, PutCompanyIntel
<1>3. CASE Midnight
  BY <1>3 DEF Midnight
<1> QED
  BY <1>1, <1>2, <1>3 DEF RequestNext, Writing

\* Numbered through a step: a version or a row more is a request more that is done.
LEMMA NumbersStay ==
  ASSUME RequestTypeOK, ProcessesAreSound, RequestNext
  PROVE  Numbered'
<1> USE RequestTypesOf DEF items
<1>1. /\ profile.ver \in Nat /\ rows \in Nat /\ Cardinality(Finished) \in Nat
      /\ profile.ver <= Cardinality(Finished) + 1 /\ rows <= Cardinality(Finished) + 1
  <2>1. IsFiniteSet(Finished)
    BY RequestAssumption, FS_Subset DEF Finished
  <2> QED
    BY <2>1, BlankRecords, FS_CardinalityType
    DEF ProcessesAreSound, Numbered, RequestTypeOK, Version, Rows
<1>2. Cardinality(Finished') \in Nat /\ Cardinality(Finished) <= Cardinality(Finished')
  <2>1. Finished \subseteq Finished' /\ Finished' \subseteq Request
    BY DoneIsDone DEF Finished
  <2>2. IsFiniteSet(Finished')
    BY <2>1, RequestAssumption, FS_Subset
  <2> QED
    BY <2>1, <2>2, FS_Subset, FS_CardinalityType
<1>3. ASSUME NEW r \in Request, SaveGithub(r) \/ SaveResume(r) \/ PutSessionSummary(r)
      PROVE  Cardinality(Finished') = Cardinality(Finished) + 1
  <2>1. Ends(r) /\ ~At(r, "done")
    BY <1>3 DEF SaveGithub, SaveResume, PutSessionSummary, At
  <2>2. \A q \in Request : At(q, "done")' <=> At(q, "done") \/ q = r
    BY <2>1 DEF Ends, Done, Idle, At, RequestTypeOK
  <2>3. Finished' = Finished \cup {r}
    BY <2>2 DEF Finished
  <2> QED
    BY <2>1, <2>3, OneMoreFinished
<1>4. ASSUME NEW r \in Request, SaveGithub(r) \/ SaveResume(r)
      PROVE  profile'.ver \in {profile.ver, profile.ver + 1} /\ rows' = rows
  BY <1>4 DEF SaveGithub, SaveResume, HandleFailure, Profile
<1>5. CASE \E r \in Request : SaveGithub(r) \/ SaveResume(r)
  BY <1>1, <1>3, <1>4, <1>5 DEF Numbered
<1>6. CASE \E r \in Request : PutSessionSummary(r)
  BY <1>1, <1>3, <1>6 DEF Numbered, PutSessionSummary
<1>7. CASE \E r \in Request : SaveDetails(r)
  <2>1. profile'.ver = profile.ver /\ rows' = rows
    BY <1>7 DEF SaveDetails, HandleFailure, Profile
  <2> QED
    BY <1>1, <1>2, <2>1 DEF Numbered
<1>8. CASE UNCHANGED <<profile, rows>>
  BY <1>1, <1>2, <1>8 DEF Numbered
<1>9. ASSUME NEW r \in Request,
             \/ PutResume(r) \/ CreateSession(r) \/ PutCachedPlan(r) \/ AttachPlan(r)
             \/ PutCachedCoach(r)
      PROVE  UNCHANGED <<profile, rows>>
  BY <1>9 DEF PutResume, CreateSession, PutCachedPlan, AttachPlan, PutCachedCoach
<1>10. ASSUME NEW p \in Process,
              \/ ClaimSessionAgentRun(p) \/ AddCall(p) \/ RollDay(p) \/ PutOutput(p, "gap")
              \/ PutOutput(p, "intel")
       PROVE  UNCHANGED <<profile, rows>>
  BY <1>10 DEF ClaimSessionAgentRun, AddCall, RollDay, PutOutput
<1>11. ASSUME NEW s \in Session, StartInterview(s)
       PROVE  UNCHANGED <<profile, rows>>
  BY <1>11 DEF StartInterview
<1>12. CASE Writing
  BY <1>5, <1>6, <1>7, <1>8, <1>9, <1>10, <1>11, <1>12 DEF Writing
<1> QED
  BY <1>8, <1>12, OnlyTheseWrite DEF Counting

-----------------------------------------------------------------------------
(* The types, through an erasure too.                                      *)

\* An erasure moves no process and keeps what was recorded.
LEMMA ErasureLeaves ==
  ASSUME ErasureNext
  PROVE  /\ UNCHANGED <<day, proc, shown, granted, straddled, overlapped, briefed, saved>>
         /\ UNCHANGED late \/ (MarkProfileDeleting /\ CountHit)
         /\ late \subseteq late'
<1>1. /\ UNCHANGED <<day, proc, shown, granted, straddled, overlapped, briefed, saved>>
      /\ UNCHANGED late \/ (MarkProfileDeleting /\ CountHit)
  BY DEF ErasureNext, MarkProfileDeleting, ListUserSessionIds, QuerySession, DeleteKeys,
         DeleteUserSessionRefs, DeleteSessionSummaries, DeleteResume, DeleteProfileItem,
         PutTombstone, DeleteCognitoUser, ErasureFails, Others, history
<1>2. CountHit => late \subseteq late'
  BY DEF CountHit, Writes
<1> QED
  BY <1>1, <1>2

\* Where an erasure can be, as the type says.
SweepStep == {"idle", "list", "query", "delete", "refs", "rows", "file", "plan", "coach", "usage",
              "window", "tombstone", "identity"}
Sweep == [pc : SweepStep, list : SUBSET Session, left : SUBSET Session, keys : SUBSET Item,
          whole : BOOLEAN, idle : SUBSET Request]

LEMMA SweepTypes ==
  ASSUME TypeOK
  PROVE  /\ sweep \in Sweep /\ NoSweep \in Sweep /\ sweep.whole \in BOOLEAN
         /\ sweep.list \subseteq Session /\ sweep.left \subseteq Session
         /\ sweep.keys \subseteq Item /\ sweep.idle \subseteq Request
         /\ \A s \in Session : Partition(s) \subseteq Item
         /\ \A s \in Session : output[s] \subseteq Agent
         /\ refs \subseteq Session
<1>1. /\ sweep \in Sweep /\ NoSweep \in Sweep /\ sweep.whole \in BOOLEAN
      /\ sweep.list \subseteq Session /\ sweep.left \subseteq Session
      /\ sweep.keys \subseteq Item /\ sweep.idle \subseteq Request
  BY DEF TypeOK, Sweep, SweepStep, NoSweep
<1>2. /\ \A s \in Session : output[s] \subseteq Agent
      /\ refs \subseteq Session
  BY DEF TypeOK, RequestTypeOK
<1>3. \A s \in Session : Partition(s) \subseteq Item
  BY <1>2 DEF Partition, Item, Agent
<1> QED
  BY <1>1, <1>2, <1>3

\* TypeOK through a step of an erasure.
LEMMA ErasureTypesStay ==
  ASSUME TypeOK, ErasureNext
  PROVE  TypeOK'
<1> USE SweepTypes, BlankRecords DEF items, Others
<1>g. ASSUME NEW pc \in SweepStep, Goes(pc)
      PROVE  sweep' \in Sweep
  BY <1>g DEF Goes, Sweep
<1>v. \A todo : Visit(todo) \in SweepStep
  BY DEF Visit, SweepStep
<1>t. ASSUME RequestTypeOK', sweep' \in Sweep, identity' \in BOOLEAN, missed' \subseteq Item,
             erasures' \in 0..MaxErasures
      PROVE  TypeOK'
  BY <1>t DEF TypeOK, Sweep, SweepStep
<1>0. /\ RequestTypeOK /\ identity \in BOOLEAN /\ missed \subseteq Item
      /\ erasures \in 0..MaxErasures
  BY DEF TypeOK
<1>1. CASE MarkProfileDeleting
  <2>1. profile' \in Profile
    BY <1>0, <1>1 DEF MarkProfileDeleting, RequestTypeOK, Profile
  <2>2. RequestTypeOK'
    <3>1. limiter' \in BOOLEAN /\ late' \subseteq Item
      BY <1>0, <1>1, CountsAreTyped DEF MarkProfileDeleting
    <3> QED
      BY <1>0, <1>1, <2>1, <3>1 DEF MarkProfileDeleting, RequestTypeOK
  <2>3. sweep' = [NoSweep EXCEPT !.pc = "list", !.whole = ~Busy, !.idle = Idlers]
    BY <1>1 DEF MarkProfileDeleting
  <2>4. "list" \in SweepStep /\ (~Busy) \in BOOLEAN /\ Idlers \in SUBSET Request
    BY DEF SweepStep, Idlers
  <2>5. sweep' \in Sweep
    BY <2>3, <2>4 DEF Sweep
  <2> QED
    BY <1>t, <1>0, <1>1, <2>2, <2>5, ErasureAssumption DEF MarkProfileDeleting, CanDelete
<1>2. CASE ListUserSessionIds
  <2>1. RequestTypeOK'
    BY <1>0, <1>2 DEF ListUserSessionIds, RequestTypeOK, Uncounted
  <2>2. PICK found \in SUBSET refs :
          /\ Queried({<<"ref", s>> : s \in refs}, {<<"ref", s>> : s \in found})
          /\ sweep' = [sweep EXCEPT !.list = found, !.left = found, !.pc = Visit(found),
                                    !.whole = @ /\ found = refs]
    BY <1>2 DEF ListUserSessionIds
  <2>3. sweep' \in Sweep
    <3>1. (sweep.whole /\ found = refs) \in BOOLEAN /\ found \in SUBSET Session
          /\ Visit(found) \in SweepStep
      BY <1>v
    <3> QED
      BY <2>2, <3>1 DEF Sweep
  <2>4. missed' \subseteq Item
    BY <1>0, <2>2 DEF Queried, Item
  <2> QED
    BY <1>t, <1>0, <1>2, <2>1, <2>3, <2>4 DEF ListUserSessionIds
<1>3. CASE QuerySession
  <2>1. RequestTypeOK'
    BY <1>0, <1>3 DEF QuerySession, RequestTypeOK
  <2>2. PICK s \in sweep.left : \E found \in SUBSET Partition(s) :
          /\ Queried(Partition(s), found)
          /\ sweep' = [sweep EXCEPT !.left = @ \ {s}, !.keys = found, !.pc = "delete",
                                    !.whole = @ /\ found = Partition(s)]
    BY <1>3 DEF QuerySession
  <2>3. PICK found \in SUBSET Partition(s) :
          /\ Queried(Partition(s), found)
          /\ sweep' = [sweep EXCEPT !.left = @ \ {s}, !.keys = found, !.pc = "delete",
                                    !.whole = @ /\ found = Partition(s)]
    BY <2>2
  <2>4. sweep' \in Sweep
    <3>1. (sweep.whole /\ found = Partition(s)) \in BOOLEAN /\ found \in SUBSET Item
          /\ "delete" \in SweepStep
      BY DEF SweepStep
    <3> QED
      BY <2>3, <3>1 DEF Sweep
  <2>5. missed' \subseteq Item
    BY <1>0, <2>3 DEF Queried
  <2> QED
    BY <1>t, <1>0, <1>3, <2>1, <2>4, <2>5 DEF QuerySession
<1>d. ASSUME NEW keys, Delete(keys)
      PROVE  meta' \in [Session -> Meta] /\ output' \in [Session -> SUBSET Agent]
  BY <1>d, <1>0 DEF Delete, RequestTypeOK
<1>4. CASE DeleteKeys
  <2>1. RequestTypeOK'
    BY <1>0, <1>4, <1>d DEF DeleteKeys, RequestTypeOK
  <2>2. sweep' \in Sweep
    BY <1>4, <1>v DEF DeleteKeys, Sweep
  <2> QED
    BY <1>t, <1>0, <1>4, <2>1, <2>2 DEF DeleteKeys
<1>5. CASE DeleteUserSessionRefs
  <2>1. RequestTypeOK'
    BY <1>0, <1>5 DEF DeleteUserSessionRefs, RequestTypeOK
  <2> QED
    BY <1>t, <1>0, <1>5, <1>g, <2>1 DEF DeleteUserSessionRefs, SweepStep
<1>6. CASE DeleteSessionSummaries
  <2> DEFINE all == {i \in {<<"rows", None>>} : rows # 0}
  <2>1. RequestTypeOK'
    BY <1>0, <1>6 DEF DeleteSessionSummaries, RequestTypeOK
  <2>2. PICK found \in SUBSET all :
          Queried(all, found) /\ sweep' = [sweep EXCEPT !.pc = "file", !.whole = @ /\ found = all]
    BY <1>6 DEF DeleteSessionSummaries
  <2>3. sweep' \in Sweep
    <3>1. (sweep.whole /\ found = all) \in BOOLEAN /\ "file" \in SweepStep
      BY DEF SweepStep
    <3> QED
      BY <2>2, <3>1 DEF Sweep
  <2>4. missed' \subseteq Item
    BY <1>0, <2>2 DEF Queried, Item
  <2> QED
    BY <1>t, <1>0, <1>6, <2>1, <2>3, <2>4 DEF DeleteSessionSummaries
<1>7. CASE DeleteResume
  <2>1. RequestTypeOK'
    BY <1>0, <1>7 DEF DeleteResume, RequestTypeOK, Material
  <2> QED
    BY <1>t, <1>0, <1>7, <1>g, <2>1 DEF DeleteResume, SweepStep
<1>8. CASE DeleteProfileItem
  <2>1. RequestTypeOK'
    <3>1. /\ plans' \in {None, plans} /\ coach' \in {0, coach} /\ limiter' \in {FALSE, limiter}
          /\ usage' = usage \/ usage' = [day |-> 0, calls |-> 0]
      BY <1>8 DEF DeleteProfileItem
    <3>2. plans' \in CachedPlan \cup {None} /\ coach' \in Rows
      BY <1>0, <3>1 DEF RequestTypeOK
    <3>3. limiter' \in BOOLEAN
      BY <1>0, <3>1 DEF RequestTypeOK
    <3>4. usage' \in [day : Day \cup {0}, calls : Nat]
      BY <1>0, <3>1 DEF RequestTypeOK
    <3> QED
      BY <1>0, <1>8, <3>2, <3>3, <3>4 DEF DeleteProfileItem, RequestTypeOK, history
  <2> QED
    BY <1>t, <1>0, <1>8, <1>g, <2>1 DEF DeleteProfileItem, SweepStep
<1>9. CASE PutTombstone
  <2>1. profile' \in Profile
    BY <1>9 DEF PutTombstone, Profile
  <2>2. RequestTypeOK'
    BY <1>0, <1>9, <2>1 DEF PutTombstone, RequestTypeOK
  <2> QED
    BY <1>t, <1>0, <1>9, <1>g, <2>2 DEF PutTombstone, SweepStep
<1>10. CASE DeleteCognitoUser
  <2>1. RequestTypeOK'
    BY <1>0, <1>10 DEF DeleteCognitoUser, RequestTypeOK
  <2> QED
    BY <1>t, <1>0, <1>10, <2>1 DEF DeleteCognitoUser
<1>11. CASE ErasureFails
  <2>1. meta' \in [Session -> Meta] /\ output' \in [Session -> SUBSET Agent]
    <3>1. CASE UNCHANGED <<meta, output>>
      BY <1>0, <3>1 DEF RequestTypeOK
    <3>2. CASE \E keys \in SUBSET sweep.keys : Delete(keys)
      BY <1>d, <3>2
    <3> QED
      BY <1>11, <3>1, <3>2 DEF ErasureFails
  <2>2. faults' \in 0..MaxFaults
    BY <1>0, <1>11, BudgetAssumption DEF ErasureFails, RequestTypeOK
  <2>3. RequestTypeOK'
    BY <1>0, <1>11, <2>1, <2>2 DEF ErasureFails, RequestTypeOK, history
  <2> QED
    BY <1>t, <1>0, <1>11, <2>3 DEF ErasureFails
<1> QED
  BY <1>1, <1>2, <1>3, <1>4, <1>5, <1>6, <1>7, <1>8, <1>9, <1>10, <1>11 DEF ErasureNext

\* ProcessesAreSound through any step.
LEMMA ProcessesStaySound ==
  ASSUME TypeOK, ProcessesAreSound, [Next]_vars
  PROVE  ProcessesAreSound'
<1>1. CASE RequestNext
  BY <1>1, KindsStay, NumbersStay DEF TypeOK, ProcessesAreSound
<1>2. CASE ErasureNext
  <2>1. proc' = proc
    BY <1>2, ErasureLeaves
  <2>2. profile'.ver \in {0, profile.ver} /\ rows' \in {0, rows}
    BY <1>2, RequestTypesOf
    DEF TypeOK, Profile, ErasureNext, MarkProfileDeleting, ListUserSessionIds, QuerySession,
        DeleteKeys, DeleteUserSessionRefs, DeleteSessionSummaries, DeleteResume, DeleteProfileItem,
        PutTombstone, DeleteCognitoUser, ErasureFails, items, NoProfile
  <2>3. Cardinality(Finished) \in Nat
    <3>1. IsFiniteSet(Finished)
      BY RequestAssumption, FS_Subset DEF Finished
    <3> QED
      BY <3>1, FS_CardinalityType
  <2>4. Numbered'
    BY <2>1, <2>2, <2>3 DEF Numbered, Finished, At, ProcessesAreSound
  <2> QED
    BY <2>1, <2>4 DEF ProcessesAreSound, KeepsToItsKind, Arrived
<1>3. CASE UNCHANGED vars
  BY <1>3 DEF vars, requestVars, items, ProcessesAreSound, KeepsToItsKind, Arrived, Numbered,
              Finished, At
<1> QED
  BY <1>1, <1>2, <1>3 DEF Next

\* TypeOK through any step.
LEMMA TypesStay ==
  ASSUME TypeOK, ProcessesAreSound, [Next]_vars
  PROVE  TypeOK'
<1>1. CASE RequestNext /\ UNCHANGED erasureVars
  BY <1>1, RequestTypesStay DEF TypeOK, erasureVars
<1>2. CASE ErasureNext
  BY <1>2, ErasureTypesStay
<1>3. CASE UNCHANGED vars
  BY <1>3 DEF vars, requestVars, items, history, erasureVars, TypeOK, RequestTypeOK
<1> QED
  BY <1>1, <1>2, <1>3 DEF Next

\* The account as it is at first.
LEMMA TypesAtFirst ==
  ASSUME Init
  PROVE  TypeOK /\ ProcessesAreSound
<1> USE BlankRecords, RequestAssumption, BudgetAssumption DEF Init, RequestInit
<1>1. profile \in Profile /\ profile.ver \in {0, 1} /\ file \in Material
  <2> DEFINE complete == [status |-> "active", named |-> TRUE, ver |-> 1, text |-> FirstSession,
                          mat |-> FirstSession]
  <2>1. complete \in Profile
    BY DEF Profile, Material
  <2>2. profile \in {NoProfile, complete} /\ file = profile.text
    OBVIOUS
  <2>3. profile \in Profile
    BY <2>1, <2>2
  <2>4. profile.ver \in {0, 1}
    BY ONLY <2>2 DEF NoProfile
  <2> QED
    BY <2>2, <2>3, <2>4 DEF Profile
<1>2. \A role \in Role : FirstPlan(role) \in Plan /\ FirstMeta(role) \subseteq Meta
  <2> SUFFICES ASSUME NEW role \in Role
               PROVE  FirstPlan(role) \in Plan /\ FirstMeta(role) \subseteq Meta
    OBVIOUS
  <2>1. FirstPlan(role) \in Plan
    BY DEF FirstPlan, Plan, Session, Material
  <2> DEFINE created == [NoMeta EXCEPT !.status = "planning", !.ver = 1, !.mat = FirstSession]
  <2>2. created \in Meta
    BY DEF Meta, Material
  <2>3. [created EXCEPT !.status = "in_progress", !.role = role, !.plan = FirstPlan(role)] \in Meta
    BY <2>1, <2>2 DEF Meta
  <2> QED
    BY <2>1, <2>2, <2>3 DEF FirstMeta
<1>3. PICK role \in Role, first \in Meta :
        /\ meta = [s \in Session |-> IF s = FirstSession THEN first ELSE NoMeta]
        /\ plans \in IF profile = NoProfile THEN {None}
                     ELSE {None, [plan |-> FirstPlan(role), ver |-> 1, role |-> role]}
  BY <1>2
<1>4. meta \in [Session -> Meta] /\ refs \subseteq Session
      /\ \A s \in Session : meta[s].plan \in Plan \cup {None}
  BY <1>3 DEF Meta
<1>5. plans \in CachedPlan \cup {None}
  BY <1>2, <1>3 DEF CachedPlan
<1>6. PICK cast \in [Request -> Kind] :
        proc = [p \in Process |-> IF p \in Request THEN [Idle EXCEPT !.kind = cast[p]] ELSE Idle]
  OBVIOUS
<1>7. proc \in [Process -> Locals]
  <2>1. \A k \in Kind : [Idle EXCEPT !.kind = k] \in Locals
    BY DEF Locals
  <2> QED
    BY <1>6, <2>1
<1>8. saved \in [Version -> Material]
  BY <1>1 DEF Profile, Material
<1>9. rows \in {0, 1} /\ usage \in [day : Day \cup {0}, calls : Nat] /\ day \in Day /\ coach \in Rows
      /\ granted \in [Day -> Nat]
  BY DEF Day
<1>10. /\ output \in [Session -> SUBSET Agent] /\ shown \in [Session -> Plan \cup {None}]
       /\ briefed \in [Session -> Plan \cup {None}] /\ faults \in 0..MaxFaults
       /\ straddled \in BOOLEAN /\ overlapped \subseteq Session /\ begun \in BOOLEAN
       /\ late \subseteq Item
  <2>1. \A f : f = [s \in Session |-> meta[s].plan] => f \in [Session -> Plan \cup {None}]
    BY <1>4
  <2>2. shown = [s \in Session |-> meta[s].plan] /\ briefed = [s \in Session |-> meta[s].plan]
    OBVIOUS
  <2>3. shown \in [Session -> Plan \cup {None}] /\ briefed \in [Session -> Plan \cup {None}]
    BY <2>1, <2>2, Zenon
  <2>4. faults \in 0..MaxFaults
    BY ONLY faults = 0, BudgetAssumption
  <2>6. straddled \in BOOLEAN /\ begun \in BOOLEAN
    BY ONLY straddled = FALSE, begun = FALSE
  <2>5. output \in [Session -> SUBSET Agent] /\ overlapped \subseteq Session /\ late \subseteq Item
    OBVIOUS
  <2> QED
    BY <2>3, <2>4, <2>5, <2>6
<1>11. RequestTypeOK
  BY <1>1, <1>4, <1>5, <1>7, <1>8, <1>9, <1>10 DEF RequestTypeOK
<1>12. TypeOK
  BY <1>11, ErasureAssumption DEF TypeOK, NoSweep
<1>13. \A p \in Process : KeepsToItsKind(p)
  <2>1. ASSUME NEW p \in Process PROVE KeepsToItsKind(p)
    <3>1. \E k \in Kind : proc[p] = [Idle EXCEPT !.kind = k]
      <4>1. Idle = [Idle EXCEPT !.kind = "plan"]
        <5>1. \A q \in Locals : q.kind = "plan" => q = [q EXCEPT !.kind = "plan"]
          BY ONLY TRUE DEF Locals
        <5>2. Idle \in Locals /\ Idle.kind = "plan"
          BY DEF Idle
        <5> QED
          BY ONLY <5>1, <5>2, Zenon
      <4>2. "plan" \in Kind
        BY DEF Kind
      <4> QED
        BY <1>6, <4>1, <4>2
    <3>2. PICK k \in Kind : proc[p] = [Idle EXCEPT !.kind = k]
      BY <3>1
    <3>3. proc[p].pc = "idle" /\ proc[p].kind = k
      BY ONLY <3>2 DEF Idle
    <3>4. proc[p] = [Idle EXCEPT !.pc = "idle", !.kind = k]
      <4>1. \A q \in Locals : q.pc = "idle" =>
              [q EXCEPT !.pc = "idle", !.kind = k] = [q EXCEPT !.kind = k]
        BY ONLY TRUE DEF Locals
      <4>2. Idle \in Locals /\ Idle.pc = "idle"
        BY DEF Idle
      <4> QED
        BY ONLY <3>2, <4>1, <4>2, Zenon
    <3> QED
      BY <3>3, <3>4 DEF KeepsToItsKind, Arrived
  <2> QED
    BY <2>1
<1>14. Numbered
  <2>1. IsFiniteSet(Finished)
    BY FS_Subset DEF Finished
  <2>2. Cardinality(Finished) \in Nat
    BY <2>1, FS_CardinalityType
  <2> QED
    BY <1>1, <1>9, <2>2 DEF Numbered
<1> QED
  BY <1>12, <1>13, <1>14 DEF ProcessesAreSound

\* Every item, process and counter keeps its type: a session is never charged
\* more than its runs, no version or row outnumbers the requests that made them.
THEOREM TypeCorrect == Spec => [](TypeOK /\ ProcessesAreSound)
<1>1. Init => TypeOK /\ ProcessesAreSound
  BY TypesAtFirst
<1>2. TypeOK /\ ProcessesAreSound /\ [Next]_vars => (TypeOK /\ ProcessesAreSound)'
  BY TypesStay, ProcessesStaySound
<1> QED
  BY <1>1, <1>2, PTL DEF Spec

-----------------------------------------------------------------------------
(* What is written, and what an erasure leaves.                            *)

\* An item is there after a request's step because it was there before, or was
\* written: a session's ref together with the session, its outputs by a process
\* that has loaded it.  What is written since the first mark is known as late.
Late(i) == begun => i \in late'
Written1 ==
  /\ begun' = begun /\ late \subseteq late' /\ (~begun => late' = late)
  /\ refs \subseteq refs' /\ \A s \in Session : s \in refs' => s \in refs \/ Late(<<"ref", s>>)
Written2 ==
  /\ \A s \in Session : meta'[s].status # "none" =>
       meta[s].status # "none" \/ (s \in refs' /\ Late(<<"meta", s>>))
  /\ \A s \in Session, a \in Agent : a \in output'[s] =>
       a \in output[s] \/ ((\E p \in Process : HasLoaded(p) /\ proc[p].s = s) /\ Late(<<a, s>>))
Written3 ==
  /\ rows' # 0 => rows # 0 \/ Late(<<"rows", None>>)
  /\ file' # None => file # None \/ Late(<<"file", None>>)
  /\ plans' # None => plans # None \/ Late(<<"plan", None>>)
  /\ coach' # 0 => coach # 0 \/ Late(<<"coach", None>>)
  /\ usage'.day # 0 => usage.day # 0 \/ Late(<<"usage", None>>)
  /\ limiter' => limiter \/ Late(<<"window", None>>)
  /\ Marked => profile' = profile
  /\ ~Marked => profile'.status \in {profile.status, "active"}

LEMMA WhatIsWritten ==
  ASSUME RequestTypeOK, ProcessesAreSound, RequestNext
  PROVE  Written1 /\ Written2 /\ Written3
<1> USE RequestTypesOf DEF items, Bookkeeping, Uncounted
<1>1. CASE UNCHANGED <<items, begun, late>>
  BY <1>1 DEF Written1, Written2, Written3
<1>2. ASSUME NEW r \in Request, SaveDetails(r) \/ SaveGithub(r) \/ SaveResume(r)
      PROVE  Written1 /\ Written2 /\ Written3
  <2>1. UNCHANGED <<file, meta, refs, output, rows, plans, coach, usage, limiter, begun, late>>
    BY <1>2 DEF SaveDetails, SaveGithub, SaveResume
  <2>2. /\ Marked => profile' = profile
        /\ ~Marked => profile'.status \in {profile.status, "active"}
    BY <1>2 DEF SaveDetails, SaveGithub, SaveResume, HandleFailure, NotDeleting, Profile
  <2> QED
    BY <2>1, <2>2 DEF Written1, Written2, Written3
<1>w. ASSUME NEW new, Writes(new), begun' = begun
      PROVE  /\ late \subseteq late' /\ (~begun => late' = late)
             /\ \A i \in new : Late(i)
  BY <1>w DEF Writes, Late
<1>3. ASSUME NEW r \in Request, PutResume(r)
      PROVE  Written1 /\ Written2 /\ Written3
  <2>1. UNCHANGED <<profile, meta, refs, output, rows, plans, coach, usage, limiter, begun>>
        /\ Writes({<<"file", None>>})
    BY <1>3 DEF PutResume
  <2> QED
    BY <1>w, <2>1 DEF Written1, Written2, Written3
<1>4. ASSUME NEW r \in Request, CreateSession(r)
      PROVE  Written1 /\ Written2 /\ Written3
  <2>1. /\ UNCHANGED <<profile, file, output, rows, plans, coach, usage, limiter, begun>>
        /\ refs' = refs \cup {r} /\ Writes({<<"meta", r>>, <<"ref", r>>})
    BY <1>4 DEF CreateSession
  <2>2. \A s \in Session : s # r => meta'[s] = meta[s]
    BY <1>4 DEF CreateSession, RequestTypeOK
  <2> QED
    BY <1>w, <2>1, <2>2 DEF Written1, Written2, Written3
<1>5. ASSUME NEW r \in Request, PutCachedPlan(r)
      PROVE  Written1 /\ Written2 /\ Written3
  <2>1. UNCHANGED <<profile, file, meta, refs, output, rows, coach, usage, limiter, begun>>
        /\ Writes({<<"plan", None>>})
    BY <1>5 DEF PutCachedPlan
  <2> QED
    BY <1>w, <2>1 DEF Written1, Written2, Written3
<1>6. ASSUME NEW r \in Request, PutCachedCoach(r)
      PROVE  Written1 /\ Written2 /\ Written3
  <2>1. UNCHANGED <<profile, file, meta, refs, output, rows, plans, usage, limiter, begun>>
        /\ Writes({<<"coach", None>>})
    BY <1>6 DEF PutCachedCoach
  <2> QED
    BY <1>w, <2>1 DEF Written1, Written2, Written3
<1>7. ASSUME NEW r \in Request, PutSessionSummary(r)
      PROVE  Written1 /\ Written2 /\ Written3
  <2>1. UNCHANGED <<profile, file, meta, refs, output, plans, coach, usage, limiter, begun>>
        /\ Writes({<<"rows", None>>})
    BY <1>7 DEF PutSessionSummary
  <2> QED
    BY <1>w, <2>1 DEF Written1, Written2, Written3
\* A session's own item, changed while it is there.
<1>8. ASSUME UNCHANGED <<profile, file, refs, output, rows, plans, coach, usage, limiter, begun, late>>,
             NEW s \in Session, meta[s].status # "none", NEW m, meta' = [meta EXCEPT ![s] = m]
      PROVE  Written1 /\ Written2 /\ Written3
  <2>1. \A t \in Session : t # s => meta'[t] = meta[t]
    BY <1>8 DEF RequestTypeOK
  <2> QED
    BY <1>8, <2>1 DEF Written1, Written2, Written3
<1>9. ASSUME NEW r \in Request, AttachPlan(r)
      PROVE  Written1 /\ Written2 /\ Written3
  <2>1. UNCHANGED <<profile, file, refs, output, rows, plans, coach, usage, limiter, begun, late>>
    BY <1>9 DEF AttachPlan
  <2>2. CASE UNCHANGED meta
    BY <1>1, <2>1, <2>2
  <2>3. CASE ~UNCHANGED meta
    <3>1. meta[proc[r].s].status # "none"
          /\ meta' = [meta EXCEPT ![proc[r].s] = [@ EXCEPT !.status = "ready",
                                   !.plan = proc[r].plan, !.role = proc[r].role]]
      BY <1>9, <2>3 DEF AttachPlan, Attached, Replannable
    <3> QED
      BY <1>8, <2>1, <3>1
  <2> QED
    BY <2>2, <2>3
<1>10. ASSUME NEW s \in Session, StartInterview(s)
       PROVE  Written1 /\ Written2 /\ Written3
  <2>1. UNCHANGED <<profile, file, refs, output, rows, plans, coach, usage, limiter, begun, late>>
        /\ meta[s].status # "none"
        /\ meta' = [meta EXCEPT ![s] = [@ EXCEPT !.status = "in_progress"]]
    BY <1>10 DEF StartInterview
  <2> QED
    BY <1>8, <2>1
<1>11. ASSUME NEW p \in Process, ClaimSessionAgentRun(p)
       PROVE  Written1 /\ Written2 /\ Written3
  <2>1. UNCHANGED <<profile, file, refs, output, rows, plans, coach, usage, limiter, begun, late>>
    BY <1>11 DEF ClaimSessionAgentRun
  <2>2. CASE UNCHANGED meta
    BY <1>1, <2>1, <2>2
  <2>3. CASE ~UNCHANGED meta
    <3> DEFINE s == proc[p].s
    <3>1. s \in Session /\ meta[s].status # "none" /\ meta' = [meta EXCEPT ![s].runs = @ + 1]
      BY <1>11, <2>3 DEF ClaimSessionAgentRun
    <3> HIDE DEF s
    <3>2. meta' = [meta EXCEPT ![s] = [meta[s] EXCEPT !.runs = meta[s].runs + 1]]
      BY ONLY <3>1
    <3> QED
      BY <1>8, <2>1, <3>1, <3>2
  <2> QED
    BY <2>2, <2>3
<1>12. ASSUME NEW p \in Process, AddCall(p) \/ RollDay(p)
       PROVE  Written1 /\ Written2 /\ Written3
  <2>1. /\ UNCHANGED <<profile, file, meta, refs, output, rows, plans, coach, limiter, begun>>
        /\ Writes({<<"usage", None>>}) \/ UNCHANGED <<usage, late>>
    BY <1>12 DEF AddCall, RollDay, Rolled
  <2>2. CASE Writes({<<"usage", None>>})
    BY <1>w, <2>1, <2>2 DEF Written1, Written2, Written3
  <2>3. CASE UNCHANGED <<usage, late>>
    BY <1>1, <2>1, <2>3
  <2> QED
    BY <2>1, <2>2, <2>3
<1>13. ASSUME NEW p \in Process, NEW agent \in Agent, PutOutput(p, agent)
       PROVE  Written1 /\ Written2 /\ Written3
  <2>1. /\ UNCHANGED <<profile, file, meta, refs, rows, plans, coach, usage, limiter, begun>>
        /\ Writes({<<agent, proc[p].s>>})
        /\ output' = [output EXCEPT ![proc[p].s] = @ \cup {agent}]
    BY <1>13 DEF PutOutput
  <2>2. HasLoaded(p)
    BY <1>13 DEF PutOutput, HasLoaded, At, Arrived, Agent
  <2>3. \A s \in Session, a \in Agent : a \in output'[s] =>
          a \in output[s] \/ (s = proc[p].s /\ a = agent)
    BY <2>1 DEF RequestTypeOK
  <2> QED
    BY <1>w, <2>1, <2>2, <2>3 DEF Written1, Written2, Written3
<1>15. CASE Counting
  <2>1. CASE limiter' = TRUE /\ Writes({<<"window", None>>})
    BY <1>w, <1>15, <2>1 DEF Counting, Written1, Written2, Written3
  <2>2. CASE UNCHANGED <<limiter, late>>
    BY <1>1, <1>15, <2>2 DEF Counting
  <2> QED
    BY <1>15, <2>1, <2>2 DEF Counting, CountHit
<1>14. CASE Writing
  BY <1>2, <1>3, <1>4, <1>5, <1>6, <1>7, <1>9, <1>10, <1>11, <1>12, <1>13, <1>14
  DEF Writing, Agent
<1> QED
  BY <1>1, <1>14, <1>15, OnlyTheseWrite

\* Nothing is there after a step of an erasure that was not there before.
LEMMA Erased ==
  ASSUME TypeOK, ErasureNext
  PROVE  /\ missed \subseteq missed' /\ refs' \subseteq refs
         /\ \A s \in Session : meta'[s] \in {meta[s], NoMeta} /\ output'[s] \subseteq output[s]
         /\ \A s \in Session : Partition(s)' \subseteq Partition(s)
         /\ rows' # 0 => rows # 0
         /\ file' # None => file # None
         /\ plans' # None => plans # None
         /\ coach' # 0 => coach # 0
         /\ usage'.day # 0 => usage.day # 0
         /\ limiter' => limiter \/ (MarkProfileDeleting /\ (begun => <<"window", None>> \in late'))
         /\ profile.status = "erased" =>
              /\ profile'.status = "erased"
              /\ profile' = profile \/ profile' = [NoProfile EXCEPT !.status = "erased"]
<1> USE DEF items
<1>d. ASSUME NEW keys, Delete(keys)
      PROVE  \A s \in Session : meta'[s] \in {meta[s], NoMeta} /\ output'[s] \subseteq output[s]
  BY <1>d DEF Delete
<1>0. missed \subseteq missed' /\ refs' \subseteq refs
  BY DEF ErasureNext, MarkProfileDeleting, ListUserSessionIds, QuerySession, DeleteKeys,
         DeleteUserSessionRefs, DeleteSessionSummaries, DeleteResume, DeleteProfileItem,
         PutTombstone, DeleteCognitoUser, ErasureFails, Queried
<1>1. \A s \in Session : meta'[s] \in {meta[s], NoMeta} /\ output'[s] \subseteq output[s]
  <2>1. UNCHANGED <<meta, output>> \/ \E keys : Delete(keys)
    BY DEF ErasureNext, MarkProfileDeleting, ListUserSessionIds, QuerySession, DeleteKeys,
           DeleteUserSessionRefs, DeleteSessionSummaries, DeleteResume, DeleteProfileItem,
           PutTombstone, DeleteCognitoUser, ErasureFails
  <2> QED
    BY <1>d, <2>1
<1>2. \A s \in Session : Partition(s)' \subseteq Partition(s)
  <2> SUFFICES ASSUME NEW s \in Session
               PROVE  Partition(s)' \subseteq Partition(s)
    OBVIOUS
  <2>1. meta'[s].status # "none" => meta[s].status # "none"
    BY <1>1 DEF NoMeta
  <2> QED
    BY <1>1, <2>1 DEF Partition
<1>3. /\ rows' # 0 => rows # 0
      /\ file' # None => file # None
      /\ plans' # None => plans # None
      /\ coach' # 0 => coach # 0
      /\ usage'.day # 0 => usage.day # 0
  <2>1. /\ rows' \in {0, rows} /\ file' \in {None, file} /\ plans' \in {None, plans}
        /\ coach' \in {0, coach}
    BY DEF ErasureNext, MarkProfileDeleting, ListUserSessionIds, QuerySession, DeleteKeys,
           DeleteUserSessionRefs, DeleteSessionSummaries, DeleteResume, DeleteProfileItem,
           PutTombstone, DeleteCognitoUser, ErasureFails
  <2>2. usage' \in {[day |-> 0, calls |-> 0], usage}
    BY DEF ErasureNext, MarkProfileDeleting, ListUserSessionIds, QuerySession, DeleteKeys,
           DeleteUserSessionRefs, DeleteSessionSummaries, DeleteResume, DeleteProfileItem,
           PutTombstone, DeleteCognitoUser, ErasureFails
  <2>3. usage'.day # 0 => usage.day # 0
    BY ONLY <2>2
  <2> QED
    BY <2>1, <2>3
<1>5. limiter' => limiter \/ (MarkProfileDeleting /\ (begun => <<"window", None>> \in late'))
  <2>1. CASE MarkProfileDeleting
    BY <2>1 DEF MarkProfileDeleting, CountHit, Writes
  <2>2. CASE ~MarkProfileDeleting
    BY <2>2 DEF ErasureNext, ListUserSessionIds, QuerySession, DeleteKeys,
           DeleteUserSessionRefs, DeleteSessionSummaries, DeleteResume, DeleteProfileItem,
           PutTombstone, DeleteCognitoUser, ErasureFails, Others
  <2> QED
    BY <2>1, <2>2
<1>4. ASSUME profile.status = "erased"
      PROVE  /\ profile'.status = "erased"
             /\ profile' = profile \/ profile' = [NoProfile EXCEPT !.status = "erased"]
  <2>1. profile' = profile \/ profile' = [NoProfile EXCEPT !.status = "erased"]
    BY <1>4 DEF ErasureNext, MarkProfileDeleting, ListUserSessionIds, QuerySession, DeleteKeys,
           DeleteUserSessionRefs, DeleteSessionSummaries, DeleteResume, DeleteProfileItem,
           PutTombstone, DeleteCognitoUser, ErasureFails
  <2> QED
    BY <1>4, <2>1 DEF NoProfile
<1> QED
  BY <1>0, <1>1, <1>2, <1>3, <1>4, <1>5

-----------------------------------------------------------------------------
(* An erasure has excuses for what it leaves: ErasureIsSound.              *)

\* The items of a session are the session's own.
LEMMA PartitionOf ==
  ASSUME NEW s
  PROVE  /\ \A i \in Partition(s) : i[2] = s
         /\ \A i : i \in Partition(s) <=> \/ i = <<"meta", s>> /\ meta[s].status # "none"
                                          \/ \E a \in output[s] : i = <<a, s>>
BY DEF Partition

LEMMA PartitionNext ==
  ASSUME NEW s
  PROVE  /\ \A i \in Partition(s)' : i[2] = s
         /\ \A i : i \in Partition(s)' <=> \/ i = <<"meta", s>> /\ meta'[s].status # "none"
                                           \/ \E a \in output'[s] : i = <<a, s>>
BY DEF Partition

\* What there is of an account.
LEMMA SurvivorsAre ==
  ASSUME NEW i
  PROVE  i \in Survivors <=>
           \/ \E s \in Session : i \in Partition(s)
           \/ \E s \in refs : i = <<"ref", s>>
           \/ i = <<"profile", None>>
              /\ (profile.named \/ profile.text # None \/ profile.status = "active")
           \/ i = <<"file", None>> /\ file # None
           \/ i = <<"rows", None>> /\ rows # 0
           \/ i = <<"plan", None>> /\ plans # None
           \/ i = <<"coach", None>> /\ coach # 0
           \/ i = <<"usage", None>> /\ usage.day # 0
           \/ i = <<"window", None>> /\ limiter
<1> DEFINE sessions == UNION {Partition(s) : s \in Session}
           leads == {<<"ref", s>> : s \in refs}
           person == {j \in {<<"profile", None>>} : profile.named \/ profile.text # None
                                             \/ profile.status = "active"}
           files == {j \in {<<"file", None>>} : file # None}
           past == {j \in {<<"rows", None>>} : rows # 0}
           kept == {j \in {<<"plan", None>>} : plans # None}
           prose == {j \in {<<"coach", None>>} : coach # 0}
           count == {j \in {<<"usage", None>>} : usage.day # 0}
           hits == {j \in {<<"window", None>>} : limiter}
<1>1. Survivors = sessions \cup leads \cup person \cup files \cup past
                      \cup kept \cup prose \cup count \cup hits
  BY DEF Survivors
<1>2. i \in sessions <=> \E s \in Session : i \in Partition(s)
  OBVIOUS
<1>3. i \in leads <=> \E s \in refs : i = <<"ref", s>>
  OBVIOUS
<1>4. i \in person <=>
        i = <<"profile", None>> /\ (profile.named \/ profile.text # None \/ profile.status = "active")
  OBVIOUS
<1>5. i \in files <=> i = <<"file", None>> /\ file # None
  OBVIOUS
<1>6. i \in past <=> i = <<"rows", None>> /\ rows # 0
  OBVIOUS
<1>7. i \in kept <=> i = <<"plan", None>> /\ plans # None
  OBVIOUS
<1>8. i \in prose <=> i = <<"coach", None>> /\ coach # 0
  OBVIOUS
<1>9. i \in count <=> i = <<"usage", None>> /\ usage.day # 0
  OBVIOUS
<1>10. i \in hits <=> i = <<"window", None>> /\ limiter
  OBVIOUS
<1> HIDE DEF sessions, leads, person, files, past, kept, prose, count, hits
<1> QED
  BY <1>1, <1>2, <1>3, <1>4, <1>5, <1>6, <1>7, <1>8, <1>9, <1>10

LEMMA SurvivorsNext ==
  ASSUME NEW i
  PROVE  i \in Survivors' <=>
           \/ \E s \in Session : i \in Partition(s)'
           \/ \E s \in refs' : i = <<"ref", s>>
           \/ i = <<"profile", None>>
              /\ (profile'.named \/ profile'.text # None \/ profile'.status = "active")
           \/ i = <<"file", None>> /\ file' # None
           \/ i = <<"rows", None>> /\ rows' # 0
           \/ i = <<"plan", None>> /\ plans' # None
           \/ i = <<"coach", None>> /\ coach' # 0
           \/ i = <<"usage", None>> /\ usage'.day # 0
           \/ i = <<"window", None>> /\ limiter'
<1> DEFINE sessions == UNION {Partition(s)' : s \in Session}
           leads == {<<"ref", s>> : s \in refs'}
           person == {j \in {<<"profile", None>>} : profile'.named \/ profile'.text # None
                                             \/ profile'.status = "active"}
           files == {j \in {<<"file", None>>} : file' # None}
           past == {j \in {<<"rows", None>>} : rows' # 0}
           kept == {j \in {<<"plan", None>>} : plans' # None}
           prose == {j \in {<<"coach", None>>} : coach' # 0}
           count == {j \in {<<"usage", None>>} : usage'.day # 0}
           hits == {j \in {<<"window", None>>} : limiter'}
<1>1. Survivors' = sessions \cup leads \cup person \cup files \cup past
                      \cup kept \cup prose \cup count \cup hits
  BY DEF Survivors
<1>2. i \in sessions <=> \E s \in Session : i \in Partition(s)'
  OBVIOUS
<1>3. i \in leads <=> \E s \in refs' : i = <<"ref", s>>
  OBVIOUS
<1>4. i \in person <=>
        i = <<"profile", None>> /\ (profile'.named \/ profile'.text # None \/ profile'.status = "active")
  OBVIOUS
<1>5. i \in files <=> i = <<"file", None>> /\ file' # None
  OBVIOUS
<1>6. i \in past <=> i = <<"rows", None>> /\ rows' # 0
  OBVIOUS
<1>7. i \in kept <=> i = <<"plan", None>> /\ plans' # None
  OBVIOUS
<1>8. i \in prose <=> i = <<"coach", None>> /\ coach' # 0
  OBVIOUS
<1>9. i \in count <=> i = <<"usage", None>> /\ usage'.day # 0
  OBVIOUS
<1>10. i \in hits <=> i = <<"window", None>> /\ limiter'
  OBVIOUS
<1> HIDE DEF sessions, leads, person, files, past, kept, prose, count, hits
<1> QED
  BY <1>1, <1>2, <1>3, <1>4, <1>5, <1>6, <1>7, <1>8, <1>9, <1>10

\* What is excused stays excused, and what is written late is.
LEMMA ExcusesStay ==
  ASSUME late \subseteq late', missed \subseteq missed', NEW i
  PROVE  Excused(i) \/ i \in late' \/ i \in missed' \/ <<"ref", i[2]>> \in missed' => Excused(i)'
BY DEF Excused

\* Swept and StaysErased, while requests write.
LEMMA SweptByRequests ==
  ASSUME TypeOK, ProcessesAreSound, ErasureIsSound, RequestNext, UNCHANGED erasureVars
  PROVE  Swept' /\ StaysErased'
<1> USE DEF erasureVars
<1>1. Written1 /\ Written2 /\ Written3
  BY WhatIsWritten DEF TypeOK
<1>2. \A i : Excused(i) => Excused(i)'
  BY <1>1, ExcusesStay DEF Written1
<1>3. ASSUME begun, NEW i, Late(i)
      PROVE  Excused(i)'
  BY <1>1, <1>3, ExcusesStay DEF Late, Written1
<1>4. ASSUME begun, NEW s \in Session, NEW i \in Partition(s)'
      PROVE  i \in Partition(s) \/ Excused(i)'
  <2>1. /\ \A a \in output'[s] : a \in Agent
    BY SweepTypes, TypesStay, RequestTypesStay DEF TypeOK, RequestTypeOK
  <2>2. CASE i = <<"meta", s>> /\ meta'[s].status # "none"
    BY <1>1, <1>3, <1>4, <2>2, PartitionOf DEF Written2
  <2>3. CASE \E a \in output'[s] : i = <<a, s>>
    BY <1>1, <1>3, <1>4, <2>1, <2>3, PartitionOf DEF Written2
  <2> QED
    BY <2>2, <2>3, PartitionNext
<1>5. ASSUME begun, NEW s \in Session, s \in refs'
      PROVE  s \in refs \/ Excused(<<"ref", s>>)'
  BY <1>1, <1>3, <1>5 DEF Written1
<1>6. Swept'
  <2> SUFFICES ASSUME begun
               PROVE  Swept'
    BY <1>1 DEF Swept, Written1
  <2>1. Swept
    BY DEF ErasureIsSound
  <2>2. \A s \in Session \ refs' : \A i \in Partition(s)' : Excused(i)'
    BY <1>1, <1>2, <1>4, <2>1 DEF Swept, Written1
  <2>3. Past("list") =>
          \A s \in Session :
            /\ s \notin sweep.list /\ s \in refs' => Excused(<<"ref", s>>)'
            /\ s \notin sweep.left => \A i \in Partition(s)' : Excused(i)' \/ i \in sweep.keys
    BY <1>2, <1>4, <1>5, <2>1 DEF Swept
  <2>4. /\ Past("delete") => sweep.left = {}
        /\ sweep.pc # "delete" => sweep.keys = {}
    BY <2>1 DEF Swept
  <2>5. Past("refs") => \A s \in refs' : Excused(<<"ref", s>>)'
    <3>1. refs' \subseteq Session
      BY RequestTypesStay DEF TypeOK, RequestTypeOK
    <3> QED
      BY <1>2, <1>5, <2>1, <3>1 DEF Swept
  <2>6. /\ Past("rows") /\ rows' # 0 => Excused(<<"rows", None>>)'
        /\ Past("file") /\ file' # None => Excused(<<"file", None>>)'
        /\ Past("plan") /\ plans' # None => Excused(<<"plan", None>>)'
        /\ Past("coach") /\ coach' # 0 => Excused(<<"coach", None>>)'
        /\ Past("usage") /\ usage'.day # 0 => Excused(<<"usage", None>>)'
        /\ Past("window") /\ limiter' => Excused(<<"window", None>>)'
    BY <1>1, <1>2, <1>3, <2>1 DEF Swept, Written3
  <2>7. sweep' = sweep
    OBVIOUS
  <2> QED
    BY <2>2, <2>3, <2>4, <2>5, <2>6, <2>7 DEF Swept, Past
<1>7. StaysErased'
  <2>1. StaysErased /\ Untouched
    BY DEF ErasureIsSound
  <2>2. profile'.status = "erased" => profile.status = "erased" /\ profile' = profile /\ begun
    BY <1>1, <2>1 DEF Written3, Marked, Untouched
  <2>3. ~identity \/ sweep.pc = "identity" => profile'.status = "erased"
    BY <1>1, <2>1 DEF Written3, Marked, StaysErased
  <2>4. ASSUME profile'.status = "erased", NEW i \in Survivors'
        PROVE  Excused(i)'
    <3>1. /\ ~profile'.named /\ profile'.text = None /\ begun
          /\ \A j \in Survivors : Excused(j)
      BY <2>1, <2>2, <2>4 DEF StaysErased
    <3>2. CASE \E s \in Session : i \in Partition(s)'
      BY <1>2, <1>4, <3>1, <3>2, SurvivorsAre
    <3>3. CASE \E s \in refs' : i = <<"ref", s>>
      <4>1. refs' \subseteq Session
        BY RequestTypesStay DEF TypeOK, RequestTypeOK
      <4> QED
        BY <1>2, <1>5, <3>1, <3>3, <4>1, SurvivorsAre
    <3>4. CASE i = <<"file", None>> /\ file' # None
      BY <1>1, <1>2, <1>3, <3>1, <3>4, SurvivorsAre DEF Written3
    <3>5. CASE i = <<"rows", None>> /\ rows' # 0
      BY <1>1, <1>2, <1>3, <3>1, <3>5, SurvivorsAre DEF Written3
    <3>6. CASE i = <<"plan", None>> /\ plans' # None
      BY <1>1, <1>2, <1>3, <3>1, <3>6, SurvivorsAre DEF Written3
    <3>7. CASE i = <<"coach", None>> /\ coach' # 0
      BY <1>1, <1>2, <1>3, <3>1, <3>7, SurvivorsAre DEF Written3
    <3>8. CASE i = <<"usage", None>> /\ usage'.day # 0
      BY <1>1, <1>2, <1>3, <3>1, <3>8, SurvivorsAre DEF Written3
    <3>9. CASE i = <<"window", None>> /\ limiter'
      BY <1>1, <1>2, <1>3, <3>1, <3>9, SurvivorsAre DEF Written3
    <3> QED
      BY <2>4, <3>1, <3>2, <3>3, <3>4, <3>5, <3>6, <3>7, <3>8, <3>9, SurvivorsNext
  <2>5. profile'.status = "erased" => ~profile'.named /\ profile'.text = None
    BY <2>1, <2>2 DEF StaysErased
  <2> QED
    BY <2>3, <2>4, <2>5 DEF StaysErased
<1> QED
  BY <1>6, <1>7

\* Untouched, while requests write: whoever makes something for a session has
\* loaded it, and its ref was written with it.
LEMMA UntouchedByRequests ==
  ASSUME TypeOK, ProcessesAreSound, ErasureIsSound, RequestNext, UNCHANGED erasureVars
  PROVE  Untouched'
<1> SUFFICES ASSUME ~begun
             PROVE  Untouched'
  BY WhatIsWritten DEF TypeOK, Written1, Untouched
<1>0. RequestTypeOK
  BY DEF TypeOK
<1>1. Written1 /\ Written2 /\ Written3 /\ Untouched
  BY WhatIsWritten DEF TypeOK, ErasureIsSound
<1>2. sweep' = NoSweep /\ identity' /\ missed' = {} /\ late' = {} /\ ~Marked'
  BY <1>1 DEF Written1, Written3, Untouched, Marked, erasureVars
<1>3. ASSUME NEW s \in Session, Partition(s)' # {}
      PROVE  s \in refs'
  <2>1. meta'[s].status # "none" \/ \E a \in output'[s] : TRUE
    BY <1>3, PartitionNext
  <2>2. output'[s] \subseteq Agent
    BY <1>0, RequestTypesStay DEF RequestTypeOK
  <2>3. CASE meta'[s].status # "none"
    BY <1>1, <2>3, PartitionOf DEF Written1, Written2, Untouched
  <2>4. CASE \E a \in output'[s] : TRUE
    <3>1. PICK a \in Agent : a \in output'[s]
      BY <2>2, <2>4
    <3>2. CASE a \in output[s]
      <4>1. Partition(s) # {}
        BY <3>2, PartitionOf
      <4> QED
        BY <1>1, <4>1 DEF Written1, Untouched
    <3>3. CASE \E p \in Process : HasLoaded(p) /\ proc[p].s = s
      BY <1>1, <3>3 DEF Written1, Untouched
    <3> QED
      BY <1>1, <3>1, <3>2, <3>3 DEF Written2
  <2> QED
    BY <2>1, <2>3, <2>4
<1>4. ASSUME NEW p \in Process, HasLoaded(p)'
      PROVE  proc'[p].s \in refs'
  <2>1. refs \subseteq refs'
    BY <1>1 DEF Written1
  <2>2. /\ Moves(p) /\ proc[p].kind \in Kind /\ proc[p].s \in Session
        /\ proc[p].pc \in Step /\ KeepsToItsKind(p)
    BY <1>0, ProcessesMove, RequestTypesOf DEF ProcessesAreSound
  <2>3. CASE proc'[p] = proc[p]
    BY <1>1, <1>4, <2>1, <2>3 DEF HasLoaded, Arrived, At, Untouched
  <2>4. CASE proc'[p] = Done(p)
    BY <1>4, <2>4 DEF Done, Idle, HasLoaded, Arrived
  <2>5. CASE Arrived(p) /\ Advances(proc[p], proc'[p])
    <3>1. proc'[p].s = proc[p].s /\ proc[p].kind \in {"plan", "gap", "intel"}
      BY <1>4, <2>5 DEF HasLoaded, Advances
    <3>2. CASE At(p, "load")
      <4>1. Replannable(proc[p].s)
        BY <1>4, <2>5, <3>2 DEF Advances, At, HasLoaded
      <4>2. Partition(proc[p].s) # {}
        BY <4>1, PartitionOf DEF Replannable
      <4> QED
        BY <1>1, <2>1, <2>2, <3>1, <4>2 DEF Untouched
    <3>3. CASE ~At(p, "load")
      BY <1>1, <2>1, <2>5, <3>1, <3>3 DEF HasLoaded, Untouched
    <3> QED
      BY <3>2, <3>3
  <2>6. CASE Comes(proc[p], proc'[p])
    BY <1>4, <2>2, <2>6, StepsByKind DEF Comes, HasLoaded, At
  <2>7. CASE \E r \in Request : Begins(proc[r], proc'[p])
    <3>1. PICK r \in Request : Begins(proc[r], proc'[p])
      BY <2>7
    <3>2. r \in Process /\ At(r, "attach") /\ proc'[p].s = proc[r].s
      BY <1>0, <3>1, RequestTypesOf DEF Begins, At
    <3>3. HasLoaded(r)
      BY <1>0, <3>2, KindAtStep, StepsByKind DEF HasLoaded, At, Arrived
    <3> QED
      BY <1>1, <2>1, <3>2, <3>3 DEF Untouched
  <2> QED
    BY <2>2, <2>3, <2>4, <2>5, <2>6, <2>7 DEF Moves
<1> QED
  BY <1>2, <1>3, <1>4 DEF Untouched

\* Where an erasure goes, it is past what it was past and one call more.
LEMMA Ranks ==
  /\ \A todo : Visit(todo) = IF todo = {} THEN "refs" ELSE "query"
  /\ Rank["idle"] = 0 /\ Rank["list"] = 1 /\ Rank["query"] = 2 /\ Rank["delete"] = 2
  /\ Rank["refs"] = 3 /\ Rank["rows"] = 4 /\ Rank["file"] = 5 /\ Rank["plan"] = 6
  /\ Rank["coach"] = 7 /\ Rank["usage"] = 8 /\ Rank["window"] = 9
  /\ Rank["tombstone"] = 10 /\ Rank["identity"] = 11
BY DEF Visit, Rank

\* An erasure takes its steps in order, keeping what it has listed.
LEMMA SweepFields ==
  ASSUME TypeOK
  PROVE  /\ \A pc \in SweepStep, keys \in SUBSET Item :
              LET q == [sweep EXCEPT !.keys = keys, !.pc = pc] IN
              /\ q.pc = pc /\ q.keys = keys
              /\ q.list = sweep.list /\ q.left = sweep.left /\ q.whole = sweep.whole
              /\ q.idle = sweep.idle
         /\ \A pc \in SweepStep :
              LET q == [sweep EXCEPT !.pc = pc] IN
              /\ q.pc = pc /\ q.list = sweep.list /\ q.left = sweep.left /\ q.keys = sweep.keys
              /\ q.whole = sweep.whole /\ q.idle = sweep.idle
         /\ \A pc \in SweepStep : \A found, b :
              LET q == [sweep EXCEPT !.list = found, !.left = found, !.pc = pc, !.whole = b] IN
              /\ q.pc = pc /\ q.list = found /\ q.left = found /\ q.keys = sweep.keys
              /\ q.whole = b /\ q.idle = sweep.idle
         /\ \A left, keys, b :
              LET q == [sweep EXCEPT !.left = left, !.keys = keys, !.pc = "delete", !.whole = b] IN
              /\ q.pc = "delete" /\ q.list = sweep.list /\ q.left = left /\ q.keys = keys
              /\ q.whole = b /\ q.idle = sweep.idle
         /\ \A pc \in SweepStep : \A b :
              LET q == [sweep EXCEPT !.pc = pc, !.whole = b] IN
              /\ q.pc = pc /\ q.list = sweep.list /\ q.left = sweep.left /\ q.keys = sweep.keys
              /\ q.whole = b /\ q.idle = sweep.idle
         /\ NoSweep.pc = "idle" /\ NoSweep.keys = {} /\ NoSweep.left = {}
         /\ \A b, idle :
              LET q == [NoSweep EXCEPT !.pc = "list", !.whole = b, !.idle = idle] IN
              q.pc = "list" /\ q.whole = b /\ q.idle = idle /\ q.keys = {}
BY SweepTypes DEF Sweep, NoSweep

\* Swept and StaysErased through a step of an erasure.
LEMMA SweptByErasure ==
  ASSUME TypeOK, ErasureIsSound, ErasureNext
  PROVE  Swept' /\ StaysErased' /\ begun'
<1> USE DEF items
<1>0. /\ Swept /\ StaysErased /\ Untouched /\ refs \subseteq Session /\ refs' \subseteq refs
      /\ \A s \in Session : Partition(s)' \subseteq Partition(s)
      /\ \A s, i : i \in Partition(s) => i[2] = s
  BY Erased, SweepTypes, PartitionOf DEF ErasureIsSound
<1>x. \A i : \/ Excused(i) \/ i \in missed' \/ <<"ref", i[2]>> \in missed'
             => Excused(i)'
  BY ErasureLeaves, Erased, ExcusesStay
<1>b. begun' /\ (begun \/ MarkProfileDeleting)
  <2>1. MarkProfileDeleting => begun'
    BY DEF MarkProfileDeleting
  <2>2. ~MarkProfileDeleting => begun' = begun /\ sweep.pc # "idle"
    BY DEF ErasureNext, ListUserSessionIds, QuerySession, DeleteKeys, DeleteUserSessionRefs,
           DeleteSessionSummaries, DeleteResume, DeleteProfileItem, PutTombstone,
           DeleteCognitoUser, ErasureFails, history
  <2>3. sweep.pc # "idle" => begun
    BY <1>0 DEF Untouched, NoSweep
  <2> QED
    BY <2>1, <2>2, <2>3
\* What no ref leads to.
<1>o. ASSUME begun, refs' = refs
      PROVE  \A s \in Session \ refs' : \A i \in Partition(s)' : Excused(i)'
  BY <1>0, <1>x, <1>o DEF Swept
\* An account that was erased before the step.
<1>e. ASSUME profile.status = "erased"
      PROVE  /\ profile'.status = "erased" /\ ~profile'.named /\ profile'.text = None
             /\ \A i \in Survivors' : Excused(i)'
  <2>1. /\ profile'.status = "erased"
        /\ profile' = profile \/ profile' = [NoProfile EXCEPT !.status = "erased"]
    BY <1>e, Erased
  <2>2. ~profile.named /\ profile.text = None /\ \A i \in Survivors : Excused(i)
    BY <1>e, <1>0 DEF StaysErased
  <2>3. ~profile'.named /\ profile'.text = None
    BY <2>1, <2>2 DEF NoProfile
  <2>4. \A i \in Survivors' : i \in Survivors \/ (i = <<"window", None>> /\ i \in late')
    <3>1. begun
      BY <1>0, <1>e DEF Untouched, Marked
    <3> QED
      BY <1>0, <2>1, <2>3, <3>1, Erased, SurvivorsAre, SurvivorsNext
  <2>5. \A i : i \in late' => Excused(i)'
    BY DEF Excused
  <2> QED
    BY <2>1, <2>2, <2>3, <2>4, <2>5, <1>x
<1>s. ASSUME profile'.status = "erased" => profile.status = "erased",
             ~identity' \/ sweep'.pc = "identity" => ~identity \/ sweep.pc = "identity"
      PROVE  StaysErased'
  BY <1>0, <1>e, <1>s DEF StaysErased
\* Sweeping on: the conjuncts of Swept that stay as they are.
<1>k. ASSUME begun, refs' = refs, sweep'.list = sweep.list, sweep'.left \subseteq sweep.left,
             Past("list"), Rank[sweep'.pc] \in Nat
      PROVE  \A s \in Session : s \notin sweep'.list /\ s \in refs' => Excused(<<"ref", s>>)'
  BY <1>0, <1>x, <1>k DEF Swept
<1>l. ASSUME begun, Past("list"), NEW s \in Session, s \notin sweep.left, NEW i \in Partition(s)'
      PROVE  Excused(i)' \/ i \in sweep.keys
  BY <1>0, <1>x, <1>l DEF Swept
<1>1. CASE MarkProfileDeleting
  <2>1. /\ sweep'.pc = "list" /\ sweep'.keys = {}
        /\ UNCHANGED <<file, meta, refs, output, rows, plans, coach, usage, identity, missed>>
    BY <1>1, SweepFields DEF MarkProfileDeleting
  <2>2. \A s \in Session \ refs' : \A i \in Partition(s)' : Excused(i)'
    BY <1>0, <1>o, <2>1 DEF Untouched
  <2>3. Swept'
    BY <2>1, <2>2, Ranks DEF Swept, Past
  <2>4. profile'.status = "erased" => profile.status = "erased"
    <3>1. profile' \in {profile, [profile EXCEPT !.status = "deleting"]} /\ profile \in Profile
      BY <1>1 DEF MarkProfileDeleting, TypeOK, RequestTypeOK
    <3> QED
      BY ONLY <3>1 DEF Profile
  <2> QED
    BY <1>b, <1>s, <2>1, <2>3, <2>4
<1>2. CASE ListUserSessionIds
  <2>1. PICK found \in SUBSET refs :
          /\ Queried({<<"ref", s>> : s \in refs}, {<<"ref", s>> : s \in found})
          /\ sweep' = [sweep EXCEPT !.list = found, !.left = found, !.pc = Visit(found),
                                    !.whole = @ /\ found = refs]
    BY <1>2 DEF ListUserSessionIds
  <2>2. /\ sweep'.pc = Visit(found) /\ sweep'.list = found /\ sweep'.left = found
        /\ sweep'.keys = sweep.keys /\ sweep.pc = "list" /\ begun
        /\ UNCHANGED <<items, identity>>
    <3>1. sweep' = [sweep EXCEPT !.list = found, !.left = found, !.pc = Visit(found),
                                 !.whole = (sweep.whole /\ found = refs)]
      BY <2>1
    <3>2. Visit(found) \in SweepStep
      BY Ranks DEF SweepStep
    <3>3. sweep'.pc = Visit(found) /\ sweep'.list = found /\ sweep'.left = found
          /\ sweep'.keys = sweep.keys
      BY <3>1, <3>2, SweepTypes DEF Sweep
    <3> QED
      BY <1>2, <1>b, <3>3 DEF ListUserSessionIds, MarkProfileDeleting, CanDelete
  <2>3. \A s \in refs : s \notin found => <<"ref", s>> \in missed'
    <3>1. missed' = missed \cup ({<<"ref", s>> : s \in refs} \ {<<"ref", s>> : s \in found})
      BY <2>1 DEF Queried
    <3> QED
      BY <3>1
  <2>4. \A s \in Session : s \notin sweep'.list /\ s \in refs' => Excused(<<"ref", s>>)'
    BY <1>x, <2>2, <2>3
  <2>5. ASSUME NEW s \in Session, s \notin sweep'.left, NEW i \in Partition(s)'
        PROVE  Excused(i)'
    <3>1. i[2] = s
      BY <2>5, PartitionNext
    <3> QED
      BY <1>o, <1>x, <2>2, <2>3, <2>5, <3>1
  <2>6. sweep'.keys = {} /\ (sweep'.pc = "refs" => sweep'.left = {})
    BY <1>0, <2>2, Ranks DEF Swept
  <2>7. Swept'
    BY <1>o, <2>2, <2>4, <2>5, <2>6, Ranks DEF Swept, Past
  <2> QED
    BY <1>b, <1>s, <2>2, <2>7, Ranks
<1>3. CASE QuerySession
  <2>1. PICK s0 \in sweep.left : \E found \in SUBSET Partition(s0) :
          /\ Queried(Partition(s0), found)
          /\ sweep' = [sweep EXCEPT !.left = @ \ {s0}, !.keys = found, !.pc = "delete",
                                    !.whole = @ /\ found = Partition(s0)]
    BY <1>3 DEF QuerySession
  <2>2. PICK found \in SUBSET Partition(s0) :
          /\ Queried(Partition(s0), found)
          /\ sweep' = [sweep EXCEPT !.left = @ \ {s0}, !.keys = found, !.pc = "delete",
                                    !.whole = @ /\ found = Partition(s0)]
    BY <2>1
  <2>3. /\ sweep'.pc = "delete" /\ sweep'.list = sweep.list /\ sweep'.left = sweep.left \ {s0}
        /\ sweep'.keys = found /\ sweep.pc = "query" /\ begun /\ UNCHANGED <<items, identity>>
    <3>1. sweep' = [sweep EXCEPT !.left = sweep.left \ {s0}, !.keys = found, !.pc = "delete",
                                 !.whole = (sweep.whole /\ found = Partition(s0))]
      BY <2>2
    <3>2. /\ sweep'.pc = "delete" /\ sweep'.list = sweep.list /\ sweep'.left = sweep.left \ {s0}
          /\ sweep'.keys = found
      BY <3>1, SweepTypes DEF Sweep
    <3> QED
      BY <1>3, <1>b, <3>2 DEF QuerySession, MarkProfileDeleting, CanDelete
  <2>4. sweep.keys = {} /\ Past("list")
    BY <1>0, <2>3, Ranks DEF Swept, Past
  <2>5. \A s \in Session : s \notin sweep'.list /\ s \in refs' => Excused(<<"ref", s>>)'
    BY <1>k, <2>3, <2>4, Ranks
  <2>6. ASSUME NEW s \in Session, s \notin sweep'.left, NEW i \in Partition(s)'
        PROVE  Excused(i)' \/ i \in sweep'.keys
    <3>1. CASE s = s0
      <4>1. i \in Partition(s0)
        BY <1>0, <2>6, <3>1
      <4>2. i \in found \/ i \in missed'
        BY <2>2, <4>1 DEF Queried
      <4> QED
        BY <1>x, <2>3, <4>2
    <3>2. CASE s # s0
      BY <1>l, <2>3, <2>4, <2>6, <3>2
    <3> QED
      BY <3>1, <3>2
  <2>7. Swept'
    BY <1>o, <2>3, <2>5, <2>6, Ranks DEF Swept, Past
  <2> QED
    BY <1>b, <1>s, <2>3, <2>7
<1>4. CASE DeleteKeys
  <2>1. /\ sweep'.pc = Visit(sweep.left) /\ sweep'.list = sweep.list /\ sweep'.left = sweep.left
        /\ sweep'.keys = {} /\ sweep.pc = "delete" /\ begun
        /\ UNCHANGED <<profile, refs, rows, file, plans, coach, usage, limiter, identity>>
        /\ Delete(sweep.keys)
    <3>1. Visit(sweep.left) \in SweepStep /\ {} \in SUBSET Item
      BY Ranks DEF SweepStep
    <3> QED
      BY <1>4, <1>b, <3>1, SweepFields DEF DeleteKeys, Others, MarkProfileDeleting, CanDelete
  <2>2. Past("list")
    BY <2>1, Ranks DEF Past
  <2>3. ASSUME NEW s \in Session, NEW i \in Partition(s)'
        PROVE  i \notin sweep.keys
    <3>1. CASE i = <<"meta", s>> /\ meta'[s].status # "none"
      BY <2>1, <3>1 DEF Delete, NoMeta
    <3>2. CASE \E a \in output'[s] : i = <<a, s>>
      BY <2>1, <3>2 DEF Delete
    <3> QED
      BY <2>3, <3>1, <3>2, PartitionNext
  <2>4. \A s \in Session : s \notin sweep'.list /\ s \in refs' => Excused(<<"ref", s>>)'
    BY <1>k, <2>1, <2>2, Ranks
  <2>5. \A s \in Session : s \notin sweep'.left => \A i \in Partition(s)' : Excused(i)'
    BY <1>l, <2>1, <2>2, <2>3
  <2>6. sweep'.pc = "refs" => sweep'.left = {}
    BY <2>1, Ranks
  <2>7. Swept'
    BY <1>o, <2>1, <2>4, <2>5, <2>6, Ranks DEF Swept, Past
  <2> QED
    BY <1>b, <1>s, <2>1, <2>7, Ranks
\* Every session has been swept.
<1>d. ASSUME begun, Past("delete")
      PROVE  \A s \in Session : \A i \in Partition(s)' : Excused(i)'
  <2>1. Past("list") /\ sweep.left = {} /\ sweep.pc # "delete" /\ sweep.keys = {}
    BY <1>0, <1>d, SweepTypes, Ranks DEF Swept, Past, Sweep, SweepStep
  <2> QED
    BY <1>d, <1>l, <2>1
<1>5. CASE DeleteUserSessionRefs
  <2>1. /\ sweep'.pc = "rows" /\ sweep'.list = sweep.list /\ sweep'.left = sweep.left
        /\ sweep'.keys = sweep.keys /\ sweep.pc = "refs" /\ begun
        /\ UNCHANGED <<profile, rows, file, plans, coach, usage, limiter, identity>>
        /\ refs' = refs \ sweep.list
    BY <1>5, <1>b, SweepFields DEF DeleteUserSessionRefs, Others, Goes, MarkProfileDeleting, CanDelete,
                                   SweepStep
  <2>2. Past("list") /\ Past("delete") /\ sweep.left = {} /\ sweep.keys = {}
    BY <1>0, <2>1, Ranks DEF Past, Swept
  <2>3. \A s \in refs' : Excused(<<"ref", s>>)'
    BY <1>0, <1>x, <2>1, <2>2 DEF Swept
  <2>4. Swept'
    BY <1>d, <2>1, <2>2, <2>3, Ranks DEF Swept, Past
  <2> QED
    BY <1>b, <1>s, <2>1, <2>4
\* The calls that follow each sweep one item more.
<1>m. ASSUME begun, Past("refs"), UNCHANGED refs, sweep'.list = sweep.list,
             sweep'.left = sweep.left, sweep'.keys = sweep.keys, sweep'.pc \in SweepStep,
             sweep'.pc # "delete",
             Past("rows")' /\ rows' # 0 => Past("rows") \/ Excused(<<"rows", None>>)',
             Past("file")' /\ file' # None => Past("file"),
             Past("plan")' /\ plans' # None => Past("plan"),
             Past("coach")' /\ coach' # 0 => Past("coach"),
             Past("usage")' /\ usage'.day # 0 => Past("usage"),
             Past("window")' /\ limiter' => Past("window")
      PROVE  Swept'
  <2>1. Past("list") /\ Past("delete") /\ sweep.left = {} /\ sweep.pc # "delete"
        /\ sweep.keys = {}
    BY <1>0, <1>m, SweepTypes, Ranks DEF Past, Swept, Sweep, SweepStep
  <2>2. \A s \in refs' : Excused(<<"ref", s>>)'
    BY <1>0, <1>x, <1>m DEF Swept
  <2>3. /\ Past("rows")' /\ rows' # 0 => Excused(<<"rows", None>>)'
        /\ Past("file")' /\ file' # None => Excused(<<"file", None>>)'
        /\ Past("plan")' /\ plans' # None => Excused(<<"plan", None>>)'
        /\ Past("coach")' /\ coach' # 0 => Excused(<<"coach", None>>)'
        /\ Past("usage")' /\ usage'.day # 0 => Excused(<<"usage", None>>)'
        /\ Past("window")' /\ limiter' => Excused(<<"window", None>>)'
    <3>1. ~MarkProfileDeleting
      BY <1>m, Ranks DEF MarkProfileDeleting, CanDelete, Past
    <3>2. (limiter' => limiter) /\ (usage'.day # 0 => usage.day # 0)
          /\ (coach' # 0 => coach # 0) /\ (plans' # None => plans # None)
          /\ (file' # None => file # None) /\ (rows' # 0 => rows # 0)
      BY <3>1, Erased
    <3>3. Past("rows") /\ rows # 0 => Excused(<<"rows", None>>)'
      BY <1>0, <1>x, <1>m DEF Swept
    <3>4. /\ Past("file") /\ file # None => Excused(<<"file", None>>)'
          /\ Past("plan") /\ plans # None => Excused(<<"plan", None>>)'
          /\ Past("coach") /\ coach # 0 => Excused(<<"coach", None>>)'
      BY <1>0, <1>x, <1>m DEF Swept
    <3>5. /\ Past("usage") /\ usage.day # 0 => Excused(<<"usage", None>>)'
          /\ Past("window") /\ limiter => Excused(<<"window", None>>)'
      BY <1>0, <1>x, <1>m DEF Swept
    <3> QED
      BY <1>m, <3>2, <3>3, <3>4, <3>5
  <2> QED
    BY <1>d, <1>m, <2>1, <2>2, <2>3 DEF Swept
<1>6. CASE DeleteSessionSummaries
  <2> DEFINE all == {i \in {<<"rows", None>>} : rows # 0}
  <2>1. PICK found \in SUBSET all :
          /\ Queried(all, found) /\ rows' = IF found = all THEN 0 ELSE rows
          /\ sweep' = [sweep EXCEPT !.pc = "file", !.whole = @ /\ found = all]
    BY <1>6 DEF DeleteSessionSummaries
  <2>2. /\ sweep'.pc = "file" /\ sweep'.list = sweep.list /\ sweep'.left = sweep.left
        /\ sweep'.keys = sweep.keys
    <3>1. sweep' = [sweep EXCEPT !.pc = "file", !.whole = (sweep.whole /\ found = all)]
      BY <2>1
    <3>2. "file" \in SweepStep
      BY DEF SweepStep
    <3> QED
      BY <3>1, <3>2, SweepTypes DEF Sweep
  <2>3. sweep.pc = "rows" /\ begun /\ UNCHANGED <<profile, refs, file, plans, coach, usage, limiter, identity>>
    BY <1>6, <1>b DEF DeleteSessionSummaries, Others, MarkProfileDeleting, CanDelete
  <2>4. rows' # 0 => <<"rows", None>> \in missed'
    <3>1. rows' # 0 => found # all /\ rows # 0
      BY <2>1
    <3>2. missed' = missed \cup (all \ found)
      BY <2>1 DEF Queried
    <3> QED
      BY <2>1, <3>1, <3>2
  <2>5. rows' # 0 => Excused(<<"rows", None>>)'
    BY <1>x, <2>4
  <2>6. Swept'
    BY <1>m, <2>2, <2>3, <2>5, Ranks DEF Past, SweepStep
  <2> QED
    BY <1>b, <1>s, <2>2, <2>3, <2>6
<1>g. ASSUME NEW pc \in SweepStep, Goes(pc)
      PROVE  /\ sweep'.pc = pc /\ sweep'.list = sweep.list /\ sweep'.left = sweep.left
             /\ sweep'.keys = sweep.keys
  BY <1>g, SweepFields DEF Goes
<1>7. CASE DeleteResume
  <2>1. /\ Goes("plan") /\ file' = None /\ sweep.pc = "file" /\ begun
        /\ UNCHANGED <<profile, refs, rows, plans, coach, usage, limiter, identity>>
    BY <1>7, <1>b DEF DeleteResume, Others, MarkProfileDeleting, CanDelete
  <2>2. Swept'
    BY <1>g, <1>m, <2>1, Ranks DEF Past, SweepStep
  <2> QED
    BY <1>b, <1>g, <1>s, <2>1, <2>2 DEF SweepStep
<1>8. CASE DeleteProfileItem
  <2>1. /\ begun /\ UNCHANGED <<profile, refs, rows, file, identity>>
        /\ \/ /\ sweep.pc = "plan" /\ plans' = None
              /\ Goes("coach") /\ UNCHANGED <<coach, usage, limiter>>
           \/ /\ sweep.pc = "coach" /\ coach' = 0
              /\ Goes("usage") /\ UNCHANGED <<plans, usage, limiter>>
           \/ /\ sweep.pc = "usage" /\ usage' = [day |-> 0, calls |-> 0]
              /\ Goes("window") /\ UNCHANGED <<plans, coach, limiter>>
           \/ /\ sweep.pc = "window" /\ limiter' = FALSE
              /\ Goes("tombstone") /\ UNCHANGED <<plans, coach, usage>>
    BY <1>8, <1>b DEF DeleteProfileItem, MarkProfileDeleting, CanDelete, history
  <2>2. CASE sweep.pc = "plan"
    <3>1. Swept'
      BY <1>g, <1>m, <2>1, <2>2, Ranks DEF Past, SweepStep
    <3> QED
      BY <1>b, <1>g, <1>s, <2>1, <2>2, <3>1 DEF SweepStep
  <2>3. CASE sweep.pc = "coach"
    <3>1. Swept'
      BY <1>g, <1>m, <2>1, <2>3, Ranks DEF Past, SweepStep
    <3> QED
      BY <1>b, <1>g, <1>s, <2>1, <2>3, <3>1 DEF SweepStep
  <2>4. CASE sweep.pc = "usage"
    <3>1. Swept'
      BY <1>g, <1>m, <2>1, <2>4, Ranks DEF Past, SweepStep
    <3> QED
      BY <1>b, <1>g, <1>s, <2>1, <2>4, <3>1 DEF SweepStep
  <2>5. CASE sweep.pc = "window"
    <3>1. Swept'
      BY <1>g, <1>m, <2>1, <2>5, Ranks DEF Past, SweepStep
    <3> QED
      BY <1>b, <1>g, <1>s, <2>1, <2>5, <3>1 DEF SweepStep
  <2> QED
    BY <2>1, <2>2, <2>3, <2>4, <2>5
<1>9. CASE PutTombstone
  <2>1. /\ Goes("identity") /\ sweep.pc = "tombstone" /\ begun
        /\ profile' = [NoProfile EXCEPT !.status = "erased"]
        /\ UNCHANGED <<file, meta, refs, output, rows, plans, coach, usage, limiter, identity>>
    BY <1>9, <1>b DEF PutTombstone, Others, MarkProfileDeleting, CanDelete
  <2>2. Swept'
    BY <1>g, <1>m, <2>1, Ranks DEF Past, SweepStep
  <2>3. profile'.status = "erased" /\ ~profile'.named /\ profile'.text = None
    BY <2>1 DEF NoProfile
  <2>4. sweep'.pc = "identity" /\ begun'
    BY <1>b, <1>g, <2>1 DEF SweepStep
  <2>5. \A s \in Session : \A i \in Partition(s)' : Excused(i)'
    BY <1>d, <2>1, Ranks DEF Past
  <2>6. /\ \A s \in refs' : Excused(<<"ref", s>>)'
        /\ rows' # 0 => Excused(<<"rows", None>>)'
        /\ file' # None => Excused(<<"file", None>>)'
        /\ plans' # None => Excused(<<"plan", None>>)'
        /\ coach' # 0 => Excused(<<"coach", None>>)'
        /\ usage'.day # 0 => Excused(<<"usage", None>>)'
        /\ limiter' => Excused(<<"window", None>>)'
    BY <2>2, <2>4, Ranks DEF Swept, Past
  <2>7. \A i \in Survivors' : Excused(i)'
    BY <2>3, <2>5, <2>6, SurvivorsNext
  <2> QED
    BY <2>2, <2>3, <2>4, <2>7 DEF StaysErased
<1>10. CASE DeleteCognitoUser \/ ErasureFails
  <2>1. /\ sweep' = NoSweep /\ begun /\ UNCHANGED <<profile, refs>>
        /\ identity' = identity \/ sweep.pc = "identity"
    BY <1>10, <1>b DEF DeleteCognitoUser, ErasureFails, MarkProfileDeleting, CanDelete
  <2>2. Swept'
    BY <1>o, <2>1, SweepFields, Ranks DEF Swept, Past
  <2> QED
    BY <1>b, <1>s, <2>1, <2>2, SweepFields
<1> QED
  BY <1>1, <1>2, <1>3, <1>4, <1>5, <1>6, <1>7, <1>8, <1>9, <1>10 DEF ErasureNext

\* The account as it is at first: a ref leads to all there is.
LEMMA UntouchedAtFirst ==
  ASSUME Init
  PROVE  ErasureIsSound
<1> USE DEF Init, RequestInit
<1>1. profile.status \in {"none", "active"} /\ ~Marked
  BY DEF NoProfile, Marked
<1>2. \A s \in Session : Partition(s) # {} => s \in refs
  <2>1. \A s \in Session : output[s] = {}
    OBVIOUS
  <2> QED
    BY <2>1 DEF Partition
<1>3. \A p \in Process : ~HasLoaded(p)
  <2> SUFFICES ASSUME NEW p \in Process
               PROVE  proc[p].pc = "idle"
    BY DEF HasLoaded, Arrived
  <2>1. PICK cast \in Casts :
          proc = [q \in Process |-> IF q \in Request THEN [Idle EXCEPT !.kind = cast[q]] ELSE Idle]
    OBVIOUS
  <2>2. Idle.pc = "idle" /\ \A k : [Idle EXCEPT !.kind = k].pc = "idle"
    BY DEF Idle
  <2> QED
    BY <2>1, <2>2
<1>4. Untouched
  BY <1>1, <1>2, <1>3 DEF Untouched
<1>5. Swept
  BY DEF Swept
<1>6. StaysErased
  BY <1>1 DEF StaysErased, NoSweep
<1> QED
  BY <1>4, <1>5, <1>6 DEF ErasureIsSound

\* ErasureIsSound through any step.
LEMMA ErasureStaysSound ==
  ASSUME TypeOK, ProcessesAreSound, ErasureIsSound, [Next]_vars
  PROVE  ErasureIsSound'
<1>1. CASE RequestNext /\ UNCHANGED erasureVars
  BY <1>1, SweptByRequests, UntouchedByRequests DEF ErasureIsSound
<1>2. CASE ErasureNext
  BY <1>2, SweptByErasure DEF ErasureIsSound, Untouched
<1>3. CASE UNCHANGED vars
  BY <1>3 DEF vars, requestVars, items, history, erasureVars, ErasureIsSound, Untouched, Swept,
              StaysErased, Marked, Partition, HasLoaded, Arrived, At, Past, Excused, Survivors
<1> QED
  BY <1>1, <1>2, <1>3 DEF Next

\* What an erasure has gone through leaves nothing but what its queries missed
\* and what was written behind its back, whatever ran beside it and however
\* often it failed and was tried again.
THEOREM ErasureExact == Spec => []ErasureIsExact
<1>1. Init => ErasureIsSound
  BY UntouchedAtFirst
<1>2. TypeOK /\ ProcessesAreSound /\ ErasureIsSound /\ [Next]_vars => ErasureIsSound'
  BY ErasureStaysSound
<1>3. ErasureIsSound => ErasureIsExact
  BY DEF ErasureIsSound, StaysErased, ErasureIsExact, Excused
<1> QED
  BY <1>1, <1>2, <1>3, TypeCorrect, PTL DEF Spec

-----------------------------------------------------------------------------
(* An erased account only empties: ErasureSticks.                          *)

\* AstrayIsHarmless through a step.
LEMMA AstrayStaysHarmless ==
  ASSUME TypeOK, ProcessesAreSound, AstrayIsHarmless, [Next]_vars
  PROVE  AstrayIsHarmless'
<1>1. CASE RequestNext
  <2> SUFFICES ASSUME NEW p \in Process, proc'[p].astray
               PROVE  /\ profile'.status = "erased"
                      /\ \/ proc'[p].pc \in {"details", "github", "store", "resume", "read", "load",
                                             "rows"}
                         \/ proc'[p].pc = "prose" /\ proc'[p].ver = 0
    BY DEF AstrayIsHarmless, At
  <2>0. RequestTypeOK
    BY DEF TypeOK
  <2>1. Moves(p)
    BY <1>1, <2>0, ProcessesMove
  <2>2. profile.status = "erased" => profile'.status = "erased"
    BY <1>1, <2>0, WhatIsWritten DEF Written3, Marked
  <2>3. \A q \in Process : proc[q].astray =>
          /\ profile'.status = "erased"
          /\ \/ proc[q].pc \in {"details", "github", "store", "resume", "read", "load", "rows"}
             \/ proc[q].pc = "prose" /\ proc[q].ver = 0
    BY <2>2 DEF AstrayIsHarmless, At
  <2>4. profile.status = "active" => \A q \in Process : ~proc[q].astray
    BY DEF AstrayIsHarmless
  <2>5. CASE proc'[p] = proc[p]
    BY <2>3, <2>5
  <2>6. CASE proc'[p] = Done(p)
    BY <2>6 DEF Done, Idle
  <2>7. CASE Advances(proc[p], proc'[p])
    BY <2>3, <2>4, <2>7 DEF Advances, Holding
  <2>8. CASE Comes(proc[p], proc'[p])
    BY <2>2, <2>8 DEF Comes
  <2>9. CASE \E r \in Request : Begins(proc[r], proc'[p])
    BY <2>0, <2>3, <2>9, RequestTypesOf DEF Begins
  <2> QED
    BY <2>1, <2>5, <2>6, <2>7, <2>8, <2>9 DEF Moves
<1>2. CASE ErasureNext
  BY <1>2, Erased, ErasureLeaves DEF AstrayIsHarmless, At
<1>3. CASE UNCHANGED vars
  BY <1>3 DEF vars, requestVars, items, AstrayIsHarmless, At
<1> QED
  BY <1>1, <1>2, <1>3 DEF Next

\* Nobody running, a step of a request is a request that comes, or it leaves
\* all the items where they are.
LEMMA AloneStep ==
  ASSUME TypeOK, ProcessesAreSound, RequestNext, ~Busy, \A r \in Idlers : r \in Idlers'
  PROVE  /\ ~Busy'
         /\ UNCHANGED <<refs, output, rows, file, plans, coach, usage, limiter>>
         /\ \A s \in Session : meta'[s].status # "none" => meta[s].status # "none"
<1> USE DEF items, history
<1>0. RequestTypeOK
  BY DEF TypeOK
<1>1. \A p \in Process : proc[p].pc \in {"idle", "done"}
  BY DEF Busy, Arrived
<1>2. ASSUME NEW p \in Process
      PROVE  proc'[p] = proc[p]
  <2>1. Moves(p) /\ Request \subseteq Process
    BY <1>0, ProcessesMove, RequestTypesOf
  <2>2. ~\E r \in Request : Begins(proc[r], proc'[p])
    BY <1>1, <2>1 DEF Begins
  <2>3. ASSUME p \in Request, Comes(proc[p], proc'[p])
        PROVE  FALSE
    BY <2>3 DEF Comes, Idlers, At
  <2> QED
    BY <1>1, <2>1, <2>2, <2>3 DEF Moves, Arrived, Done, Idle, Idlers, At
<1>3. ~Busy'
  BY <1>1, <1>2 DEF Busy, Arrived
<1>4. ASSUME NEW r \in Request
      PROVE  ~(\/ SaveDetails(r) \/ SaveGithub(r) \/ PutResume(r) \/ SaveResume(r)
               \/ CreateSession(r) \/ PutCachedPlan(r) \/ AttachPlan(r) \/ PutCachedCoach(r)
               \/ PutSessionSummary(r))
  BY <1>0, <1>1, RequestTypesOf
  DEF SaveDetails, SaveGithub, PutResume, SaveResume, CreateSession, PutCachedPlan, AttachPlan,
      PutCachedCoach, PutSessionSummary, At
<1>5. ASSUME NEW p \in Process
      PROVE  ~(\/ ClaimSessionAgentRun(p) \/ AddCall(p) \/ RollDay(p) \/ PutOutput(p, "gap")
               \/ PutOutput(p, "intel"))
  BY <1>1 DEF ClaimSessionAgentRun, AddCall, RollDay, PutOutput, At
<1>6. CASE \E s \in Session : StartInterview(s)
  <2>1. PICK s \in Session : StartInterview(s)
    BY <1>6
  <2>2. UNCHANGED <<refs, output, rows, file, plans, coach, usage, limiter>>
    BY <2>1 DEF StartInterview
  <2>3. meta[s].status # "none" /\ \A t \in Session : t # s => meta'[t] = meta[t]
    BY <1>0, <2>1 DEF StartInterview, RequestTypeOK
  <2> QED
    BY <1>3, <2>2, <2>3
<1>7. CASE UNCHANGED items
  BY <1>3, <1>7
<1>8. ~Counting
  BY DEF Counting, Idlers, At
<1> QED
  BY <1>0, <1>4, <1>5, <1>6, <1>7, <1>8, OnlyTheseWrite DEF Writing

\* LeavesNothing, while requests run: an erasure alone stays alone or is not.
LEMMA NothingLeftByRequests ==
  ASSUME TypeOK, ProcessesAreSound, ErasureIsSound, LeavesNothing, RequestNext, UNCHANGED erasureVars
  PROVE  LeavesNothing'
<1> USE DEF erasureVars
<1>0. RequestTypeOK
  BY DEF TypeOK
<1>1. Idlers' \subseteq Idlers
  <2> SUFFICES ASSUME NEW r \in Request, At(r, "idle")'
               PROVE  At(r, "idle")
    BY DEF Idlers, At
  <2>1. Moves(r) /\ r \in Process
    BY <1>0, ProcessesMove, RequestTypesOf
  <2> QED
    BY <2>1 DEF Moves, Done, Idle, Advances, Comes, Arrived, At
<1>2. sweep'.pc # "idle" => Idlers' \subseteq sweep'.idle
  BY <1>1 DEF LeavesNothing
<1>3. ASSUME Alone'
      PROVE  /\ Alone /\ ~Busy'
             /\ UNCHANGED <<refs, output, rows, file, plans, coach, usage, limiter>>
             /\ \A s \in Session : Partition(s)' \subseteq Partition(s)
  <2>1. Alone /\ \A r \in Idlers : r \in Idlers'
    BY <1>1, <1>3 DEF Alone, LeavesNothing
  <2>2. ~Busy
    BY <2>1 DEF LeavesNothing
  <2>3. /\ ~Busy'
        /\ UNCHANGED <<refs, output, rows, file, plans, coach, usage, limiter>>
        /\ \A s \in Session : meta'[s].status # "none" => meta[s].status # "none"
    BY <2>1, <2>2, AloneStep
  <2>4. \A s \in Session : Partition(s)' \subseteq Partition(s)
    BY <2>3, PartitionOf, PartitionNext
  <2> QED
    BY <2>1, <2>3, <2>4
<1>4. ASSUME Alone'
      PROVE  /\ ~Busy'
             /\ Past("list") => refs' \subseteq sweep.list
                                /\ \A s \in sweep.list \ sweep.left : Partition(s)' \subseteq sweep.keys
             /\ Past("refs") => refs' = {}
             /\ Past("rows") => rows' = 0
             /\ Past("file") => file' = None
             /\ Past("plan") => plans' = None
             /\ Past("coach") => coach' = 0
             /\ Past("usage") => usage'.day = 0
             /\ Past("window") => ~limiter'
  <2>1. \A s \in sweep.list : s \in Session
    BY SweepTypes
  <2>2. /\ Past("list") => refs \subseteq sweep.list
                           /\ \A s \in sweep.list \ sweep.left : Partition(s) \subseteq sweep.keys
        /\ Past("refs") => refs = {}
        /\ Past("rows") => rows = 0
        /\ Past("file") => file = None
        /\ Past("plan") => plans = None
        /\ Past("coach") => coach = 0
        /\ Past("usage") => usage.day = 0
        /\ Past("window") => ~limiter
    BY <1>3, <1>4 DEF LeavesNothing
  <2> QED
    BY <1>3, <1>4, <2>1, <2>2
<1> QED
  BY <1>2, <1>4 DEF LeavesNothing, Past

\* LeavesNothing through a step of an erasure.
LEMMA NothingLeftByErasure ==
  ASSUME TypeOK, ErasureIsSound, LeavesNothing, ErasureNext
  PROVE  LeavesNothing'
<1> USE DEF items
<1>0. /\ Idlers' = Idlers /\ Busy' = Busy
      /\ \A s \in Session : Partition(s)' \subseteq Partition(s)
      /\ refs' \subseteq refs
  BY ErasureLeaves, Erased DEF Idlers, At, Busy, Arrived
<1>1. CASE MarkProfileDeleting
  <2>1. sweep'.pc = "list" /\ sweep'.whole = ~Busy /\ sweep'.idle = Idlers
    BY <1>1, SweepFields DEF MarkProfileDeleting
  <2> QED
    <3>1. ~Past("list")' /\ ~Past("refs")' /\ ~Past("rows")' /\ ~Past("file")' /\ ~Past("plan")' /\ ~Past("coach")'
          /\ ~Past("usage")' /\ ~Past("window")'
      BY <2>1, Ranks DEF Past
    <3>2. Idlers' \subseteq sweep'.idle /\ (Alone' => ~Busy')
      BY <1>0, <2>1 DEF Alone
    <3> QED
      BY <3>1, <3>2 DEF LeavesNothing
<1>2. CASE DeleteCognitoUser \/ ErasureFails
  <2>1. sweep'.pc = "idle"
    BY <1>2, SweepFields DEF DeleteCognitoUser, ErasureFails
  <2> QED
    BY <2>1 DEF LeavesNothing, Alone
\* The others carry on: the same requests idle, and less whole at most.
<1>c. ASSUME begun, sweep.pc # "idle", sweep'.idle = sweep.idle, sweep'.whole => sweep.whole,
             Alone' /\ Alone /\ ~Busy =>
               /\ Past("list")' => refs' \subseteq sweep'.list
                                   /\ \A s \in sweep'.list \ sweep'.left :
                                        Partition(s)' \subseteq sweep'.keys
               /\ Past("refs")' => refs' = {}
               /\ Past("rows")' => rows' = 0
               /\ Past("file")' => file' = None
               /\ Past("plan")' => plans' = None
               /\ Past("coach")' => coach' = 0
               /\ Past("usage")' => usage'.day = 0
               /\ Past("window")' => ~limiter'
      PROVE  LeavesNothing'
  <2>1. Idlers' \subseteq sweep'.idle
    BY <1>0, <1>c DEF LeavesNothing
  <2>2. Alone' => Alone /\ ~Busy /\ ~Busy'
    BY <1>0, <1>c DEF LeavesNothing, Alone
  <2> QED
    BY <1>c, <2>1, <2>2 DEF LeavesNothing
<1>b. sweep.pc # "idle" => begun
  BY DEF ErasureIsSound, Untouched, NoSweep
<1>k. begun /\ sweep.pc # "delete" => sweep.keys = {}
  BY DEF ErasureIsSound, Swept
<1>f. begun /\ Past("delete") => sweep.left = {}
  BY DEF ErasureIsSound, Swept
<1>p. ASSUME Alone
      PROVE  /\ Past("list") => refs \subseteq sweep.list
                                /\ \A s \in sweep.list \ sweep.left : Partition(s) \subseteq sweep.keys
             /\ Past("refs") => refs = {}
             /\ Past("rows") => rows = 0
             /\ Past("file") => file = None
             /\ Past("plan") => plans = None
             /\ Past("coach") => coach = 0
             /\ Past("usage") => usage.day = 0
             /\ Past("window") => ~limiter
  BY <1>p DEF LeavesNothing
<1>3. CASE ListUserSessionIds
  <2>1. PICK found \in SUBSET refs :
          sweep' = [sweep EXCEPT !.list = found, !.left = found, !.pc = Visit(found),
                                 !.whole = @ /\ found = refs]
    BY <1>3 DEF ListUserSessionIds
  <2>2. sweep' = [sweep EXCEPT !.list = found, !.left = found, !.pc = Visit(found),
                               !.whole = (sweep.whole /\ found = refs)]
    BY <2>1
  <2>3. /\ sweep'.pc = Visit(found) /\ sweep'.list = found /\ sweep'.left = found
        /\ sweep'.whole = (sweep.whole /\ found = refs) /\ sweep'.idle = sweep.idle
    BY <2>2, SweepTypes DEF Sweep
  <2>4. sweep.pc = "list" /\ refs' = refs
    BY <1>3 DEF ListUserSessionIds
  <2> QED
    <3>1. ~Past("refs")' /\ ~Past("rows")' /\ ~Past("file")' /\ ~Past("plan")' /\ ~Past("coach")'
        /\ ~Past("usage")' /\ ~Past("window")'
      BY <2>3, Ranks DEF Past
    <3>2. (sweep'.whole => sweep.whole) /\ (Alone' => found = refs)
      BY <2>3 DEF Alone
    <3> QED
      BY <1>b, <1>c, <2>3, <2>4, <3>1, <3>2
<1>4. CASE QuerySession
  <2>1. PICK s0 \in sweep.left : \E found \in SUBSET Partition(s0) :
          sweep' = [sweep EXCEPT !.left = @ \ {s0}, !.keys = found, !.pc = "delete",
                                 !.whole = @ /\ found = Partition(s0)]
    BY <1>4 DEF QuerySession
  <2>2. PICK found \in SUBSET Partition(s0) :
          sweep' = [sweep EXCEPT !.left = sweep.left \ {s0}, !.keys = found, !.pc = "delete",
                                 !.whole = (sweep.whole /\ found = Partition(s0))]
    BY <2>1
  <2>3. /\ sweep'.pc = "delete" /\ sweep'.list = sweep.list /\ sweep'.left = sweep.left \ {s0}
        /\ sweep'.keys = found
        /\ sweep'.whole = (sweep.whole /\ found = Partition(s0)) /\ sweep'.idle = sweep.idle
    BY <2>2, SweepTypes DEF Sweep
  <2>4. sweep.pc = "query" /\ refs' = refs
    BY <1>4 DEF QuerySession
  <2>5. Past("list") /\ sweep.keys = {} /\ begun
    BY <1>b, <1>k, <2>4, Ranks DEF Past
  <2>6. ASSUME Alone', Alone, NEW s \in sweep'.list \ sweep'.left
        PROVE  Partition(s)' \subseteq sweep'.keys
    BY <1>0, <1>p, <2>3, <2>5, <2>6, SweepTypes DEF Alone
  <2> QED
    <3>1. ~Past("refs")' /\ ~Past("rows")' /\ ~Past("file")' /\ ~Past("plan")' /\ ~Past("coach")'
        /\ ~Past("usage")' /\ ~Past("window")'
      BY <2>3, Ranks DEF Past
    <3>2. (sweep'.whole => sweep.whole) /\ sweep.pc # "idle"
      BY <2>3, <2>4
    <3> QED
      BY <1>c, <1>p, <2>3, <2>4, <2>5, <2>6, <3>1, <3>2
<1>5. CASE DeleteKeys
  <2>1. /\ sweep'.pc = Visit(sweep.left) /\ sweep'.list = sweep.list /\ sweep'.left = sweep.left
        /\ sweep'.keys = {} /\ sweep.pc = "delete" /\ refs' = refs /\ sweep'.whole = sweep.whole
        /\ sweep'.idle = sweep.idle /\ Delete(sweep.keys)
    <3>1. Visit(sweep.left) \in SweepStep /\ {} \in SUBSET Item
      BY Ranks DEF SweepStep
    <3> QED
      BY <1>5, <3>1, SweepFields DEF DeleteKeys
  <2>2. Past("list") /\ begun
    BY <1>b, <2>1, Ranks DEF Past
  <2>3. ASSUME NEW s \in Session, NEW i \in Partition(s)'
        PROVE  i \notin sweep.keys
    <3>1. CASE i = <<"meta", s>> /\ meta'[s].status # "none"
      BY <2>1, <3>1 DEF Delete, NoMeta
    <3>2. CASE \E a \in output'[s] : i = <<a, s>>
      BY <2>1, <3>2 DEF Delete
    <3> QED
      BY <2>3, <3>1, <3>2, PartitionNext
  <2>4. ASSUME Alone, NEW s \in sweep'.list \ sweep'.left
        PROVE  Partition(s)' = {}
    BY <1>0, <1>p, <2>1, <2>2, <2>3, <2>4, SweepTypes
  <2> QED
    BY <1>c, <1>p, <2>1, <2>2, <2>4, Ranks DEF Past
\* After them nothing of the listed sessions is left.
<1>s. ASSUME Alone, begun, Past("delete")
      PROVE  Past("list") /\ \A s \in sweep.list : Partition(s)' = {}
  <2>1. Past("list") /\ sweep.pc # "delete"
    BY <1>s, SweepTypes, Ranks DEF Past, Sweep, SweepStep
  <2>2. sweep.left = {} /\ sweep.keys = {}
    BY <1>f, <1>k, <1>s, <2>1
  <2> QED
    BY <1>0, <1>p, <1>s, <2>1, <2>2, SweepTypes
<1>g. ASSUME NEW pc \in SweepStep, Goes(pc)
      PROVE  /\ sweep'.pc = pc /\ sweep'.list = sweep.list /\ sweep'.left = sweep.left
             /\ sweep'.whole = sweep.whole /\ sweep'.idle = sweep.idle
  BY <1>g, SweepFields DEF Goes
<1>6. CASE DeleteUserSessionRefs
  <2>1. Goes("rows") /\ refs' = refs \ sweep.list /\ sweep.pc = "refs"
    BY <1>6 DEF DeleteUserSessionRefs
  <2>2. Past("delete") /\ begun
    BY <1>b, <2>1, Ranks DEF Past
  <2> QED
    BY <1>c, <1>g, <1>p, <1>s, <2>1, <2>2, Ranks DEF Past, SweepStep
<1>7. CASE DeleteSessionSummaries
  <2> DEFINE all == {i \in {<<"rows", None>>} : rows # 0}
  <2>1. PICK found \in SUBSET all :
          /\ rows' = IF found = all THEN 0 ELSE rows
          /\ sweep' = [sweep EXCEPT !.pc = "file", !.whole = (sweep.whole /\ found = all)]
    BY <1>7 DEF DeleteSessionSummaries
  <2>2. /\ sweep'.pc = "file" /\ sweep'.list = sweep.list /\ sweep'.left = sweep.left
        /\ sweep'.whole = (sweep.whole /\ found = all) /\ sweep'.idle = sweep.idle
    BY <2>1, SweepTypes DEF Sweep
  <2>3. sweep.pc = "rows" /\ UNCHANGED refs
    BY <1>7 DEF DeleteSessionSummaries
  <2>4. Past("delete") /\ Past("refs") /\ begun
    BY <1>b, <2>3, Ranks DEF Past
  <2>5. Alone' => rows' = 0
    BY <2>1, <2>2 DEF Alone
  <2> QED
    <3>1. ~Past("file")' /\ ~Past("plan")' /\ ~Past("coach")' /\ ~Past("usage")'
          /\ ~Past("window")'
      BY <2>2, Ranks DEF Past
    <3>2. (sweep'.whole => sweep.whole) /\ sweep.pc # "idle"
      BY <2>2, <2>3
    <3>3. ASSUME Alone', Alone
          PROVE  refs' \subseteq sweep'.list /\ refs' = {}
                 /\ \A s \in sweep'.list \ sweep'.left : Partition(s)' \subseteq sweep'.keys
      BY <1>p, <1>s, <2>2, <2>3, <2>4, <3>3
    <3> QED
      BY <1>c, <2>2, <2>4, <2>5, <3>1, <3>2, <3>3
<1>8. CASE DeleteResume
  <2>1. Goes("plan") /\ file' = None /\ sweep.pc = "file" /\ UNCHANGED <<refs, rows>>
    BY <1>8 DEF DeleteResume
  <2>2. Past("delete") /\ begun
    BY <1>b, <2>1, Ranks DEF Past
  <2> QED
    BY <1>c, <1>g, <1>p, <1>s, <2>1, <2>2, Ranks DEF Past, SweepStep
<1>9. CASE DeleteProfileItem
  <2>1. /\ UNCHANGED <<refs, rows, file>>
        /\ \/ /\ sweep.pc = "plan" /\ plans' = None
              /\ Goes("coach") /\ UNCHANGED <<coach, usage, limiter>>
           \/ /\ sweep.pc = "coach" /\ coach' = 0
              /\ Goes("usage") /\ UNCHANGED <<plans, usage, limiter>>
           \/ /\ sweep.pc = "usage" /\ usage' = [day |-> 0, calls |-> 0]
              /\ Goes("window") /\ UNCHANGED <<plans, coach, limiter>>
           \/ /\ sweep.pc = "window" /\ limiter' = FALSE
              /\ Goes("tombstone") /\ UNCHANGED <<plans, coach, usage>>
    BY <1>9 DEF DeleteProfileItem
  <2>2. Past("delete") /\ begun
    BY <1>b, <2>1, Ranks DEF Past
  <2>3. CASE sweep.pc = "plan"
    BY <1>c, <1>g, <1>p, <1>s, <2>1, <2>2, <2>3, Ranks DEF Past, SweepStep
  <2>4. CASE sweep.pc = "coach"
    BY <1>c, <1>g, <1>p, <1>s, <2>1, <2>2, <2>4, Ranks DEF Past, SweepStep
  <2>5. CASE sweep.pc = "usage"
    BY <1>c, <1>g, <1>p, <1>s, <2>1, <2>2, <2>5, Ranks DEF Past, SweepStep
  <2>6. CASE sweep.pc = "window"
    BY <1>c, <1>g, <1>p, <1>s, <2>1, <2>2, <2>6, Ranks DEF Past, SweepStep
  <2> QED
    BY <2>1, <2>3, <2>4, <2>5, <2>6
<1>10. CASE PutTombstone
  <2>1. /\ Goes("identity") /\ sweep.pc = "tombstone"
        /\ UNCHANGED <<refs, rows, file, plans, coach, usage, limiter>>
    BY <1>10 DEF PutTombstone, Others
  <2>2. Past("delete") /\ begun
    BY <1>b, <2>1, Ranks DEF Past
  <2> QED
    BY <1>c, <1>g, <1>p, <1>s, <2>1, <2>2, Ranks DEF Past, SweepStep
<1> QED
  BY <1>1, <1>2, <1>3, <1>4, <1>5, <1>6, <1>7, <1>8, <1>9, <1>10 DEF ErasureNext

\* An account that is erased, and whoever still runs come to it too late.
LEMMA NothingReturns ==
  ASSUME TypeOK, ProcessesAreSound, ErasureIsSound, AstrayIsHarmless, [Next]_vars
  PROVE  NothingComesBack
<1> SUFFICES ASSUME profile.status = "erased", \A p \in Process : Arrived(p) => proc[p].astray,
                    NEW i \in Survivors'
             PROVE  i \in Survivors \/ i = <<"file", None>> \/ i = <<"window", None>>
  BY DEF NothingComesBack
<1>0. RequestTypeOK
  BY DEF TypeOK
<1>1. CASE RequestNext
  <2> USE DEF items, history
  <2>1. \A p \in Process : \/ proc[p].pc \in {"idle", "done", "details", "github", "store", "resume",
                                             "read", "load", "rows"}
                           \/ proc[p].pc = "prose" /\ proc[p].ver = 0
    BY DEF AstrayIsHarmless, Arrived, At
  <2>2. ASSUME NEW r \in Request
        PROVE  ~(\/ CreateSession(r) \/ PutCachedPlan(r) \/ AttachPlan(r) \/ PutCachedCoach(r)
                 \/ PutSessionSummary(r))
    BY <1>0, <2>1, RequestTypesOf
    DEF CreateSession, PutCachedPlan, AttachPlan, PutCachedCoach, PutSessionSummary, At
  <2>3. ASSUME NEW p \in Process
        PROVE  ~(\/ ClaimSessionAgentRun(p) \/ AddCall(p) \/ RollDay(p) \/ PutOutput(p, "gap")
                 \/ PutOutput(p, "intel"))
    BY <2>1 DEF ClaimSessionAgentRun, AddCall, RollDay, PutOutput, At
  <2>4. ~\E s \in Session : StartInterview(s)
    BY DEF StartInterview
  <2>5. ASSUME NEW r \in Request, SaveDetails(r) \/ SaveGithub(r) \/ SaveResume(r) \/ PutResume(r)
        PROVE  UNCHANGED <<profile, meta, refs, output, rows, plans, coach, usage>>
    BY <2>5 DEF SaveDetails, SaveGithub, SaveResume, PutResume, HandleFailure, NotDeleting, Marked
  <2>6. UNCHANGED <<profile, meta, refs, output, rows, plans, coach, usage>>
    <3>1. CASE Writing
      BY <2>2, <2>3, <2>4, <2>5, <3>1 DEF Writing
    <3>2. CASE Counting \/ UNCHANGED items
      BY <3>2 DEF Counting
    <3> QED
      BY <1>0, <1>1, <3>1, <3>2, OnlyTheseWrite
  <2>7. \A s : Partition(s)' = Partition(s)
    BY <2>6 DEF Partition
  <2> QED
    BY <2>6, <2>7, SurvivorsAre, SurvivorsNext
<1>2. CASE ErasureNext
  <2>1. /\ profile' = profile \/ profile' = [NoProfile EXCEPT !.status = "erased"]
        /\ profile'.status = "erased"
    BY <1>2, Erased
  <2>2. ~profile'.named /\ profile'.text = None
    BY <2>1 DEF NoProfile, ErasureIsSound, StaysErased
  <2> QED
    BY <1>2, <2>1, <2>2, Erased, SurvivorsAre, SurvivorsNext
<1>3. CASE UNCHANGED vars
  BY <1>3 DEF vars, requestVars, items, Survivors, Partition
<1> QED
  BY <1>1, <1>2, <1>3 DEF Next

\* What an erasure that ran alone leaves lies in sessions nothing leads to.
LEMMA TombstoneAlone ==
  ASSUME TypeOK, ErasureIsSound, LeavesNothing, [Next]_vars
  PROVE  RetrySweepsTheRest
<1> SUFFICES ASSUME sweep.pc = "tombstone", sweep'.pc = "identity", sweep.whole,
                    sweep.idle = Idlers, NEW i \in Survivors'
             PROVE  i[2] \in Session \ (refs' \cup sweep.list)
  BY DEF RetrySweepsTheRest
<1>1. PutTombstone
  BY DEF Next, ErasureNext, MarkProfileDeleting, ListUserSessionIds, QuerySession, DeleteKeys,
         DeleteUserSessionRefs, DeleteSessionSummaries, DeleteResume, DeleteProfileItem,
         DeleteCognitoUser, ErasureFails, NoSweep, erasureVars, vars, CanDelete
<1>2. /\ UNCHANGED <<meta, output, refs, rows, file, plans, coach, usage, limiter>>
      /\ profile' = [NoProfile EXCEPT !.status = "erased"]
  BY <1>1 DEF PutTombstone, Others
<1>3. ~profile'.named /\ profile'.text = None /\ profile'.status = "erased"
  BY <1>2 DEF NoProfile
<1>4. Alone /\ begun /\ Past("list") /\ Past("delete") /\ sweep.pc # "delete"
  BY Ranks DEF Alone, Past, ErasureIsSound, Untouched, NoSweep
<1>5. /\ refs = {} /\ rows = 0 /\ file = None /\ plans = None /\ coach = 0 /\ usage.day = 0
      /\ ~limiter
      /\ \A s \in sweep.list \ sweep.left : Partition(s) \subseteq sweep.keys
      /\ sweep.left = {} /\ sweep.keys = {}
  BY <1>4, Ranks DEF LeavesNothing, Past, ErasureIsSound, Swept
<1>6. \A s : Partition(s)' = Partition(s)
  BY <1>2 DEF Partition
<1>7. PICK s \in Session : i \in Partition(s)'
  BY <1>2, <1>3, <1>5, SurvivorsNext
<1>8. i[2] = s /\ s \notin sweep.list
  BY <1>5, <1>6, <1>7, PartitionNext
<1> QED
  BY <1>2, <1>5, <1>8

\* An erased account only empties: late requests do not fill it again, and the
\* same request made once more, alone, finishes what an attempt left.
THEOREM ErasedForGood == Spec => ErasureSticks
<1> DEFINE Inv == TypeOK /\ ProcessesAreSound /\ ErasureIsSound /\ AstrayIsHarmless /\ LeavesNothing
<1>1. Init => AstrayIsHarmless /\ LeavesNothing
  <2> SUFFICES ASSUME Init
               PROVE  AstrayIsHarmless /\ LeavesNothing
    OBVIOUS
  <2>1. PICK cast \in Casts :
          proc = [q \in Process |-> IF q \in Request THEN [Idle EXCEPT !.kind = cast[q]] ELSE Idle]
    BY DEF Init, RequestInit
  <2>2. ~Idle.astray /\ \A k : ~[Idle EXCEPT !.kind = k].astray
    BY DEF Idle
  <2>3. AstrayIsHarmless
    BY <2>1, <2>2 DEF AstrayIsHarmless
  <2>4. sweep.pc = "idle"
    BY DEF Init, NoSweep
  <2> QED
    BY <2>3, <2>4 DEF LeavesNothing, Alone
<1>2. Init => Inv
  BY <1>1, TypesAtFirst, UntouchedAtFirst
<1>3. Inv /\ [Next]_vars => Inv'
  <2> SUFFICES ASSUME Inv, [Next]_vars
               PROVE  Inv'
    OBVIOUS
  <2>1. LeavesNothing'
    <3>1. CASE RequestNext /\ UNCHANGED erasureVars
      BY <3>1, NothingLeftByRequests
    <3>2. CASE ErasureNext
      BY <3>2, NothingLeftByErasure
    <3>3. CASE UNCHANGED vars
      BY <3>3 DEF vars, requestVars, items, erasureVars, LeavesNothing, Alone, Idlers, At, Busy,
                  Arrived, Past, Partition
    <3> QED
      BY <3>1, <3>2, <3>3 DEF Next
  <2> QED
    BY <2>1, TypesStay, ProcessesStaySound, ErasureStaysSound, AstrayStaysHarmless
<1>4. Inv /\ [Next]_vars => NothingComesBack /\ RetrySweepsTheRest
  BY NothingReturns, TombstoneAlone
<1> QED
  BY <1>2, <1>3, <1>4, PTL DEF Spec, ErasureSticks

-----------------------------------------------------------------------------
(* No more calls a day than the cap: BudgetIsKept.                         *)

\* BudgetIsKept through any step.
LEMMA BudgetStays ==
  ASSUME TypeOK, ProcessesAreSound, ErasureIsSound, BudgetIsKept, [Next]_vars
  PROVE  BudgetIsKept'
<1> USE DEF items, history
<1>0. /\ RequestTypeOK /\ CallsPerDay \in Nat
      /\ day \in Nat /\ usage.day \in Nat /\ usage.calls \in Nat
      /\ \A d \in Day : d \in Nat /\ d # 0 /\ granted[d] \in Nat
      /\ usage \in [day : Day \cup {0}, calls : Nat] /\ granted \in [Day -> Nat]
  BY BudgetAssumption DEF TypeOK, RequestTypeOK, Day
\* Nothing the invariant is about has changed, but perhaps the day.
<1>k. ASSUME begun' = begun, UNCHANGED <<usage, granted, straddled>>, day' \in {day, day + 1}
      PROVE  BudgetIsKept'
  BY <1>0, <1>k DEF BudgetIsKept
\* A call granted to p under its own date.
<1>g. ASSUME NEW p \in Process, Granted(p), proc[p].day \in Day, proc[p].day = day
      PROVE  \A d \in Day : granted'[d] = IF d = day THEN granted[d] + 1 ELSE granted[d]
  BY <1>0, <1>g DEF Granted
<1>d. ASSUME NEW p \in Process, proc[p].pc \in {"day", "roll"}
      PROVE  proc[p].day \in Day /\ proc[p].day # 0
  BY <1>0, <1>d, RequestTypesOf DEF ProcessesAreSound, KeepsToItsKind, Day
<1>1. ASSUME NEW p \in Process, AddCall(p)
      PROVE  BudgetIsKept'
  <2>1. day' = day /\ begun' = begun /\ At(p, "day")
    BY <1>1 DEF AddCall
  <2>2. CASE UNCHANGED <<usage, granted, straddled>>
    BY <1>k, <2>1, <2>2
  <2>3. CASE ~UNCHANGED <<usage, granted, straddled>>
    <3>1. /\ usage.day = proc[p].day /\ usage.calls < CallsPerDay
          /\ usage' = [usage EXCEPT !.calls = @ + 1] /\ Granted(p)
      BY <1>1, <2>3 DEF AddCall
    <3>2. usage'.day = usage.day /\ usage'.calls = usage.calls + 1
      BY <1>0, <3>1
    <3> SUFFICES ASSUME ~straddled', ~begun'
                 PROVE  BudgetIsKept'
      BY DEF BudgetIsKept
    <3>3. ~straddled /\ ~begun /\ proc[p].day = day
      BY <2>1, <3>1 DEF Granted
    <3>4. \A d \in Day : granted'[d] = IF d = day THEN granted[d] + 1 ELSE granted[d]
      BY <1>d, <1>g, <2>1, <3>1, <3>3 DEF At
    <3> QED
      BY <1>0, <2>1, <3>1, <3>2, <3>3, <3>4 DEF BudgetIsKept
  <2> QED
    BY <2>2, <2>3
<1>2. ASSUME NEW p \in Process, RollDay(p)
      PROVE  BudgetIsKept'
  <2>1. day' = day /\ begun' = begun /\ At(p, "roll")
    BY <1>2 DEF RollDay
  <2>2. CASE usage.day = proc[p].day
    BY <1>2, <1>k, <2>1, <2>2 DEF RollDay
  <2>3. CASE usage.day # proc[p].day
    <3>1. /\ usage' = [day |-> proc[p].day, calls |-> 1]
          /\ straddled' = (straddled \/ proc[p].day # day)
          /\ IF CallsPerDay > 0 THEN granted' = [granted EXCEPT ![proc[p].day] = @ + 1]
                                ELSE UNCHANGED granted
      BY <1>2, <2>3 DEF RollDay, Rolled
    <3>2. usage'.day = proc[p].day /\ usage'.calls = 1
      BY <3>1
    <3> SUFFICES ASSUME ~straddled', ~begun'
                 PROVE  BudgetIsKept'
      BY DEF BudgetIsKept
    <3>3. ~straddled /\ ~begun /\ proc[p].day = day /\ day \in Day
      BY <1>d, <2>1, <3>1 DEF At
    <3>4. /\ usage.day <= day /\ usage.day # day
          /\ \A d \in Day : granted[d] <= CallsPerDay /\ (d >= day => granted[d] = 0)
      <4>1. usage.day # day
        BY <2>3, <3>3
      <4>2. usage.day <= day
        BY <3>3 DEF BudgetIsKept
      <4>3. ASSUME NEW d \in Day
            PROVE  granted[d] <= CallsPerDay /\ (d # usage.day /\ d >= day => granted[d] = 0)
        BY <3>3 DEF BudgetIsKept
      <4>4. ASSUME NEW d \in Day, d >= day
            PROVE  d # usage.day
        <5>1. day \in Nat /\ usage.day \in Nat
          BY <1>0
        <5> QED
          BY <4>1, <4>2, <4>4, <5>1
      <4> QED
        BY <4>1, <4>2, <4>3, <4>4
    <3>5. CASE CallsPerDay > 0
      <4>1. \A d \in Day : granted'[d] = IF d = day THEN granted[d] + 1 ELSE granted[d]
        BY <1>0, <3>1, <3>3, <3>5
      <4> QED
        BY <1>0, <2>1, <3>2, <3>3, <3>4, <3>5, <4>1 DEF BudgetIsKept
    <3>6. CASE ~(CallsPerDay > 0)
      <4>1. granted' = granted
        BY <3>1, <3>6
      <4> QED
        BY <1>0, <2>1, <3>2, <3>3, <3>4, <4>1 DEF BudgetIsKept
    <3> QED
      BY <3>5, <3>6
  <2> QED
    BY <2>2, <2>3
<1>3. CASE RequestNext
  <2>1. day' \in {day, day + 1}
    <3>1. ASSUME NEW r \in Request, RequestStep(r)
          PROVE  day' = day
      <4>1. CASE \/ PutDetails(r) \/ PutGithub(r) \/ PostResume(r) \/ PostPreInterview(r)
                 \/ RequestPlan(r) \/ PostGap(r) \/ PostCompanyIntel(r) \/ GetCoach(r)
                 \/ SessionCompletes(r) \/ ClientTimesOut(r) \/ TurnedAway(r)
        BY <4>1 DEF PutDetails, PutGithub, PostResume, PostPreInterview, RequestPlan, PostGap,
                    PostCompanyIntel, GetCoach, Arrives, SessionCompletes, ClientTimesOut,
                    TurnedAway
      <4>2. CASE \/ SaveDetails(r) \/ SaveGithub(r) \/ PutResume(r) \/ SaveResume(r)
                 \/ ReadProfile(r) \/ CreateSession(r) \/ LoadPlannerInputs(r) \/ GetCachedPlan(r)
        BY <4>2 DEF SaveDetails, SaveGithub, PutResume, SaveResume, ReadProfile, CreateSession,
                    LoadPlannerInputs, GetCachedPlan, Bookkeeping, Uncounted
      <4>3. CASE \/ RunPlanner(r) \/ PutCachedPlan(r) \/ AttachPlan(r) \/ ReadRows(r)
                 \/ GetCachedCoach(r) \/ RunCoachAgent(r) \/ PutCachedCoach(r)
                 \/ PutSessionSummary(r)
        BY <4>3 DEF RunPlanner, PutCachedPlan, AttachPlan, ReadRows, GetCachedCoach, RunCoachAgent,
                    PutCachedCoach, PutSessionSummary, Bookkeeping, Uncounted
      <4> QED
        BY <3>1, <4>1, <4>2, <4>3 DEF RequestStep
    <3>2. ASSUME NEW p \in Process, SpendStep(p)
          PROVE  day' = day
      BY <3>2 DEF SpendStep, ClaimSessionAgentRun, AddCall, RollDay, RunGapAgent,
                  RunCompanyIntelAgent, PutGapAnalysis, PutCompanyIntel, PutOutput, CallFails,
                  Bookkeeping, Uncounted
    <3>3. ASSUME NEW s \in Session, StartInterview(s)
          PROVE  day' = day
      BY <3>3 DEF StartInterview
    <3>4. Midnight => day' = day + 1
      BY DEF Midnight
    <3> QED
      BY <1>3, <3>1, <3>2, <3>3, <3>4 DEF RequestNext
  <2>2. ASSUME NEW r \in Request,
               \/ SaveDetails(r) \/ SaveGithub(r) \/ PutResume(r) \/ SaveResume(r)
               \/ CreateSession(r) \/ PutCachedPlan(r) \/ AttachPlan(r) \/ PutCachedCoach(r)
               \/ PutSessionSummary(r)
        PROVE  begun' = begun /\ UNCHANGED <<usage, granted, straddled>>
    BY <2>2 DEF SaveDetails, SaveGithub, PutResume, SaveResume, CreateSession, PutCachedPlan,
                AttachPlan, PutCachedCoach, PutSessionSummary, Bookkeeping, Uncounted
  <2>3. ASSUME NEW p \in Process,
               ClaimSessionAgentRun(p) \/ PutOutput(p, "gap") \/ PutOutput(p, "intel")
        PROVE  begun' = begun /\ UNCHANGED <<usage, granted, straddled>>
    BY <2>3 DEF ClaimSessionAgentRun, PutOutput, Bookkeeping, Uncounted
  <2>4. ASSUME NEW s \in Session, StartInterview(s)
        PROVE  begun' = begun /\ UNCHANGED <<usage, granted, straddled>>
    BY <2>4 DEF StartInterview
  <2>5. CASE Writing
    BY <1>1, <1>2, <1>k, <2>1, <2>2, <2>3, <2>4, <2>5 DEF Writing
  <2>6. CASE Counting \/ UNCHANGED <<items, granted, straddled, briefed, saved, begun, late>>
    BY <1>k, <2>1, <2>6 DEF Counting
  <2> QED
    BY <1>0, <1>3, <2>5, <2>6, OnlyTheseWrite
<1>4. CASE ErasureNext
  <2>1. begun'
    BY <1>4, SweptByErasure
  <2> QED
    BY <2>1 DEF BudgetIsKept
<1>5. CASE UNCHANGED vars
  BY <1>5, <1>k DEF vars, requestVars
<1> QED
  BY <1>3, <1>4, <1>5 DEF Next

\* claimDailyModelCall grants no more calls under a date than the cap, whoever
\* asks at once, unless a server writes a date that is over or the count is erased.
THEOREM CapHolds == Spec => []CapPerDay
<1>1. Init => BudgetIsKept
  <2>1. Init => usage.day = 0 /\ usage.calls = 0 /\ day = 1 /\ \A d \in Day : granted[d] = 0
    BY DEF Init, RequestInit
  <2> QED
    BY <2>1, BudgetAssumption DEF BudgetIsKept
<1>2. TypeOK /\ ProcessesAreSound /\ ErasureIsSound /\ BudgetIsKept /\ [Next]_vars
      => ErasureIsSound' /\ BudgetIsKept'
  BY ErasureStaysSound, BudgetStays
<1>3. BudgetIsKept => CapPerDay
  BY DEF BudgetIsKept, CapPerDay
<1>4. Init => ErasureIsSound
  BY UntouchedAtFirst
<1> QED
  BY <1>1, <1>2, <1>3, <1>4, TypeCorrect, PTL DEF Spec

-----------------------------------------------------------------------------
(* A plan stays the one that was made for its session: PlansStayFit.       *)

\* What is known of a version stays known: only a save gives out another.
LEMMA KnownStays ==
  ASSUME TypeOK, ProcessesAreSound, [Next]_vars, VersionsHold
  PROVE  /\ \A ver \in Version : \A mat : Known(ver, mat) => Known(ver, mat)'
         /\ NotDeleting' => saved'[profile'.ver] = profile'.mat
<1> USE DEF items, history, Known
<1>0. /\ RequestTypeOK /\ profile.ver \in Nat /\ \A v \in Version : v \in Nat
      /\ saved \in [Version -> Material] /\ profile \in Profile
      /\ Cardinality(Request) \in Nat /\ Version = 0..(Cardinality(Request) + 1)
  BY BlankRecords, RequestTypesOf DEF TypeOK, RequestTypeOK, Version
<1>k. ASSUME UNCHANGED saved, profile'.ver = profile.ver, profile'.mat = profile.mat,
             NotDeleting' => NotDeleting
      PROVE  /\ \A ver \in Version : \A mat : Known(ver, mat) => Known(ver, mat)'
             /\ NotDeleting' => saved'[profile'.ver] = profile'.mat
  BY <1>k DEF VersionsHold
<1>1. ASSUME NEW r \in Request, SaveGithub(r) \/ SaveResume(r)
      PROVE  /\ \A ver \in Version : \A mat : Known(ver, mat) => Known(ver, mat)'
             /\ NotDeleting' => saved'[profile'.ver] = profile'.mat
  <2>1. CASE ~NotDeleting
    BY <1>1, <1>k, <2>1 DEF SaveGithub, SaveResume, HandleFailure, NotDeleting, Marked
  <2>2. CASE NotDeleting
    <3>1. ~At(r, "done")
      BY <1>1 DEF SaveGithub, SaveResume, At
    <3>2. profile.ver + 1 \in Version
      <4>1. Cardinality(Finished) + 1 <= Cardinality(Request) /\ Cardinality(Finished) \in Nat
        BY <1>0, <1>1, <3>1, OneMoreFinished
      <4>2. profile.ver <= Cardinality(Finished) + 1
        BY DEF ProcessesAreSound, Numbered
      <4> QED
        BY ONLY <1>0, <4>1, <4>2
    <3>3. saved' = [saved EXCEPT ![profile.ver + 1] = r]
          /\ profile'.ver = profile.ver + 1 /\ profile'.mat = r
      BY <1>0, <1>1, <2>2 DEF SaveGithub, SaveResume, Profile
    <3>4. saved'[profile.ver + 1] = r
          /\ \A v \in Version : v <= profile.ver => saved'[v] = saved[v]
      BY <1>0, <3>2, <3>3
    <3> QED
      BY <1>0, <2>2, <3>3, <3>4
  <2> QED
    BY <2>1, <2>2
<1>2. ASSUME NEW r \in Request, SaveDetails(r)
      PROVE  /\ \A ver \in Version : \A mat : Known(ver, mat) => Known(ver, mat)'
             /\ NotDeleting' => saved'[profile'.ver] = profile'.mat
  <2>1. UNCHANGED saved /\ profile'.ver = profile.ver /\ profile'.mat = profile.mat
        /\ (NotDeleting' => NotDeleting)
    BY <1>0, <1>2 DEF SaveDetails, HandleFailure, NotDeleting, Marked, Profile
  <2> QED
    BY <1>k, <2>1
<1>3. CASE UNCHANGED <<saved, profile>>
  BY <1>3, <1>k DEF NotDeleting, Marked
<1>4. CASE RequestNext
  <2>1. ASSUME NEW r \in Request,
               \/ PutResume(r) \/ CreateSession(r) \/ PutCachedPlan(r) \/ AttachPlan(r)
               \/ PutCachedCoach(r) \/ PutSessionSummary(r)
        PROVE  UNCHANGED <<saved, profile>>
    BY <2>1 DEF PutResume, CreateSession, PutCachedPlan, AttachPlan, PutCachedCoach,
                PutSessionSummary, Bookkeeping
  <2>2. ASSUME NEW p \in Process,
               \/ ClaimSessionAgentRun(p) \/ AddCall(p) \/ RollDay(p) \/ PutOutput(p, "gap")
               \/ PutOutput(p, "intel")
        PROVE  UNCHANGED <<saved, profile>>
    BY <2>2 DEF ClaimSessionAgentRun, AddCall, RollDay, PutOutput, Bookkeeping
  <2>3. ASSUME NEW s \in Session, StartInterview(s)
        PROVE  UNCHANGED <<saved, profile>>
    BY <2>3 DEF StartInterview
  <2>4. CASE Writing
    BY <1>1, <1>2, <1>3, <2>1, <2>2, <2>3, <2>4 DEF Writing
  <2>5. CASE Counting \/ UNCHANGED <<items, granted, straddled, briefed, saved, begun, late>>
    BY <1>3, <2>5 DEF Counting
  <2> QED
    BY <1>0, <1>4, <2>4, <2>5, OnlyTheseWrite
<1>5. CASE ErasureNext
  <2>1. UNCHANGED saved
    BY <1>5, ErasureLeaves
  <2>2. \/ profile' = profile
        \/ profile' = [profile EXCEPT !.status = "deleting"]
        \/ profile' = [NoProfile EXCEPT !.status = "erased"]
    BY <1>5 DEF ErasureNext, MarkProfileDeleting, ListUserSessionIds, QuerySession, DeleteKeys,
                DeleteUserSessionRefs, DeleteSessionSummaries, DeleteResume, DeleteProfileItem,
                PutTombstone, DeleteCognitoUser, ErasureFails
  <2>3. NotDeleting' => profile' = profile
    BY <1>0, <2>2 DEF NotDeleting, Marked, NoProfile, Profile
  <2>4. NotDeleting' => NotDeleting
    BY <2>3 DEF NotDeleting, Marked
  <2> QED
    BY <2>1, <2>3, <2>4 DEF VersionsHold
<1>6. CASE UNCHANGED vars
  BY <1>3, <1>6 DEF vars, requestVars
<1> QED
  BY <1>4, <1>5, <1>6 DEF Next

\* What a request's step does to a session and what the candidate sees of it.
Sets(s, status, ver, mat, plan, role) ==
  /\ meta'[s].status = status /\ meta'[s].ver = ver /\ meta'[s].mat = mat
  /\ meta'[s].plan = plan /\ meta'[s].role = role

Steady(s) ==
  /\ \/ meta'[s] = meta[s]
     \/ /\ meta[s].status # "none"
        /\ Sets(s, meta[s].status, meta[s].ver, meta[s].mat, meta[s].plan, meta[s].role)
  /\ briefed'[s] = briefed[s] /\ shown'[s] = shown[s]
Created(s) ==
  /\ s \in Request /\ At(s, "create") /\ At(s, "done")'
  /\ Sets(s, "planning", proc[s].ver, proc[s].mat, None, None)
  /\ briefed'[s] = briefed[s] /\ shown'[s] = shown[s]
Replanned(s) ==
  \E r \in Request :
    /\ At(r, "attach") /\ proc[r].s = s /\ Replannable(s) /\ At(r, "done")'
    /\ Sets(s, "ready", meta[s].ver, meta[s].mat, proc[r].plan, proc[r].role)
    /\ briefed'[s] = briefed[s]
    /\ shown'[s] = proc[r].plan \/ shown'[s] = shown[s]
Interviewed(s) ==
  /\ meta[s].status = "ready" /\ shown[s] # None
  /\ Sets(s, "in_progress", meta[s].ver, meta[s].mat, meta[s].plan, meta[s].role)
  /\ briefed'[s] = meta[s].plan /\ shown'[s] = shown[s]

LEMMA SessionsMove ==
  ASSUME RequestTypeOK, ProcessesAreSound, RequestNext, NEW s \in Session
  PROVE  Steady(s) \/ Created(s) \/ Replanned(s) \/ Interviewed(s)
<1> USE RequestTypesOf DEF items, history, Bookkeeping, Uncounted
<1>0. /\ meta \in [Session -> Meta] /\ shown \in [Session -> Plan \cup {None}]
      /\ briefed \in [Session -> Plan \cup {None}] /\ proc \in [Process -> Locals]
      /\ Request \subseteq Process
  BY DEF RequestTypeOK
<1>1. ASSUME UNCHANGED <<meta, briefed, shown>>
      PROVE  Steady(s)
  BY <1>1 DEF Steady
<1>2. ASSUME NEW r \in Request, CreateSession(r)
      PROVE  Steady(s) \/ Created(s)
  <2>1. /\ meta' = [meta EXCEPT ![r] = [NoMeta EXCEPT !.status = "planning", !.ver = proc[r].ver,
                                                      !.mat = proc[r].mat]]
        /\ UNCHANGED <<briefed, shown>> /\ At(r, "create") /\ proc' = [proc EXCEPT ![r] = Done(r)]
    BY <1>2 DEF CreateSession, Ends
  <2>2. s # r => meta'[s] = meta[s]
    BY <1>0, <2>1
  <2>3. s = r => Sets(s, "planning", proc[s].ver, proc[s].mat, None, None)
    BY <1>0, <2>1 DEF Sets, NoMeta
  <2>4. At(r, "done")'
    BY <1>0, <2>1 DEF At, Done, Idle
  <2> QED
    BY <2>1, <2>2, <2>3, <2>4 DEF Steady, Created
<1>3. ASSUME NEW r \in Request, AttachPlan(r)
      PROVE  Steady(s) \/ Replanned(s)
  <2>1. CASE UNCHANGED <<meta, shown>>
    <3>1. UNCHANGED <<meta, briefed, shown>>
      BY <1>3, <2>1 DEF AttachPlan
    <3> QED
      BY <1>1, <3>1
  <2>2. CASE ~UNCHANGED <<meta, shown>>
    <3> DEFINE t == proc[r].s
    <3>1. /\ t \in Session /\ At(r, "attach") /\ Replannable(t) /\ UNCHANGED briefed
          /\ meta' = [meta EXCEPT ![t].status = "ready", ![t].plan = proc[r].plan,
                                  ![t].role = proc[r].role]
          /\ shown' = IF proc[r].heard THEN [shown EXCEPT ![t] = proc[r].plan] ELSE shown
          /\ proc' = Started(r)
      BY <1>3, <2>2 DEF AttachPlan, Attached
    <3>2. s # t => meta'[s] = meta[s] /\ shown'[s] = shown[s]
      BY <1>0, <3>1
    <3>3. s = t => Sets(s, "ready", meta[s].ver, meta[s].mat, proc[r].plan, proc[r].role)
      BY <1>0, <3>1 DEF Sets, Meta
    <3>4. s = t => shown'[s] = proc[r].plan \/ shown'[s] = shown[s]
      BY <1>0, <3>1
    <3>5. At(r, "done")'
      BY <1>0, <3>1 DEF Started, At, Done, Idle
    <3> QED
      BY <3>1, <3>2, <3>3, <3>4, <3>5 DEF Steady, Replanned
  <2> QED
    BY <2>1, <2>2
<1>4. ASSUME NEW p \in Process, ClaimSessionAgentRun(p)
      PROVE  Steady(s)
  <2>1. CASE UNCHANGED meta
    <3>1. UNCHANGED <<meta, briefed, shown>>
      BY <1>4, <2>1 DEF ClaimSessionAgentRun
    <3> QED
      BY <1>1, <3>1
  <2>2. CASE ~UNCHANGED meta
    <3> DEFINE t == proc[p].s
    <3>1. /\ t \in Session /\ meta[t].status # "none" /\ UNCHANGED <<briefed, shown>>
          /\ meta' = [meta EXCEPT ![t].runs = @ + 1]
      BY <1>4, <2>2 DEF ClaimSessionAgentRun
    <3>2. s # t => meta'[s] = meta[s]
      BY <1>0, <3>1
    <3>3. s = t => Sets(s, meta[s].status, meta[s].ver, meta[s].mat, meta[s].plan, meta[s].role)
      BY <1>0, <3>1 DEF Sets, Meta
    <3> QED
      BY <3>1, <3>2, <3>3 DEF Steady
  <2> QED
    BY <2>1, <2>2
<1>5. ASSUME NEW t \in Session, StartInterview(t)
      PROVE  Steady(s) \/ Interviewed(s)
  <2>1. /\ shown[t] # None /\ meta[t].status = "ready" /\ UNCHANGED shown
        /\ meta' = [meta EXCEPT ![t].status = "in_progress"]
        /\ briefed' = [briefed EXCEPT ![t] = meta[t].plan]
    BY <1>5 DEF StartInterview, Begin
  <2>2. s # t => meta'[s] = meta[s] /\ briefed'[s] = briefed[s]
    BY <1>0, <2>1
  <2>3. s = t => Sets(s, "in_progress", meta[s].ver, meta[s].mat, meta[s].plan, meta[s].role)
                 /\ briefed'[s] = meta[s].plan
    BY <1>0, <2>1 DEF Sets, Meta
  <2> QED
    BY <2>1, <2>2, <2>3 DEF Steady, Interviewed
<1>6. ASSUME NEW r \in Request, RequestStep(r)
      PROVE  CreateSession(r) \/ AttachPlan(r) \/ UNCHANGED <<meta, briefed, shown>>
  <2>1. CASE \/ PutDetails(r) \/ PutGithub(r) \/ PostResume(r) \/ PostPreInterview(r)
             \/ RequestPlan(r) \/ PostGap(r) \/ PostCompanyIntel(r) \/ GetCoach(r)
             \/ SessionCompletes(r) \/ ClientTimesOut(r) \/ TurnedAway(r)
    BY <2>1 DEF PutDetails, PutGithub, PostResume, PostPreInterview, RequestPlan, PostGap,
                PostCompanyIntel, GetCoach, Arrives, SessionCompletes, ClientTimesOut, TurnedAway
  <2>2. CASE \/ SaveDetails(r) \/ SaveGithub(r) \/ PutResume(r) \/ SaveResume(r)
             \/ ReadProfile(r) \/ LoadPlannerInputs(r) \/ GetCachedPlan(r)
    BY <2>2 DEF SaveDetails, SaveGithub, PutResume, SaveResume, ReadProfile, LoadPlannerInputs,
                GetCachedPlan
  <2>3. CASE \/ RunPlanner(r) \/ PutCachedPlan(r) \/ ReadRows(r) \/ GetCachedCoach(r)
             \/ RunCoachAgent(r) \/ PutCachedCoach(r) \/ PutSessionSummary(r)
    BY <2>3 DEF RunPlanner, PutCachedPlan, ReadRows, GetCachedCoach, RunCoachAgent,
                PutCachedCoach, PutSessionSummary
  <2> QED
    BY <1>6, <2>1, <2>2, <2>3 DEF RequestStep
<1>7. ASSUME NEW p \in Process, SpendStep(p)
      PROVE  ClaimSessionAgentRun(p) \/ UNCHANGED <<meta, briefed, shown>>
  BY <1>7 DEF SpendStep, AddCall, RollDay, RunGapAgent, RunCompanyIntelAgent, PutGapAnalysis,
              PutCompanyIntel, PutOutput, CallFails
<1>8. CASE Midnight
  BY <1>1, <1>8 DEF Midnight
<1> QED
  BY <1>1, <1>2, <1>3, <1>4, <1>5, <1>6, <1>7, <1>8 DEF RequestNext

\* Of the plan requests that wait to be made, a step makes one at most; while it
\* makes none, the page takes no session for planned twice.
LEMMA OneRequestComes ==
  ASSUME RequestTypeOK, ProcessesAreSound, RequestNext
  PROVE  \/ \E r \in Request : RequestPlan(r)
         \/ /\ UNCHANGED overlapped
            /\ \A w \in Request : At(w, "idle") /\ proc[w].kind = "plan"
                                  => proc'[w] \in {proc[w], Done(w)}
<1> USE RequestTypesOf DEF items, history, Bookkeeping, Uncounted
<1>0. proc \in [Process -> Locals] /\ Request \subseteq Process
  BY DEF RequestTypeOK
<1> DEFINE Waits == /\ UNCHANGED overlapped
                      /\ \A w \in Request : At(w, "idle") /\ proc[w].kind = "plan"
                                            => proc'[w] \in {proc[w], Done(w)}
<1>1. ASSUME NEW p \in Process, ~At(p, "idle") \/ proc[p].kind # "plan",
             \A w \in Process : w # p => proc'[w] = proc[w], UNCHANGED overlapped
      PROVE  Waits
  BY <1>0, <1>1
<1>2. ASSUME NEW p \in Process, Ends(p) \/ \E step : Goto(p, step)
      PROVE  \A w \in Process : w # p => proc'[w] = proc[w]
  BY <1>0, <1>2 DEF Ends, Goto
<1>3. ASSUME NEW r \in Request, RequestStep(r), ~RequestPlan(r)
      PROVE  Waits
  <2>1. CASE \/ PutDetails(r) \/ PutGithub(r) \/ PostResume(r) \/ PostPreInterview(r)
             \/ PostGap(r) \/ PostCompanyIntel(r) \/ GetCoach(r)
    <3>1. proc[r].kind # "plan" /\ UNCHANGED overlapped
          /\ \A w \in Process : w # r => proc'[w] = proc[w]
      BY <1>0, <2>1 DEF PutDetails, PutGithub, PostResume, PostPreInterview, PostGap,
                        PostCompanyIntel, GetCoach, Arrives
    <3> QED
      BY <1>0, <1>1, <3>1
  <2>2. CASE SessionCompletes(r) \/ ClientTimesOut(r)
    <3>1. (proc[r].kind # "plan" \/ ~At(r, "idle")) /\ UNCHANGED overlapped
          /\ \A w \in Process : w # r => proc'[w] = proc[w]
      BY <1>0, <2>2 DEF SessionCompletes, ClientTimesOut, Arrived, At
    <3> QED
      BY <1>0, <1>1, <3>1
  <2>3. CASE \/ SaveDetails(r) \/ SaveGithub(r) \/ PutResume(r) \/ SaveResume(r)
             \/ ReadProfile(r) \/ CreateSession(r) \/ LoadPlannerInputs(r) \/ GetCachedPlan(r)
    <3>1. ~At(r, "idle") /\ UNCHANGED overlapped
          /\ \A w \in Process : w # r => proc'[w] = proc[w]
      BY <1>0, <1>2, <2>3 DEF SaveDetails, SaveGithub, PutResume, SaveResume, ReadProfile,
                              CreateSession, LoadPlannerInputs, GetCachedPlan, At
    <3> QED
      BY <1>0, <1>1, <3>1
  <2>4. CASE \/ RunPlanner(r) \/ PutCachedPlan(r) \/ ReadRows(r) \/ GetCachedCoach(r)
             \/ RunCoachAgent(r) \/ PutCachedCoach(r) \/ PutSessionSummary(r)
    <3>1. ~At(r, "idle") /\ UNCHANGED overlapped
          /\ \A w \in Process : w # r => proc'[w] = proc[w]
      BY <1>0, <1>2, <2>4 DEF RunPlanner, PutCachedPlan, ReadRows, GetCachedCoach, RunCoachAgent,
                              PutCachedCoach, PutSessionSummary, At
    <3> QED
      BY <1>0, <1>1, <3>1
  <2>5. CASE AttachPlan(r)
    <3>1. ~At(r, "idle") /\ UNCHANGED overlapped
      BY <2>5 DEF AttachPlan, At
    <3>2. ASSUME NEW w \in Request, w # r
          PROVE  proc'[w] = proc[w]
      <4>1. CASE Ends(r)
        BY <1>0, <1>2, <3>2, <4>1
      <4>2. CASE ~Ends(r)
        <5>1. proc' = Started(r)
          BY <2>5, <4>2 DEF AttachPlan, Attached
        <5>2. ~\E a \in proc[r].post : w = <<r, a>>
          <6>1. \A a \in proc[r].post : <<r, a>> \in Task
            BY <1>0 DEF Task
          <6> QED
            BY <6>1, RequestAssumption
        <5> QED
          BY <1>0, <3>2, <5>1, <5>2 DEF Started
      <4> QED
        BY <4>1, <4>2
    <3> QED
      BY <3>1, <3>2
  <2>6. CASE TurnedAway(r)
    <3>1. UNCHANGED overlapped /\ \A w \in Request : proc'[w] \in {proc[w], Done(w)}
      BY <1>0, <2>6 DEF TurnedAway, Ends
    <3> QED
      BY <3>1
  <2> QED
    BY <1>3, <2>1, <2>2, <2>3, <2>4, <2>5, <2>6 DEF RequestStep
<1>4. ASSUME NEW p \in Process, SpendStep(p)
      PROVE  Waits
  <2>1. CASE \/ ClaimSessionAgentRun(p) \/ AddCall(p) \/ RollDay(p) \/ RunGapAgent(p)
             \/ RunCompanyIntelAgent(p) \/ PutGapAnalysis(p) \/ PutCompanyIntel(p)
    <3>1. ~At(p, "idle") /\ UNCHANGED overlapped
          /\ \A w \in Process : w # p => proc'[w] = proc[w]
      BY <1>0, <1>2, <2>1 DEF ClaimSessionAgentRun, AddCall, RollDay, Rolled, Granted, RunGapAgent,
                              RunCompanyIntelAgent, PutGapAnalysis, PutCompanyIntel, PutOutput, At
    <3> QED
      BY <1>1, <3>1
  <2>2. CASE CallFails(p)
    <3>1. ~At(p, "idle") /\ UNCHANGED overlapped
          /\ \A w \in Process : w # p => proc'[w] = proc[w]
      BY <1>0, <1>2, <2>2 DEF CallFails, Arrived, At
    <3> QED
      BY <1>1, <3>1
  <2> QED
    BY <1>4, <2>1, <2>2 DEF SpendStep
<1>5. ASSUME NEW s \in Session, StartInterview(s)
      PROVE  Waits
  BY <1>5 DEF StartInterview
<1>6. Midnight => Waits
  BY DEF Midnight
<1> QED
  BY <1>3, <1>4, <1>5, <1>6 DEF RequestNext

\* Who has read its session either found it there or has it from one who had.
LEMMA LoadedBefore ==
  ASSUME RequestTypeOK, ProcessesAreSound, RequestNext, NEW p \in Process, HasLoaded(p)'
  PROVE  \/ Replannable(proc'[p].s)
         \/ \E w \in Process : HasLoaded(w) /\ proc[w].s = proc'[p].s
<1>1. /\ Moves(p) /\ proc[p].kind \in Kind /\ proc[p].s \in Session
      /\ proc[p].pc \in Step /\ KeepsToItsKind(p)
  BY ProcessesMove, RequestTypesOf DEF ProcessesAreSound
<1>2. CASE proc'[p] = proc[p]
  BY <1>2 DEF HasLoaded, Arrived, At
<1>3. CASE proc'[p] = Done(p)
  BY <1>3 DEF Done, Idle, HasLoaded, Arrived
<1>4. CASE Arrived(p) /\ Advances(proc[p], proc'[p])
  <2>1. proc'[p].s = proc[p].s /\ proc[p].kind \in {"plan", "gap", "intel"}
    BY <1>4 DEF HasLoaded, Advances
  <2>2. CASE At(p, "load")
    BY <1>4, <2>1, <2>2 DEF Advances, At, HasLoaded
  <2>3. CASE ~At(p, "load")
    BY <1>4, <2>1, <2>3 DEF HasLoaded
  <2> QED
    BY <2>2, <2>3
<1>5. CASE Comes(proc[p], proc'[p])
  BY <1>1, <1>5, StepsByKind DEF Comes, HasLoaded, At
<1>6. CASE \E r \in Request : Begins(proc[r], proc'[p])
  <2>1. PICK r \in Request : Begins(proc[r], proc'[p])
    BY <1>6
  <2>2. r \in Process /\ At(r, "attach") /\ proc'[p].s = proc[r].s
    BY <2>1, RequestTypesOf DEF Begins, At
  <2>3. HasLoaded(r)
    BY <2>2, KindAtStep, StepsByKind DEF HasLoaded, At, Arrived
  <2> QED
    BY <2>2, <2>3
<1> QED
  BY <1>1, <1>2, <1>3, <1>4, <1>5, <1>6 DEF Moves

\* The plan cache changes when a plan request keeps its plan.
LEMMA PlanItemMoves ==
  ASSUME RequestTypeOK, RequestNext
  PROVE  \/ UNCHANGED plans
         \/ \E r \in Request :
              /\ At(r, "keep")
              /\ plans' = [plan |-> proc[r].plan, ver |-> proc[r].ver, role |-> proc[r].role]
<1> USE DEF items, Bookkeeping, Uncounted
<1>1. ASSUME NEW r \in Request, PutCachedPlan(r)
      PROVE  At(r, "keep")
             /\ plans' = [plan |-> proc[r].plan, ver |-> proc[r].ver, role |-> proc[r].role]
  BY <1>1 DEF PutCachedPlan
<1>2. ASSUME NEW r \in Request,
             \/ SaveDetails(r) \/ SaveGithub(r) \/ PutResume(r) \/ SaveResume(r)
             \/ CreateSession(r) \/ AttachPlan(r) \/ PutCachedCoach(r) \/ PutSessionSummary(r)
      PROVE  UNCHANGED plans
  BY <1>2 DEF SaveDetails, SaveGithub, PutResume, SaveResume, CreateSession, AttachPlan,
              PutCachedCoach, PutSessionSummary
<1>3. ASSUME NEW p \in Process,
             \/ ClaimSessionAgentRun(p) \/ AddCall(p) \/ RollDay(p) \/ PutOutput(p, "gap")
             \/ PutOutput(p, "intel")
      PROVE  UNCHANGED plans
  BY <1>3 DEF ClaimSessionAgentRun, AddCall, RollDay, PutOutput
<1>4. ASSUME NEW s \in Session, StartInterview(s)
      PROVE  UNCHANGED plans
  BY <1>4 DEF StartInterview
<1>5. CASE Counting \/ UNCHANGED <<items, granted, straddled, briefed, saved, begun, late>>
  BY <1>5 DEF Counting
<1> QED
  BY <1>1, <1>2, <1>3, <1>4, <1>5, OnlyTheseWrite DEF Writing

\* A plan request that plans is past its load and keeps what it found there.
LEMMA PlannerAt ==
  ASSUME RequestTypeOK, ProcessesAreSound, NEW p \in Process, NEW step \in {"keep", "attach"},
         At(p, step), PlansFit
  PROVE  /\ proc[p].kind = "plan" /\ proc[p].plan # None /\ Plans(p)
         /\ proc[p].plan.mat = proc[p].mat /\ proc[p].plan.role = proc[p].role
<1>1. proc[p].kind = "plan"
  BY KindAtStep, StepsByKind
<1>2. proc[p].plan # None
  BY DEF ProcessesAreSound, KeepsToItsKind, At
<1> QED
  BY <1>1, <1>2 DEF PlansFit

\* SessionsAreMadeOnce through a step of a request.
LEMMA MadeOnceByRequests ==
  ASSUME RequestTypeOK, ProcessesAreSound, RequestNext, SessionsAreMadeOnce
  PROVE  SessionsAreMadeOnce'
<1>1. ASSUME NEW s \in Session, meta'[s].status = "none"
      PROVE  meta'[s] = NoMeta
  <2>1. Steady(s) \/ Created(s) \/ Replanned(s) \/ Interviewed(s)
    BY SessionsMove
  <2>2. meta'[s] = meta[s]
    BY <1>1, <2>1 DEF Steady, Created, Replanned, Interviewed, Sets
  <2> QED
    BY <1>1, <2>2 DEF SessionsAreMadeOnce
<1>2. ASSUME NEW r \in Request,
             \/ meta'[r].status # "none" \/ shown'[r] # None \/ briefed'[r] # None
             \/ \E p \in Process : HasLoaded(p)' /\ proc'[p].s = r
      PROVE  At(r, "done")'
  <2>0. r \in Session
    BY DEF Session
  <2>1. At(r, "done") => At(r, "done")'
    BY DoneIsDone DEF Finished
  <2>2. CASE meta'[r].status # "none" \/ shown'[r] # None \/ briefed'[r] # None
    <3>1. Steady(r) \/ Created(r) \/ Replanned(r) \/ Interviewed(r)
      BY <2>0, SessionsMove
    <3>2. CASE Steady(r)
      <4>1. meta[r].status # "none" \/ shown[r] # None \/ briefed[r] # None
        BY <2>2, <3>2 DEF Steady
      <4> QED
        BY <2>1, <4>1 DEF SessionsAreMadeOnce
    <3>3. CASE Created(r)
      BY <3>3 DEF Created
    <3>4. CASE Replanned(r) \/ Interviewed(r)
      <4>1. meta[r].status # "none"
        BY <3>4 DEF Replanned, Interviewed, Replannable
      <4> QED
        BY <2>1, <4>1 DEF SessionsAreMadeOnce
    <3> QED
      BY <3>1, <3>2, <3>3, <3>4
  <2>3. CASE \E p \in Process : HasLoaded(p)' /\ proc'[p].s = r
    <3>1. \/ Replannable(r)
          \/ \E w \in Process : HasLoaded(w) /\ proc[w].s = r
      BY <2>3, LoadedBefore
    <3> QED
      BY <2>1, <3>1 DEF SessionsAreMadeOnce, Replannable
  <2> QED
    BY <1>2, <2>2, <2>3
<1> QED
  BY <1>1, <1>2 DEF SessionsAreMadeOnce

\* VersionsHold through a step of a request.
LEMMA VersionsHeldByRequests ==
  ASSUME TypeOK, ProcessesAreSound, RequestNext, UNCHANGED erasureVars, VersionsHold, PlansFit
  PROVE  VersionsHold'
<1> DEFINE Kept(ver, mat) == saved'[ver] = mat /\ (NotDeleting' => ver <= profile'.ver)
<1>0. RequestTypeOK
  BY DEF TypeOK
<1>1. /\ \A ver \in Version : \A mat : Known(ver, mat) => Kept(ver, mat)
      /\ NotDeleting' => saved'[profile'.ver] = profile'.mat
  BY KnownStays DEF Next, Known
<1>2. /\ 0 \in Version /\ profile.ver \in Version /\ \A s \in Session : meta[s].ver \in Version
      /\ \A p \in Process : proc[p].ver \in Version
      /\ \A v \in Version : v \in Nat
  BY <1>0, BlankRecords, RequestTypesOf DEF Version
<1>3. Kept(0, None)
  BY <1>1, <1>2 DEF VersionsHold
<1>4. \A s \in Session : Kept(meta[s].ver, meta[s].mat)
  BY <1>1, <1>2 DEF VersionsHold
<1>5. \A p \in Process : proc[p].kind # "coach" => Kept(proc[p].ver, proc[p].mat)
  BY <1>1, <1>2 DEF VersionsHold
<1>6. profile.status = "active" => Kept(profile.ver, profile.mat)
  <2>1. profile.status = "active" => Known(profile.ver, profile.mat)
    BY <1>2 DEF VersionsHold, Known, NotDeleting, Marked
  <2> QED
    BY <1>1, <1>2, <2>1
<1> HIDE DEF Kept
<1>7. ASSUME NEW s \in Session
      PROVE  Kept(meta'[s].ver, meta'[s].mat)
  <2>1. Steady(s) \/ Created(s) \/ Replanned(s) \/ Interviewed(s)
    BY <1>0, SessionsMove
  <2>2. CASE Steady(s) \/ Replanned(s) \/ Interviewed(s)
    <3>1. meta'[s].ver = meta[s].ver /\ meta'[s].mat = meta[s].mat
      BY <2>2 DEF Steady, Replanned, Interviewed, Sets
    <3> QED
      BY <1>4, <3>1
  <2>3. CASE Created(s)
    <3>1. /\ s \in Process /\ At(s, "create")
          /\ meta'[s].ver = proc[s].ver /\ meta'[s].mat = proc[s].mat
      BY <1>0, <2>3, RequestTypesOf DEF Created, Sets
    <3>2. proc[s].kind # "coach"
      BY <1>0, <3>1, KindAtStep, StepsByKind
    <3> QED
      BY <1>5, <3>1, <3>2
  <2> QED
    BY <2>1, <2>2, <2>3
<1>8. ASSUME NEW p \in Process, proc'[p].kind # "coach"
      PROVE  Kept(proc'[p].ver, proc'[p].mat)
  <2>1. Moves(p) /\ proc[p].kind \in Kind /\ proc[p].s \in Session
    BY <1>0, ProcessesMove, RequestTypesOf
  <2>2. CASE proc'[p] = proc[p]
    BY <1>5, <1>8, <2>2
  <2>3. CASE proc'[p] = Done(p)
    <3>1. proc'[p].ver = 0 /\ proc'[p].mat = None
      BY <2>3 DEF Done, Idle
    <3> QED
      BY <1>3, <3>1
  <2>4. CASE Advances(proc[p], proc'[p])
    <3>1. proc[p].kind # "coach"
      BY <1>8, <2>4 DEF Advances
    <3>2. ~At(p, "rows")
      BY <1>0, <2>1, <3>1, KindAtStep, StepsByKind
    <3>3. \/ proc'[p].ver = proc[p].ver /\ proc'[p].mat = proc[p].mat
          \/ /\ profile.status = "active"
             /\ proc'[p].ver = profile.ver /\ proc'[p].mat = profile.mat
          \/ proc'[p].ver = meta[proc[p].s].ver /\ proc'[p].mat = meta[proc[p].s].mat
      BY <2>4, <3>2 DEF Advances, Holding, At
    <3> QED
      BY <1>4, <1>5, <1>6, <2>1, <3>1, <3>3
  <2>5. CASE Comes(proc[p], proc'[p])
    BY <1>3, <2>5 DEF Comes
  <2>6. CASE \E r \in Request : Begins(proc[r], proc'[p])
    <3>1. PICK r \in Request : Begins(proc[r], proc'[p])
      BY <2>6
    <3>2. /\ r \in Process /\ At(r, "attach")
          /\ proc'[p].ver = proc[r].ver /\ proc'[p].mat = proc[r].mat
      BY <1>0, <3>1, RequestTypesOf DEF Begins, At
    <3>3. proc[r].kind # "coach"
      BY <1>0, <3>2, KindAtStep, StepsByKind
    <3> QED
      BY <1>5, <3>2, <3>3
  <2> QED
    BY <2>1, <2>2, <2>3, <2>4, <2>5, <2>6 DEF Moves
<1>9. ASSUME plans' # None
      PROVE  Kept(plans'.ver, plans'.plan.mat) /\ plans'.plan.role = plans'.role
  <2>1. CASE UNCHANGED plans
    <3>1. Known(plans.ver, plans.plan.mat) /\ plans.plan.role = plans.role /\ plans.ver \in Version
      BY <1>0, <1>9, <2>1 DEF VersionsHold, RequestTypeOK, CachedPlan
    <3> QED
      BY <1>1, <2>1, <3>1 DEF Kept
  <2>2. ASSUME NEW r \in Request, At(r, "keep"),
               plans' = [plan |-> proc[r].plan, ver |-> proc[r].ver, role |-> proc[r].role]
        PROVE  Kept(plans'.ver, plans'.plan.mat) /\ plans'.plan.role = plans'.role
    <3>1. /\ proc[r].kind = "plan" /\ proc[r].plan.mat = proc[r].mat
          /\ proc[r].plan.role = proc[r].role /\ r \in Process
      BY <1>0, <2>2, PlannerAt, RequestTypesOf
    <3>2. plans'.plan = proc[r].plan /\ plans'.ver = proc[r].ver /\ plans'.role = proc[r].role
      BY ONLY <2>2
    <3> QED
      BY <1>5, <3>1, <3>2
  <2> QED
    BY <1>0, <2>1, <2>2, PlanItemMoves
<1> QED
  BY <1>1, <1>3, <1>7, <1>8, <1>9 DEF VersionsHold, Known, Kept

\* PlansFit through a step of a request.
LEMMA PlansFitByRequests ==
  ASSUME TypeOK, ProcessesAreSound, RequestNext, SessionsAreMadeOnce, VersionsHold, PlansFit
  PROVE  PlansFit'
<1>0. RequestTypeOK
  BY DEF TypeOK
<1>1. ASSUME NEW s \in Session, meta'[s].plan # None
      PROVE  meta'[s].plan.mat = meta'[s].mat /\ meta'[s].plan.role = meta'[s].role
  <2>1. Steady(s) \/ Created(s) \/ Replanned(s) \/ Interviewed(s)
    BY <1>0, SessionsMove
  <2>2. CASE Steady(s) \/ Interviewed(s)
    <3>1. /\ meta'[s].plan = meta[s].plan /\ meta'[s].mat = meta[s].mat
          /\ meta'[s].role = meta[s].role
      BY <2>2 DEF Steady, Interviewed, Sets
    <3> QED
      BY <1>1, <3>1 DEF PlansFit, PlanFitsSession
  <2>3. CASE Created(s)
    BY <1>1, <2>3 DEF Created, Sets
  <2>4. CASE Replanned(s)
    <3>1. PICK r \in Request :
            /\ At(r, "attach") /\ proc[r].s = s /\ Replannable(s)
            /\ Sets(s, "ready", meta[s].ver, meta[s].mat, proc[r].plan, proc[r].role)
      BY <2>4 DEF Replanned
    <3>2. /\ Plans(r) /\ proc[r].plan.mat = proc[r].mat /\ proc[r].plan.role = proc[r].role
          /\ r \in Process
      BY <1>0, <3>1, PlannerAt, RequestTypesOf
    <3>3. meta[s].mat = proc[r].mat
      BY <3>1, <3>2 DEF PlansFit, Replannable
    <3> QED
      BY <3>1, <3>2, <3>3 DEF Sets
  <2> QED
    BY <2>1, <2>2, <2>3, <2>4
<1>2. ASSUME NEW p \in Process, proc'[p].kind = "plan", proc'[p].plan # None
      PROVE  /\ Plans(p)' /\ proc'[p].plan.mat = proc'[p].mat
             /\ proc'[p].plan.role = proc'[p].role
  <2>1. Moves(p) /\ proc[p].kind \in Kind /\ proc[p].s \in Session /\ proc[p].pc \in Step
    BY <1>0, ProcessesMove, RequestTypesOf
  <2>2. CASE proc'[p] = proc[p]
    BY <1>2, <2>2 DEF PlansFit, Plans, HasLoaded, Arrived, At
  <2>3. CASE proc'[p] = Done(p)
    BY <1>2, <2>3 DEF Done, Idle
  <2>4. CASE Arrived(p) /\ Advances(proc[p], proc'[p])
    <3>1. /\ proc[p].kind = "plan" /\ proc'[p].role = proc[p].role
          /\ proc[p].plan # None =>
               /\ Plans(p) /\ proc[p].plan.mat = proc[p].mat /\ proc[p].plan.role = proc[p].role
      BY <1>2, <2>4 DEF Advances, PlansFit
    <3>2. ~At(p, "read") /\ ~At(p, "rows") /\ (At(p, "load") => proc[p].plan = None)
      BY <1>0, <2>1, <3>1, KindAtStep, StepsByKind DEF Plans, HasLoaded
    <3>3. proc'[p].pc \notin {"idle", "done", "load"}
      BY <1>2, <2>1, <2>4, <3>2 DEF Advances, Holding, Arrived, At
    <3>4. Plans(p)'
      BY <1>2, <3>3 DEF Plans, HasLoaded, Arrived, At
    <3>5. CASE proc'[p].plan = proc[p].plan /\ proc'[p].mat = proc[p].mat
      BY <1>2, <3>1, <3>4, <3>5
    <3>6. CASE /\ plans # None /\ plans.ver = proc[p].ver /\ plans.role = proc[p].role
               /\ proc'[p].plan = plans.plan /\ proc'[p].mat = proc[p].mat
      <4>1. saved[proc[p].ver] = proc[p].mat
        BY <3>1 DEF VersionsHold, Known
      <4>2. saved[plans.ver] = plans.plan.mat /\ plans.plan.role = plans.role
        BY <3>6 DEF VersionsHold, Known
      <4> QED
        BY <3>1, <3>4, <3>6, <4>1, <4>2
    <3>7. CASE /\ proc'[p].mat = proc[p].mat /\ proc'[p].plan.mat = proc[p].mat
               /\ proc'[p].plan.role = proc[p].role
      BY <3>1, <3>4, <3>7
    <3> QED
      BY <1>2, <2>4, <3>2, <3>5, <3>6, <3>7 DEF Advances, Holding, At
  <2>5. CASE Comes(proc[p], proc'[p])
    BY <1>2, <2>5 DEF Comes
  <2>6. CASE \E r \in Request : Begins(proc[r], proc'[p])
    BY <1>2, <2>6 DEF Begins
  <2> QED
    BY <2>1, <2>2, <2>3, <2>4, <2>5, <2>6 DEF Moves
<1>3. ASSUME NEW p \in Process, NEW s \in Session, Plans(p)', proc'[p].s = s,
             meta'[s].status # "none"
      PROVE  meta'[s].mat = proc'[p].mat
  <2>1. /\ Moves(p) /\ proc[p].kind \in Kind /\ proc[p].pc \in Step
        /\ HasLoaded(p)' /\ proc'[p].kind = "plan" /\ proc'[p].s = s
    BY <1>0, <1>3, ProcessesMove, RequestTypesOf DEF Plans
  <2>2. Steady(s) \/ Created(s) \/ Replanned(s) \/ Interviewed(s)
    BY <1>0, <2>1, SessionsMove
  <2>3. ~Created(s)
    <3>1. SUFFICES ASSUME Created(s)
                   PROVE  FALSE
      OBVIOUS
    <3>2. s \in Request /\ At(s, "create")
      BY <3>1 DEF Created
    <3>3. At(s, "done")
      BY <1>0, <2>1, <3>2, LoadedBefore DEF SessionsAreMadeOnce, Replannable
    <3> QED
      BY <3>2, <3>3 DEF At
  <2>4. meta[s].status # "none" /\ meta'[s].mat = meta[s].mat
    BY <1>3, <2>2, <2>3 DEF Steady, Replanned, Replannable, Interviewed, Sets
  <2>5. CASE proc'[p] = proc[p]
    <3>1. Plans(p)
      BY <1>3, <2>5 DEF Plans, HasLoaded, Arrived, At
    <3> QED
      BY <2>1, <2>4, <2>5, <3>1 DEF PlansFit
  <2>6. CASE proc'[p] = Done(p)
    BY <2>1, <2>6 DEF Done, Idle, HasLoaded, Arrived
  <2>7. CASE Arrived(p) /\ Advances(proc[p], proc'[p])
    <3>1. proc[p].kind = "plan" /\ proc[p].s = s
      BY <2>1, <2>7 DEF Advances
    <3>2. ~At(p, "read") /\ ~At(p, "rows")
      BY <1>0, <2>1, <3>1, KindAtStep, StepsByKind
    <3>3. CASE At(p, "load")
      <4>1. proc'[p].pc # "load"
        BY <2>1 DEF HasLoaded, At
      <4>2. proc'[p].mat = meta[s].mat
        BY <2>7, <3>1, <3>3, <4>1 DEF Advances, At
      <4> QED
        BY <2>4, <4>2
    <3>4. CASE ~At(p, "load")
      <4>1. Plans(p)
        BY <2>7, <3>1, <3>4 DEF Plans, HasLoaded
      <4>2. proc'[p].mat = proc[p].mat
        BY <2>7, <3>2, <3>4 DEF Advances, Holding, At
      <4> QED
        BY <2>4, <3>1, <4>1, <4>2 DEF PlansFit
    <3> QED
      BY <3>3, <3>4
  <2>8. CASE Comes(proc[p], proc'[p])
    BY <2>1, <2>8, StepsByKind DEF Comes, HasLoaded, At
  <2>9. CASE \E r \in Request : Begins(proc[r], proc'[p])
    BY <2>1, <2>9 DEF Begins
  <2> QED
    BY <2>1, <2>5, <2>6, <2>7, <2>8, <2>9 DEF Moves
<1>4. \A p \in Process : proc'[p].s \in Session
  BY <1>0, RequestTypesStay DEF RequestTypeOK, Locals
<1> QED
  BY <1>1, <1>2, <1>3, <1>4 DEF PlansFit, PlanFitsSession

\* OnePlanAtATime and InterviewRunsShownPlan through a step of a request.
LEMMA OnePlanByRequests ==
  ASSUME RequestTypeOK, ProcessesAreSound, RequestNext, SessionsAreMadeOnce, PlansFit,
         OnePlanAtATime, InterviewRunsShownPlan
  PROVE  OnePlanAtATime' /\ InterviewRunsShownPlan'
<1>1. ASSUME NEW r \in Request, RequestPlan(r), NEW s \in Session, s \notin overlapped'
      PROVE  /\ \A p, q \in InFlight(s)' : p = q
             /\ shown'[s] # None =>
                  InFlight(s)' = {} /\ (meta'[s].status # "none" => meta'[s].plan = shown'[s])
  <2>1. PICK t \in Session, role \in Role, post \in Postings :
          /\ OffersPlan(t)
          /\ Arrives(r, "plan", [First("load") EXCEPT !.s = t, !.role = role, !.post = post,
                                                      !.heard = TRUE])
          /\ overlapped' = IF InFlight(t) # {} THEN overlapped \cup {t} ELSE overlapped
    BY <1>1 DEF RequestPlan
  <2> DEFINE q == [[First("load") EXCEPT !.s = t, !.role = role, !.post = post, !.heard = TRUE]
                     EXCEPT !.kind = "plan", !.astray = (profile.status = "erased")]
  <2>2. /\ UNCHANGED <<meta, shown>> /\ shown[t] = None /\ At(r, "idle")
        /\ proc' = [proc EXCEPT ![r] = q]
    BY <2>1 DEF OffersPlan, Arrives, items
  <2>3. q.s = t
    BY DEF First, Idle
  <2> HIDE DEF q
  <2>4. /\ \A w \in Request : w # r => proc'[w] = proc[w]
        /\ proc'[r].s = t
    BY <2>2, <2>3, RequestTypesOf DEF RequestTypeOK
  <2>5. InFlight(s)' \subseteq InFlight(s) \cup {x \in {r} : s = t}
    BY <2>4 DEF InFlight, Arrived
  <2>6. s \notin overlapped /\ (s = t => InFlight(s) = {})
    BY <1>1, <2>1
  <2> QED
    BY <2>2, <2>5, <2>6 DEF OnePlanAtATime
<1>2. ASSUME UNCHANGED overlapped,
             \A w \in Request : At(w, "idle") /\ proc[w].kind = "plan"
                                 => proc'[w] \in {proc[w], Done(w)},
             NEW s \in Session, s \notin overlapped'
      PROVE  /\ \A p, q \in InFlight(s)' : p = q
             /\ shown'[s] # None =>
                  InFlight(s)' = {} /\ (meta'[s].status # "none" => meta'[s].plan = shown'[s])
  <2>1. ASSUME NEW p \in InFlight(s)'
        PROVE  p \in InFlight(s)
    <3>1. p \in Request /\ Arrived(p)' /\ proc'[p].kind = "plan" /\ proc'[p].s = s
      BY <2>1 DEF InFlight
    <3>2. Moves(p)
      BY <3>1, ProcessesMove, RequestTypesOf
    <3>3. CASE proc'[p] = proc[p]
      BY <3>1, <3>3 DEF InFlight, Arrived
    <3>4. CASE proc'[p] = Done(p)
      BY <3>1, <3>4 DEF Done, Idle, Arrived
    <3>5. CASE Arrived(p) /\ Advances(proc[p], proc'[p])
      BY <3>1, <3>5 DEF InFlight, Advances
    <3>6. CASE Comes(proc[p], proc'[p])
      BY <1>2, <3>1, <3>6 DEF Comes, At, Arrived, Done, Idle
    <3> QED
      BY <3>1, <3>2, <3>3, <3>4, <3>5, <3>6 DEF Moves
  <2>2. /\ \A p, q \in InFlight(s) : p = q
        /\ shown[s] # None =>
             InFlight(s) = {} /\ (meta[s].status # "none" => meta[s].plan = shown[s])
    BY <1>2 DEF OnePlanAtATime
  <2>3. ASSUME shown'[s] # None
        PROVE  InFlight(s)' = {} /\ (meta'[s].status # "none" => meta'[s].plan = shown'[s])
    <3>1. Steady(s) \/ Created(s) \/ Replanned(s) \/ Interviewed(s)
      BY SessionsMove
    <3>2. CASE Steady(s)
      <4>1. shown'[s] = shown[s] /\ meta'[s].plan = meta[s].plan
            /\ meta'[s].status = meta[s].status
        BY <3>2 DEF Steady, Sets
      <4> QED
        BY <2>1, <2>2, <2>3, <4>1
    <3>3. CASE Created(s)
      <4>1. s \in Request /\ At(s, "create") /\ shown[s] # None
        BY <2>3, <3>3 DEF Created
      <4>2. At(s, "done")
        BY <4>1 DEF SessionsAreMadeOnce
      <4> QED
        BY <4>1, <4>2 DEF At
    <3>4. CASE Replanned(s)
      <4>1. PICK r \in Request :
              /\ At(r, "attach") /\ proc[r].s = s /\ At(r, "done")'
              /\ meta'[s].plan = proc[r].plan
              /\ shown'[s] = proc[r].plan \/ shown'[s] = shown[s]
        BY <3>4 DEF Replanned, Sets
      <4>2. r \in InFlight(s)
        BY <4>1, PlannerAt, RequestTypesOf DEF InFlight, Arrived, At
      <4>3. shown[s] = None /\ shown'[s] = meta'[s].plan
        BY <2>2, <2>3, <4>1, <4>2
      <4>4. InFlight(s)' \subseteq {r} /\ r \notin InFlight(s)'
        BY <2>1, <2>2, <4>1, <4>2 DEF InFlight, Arrived, At
      <4> QED
        BY <4>3, <4>4
    <3>5. CASE Interviewed(s)
      <4>1. shown'[s] = shown[s] /\ meta'[s].plan = meta[s].plan /\ meta[s].status # "none"
        BY <3>5 DEF Interviewed, Sets
      <4> QED
        BY <2>1, <2>2, <2>3, <4>1
    <3> QED
      BY <3>1, <3>2, <3>3, <3>4, <3>5
  <2> QED
    BY <2>1, <2>2, <2>3
<1>3. overlapped \subseteq overlapped'
  BY OneRequestComes DEF RequestPlan
<1>4. ASSUME NEW s \in Session, briefed'[s] # None, meta'[s].status # "none"
      PROVE  /\ meta'[s].status = "in_progress" /\ meta'[s].plan = briefed'[s]
             /\ s \in overlapped' \/ briefed'[s] = shown'[s]
  <2>1. Steady(s) \/ Created(s) \/ Replanned(s) \/ Interviewed(s)
    BY SessionsMove
  <2>2. CASE Steady(s)
    <3>1. /\ briefed'[s] = briefed[s] /\ shown'[s] = shown[s] /\ meta'[s].plan = meta[s].plan
          /\ meta'[s].status = meta[s].status
      BY <2>2 DEF Steady, Sets
    <3> QED
      BY <1>3, <1>4, <3>1 DEF InterviewRunsShownPlan
  <2>3. CASE Created(s)
    <3>1. s \in Request /\ At(s, "create") /\ briefed[s] # None
      BY <1>4, <2>3 DEF Created
    <3>2. At(s, "done")
      BY <3>1 DEF SessionsAreMadeOnce
    <3> QED
      BY <3>1, <3>2 DEF At
  <2>4. CASE Replanned(s)
    <3>1. Replannable(s) /\ briefed[s] # None
      BY <1>4, <2>4 DEF Replanned
    <3> QED
      BY <3>1 DEF Replannable, InterviewRunsShownPlan
  <2>5. CASE Interviewed(s)
    <3>1. /\ meta'[s].status = "in_progress" /\ meta'[s].plan = meta[s].plan
          /\ briefed'[s] = meta[s].plan /\ shown'[s] = shown[s] /\ shown[s] # None
          /\ meta[s].status # "none"
      BY <2>5 DEF Interviewed, Sets
    <3> QED
      BY <1>3, <3>1 DEF OnePlanAtATime
  <2> QED
    BY <2>1, <2>2, <2>3, <2>4, <2>5
<1>5. OnePlanAtATime'
  BY <1>1, <1>2, OneRequestComes DEF OnePlanAtATime
<1> QED
  BY <1>4, <1>5 DEF InterviewRunsShownPlan

\* An erasure takes sessions and the cached plan away and touches no process.
LEMMA PlansFitByErasure ==
  ASSUME TypeOK, ProcessesAreSound, ErasureNext, PlansStayFit
  PROVE  PlansStayFit'
<1>1. /\ \A s \in Session : meta'[s] \in {meta[s], NoMeta}
      /\ UNCHANGED <<proc, shown, overlapped, briefed, saved>>
  BY Erased, ErasureLeaves
<1>2. plans' \in {None, plans}
  BY DEF ErasureNext, MarkProfileDeleting, ListUserSessionIds, QuerySession, DeleteKeys,
         DeleteUserSessionRefs, DeleteSessionSummaries, DeleteResume, DeleteProfileItem,
         PutTombstone, DeleteCognitoUser, ErasureFails, items
<1>3. NoMeta.status = "none" /\ NoMeta.plan = None /\ NoMeta.ver = 0 /\ NoMeta.mat = None
  BY DEF NoMeta
<1>4. SessionsAreMadeOnce'
  <2>1. /\ \A p \in Process : HasLoaded(p)' <=> HasLoaded(p)
        /\ \A r \in Request : At(r, "done")' <=> At(r, "done")
    BY <1>1 DEF HasLoaded, Arrived, At
  <2>2. \A s \in Session : meta'[s].status = "none" => meta'[s] = NoMeta
    BY <1>1 DEF PlansStayFit, SessionsAreMadeOnce
  <2>3. \A s \in Session : meta'[s].status # "none" => meta[s].status # "none"
    BY <1>1, <1>3
  <2>4. ASSUME NEW r \in Request,
               \/ meta'[r].status # "none" \/ shown'[r] # None \/ briefed'[r] # None
               \/ \E p \in Process : HasLoaded(p)' /\ proc'[p].s = r
        PROVE  At(r, "done")'
    <3>1. \/ meta[r].status # "none" \/ shown[r] # None \/ briefed[r] # None
          \/ \E p \in Process : HasLoaded(p) /\ proc[p].s = r
      BY <1>1, <2>1, <2>3, <2>4 DEF Session
    <3> QED
      BY <2>1, <3>1 DEF PlansStayFit, SessionsAreMadeOnce
  <2> QED
    BY <2>2, <2>4 DEF SessionsAreMadeOnce
<1>5. VersionsHold'
  <2> DEFINE Kept(ver, mat) == saved'[ver] = mat /\ (NotDeleting' => ver <= profile'.ver)
  <2>1. /\ \A ver \in Version : \A mat : Known(ver, mat) => Kept(ver, mat)
        /\ NotDeleting' => saved'[profile'.ver] = profile'.mat
    BY KnownStays DEF Next, Known, PlansStayFit
  <2>2. /\ 0 \in Version /\ \A s \in Session : meta[s].ver \in Version
        /\ \A p \in Process : proc[p].ver \in Version
        /\ plans # None => plans.ver \in Version
    BY BlankRecords, RequestTypesOf DEF TypeOK, RequestTypeOK, CachedPlan
  <2>3. Kept(0, None)
    BY <2>1, <2>2 DEF VersionsHold, PlansStayFit
  <2>4. \A s \in Session : Kept(meta[s].ver, meta[s].mat)
    BY <2>1, <2>2 DEF VersionsHold, PlansStayFit
  <2>5. \A p \in Process : proc[p].kind # "coach" => Kept(proc[p].ver, proc[p].mat)
    BY <2>1, <2>2 DEF VersionsHold, PlansStayFit
  <2>6. plans # None => Kept(plans.ver, plans.plan.mat) /\ plans.plan.role = plans.role
    BY <2>1, <2>2 DEF VersionsHold, PlansStayFit
  <2> HIDE DEF Kept
  <2>7. \A s \in Session : Kept(meta'[s].ver, meta'[s].mat)
    BY <1>1, <1>3, <2>3, <2>4
  <2>8. \A p \in Process : proc'[p].kind # "coach" => Kept(proc'[p].ver, proc'[p].mat)
    BY <1>1, <2>5
  <2>9. plans' # None => Kept(plans'.ver, plans'.plan.mat) /\ plans'.plan.role = plans'.role
    BY <1>2, <2>6
  <2> QED
    BY <2>1, <2>3, <2>7, <2>8, <2>9 DEF VersionsHold, Known, Kept
<1>6. PlansFit'
  <2>1. PlanFitsSession'
    BY <1>1, <1>3 DEF PlansStayFit, PlansFit, PlanFitsSession
  <2>2. \A p \in Process : (Plans(p)' <=> Plans(p)) /\ proc[p].s \in Session
    BY <1>1, RequestTypesOf DEF Plans, HasLoaded, Arrived, At, TypeOK
  <2>3. ASSUME NEW p \in Process
        PROVE  /\ proc[p].kind = "plan" /\ proc[p].plan # None =>
                    /\ Plans(p)
                    /\ proc[p].plan.mat = proc[p].mat /\ proc[p].plan.role = proc[p].role
               /\ Plans(p) /\ meta'[proc[p].s].status # "none"
                    => meta'[proc[p].s].mat = proc[p].mat
    BY <1>1, <1>3, <2>2 DEF PlansStayFit, PlansFit
  <2> QED
    BY <1>1, <2>1, <2>2, <2>3 DEF PlansFit
<1>7. OnePlanAtATime'
  BY <1>1, <1>3 DEF PlansStayFit, OnePlanAtATime, InFlight, Arrived
<1>8. InterviewRunsShownPlan'
  BY <1>1, <1>3 DEF PlansStayFit, InterviewRunsShownPlan
<1> QED
  BY <1>4, <1>5, <1>6, <1>7, <1>8 DEF PlansStayFit

\* PlansStayFit at first: one session at most, from the one version there is.
LEMMA PlansFitAtFirst ==
  ASSUME Init
  PROVE  PlansStayFit
<1> USE DEF Init, RequestInit
<1>1. FirstSession \in Session /\ FirstSession # None /\ Request \subseteq Session
      /\ FirstSession \notin Request /\ 0 \in Version /\ 1 \in Version
  BY RequestAssumption, BlankRecords DEF Session
<1>2. /\ NoMeta.status = "none" /\ NoMeta.plan = None /\ NoMeta.ver = 0 /\ NoMeta.mat = None
      /\ NoProfile.ver = 0 /\ NoProfile.mat = None
  BY DEF NoMeta, NoProfile
<1>3. \/ profile.ver = 0 /\ profile.mat = None
      \/ profile.ver = 1 /\ profile.mat = FirstSession
  BY <1>2
<1>4. saved[0] = None /\ saved[profile.ver] = profile.mat
  BY <1>1, <1>3
<1>5. \A p \in Process : /\ proc[p].pc = "idle" /\ proc[p].ver = 0 /\ proc[p].mat = None
                         /\ proc[p].plan = None
  <2>1. PICK cast \in Casts :
          proc = [q \in Process |-> IF q \in Request THEN [Idle EXCEPT !.kind = cast[q]] ELSE Idle]
    OBVIOUS
  <2>2. \A k : LET q == [Idle EXCEPT !.kind = k] IN
               q.pc = "idle" /\ q.ver = 0 /\ q.mat = None /\ q.plan = None
    BY DEF Idle
  <2>3. Idle.pc = "idle" /\ Idle.ver = 0 /\ Idle.mat = None /\ Idle.plan = None
    BY DEF Idle
  <2> QED
    BY <2>1, <2>2, <2>3
<1>01. PICK role \in Role :
         \E first \in IF profile = NoProfile THEN {NoMeta} ELSE FirstMeta(role) :
           /\ meta = [s \in Session |-> IF s = FirstSession THEN first ELSE NoMeta]
           /\ plans \in IF profile = NoProfile THEN {None}
                        ELSE {None, [plan |-> FirstPlan(role), ver |-> 1, role |-> role]}
  OBVIOUS
<1>6. PICK first \in (IF profile = NoProfile THEN {NoMeta} ELSE FirstMeta(role)) :
        /\ meta = [s \in Session |-> IF s = FirstSession THEN first ELSE NoMeta]
        /\ plans \in IF profile = NoProfile THEN {None}
                     ELSE {None, [plan |-> FirstPlan(role), ver |-> 1, role |-> role]}
  BY <1>01
<1>7. \/ first = NoMeta
      \/ /\ profile.ver = 1 /\ profile.mat = FirstSession
         /\ first.ver = 1 /\ first.mat = FirstSession
         /\ \/ first.status = "planning" /\ first.plan = None
            \/ first.status = "in_progress" /\ first.plan = FirstPlan(role) /\ first.role = role
  <2>1. CASE profile = NoProfile
    BY <1>6, <2>1
  <2>2. CASE profile # NoProfile
    <3>1. profile.ver = 1 /\ profile.mat = FirstSession
      BY <2>2
    <3> DEFINE c == [NoMeta EXCEPT !.status = "planning", !.ver = 1, !.mat = FirstSession]
    <3>2. first \in {c, [c EXCEPT !.status = "in_progress", !.role = role,
                                  !.plan = FirstPlan(role)]}
      BY <1>6, <2>2 DEF FirstMeta
    <3>3. /\ first.ver = 1 /\ first.mat = FirstSession
          /\ \/ first.status = "planning" /\ first.plan = None
             \/ first.status = "in_progress" /\ first.plan = FirstPlan(role) /\ first.role = role
      BY ONLY <3>2 DEF NoMeta
    <3> QED
      BY <3>1, <3>3
  <2> QED
    BY <2>1, <2>2
<1>8. \A s \in Session : meta[s] = NoMeta \/ (s = FirstSession /\ meta[s] = first)
  BY <1>6
<1>9. FirstPlan(role).mat = FirstSession /\ FirstPlan(role).role = role
  BY DEF FirstPlan
<1>10. plans # None => /\ profile.ver = 1 /\ profile.mat = FirstSession /\ plans.ver = 1
                       /\ plans.plan = FirstPlan(role) /\ plans.role = role
  <2>1. CASE profile = NoProfile
    BY <1>6, <2>1
  <2>2. CASE profile # NoProfile
    <3>1. profile.ver = 1 /\ profile.mat = FirstSession
      BY <2>2
    <3>2. plans # None => plans = [plan |-> FirstPlan(role), ver |-> 1, role |-> role]
      BY <1>6, <2>2
    <3>3. plans # None => plans.ver = 1 /\ plans.plan = FirstPlan(role) /\ plans.role = role
      BY ONLY <3>2
    <3> QED
      BY <3>1, <3>3
  <2> QED
    BY <2>1, <2>2
<1>11. SessionsAreMadeOnce
  <2>1. \A r \in Request : meta[r] = NoMeta /\ shown[r] = None /\ briefed[r] = None
    BY <1>1, <1>2, <1>8
  <2>2. \A p \in Process : ~HasLoaded(p)
    BY <1>5 DEF HasLoaded, Arrived
  <2>3. \A s \in Session : meta[s].status = "none" => meta[s] = NoMeta
    BY <1>7, <1>8
  <2> QED
    BY <1>2, <2>1, <2>2, <2>3 DEF SessionsAreMadeOnce
<1>12. VersionsHold
  <2>1. Known(0, None)
    BY <1>3, <1>4 DEF Known
  <2>2. \A s \in Session : Known(meta[s].ver, meta[s].mat)
    BY <1>2, <1>4, <1>7, <1>8, <2>1 DEF Known
  <2>3. \A p \in Process : Known(proc[p].ver, proc[p].mat)
    BY <1>5, <2>1
  <2>4. plans # None => Known(plans.ver, plans.plan.mat) /\ plans.plan.role = plans.role
    BY <1>4, <1>9, <1>10 DEF Known
  <2> QED
    BY <1>4, <2>1, <2>2, <2>3, <2>4 DEF VersionsHold
<1>13. PlansFit
  <2>1. \A p \in Process : proc[p].plan = None /\ ~Plans(p)
    BY <1>5 DEF Plans, HasLoaded, Arrived
  <2>2. PlanFitsSession
    BY <1>2, <1>7, <1>8, <1>9 DEF PlanFitsSession
  <2> QED
    BY <2>1, <2>2 DEF PlansFit
<1>14. \A s \in Session : shown[s] = meta[s].plan /\ briefed[s] = meta[s].plan
  OBVIOUS
<1>15. OnePlanAtATime
  <2>1. \A s \in Session : InFlight(s) = {}
    BY <1>5, RequestTypesOf DEF InFlight, Arrived, Process
  <2> QED
    BY <1>14, <2>1 DEF OnePlanAtATime
<1>16. InterviewRunsShownPlan
  BY <1>2, <1>7, <1>8, <1>14 DEF InterviewRunsShownPlan
<1> QED
  BY <1>11, <1>12, <1>13, <1>15, <1>16 DEF PlansStayFit

\* A plan fits its session through caches, retries and erasures, and an interview
\* runs the plan its candidate saw: what the version in the cache's stamp and the
\* status asked of the session by the write that attaches the plan are for.
THEOREM PlansKept == Spec => []PlansHold
<1>1. Init => PlansStayFit
  BY PlansFitAtFirst
<1>2. TypeOK /\ ProcessesAreSound /\ PlansStayFit /\ [Next]_vars => PlansStayFit'
  <2> SUFFICES ASSUME TypeOK, ProcessesAreSound, PlansStayFit, [Next]_vars
               PROVE  PlansStayFit'
    OBVIOUS
  <2>1. CASE RequestNext /\ UNCHANGED erasureVars
    BY <2>1, MadeOnceByRequests, VersionsHeldByRequests, PlansFitByRequests, OnePlanByRequests
       DEF PlansStayFit, TypeOK
  <2>2. CASE ErasureNext
    BY <2>2, PlansFitByErasure
  <2>3. CASE UNCHANGED vars
    <3>1. UNCHANGED <<meta, plans, proc, shown, overlapped, briefed, saved, profile>>
      BY <2>3 DEF vars, requestVars, items, history
    <3> QED
      BY <3>1 DEF PlansStayFit, SessionsAreMadeOnce, VersionsHold, Known, PlansFit,
                  PlanFitsSession, OnePlanAtATime, InterviewRunsShownPlan, Plans, HasLoaded,
                  Arrived, At, InFlight, NotDeleting, Marked
  <2> QED
    BY <2>1, <2>2, <2>3 DEF Next
<1>3. PlansStayFit => PlansHold
  BY DEF PlansStayFit, PlansFit, PlansHold
<1> QED
  BY <1>1, <1>2, <1>3, TypeCorrect, PTL DEF Spec

-----------------------------------------------------------------------------
(* The rate limit: types.                                                  *)

LEMMA LimiterTypesInit == LimiterInit => LimiterTypeOK
<1> SUFFICES ASSUME LimiterInit PROVE LimiterTypeOK
  OBVIOUS
<1> USE LimitAssumption DEF LimiterInit, NoCounter, NoHit, NoTally, Windows, Rounds
<1>1. turnedBack \in BOOLEAN
  OBVIOUS
<1>2. hit \in [Hit -> [pc : {"idle", "add", "roll", "done"}, start : Windows \cup {0}, round : 1..Rounds]]
  OBVIOUS
<1>3. tally \in [Windows -> [asked : Nat, passed : Nat, waved : Nat, refused : Nat]]
  OBVIOUS
<1>4. counter \in [start : Windows \cup {0}, hits : Nat] /\ window \in Windows
      /\ errors \in 0..MaxErrors /\ deleted \in 0..MaxDeleted
  OBVIOUS
<1> QED
  BY <1>1, <1>2, <1>3, <1>4 DEF LimiterTypeOK

\* A request under way counts for a window.
StartedHaveWindow == \A h \in Hit : hit[h].pc # "idle" => hit[h].start \in Windows

\* Windows are numbered from 1.
LEMMA WindowsAreNumbers ==
         Windows \subseteq Nat \ {0} /\ Limit \in Nat \ {0} /\ MaxErrors \in Nat
         /\ MaxDeleted \in Nat
  BY LimitAssumption DEF Windows

\* A verdict is one more in its column.
LEMMA VerdictsAreCounted ==
  ASSUME LimiterTypeOK, NEW h \in Hit, hit[h].start \in Windows,
         (\E n \in Nat : Judge(h, n)) \/ WaveThrough(h)
  PROVE  tally' \in [Windows -> [asked : Nat, passed : Nat, waved : Nat, refused : Nat]]
<1> USE DEF LimiterTypeOK
<1>1. tally[hit[h].start].passed + 1 \in Nat /\ tally[hit[h].start].waved + 1 \in Nat
      /\ tally[hit[h].start].refused + 1 \in Nat
  OBVIOUS
<1>2. CASE WaveThrough(h)
  BY <1>1, <1>2 DEF WaveThrough
<1>3. ASSUME NEW n \in Nat, Judge(h, n)
      PROVE  tally' \in [Windows -> [asked : Nat, passed : Nat, waved : Nat, refused : Nat]]
  BY <1>1, <1>3 DEF Judge
<1> QED
  BY <1>2, <1>3

\* A write leaves a counter, and a flag.
LEMMA CounterIsCounter ==
  ASSUME LimiterTypeOK, NEW h \in Hit, hit[h].start \in Windows,
         \/ counter' = counter \/ counter' = OneMore \/ counter' = FirstHit(h)
         \/ counter' = [counter EXCEPT !.hits = @ + 2]
  PROVE  counter' \in [start : Windows \cup {0}, hits : Nat]
<1>1. counter.hits + 1 \in Nat /\ counter.hits + 2 \in Nat
  BY DEF LimiterTypeOK
<1> QED
  BY <1>1 DEF LimiterTypeOK, OneMore, FirstHit

LEMMA FlagIsFlag ==
  ASSUME LimiterTypeOK, NEW h \in Hit, UNCHANGED turnedBack \/ TurnsBack(h)
  PROVE  turnedBack' \in BOOLEAN
<1>1. turnedBack \in BOOLEAN
  BY DEF LimiterTypeOK
<1> QED
  BY <1>1, Zenon DEF TurnsBack

\* What follows a refused second write: the first again, in its window, or none.
LEMMA TryAgainMoves ==
  ASSUME LimiterTypeOK, StartedHaveWindow, NEW h \in Hit, hit[h].pc \in {"add", "roll"},
         TryAgain(h)
  PROVE  /\ hit' \in [Hit -> [pc : {"idle", "add", "roll", "done"}, start : Windows \cup {0},
                               round : 1..Rounds]]
         /\ StartedHaveWindow'
         /\ \A w \in Windows : /\ tally'[w].asked = tally[w].asked
                               /\ tally'[w].passed = tally[w].passed
                               /\ tally'[w].refused = tally[w].refused
<1>1. CASE hit[h].round = Rounds
  <2>1. hit' = [hit EXCEPT ![h].pc = "done"]
    BY <1>1, Zenon DEF TryAgain, Finish
  <2>2. tally' = [tally EXCEPT ![hit[h].start].waved = @ + 1]
    BY <1>1, Zenon DEF TryAgain, WaveThrough
  <2>3. hit' \in [Hit -> [pc : {"idle", "add", "roll", "done"}, start : Windows \cup {0},
                          round : 1..Rounds]]
    BY <2>1 DEF LimiterTypeOK
  <2>4. StartedHaveWindow'
    BY <2>1 DEF LimiterTypeOK, StartedHaveWindow
  <2>5. hit[h].start \in Windows
    BY DEF StartedHaveWindow
  <2>6. \A w \in Windows : /\ tally'[w].asked = tally[w].asked
                           /\ tally'[w].passed = tally[w].passed
                           /\ tally'[w].refused = tally[w].refused
    BY <2>2, <2>5 DEF LimiterTypeOK
  <2> QED
    BY <2>3, <2>4, <2>6
<1>2. CASE hit[h].round # Rounds
  <2>1. hit' = [hit EXCEPT ![h].pc = "add", ![h].round = @ + 1] /\ tally' = tally
    BY <1>2, Zenon DEF TryAgain
  <2>2. hit[h].round \in 1..Rounds /\ hit[h].round + 1 \in 1..Rounds
    BY <1>2 DEF LimiterTypeOK, Rounds
  <2>3. hit' \in [Hit -> [pc : {"idle", "add", "roll", "done"}, start : Windows \cup {0},
                          round : 1..Rounds]]
    BY <2>1, <2>2 DEF LimiterTypeOK
  <2>4. StartedHaveWindow'
    BY <2>1 DEF LimiterTypeOK, StartedHaveWindow
  <2> QED
    BY <2>1, <2>3, <2>4
<1> QED
  BY <1>1, <1>2

LEMMA LimiterTypesKept ==
  ASSUME LimiterTypeOK, StartedHaveWindow, [LimiterNext]_limiterVars
  PROVE  LimiterTypeOK' /\ StartedHaveWindow'
<1> USE DEF LimiterTypeOK, StartedHaveWindow
<1>1. ASSUME NEW h \in Hit, ReadClock(h)
      PROVE  LimiterTypeOK' /\ StartedHaveWindow'
  <2>1. tally' \in [Windows -> [asked : Nat, passed : Nat, waved : Nat, refused : Nat]]
    BY <1>1 DEF ReadClock
  <2>2. hit' \in [Hit -> [pc : {"idle", "add", "roll", "done"}, start : Windows \cup {0}, round : 1..Rounds]]
    BY <1>1 DEF ReadClock, Rounds
  <2>3. StartedHaveWindow'
    BY <1>1 DEF ReadClock
  <2> QED
    BY <1>1, <2>1, <2>2, <2>3 DEF ReadClock
<1>2. ASSUME NEW h \in Hit, AddHit(h)
      PROVE  LimiterTypeOK' /\ StartedHaveWindow'
  <2>1. StartedHaveWindow' /\ hit[h].start \in Windows
    BY <1>2 DEF AddHit, Finish
  <2>2. tally' \in [Windows -> [asked : Nat, passed : Nat, waved : Nat, refused : Nat]]
    <3>1. UNCHANGED tally \/ Judge(h, counter.hits + 1)
      BY <1>2, Zenon DEF AddHit
    <3>2. counter.hits + 1 \in Nat
      OBVIOUS
    <3> QED
      BY <2>1, <3>1, <3>2, VerdictsAreCounted
  <2>3. counter' \in [start : Windows \cup {0}, hits : Nat]
    BY <1>2, <2>1, CounterIsCounter DEF AddHit
  <2>4. hit' \in [Hit -> [pc : {"idle", "add", "roll", "done"}, start : Windows \cup {0}, round : 1..Rounds]]
    BY <1>2 DEF AddHit, Finish
  <2> QED
    BY <1>2, <2>1, <2>2, <2>3, <2>4 DEF AddHit
<1>3. ASSUME NEW h \in Hit, RollWindow(h)
      PROVE  LimiterTypeOK' /\ StartedHaveWindow'
  <2>1. hit[h].start \in Windows
    BY <1>3 DEF RollWindow
  <2>2. tally' \in [Windows -> [asked : Nat, passed : Nat, waved : Nat, refused : Nat]]
    BY <1>3, <2>1, VerdictsAreCounted DEF RollWindow, TryAgain
  <2>3. counter' \in [start : Windows \cup {0}, hits : Nat]
    BY <1>3, <2>1, CounterIsCounter DEF RollWindow
  <2>7. turnedBack' \in BOOLEAN
    BY <1>3, FlagIsFlag DEF RollWindow
  <2>4. hit' \in [Hit -> [pc : {"idle", "add", "roll", "done"}, start : Windows \cup {0}, round : 1..Rounds]]
    <3>1. \/ hit' = [hit EXCEPT ![h].pc = "done"]
          \/ hit[h].round # Rounds /\ hit' = [hit EXCEPT ![h].pc = "add", ![h].round = @ + 1]
      BY <1>3, Zenon DEF RollWindow, TryAgain, Finish
    <3> QED
      BY <3>1 DEF Rounds
  <2>5. StartedHaveWindow'
    BY <1>3 DEF RollWindow, TryAgain, Finish
  <2> QED
    BY <1>3, <2>2, <2>3, <2>4, <2>5, <2>7 DEF RollWindow
<1>4. ASSUME NEW h \in Hit, StoreFails(h)
      PROVE  LimiterTypeOK' /\ StartedHaveWindow'
  <2>1. hit[h].start \in Windows
    BY <1>4 DEF StoreFails
  <2>2. tally' \in [Windows -> [asked : Nat, passed : Nat, waved : Nat, refused : Nat]]
    BY <1>4, <2>1, VerdictsAreCounted DEF StoreFails
  <2>3. counter' \in [start : Windows \cup {0}, hits : Nat]
    BY <1>4, <2>1, CounterIsCounter DEF StoreFails
  <2>7. turnedBack' \in BOOLEAN
    BY <1>4, FlagIsFlag DEF StoreFails
  <2>4. hit' \in [Hit -> [pc : {"idle", "add", "roll", "done"}, start : Windows \cup {0}, round : 1..Rounds]]
    BY <1>4 DEF StoreFails, Finish
  <2>5. StartedHaveWindow'
    BY <1>4 DEF StoreFails, Finish
  <2>6. errors' \in 0..MaxErrors /\ window' = window /\ deleted' = deleted
    BY <1>4, WindowsAreNumbers DEF StoreFails
  <2> QED
    BY <2>2, <2>3, <2>4, <2>5, <2>6, <2>7
<1>5. ASSUME NEW h \in Hit, Repeats(h)
      PROVE  LimiterTypeOK' /\ StartedHaveWindow'
  <2>1. hit[h].start \in Windows /\ hit[h].pc \in {"add", "roll"}
    BY <1>5 DEF Repeats
  <2>2. tally' \in [Windows -> [asked : Nat, passed : Nat, waved : Nat, refused : Nat]]
    BY <1>5, <2>1, VerdictsAreCounted DEF Repeats, TryAgain
  <2>3. counter' \in [start : Windows \cup {0}, hits : Nat]
    BY <1>5, <2>1, CounterIsCounter DEF Repeats
  <2>7. turnedBack' \in BOOLEAN
    BY <1>5, FlagIsFlag DEF Repeats
  <2>4. hit' \in [Hit -> [pc : {"idle", "add", "roll", "done"}, start : Windows \cup {0}, round : 1..Rounds]]
    <3>1. Finish(h) \/ TryAgain(h)
      BY <1>5, Zenon DEF Repeats
    <3>2. CASE Finish(h)
      BY <3>2 DEF Finish
    <3> QED
      BY <2>1, <3>1, <3>2, TryAgainMoves
  <2>5. StartedHaveWindow'
    <3>1. Finish(h) \/ TryAgain(h)
      BY <1>5, Zenon DEF Repeats
    <3>2. CASE Finish(h)
      BY <2>1, <3>2 DEF Finish
    <3> QED
      BY <2>1, <3>1, <3>2, TryAgainMoves
  <2>6. errors' \in 0..MaxErrors /\ window' = window /\ deleted' = deleted
    BY <1>5, WindowsAreNumbers DEF Repeats
  <2> QED
    BY <2>2, <2>3, <2>4, <2>5, <2>6, <2>7
<1>6. CASE WindowMoves
  <2>1. window' \in Windows
    BY <1>6, LimitAssumption DEF WindowMoves, Windows
  <2> QED
    BY <1>6, <2>1 DEF WindowMoves
<1>7. CASE DeleteCounter
  <2>1. deleted' \in 0..MaxDeleted
    BY <1>7, WindowsAreNumbers DEF DeleteCounter
  <2>2. counter' \in [start : Windows \cup {0}, hits : Nat]
    BY <1>7 DEF DeleteCounter, NoCounter
  <2> QED
    BY <1>7, <2>1, <2>2 DEF DeleteCounter
<1>8. CASE UNCHANGED limiterVars
  BY <1>8 DEF limiterVars
<1> QED
  BY <1>1, <1>2, <1>3, <1>4, <1>5, <1>6, <1>7, <1>8 DEF LimiterNext

-----------------------------------------------------------------------------
(* The rate limit from above: nobody passes beyond the limit.              *)

\* What may have passed by counters that have been deleted.
Forgotten == Limit * deleted

\* What has passed since is in the counter, and nothing has in a window the
\* counter has not reached.
PassedAreCounted ==
  ~turnedBack =>
    \A w \in Windows :
      /\ tally[w].passed <= Forgotten + Limit
      /\ w = counter.start => tally[w].passed <= Forgotten + counter.hits
      /\ w > counter.start => tally[w].passed <= Forgotten

LEMMA ForgottenIsNumber == LimiterTypeOK => Forgotten \in Nat
<1> SUFFICES ASSUME LimiterTypeOK PROVE Limit * deleted \in Nat
  BY DEF Forgotten
<1>1. Limit \in Nat /\ deleted \in Nat
  BY WindowsAreNumbers DEF LimiterTypeOK
<1> QED
  BY <1>1

\* An erasure forgets what one counter let through.
LEMMA OneMoreForgotten ==
  ASSUME LimiterTypeOK, deleted' = deleted + 1
  PROVE  Forgotten' = Forgotten + Limit
<1>1. Limit \in Nat /\ deleted \in Nat
  BY WindowsAreNumbers DEF LimiterTypeOK
<1>2. Limit * (deleted + 1) = Limit * deleted + Limit
  BY <1>1
<1> QED
  BY <1>2 DEF Forgotten

CapInv == LimiterTypeOK /\ StartedHaveWindow /\ PassedAreCounted

LEMMA CapInit == LimiterInit => CapInv
<1> SUFFICES ASSUME LimiterInit PROVE StartedHaveWindow /\ PassedAreCounted
  BY LimiterTypesInit DEF CapInv
<1> QED
  BY LimitAssumption DEF LimiterInit, NoCounter, NoHit, NoTally, Windows, StartedHaveWindow, PassedAreCounted,
                         Forgotten

\* Rolling on to a window lets its first request pass.
LEMMA RollKeepsCap ==
  ASSUME CapInv, NEW h \in Hit, hit[h].start \in Windows,
         counter.start # hit[h].start, counter' = FirstHit(h), TurnsBack(h), deleted' = deleted,
         \A w \in Windows :
           \/ tally'[w].passed = tally[w].passed
           \/ w = hit[h].start /\ tally'[w].passed = tally[w].passed + 1
  PROVE  PassedAreCounted'
<1> SUFFICES ASSUME ~turnedBack'
             PROVE  PassedAreCounted'
  BY DEF PassedAreCounted
<1> USE DEF CapInv
<1>1. ~turnedBack /\ ~(hit[h].start < counter.start)
  BY Zenon DEF TurnsBack
<1>2. \A w \in Windows : /\ tally[w].passed <= Forgotten + Limit
                         /\ w > counter.start => tally[w].passed <= Forgotten
  BY <1>1, Zenon DEF PassedAreCounted
<1>10. Forgotten' = Forgotten /\ Forgotten \in Nat
  BY ForgottenIsNumber DEF Forgotten
<1>3. /\ counter.start \in Nat /\ hit[h].start \in Nat
      /\ \A w \in Windows : w \in Nat /\ tally[w].passed \in Nat
  <2>1. Windows \subseteq Nat
    BY WindowsAreNumbers
  <2>2. counter.start \in Windows \cup {0} /\ \A w \in Windows : tally[w].passed \in Nat
    BY DEF LimiterTypeOK
  <2>3. \A w \in Windows : w \in Nat
    BY <2>1
  <2>4. counter.start \in Nat
    BY <2>2, <2>3
  <2>5. hit[h].start \in Nat
    BY <2>3
  <2> QED
    BY <2>2, <2>3, <2>4, <2>5
<1>4. counter.start < hit[h].start
  BY <1>1, <1>3
<1>5. counter'.start = hit[h].start /\ counter'.hits = 1
  BY DEF FirstHit
<1>6. \A w \in Windows : w >= hit[h].start => tally[w].passed <= Forgotten
  BY <1>2, <1>3, <1>4
<1>7. \A w \in Windows : tally'[w].passed <= Forgotten + Limit
  BY <1>2, <1>3, <1>6, <1>10, WindowsAreNumbers
<1>8. \A w \in Windows : w >= hit[h].start => tally'[w].passed <= Forgotten + 1
  BY <1>3, <1>6, <1>10
<1>9. \A w \in Windows : w > hit[h].start => tally'[w].passed <= Forgotten
  BY <1>3, <1>6, <1>10
<1> QED
  BY <1>3, <1>5, <1>7, <1>8, <1>9, <1>10 DEF PassedAreCounted

\* A request that is counted passes only within the limit.
LEMMA AddKeepsCap ==
  ASSUME CapInv, NEW h \in Hit, hit[h].start \in Windows, counter.start = hit[h].start,
         NEW n \in Nat \ {0}, counter' = [counter EXCEPT !.hits = @ + n],
         Judge(h, counter.hits + n), UNCHANGED <<turnedBack, deleted>>
  PROVE  PassedAreCounted'
<1> SUFFICES ASSUME ~turnedBack
             PROVE  PassedAreCounted'
  BY DEF PassedAreCounted
<1>1. counter'.start = hit[h].start /\ counter'.hits = counter.hits + n /\ counter.hits \in Nat
  BY DEF CapInv, LimiterTypeOK
<1>2. Forgotten' = Forgotten /\ Forgotten \in Nat /\ Limit \in Nat
  BY ForgottenIsNumber, WindowsAreNumbers DEF Forgotten, CapInv
<1>3. \A w \in Windows : tally[w].passed \in Nat
  BY DEF CapInv, LimiterTypeOK
<1>4. /\ \A w \in Windows : w # hit[h].start => tally'[w].passed = tally[w].passed
      /\ \/ tally'[hit[h].start].passed = tally[hit[h].start].passed
         \/ /\ tally'[hit[h].start].passed = tally[hit[h].start].passed + 1
            /\ counter.hits + n <= Limit
  BY DEF Judge, CapInv, LimiterTypeOK
<1>5. \A w \in Windows : /\ tally[w].passed <= Forgotten + Limit
                         /\ w = hit[h].start => tally[w].passed <= Forgotten + counter.hits
                         /\ w > hit[h].start => tally[w].passed <= Forgotten
  BY Zenon DEF CapInv, PassedAreCounted
<1>6. /\ tally'[hit[h].start].passed <= Forgotten + counter.hits + n
      /\ tally'[hit[h].start].passed <= Forgotten + Limit
  BY <1>1, <1>2, <1>3, <1>4, <1>5
<1>7. hit[h].start \in Nat
  BY WindowsAreNumbers
<1>8. ASSUME NEW w \in Windows
      PROVE  /\ tally'[w].passed <= Forgotten + Limit
             /\ w = hit[h].start => tally'[w].passed <= Forgotten + (counter.hits + n)
             /\ w > hit[h].start => tally'[w].passed <= Forgotten
  <2>1. CASE w = hit[h].start
    BY <1>1, <1>2, <1>3, <1>4, <1>6, <1>7, <2>1
  <2>2. CASE w # hit[h].start
    BY <1>4, <1>5, <2>2
  <2> QED
    BY <2>1, <2>2
<1> QED
  BY <1>1, <1>2, <1>8 DEF PassedAreCounted

LEMMA CapKept ==
  ASSUME CapInv, [LimiterNext]_limiterVars
  PROVE  CapInv'
<1>1. LimiterTypeOK' /\ StartedHaveWindow'
  BY LimiterTypesKept DEF CapInv
<1> SUFFICES PassedAreCounted'
  BY <1>1 DEF CapInv
<1>10. Forgotten \in Nat /\ (deleted' = deleted => Forgotten' = Forgotten)
  BY ForgottenIsNumber DEF CapInv, Forgotten
<1> USE WindowsAreNumbers, <1>10 DEF CapInv, LimiterTypeOK, StartedHaveWindow, PassedAreCounted
<1> DEFINE Same == \A w \in Windows : tally'[w].passed = tally[w].passed
<1>s. ASSUME Same, UNCHANGED <<counter, turnedBack, deleted>> PROVE PassedAreCounted'
  BY <1>s, <1>10 DEF PassedAreCounted
<1>2. ASSUME NEW h \in Hit, ReadClock(h) PROVE PassedAreCounted'
  <2>1. Same /\ UNCHANGED <<counter, turnedBack, deleted>>
    BY <1>2 DEF ReadClock
  <2> QED
    BY <1>s, <2>1
<1>3. ASSUME NEW h \in Hit, AddHit(h) PROVE PassedAreCounted'
  <2>1. CASE counter.start = hit[h].start
    <3>1. /\ counter' = OneMore /\ Judge(h, counter.hits + 1) /\ hit[h].pc = "add"
          /\ UNCHANGED <<turnedBack, deleted>>
      BY <1>3, <2>1, Zenon DEF AddHit
    <3>2. hit[h].start \in Windows
      BY <3>1
    <3> QED
      BY <2>1, <3>1, <3>2, AddKeepsCap DEF OneMore
  <2>2. CASE counter.start # hit[h].start
    <3>1. Same /\ UNCHANGED <<counter, turnedBack, deleted>>
      BY <1>3, <2>2 DEF AddHit
    <3> QED
      BY <1>s, <3>1
  <2> QED
    BY <2>1, <2>2
<1>4. ASSUME NEW h \in Hit, RollWindow(h) PROVE PassedAreCounted'
  <2>1. CASE counter.start # hit[h].start
    BY <1>4, <2>1, RollKeepsCap DEF RollWindow, Judge
  <2>2. CASE counter.start = hit[h].start
    <3>1. TryAgain(h) /\ UNCHANGED <<counter, turnedBack, deleted>> /\ hit[h].pc = "roll"
      BY <1>4, <2>2, Zenon DEF RollWindow
    <3>2. Same
      BY <3>1, TryAgainMoves
    <3> QED
      BY <1>s, <3>1, <3>2
  <2> QED
    BY <2>1, <2>2
<1>5. ASSUME NEW h \in Hit, StoreFails(h) PROVE PassedAreCounted'
  <2>1. CASE UNCHANGED <<counter, turnedBack>>
    BY <1>5, <2>1 DEF StoreFails, WaveThrough
  <2>2. CASE hit[h].pc = "add"
    BY <1>5, <2>2 DEF StoreFails, OneMore, WaveThrough
  <2>3. CASE hit[h].pc = "roll" /\ ~UNCHANGED <<counter, turnedBack>>
    BY <1>5, <2>3, RollKeepsCap DEF StoreFails, WaveThrough
  <2> QED
    BY <1>5, <2>1, <2>2, <2>3 DEF StoreFails
<1>6. ASSUME NEW h \in Hit, Repeats(h) PROVE PassedAreCounted'
  <2>1. CASE hit[h].pc = "add"
    <3>1. /\ counter.start = hit[h].start /\ counter' = [counter EXCEPT !.hits = @ + 2]
          /\ Judge(h, counter.hits + 2) /\ UNCHANGED <<turnedBack, deleted>>
      BY <1>6, <2>1 DEF Repeats
    <3>2. hit[h].start \in Windows
      BY <2>1
    <3> QED
      BY <3>1, <3>2, AddKeepsCap
  <2>2. CASE hit[h].pc = "roll"
    BY <1>6, <2>2, RollKeepsCap DEF Repeats, TryAgain, WaveThrough
  <2> QED
    BY <1>6, <2>1, <2>2 DEF Repeats
<1>7. CASE WindowMoves
  BY <1>7 DEF WindowMoves
<1>8. CASE DeleteCounter
  <2>1. Forgotten' = Forgotten + Limit
    BY <1>8, OneMoreForgotten DEF DeleteCounter
  <2>2. /\ counter'.start = 0 /\ UNCHANGED <<tally, turnedBack>>
        /\ \A w \in Windows : w > 0 /\ w # 0 /\ tally[w].passed \in Nat
    BY <1>8 DEF DeleteCounter, NoCounter
  <2>3. Limit \in Nat /\ Forgotten \in Nat
    BY <1>10
  <2>4. ~turnedBack => \A w \in Windows : tally[w].passed <= Forgotten + Limit
    BY DEF PassedAreCounted
  <2> QED
    BY <2>1, <2>2, <2>3, <2>4 DEF PassedAreCounted
<1>9. CASE UNCHANGED limiterVars
  BY <1>9 DEF limiterVars
<1> QED
  BY <1>2, <1>3, <1>4, <1>5, <1>6, <1>7, <1>8, <1>9 DEF LimiterNext

-----------------------------------------------------------------------------
(* The rate limit from below: nobody is refused before the limit.          *)

AskedIn(w) == {h \in Hit : hit[h].pc # "idle" /\ hit[h].start = w}
DoneIn(w) == {h \in Hit : hit[h].pc = "done" /\ hit[h].start = w}

\* The counter holds requests of its own window that are done, each once, and
\* a window has been asked by as many as read its start.
HitsAreRequests ==
  errors = 0 =>
    /\ \A w \in Windows : w = counter.start => counter.hits <= Cardinality(DoneIn(w))
    /\ \A w \in Windows : tally[w].asked = Cardinality(AskedIn(w))

FairInv == LimiterTypeOK /\ StartedHaveWindow /\ HitsAreRequests /\ NobodyRefusedEarly

\* The requests of a window are finitely many, and those done are among them.
LEMMA RequestsAreFinite ==
  ASSUME NEW w
  PROVE  /\ IsFiniteSet(AskedIn(w)) /\ IsFiniteSet(DoneIn(w))
         /\ Cardinality(AskedIn(w)) \in Nat /\ Cardinality(DoneIn(w)) \in Nat
         /\ Cardinality(DoneIn(w)) <= Cardinality(AskedIn(w))
<1>1. AskedIn(w) \subseteq Hit /\ DoneIn(w) \subseteq AskedIn(w)
  BY DEF AskedIn, DoneIn
<1> QED
  BY <1>1, LimitAssumption, FS_Subset, FS_CardinalityType

\* So are those of the next state.
LEMMA DoneWereAsked ==
  ASSUME NEW w
  PROVE  /\ Cardinality(AskedIn(w)') \in Nat /\ Cardinality(DoneIn(w)') \in Nat
         /\ Cardinality(DoneIn(w)') <= Cardinality(AskedIn(w)')
<1>1. AskedIn(w)' \subseteq Hit /\ DoneIn(w)' \subseteq AskedIn(w)'
  BY DEF AskedIn, DoneIn
<1> QED
  BY <1>1, LimitAssumption, FS_Subset, FS_CardinalityType

LEMMA FairInit == LimiterInit => FairInv
<1> SUFFICES ASSUME LimiterInit PROVE StartedHaveWindow /\ HitsAreRequests /\ NobodyRefusedEarly
  BY LimiterTypesInit DEF FairInv
<1>1. StartedHaveWindow /\ NobodyRefusedEarly
  BY DEF LimiterInit, NoHit, NoTally, StartedHaveWindow, NobodyRefusedEarly
<1>2. \A w \in Windows : Cardinality(AskedIn(w)) = 0
  <2>1. \A w \in Windows : AskedIn(w) = {}
    BY DEF LimiterInit, NoHit, AskedIn
  <2> QED
    BY <2>1, FS_EmptySet
<1>3. HitsAreRequests
  BY <1>2, WindowsAreNumbers DEF LimiterInit, NoCounter, NoTally, HitsAreRequests
<1> QED
  BY <1>1, <1>3

\* A request that is done, having been asked, is one more of its window.
LEMMA OneMoreDone ==
  ASSUME LimiterTypeOK, NEW h \in Hit, hit[h].pc \in {"add", "roll"}, Finish(h)
  PROVE  /\ \A w : AskedIn(w)' = AskedIn(w)
         /\ \A w : w # hit[h].start => DoneIn(w)' = DoneIn(w)
         /\ \A w : w = hit[h].start => Cardinality(DoneIn(w)') = Cardinality(DoneIn(w)) + 1
<1> USE DEF LimiterTypeOK, Finish
<1>1. \A w : AskedIn(w)' = AskedIn(w)
  BY DEF AskedIn
<1>2. \A w : w # hit[h].start => DoneIn(w)' = DoneIn(w)
  BY DEF DoneIn
<1>3. \A w : w = hit[h].start => DoneIn(w)' = DoneIn(w) \cup {h} /\ h \notin DoneIn(w)
  BY DEF DoneIn
<1> QED
  BY <1>1, <1>2, <1>3, RequestsAreFinite, FS_AddElement

LEMMA FairKept ==
  ASSUME FairInv, [LimiterNext]_limiterVars
  PROVE  FairInv'
<1>1. LimiterTypeOK' /\ StartedHaveWindow'
  BY LimiterTypesKept DEF FairInv
<1> SUFFICES HitsAreRequests' /\ NobodyRefusedEarly'
  BY <1>1 DEF FairInv
<1>2. CASE errors' # 0
  BY <1>2 DEF HitsAreRequests, NobodyRefusedEarly
<1> SUFFICES ASSUME errors' = 0 PROVE HitsAreRequests' /\ NobodyRefusedEarly'
  BY <1>2
<1>3. ASSUME NEW h \in Hit, ReadClock(h) PROVE HitsAreRequests' /\ NobodyRefusedEarly'
  <2> USE <1>3 DEF ReadClock, FairInv, LimiterTypeOK
  <2>1. \A w : DoneIn(w)' = DoneIn(w)
    BY DEF DoneIn
  <2>2. \A w : w # window => AskedIn(w)' = AskedIn(w)
    BY DEF AskedIn
  <2>3. AskedIn(window)' = AskedIn(window) \cup {h} /\ h \notin AskedIn(window)
    BY DEF AskedIn
  <2>4. Cardinality(AskedIn(window)') = Cardinality(AskedIn(window)) + 1
    BY <2>3, RequestsAreFinite, FS_AddElement
  <2>5. \A w \in Windows : tally'[w].asked = Cardinality(AskedIn(w)')
    BY <2>2, <2>4 DEF HitsAreRequests
  <2>6. \A w \in Windows : tally'[w].asked >= tally[w].asked /\ tally'[w].refused = tally[w].refused
    OBVIOUS
  <2>7. NobodyRefusedEarly'
    BY <2>6, LimitAssumption DEF NobodyRefusedEarly
  <2> QED
    BY <2>1, <2>5, <2>7 DEF HitsAreRequests
<1>4. ASSUME NEW h \in Hit, AddHit(h) PROVE HitsAreRequests' /\ NobodyRefusedEarly'
  <2>1. CASE counter.start = hit[h].start
    <3> USE <1>4, <2>1 DEF AddHit, FairInv, LimiterTypeOK, StartedHaveWindow
    <3>1. hit[h].start \in Windows /\ counter' = OneMore /\ Judge(h, counter.hits + 1) /\ Finish(h)
      OBVIOUS
    <3>2. counter'.hits = counter.hits + 1 /\ counter'.start = hit[h].start
      BY <3>1 DEF OneMore
    <3>3. /\ \A w : AskedIn(w)' = AskedIn(w)
          /\ \A w : w = hit[h].start => Cardinality(DoneIn(w)') = Cardinality(DoneIn(w)) + 1
      BY <3>1, OneMoreDone
    <3>4. \A w \in Windows : tally'[w].asked = tally[w].asked
      BY <3>1 DEF Judge
    <3>5. HitsAreRequests'
      BY <3>1, <3>2, <3>3, <3>4, RequestsAreFinite DEF HitsAreRequests
    <3>6. counter.hits + 1 <= tally[hit[h].start].asked
      BY <3>1, <3>2, <3>3, <3>4, <3>5, DoneWereAsked DEF HitsAreRequests
    <3>7. NobodyRefusedEarly'
      BY <3>1, <3>4, <3>6, LimitAssumption DEF NobodyRefusedEarly, Judge
    <3> QED
      BY <3>5, <3>7
  <2>2. CASE counter.start # hit[h].start
    <3>0. hit \in [Hit -> [pc : {"idle", "add", "roll", "done"}, start : Windows \cup {0},
                            round : 1..Rounds]]
          /\ hit[h].pc = "add" /\ hit' = [hit EXCEPT ![h].pc = "roll"]
      BY <1>4, <2>2 DEF AddHit, FairInv, LimiterTypeOK
    <3>1. \A w : AskedIn(w)' = AskedIn(w) /\ DoneIn(w)' = DoneIn(w)
      <4>1. \A g \in Hit : /\ hit'[g].start = hit[g].start
                           /\ hit'[g].pc = "idle" <=> hit[g].pc = "idle"
                           /\ hit'[g].pc = "done" <=> hit[g].pc = "done"
        BY <3>0
      <4> QED
        BY <4>1 DEF AskedIn, DoneIn
    <3> QED
      BY <1>4, <2>2, <3>1 DEF AddHit, FairInv, HitsAreRequests, NobodyRefusedEarly
  <2> QED
    BY <2>1, <2>2
<1>5. ASSUME NEW h \in Hit, RollWindow(h) PROVE HitsAreRequests' /\ NobodyRefusedEarly'
  <2>1. CASE counter.start # hit[h].start
    <3> USE <1>5, <2>1 DEF RollWindow, FairInv, LimiterTypeOK, StartedHaveWindow
    <3>1. hit[h].start \in Windows /\ counter' = FirstHit(h) /\ Judge(h, 1) /\ Finish(h)
      OBVIOUS
    <3>2. /\ \A w : AskedIn(w)' = AskedIn(w)
          /\ \A w : w = hit[h].start => Cardinality(DoneIn(w)') = Cardinality(DoneIn(w)) + 1
      BY <3>1, OneMoreDone
    <3>3. \A w \in Windows : tally'[w].asked = tally[w].asked /\ tally'[w].refused = tally[w].refused
      BY <3>1, LimitAssumption DEF Judge
    <3> QED
      BY <3>1, <3>2, <3>3, RequestsAreFinite DEF HitsAreRequests, NobodyRefusedEarly, FirstHit
  <2>2. CASE counter.start = hit[h].start
    <3> USE <1>5, <2>2 DEF RollWindow, FairInv, LimiterTypeOK, StartedHaveWindow
    <3>1. \A w \in Windows : tally'[w].asked = tally[w].asked /\ tally'[w].refused = tally[w].refused
      <4>1. TryAgain(h) /\ hit[h].pc = "roll"
        BY Zenon
      <4> QED
        BY <4>1, TryAgainMoves
    <3>2. CASE Finish(h)
      <4>1. /\ \A w : AskedIn(w)' = AskedIn(w)
            /\ \A w : w # hit[h].start => DoneIn(w)' = DoneIn(w)
            /\ \A w : w = hit[h].start => Cardinality(DoneIn(w)') = Cardinality(DoneIn(w)) + 1
        BY <3>2, OneMoreDone
      <4> QED
        BY <3>1, <4>1, RequestsAreFinite DEF HitsAreRequests, NobodyRefusedEarly
    <3>3. CASE ~Finish(h)
      <4>1. \A w : AskedIn(w)' = AskedIn(w) /\ DoneIn(w)' = DoneIn(w)
        BY <3>3 DEF TryAgain, AskedIn, DoneIn
      <4> QED
        BY <3>1, <4>1 DEF HitsAreRequests, NobodyRefusedEarly
    <3> QED
      BY <3>2, <3>3
  <2> QED
    BY <2>1, <2>2
<1>6. ASSUME NEW h \in Hit, StoreFails(h) \/ Repeats(h) PROVE FALSE
  BY <1>6 DEF StoreFails, Repeats, FairInv, LimiterTypeOK
<1>7. CASE WindowMoves
  BY <1>7 DEF WindowMoves, FairInv, HitsAreRequests, NobodyRefusedEarly, AskedIn, DoneIn
<1>8. CASE DeleteCounter
  <2>1. \A w : AskedIn(w)' = AskedIn(w) /\ DoneIn(w)' = DoneIn(w)
    BY <1>8 DEF DeleteCounter, AskedIn, DoneIn
  <2>2. \A w \in Windows : w # counter'.start
    BY <1>8, WindowsAreNumbers DEF DeleteCounter, NoCounter
  <2> QED
    BY <1>8, <2>1, <2>2 DEF DeleteCounter, FairInv, HitsAreRequests, NobodyRefusedEarly
<1>9. CASE UNCHANGED limiterVars
  BY <1>9 DEF limiterVars, FairInv, HitsAreRequests, NobodyRefusedEarly, AskedIn, DoneIn
<1> QED
  BY <1>3, <1>4, <1>5, <1>6, <1>7, <1>8, <1>9 DEF LimiterNext

-----------------------------------------------------------------------------
(* The rate limit: theorems.                                               *)

\* The variables of the limiter keep their types for any requests, limit,
\* windows and failed writes (rateLimitStore.ts:60).
THEOREM LimiterTypes == LimiterSpec => []LimiterTypeOK
<1>1. CapInv => LimiterTypeOK
  BY DEF CapInv
<1> QED
  BY CapInit, CapKept, <1>1, PTL DEF LimiterSpec

\* However many servers count at once, and whatever fails or is repeated, no
\* window lets more requests past the counter than the limit, and the limit again
\* for each erasure that deletes it (profile.ts:332), until the counter is turned
\* back (rateLimitStore.ts:90).
THEOREM LimiterCapHolds == LimiterSpec => []CapPerWindow
<1>1. CapInv => CapPerWindow
  BY DEF CapInv, PassedAreCounted, CapPerWindow, Forgotten
<1> QED
  BY CapInit, CapKept, <1>1, PTL DEF LimiterSpec

\* Without a failed or repeated write, a request is refused only when more than
\* the limit have asked in its window, even when the counter is turned back.
THEOREM RefusalsAreDue == LimiterSpec => []NobodyRefusedEarly
<1>1. FairInv => NobodyRefusedEarly
  BY DEF FairInv
<1> QED
  BY FairInit, FairKept, <1>1, PTL DEF LimiterSpec

\* The limit holds from both sides, for any number of requests at once.
THEOREM LimitHolds == LimiterSpec => []LimitIsExact
  BY LimiterCapHolds, RefusalsAreDue, PTL DEF LimitIsExact
=============================================================================
