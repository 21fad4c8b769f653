---------------------------- MODULE SignInProofs ----------------------------
(***************************************************************************)
(* Proofs about signing in.  Of BrowserSession: the types, and that the    *)
(* cookies, what a tab says of its session and whose profile it shows      *)
(* agree, for any number of tabs, candidates, sessions and failures.       *)
(* Of SecondFactor: the types and the secrets, for any number of tabs,     *)
(* setups and failed calls.                                                *)
(***************************************************************************)
EXTENDS BrowserSession, SecondFactor, TLAPS

\* What an answer or an event leaves of a page is a page.
LEMMA PageTypes ==
  ASSUME NEW p \in Page, NEW k \in Kind, NEW u \in User \cup {None}
  PROVE  /\ Away \in Page /\ Loaded \in Page
         /\ SignedIn(p) \in Page /\ SignedOut(p) \in Page
         /\ Failed(p, k) \in Page /\ Answered(p, k, u) \in Page
<1>1. Away \in Page /\ Loaded \in Page
  BY DEF Page, Away, Loaded
<1>2. SignedIn(p) \in Page /\ SignedOut(p) \in Page
  BY DEF Page, SignedIn, SignedOut
<1>3. Failed(p, k) \in Page
  BY DEF Page, Failed
<1>4. Answered(p, k, u) \in Page
  BY <1>2 DEF Page, Kind, Answered
<1> QED
  BY <1>1, <1>2, <1>3, <1>4

\* What is sent, resumed, dropped or abandoned is a call.
LEMMA CallTypes ==
  ASSUME NEW t \in Tab, call[t] \in [Kind -> Call], NEW c \in Cookie
  PROVE  /\ NoCall \in Call /\ Sent(c) \in Call
         /\ Resumed(t, c) \in [Kind -> Call] /\ Dropped(t) \in [Kind -> Call]
         /\ Unmounted(call[t]) \in [Kind -> Call] /\ Unmounted(Dropped(t)) \in [Kind -> Call]
<1>1. NoCall \in Call /\ Sent(c) \in Call
  BY DEF Call, NoCall, Sent, Cookie, NoSession
<1>2. Resumed(t, c) \in [Kind -> Call]
  BY DEF Call, Resumed
<1>3. Dropped(t) \in [Kind -> Call]
  BY <1>1 DEF Dropped
<1>4. ASSUME NEW d \in [Kind -> Call]
      PROVE  Unmounted(d) \in [Kind -> Call]
  BY <1>4 DEF Unmounted, Call
<1> QED
  BY <1>1, <1>2, <1>3, <1>4

\* A form that is out, and a session that starts.
LEMMA FormTypes ==
  ASSUME NEW kind \in {"none", "signin", "totp", "signup", "confirm", "signout"},
         NEW u \in Native \cup {None}, NEW p \in Native \cup {None}
  PROVE  [kind |-> kind, user |-> u, pending |-> p] \in Form /\ NoForm \in Form
BY DEF Form, NoForm

\* Cookies of a session, and none.
LEMMA JarTypes ==
  ASSUME VarTypes, NEW s \in Cookie
  PROVE  LET Jars == [access : Cookie, refresh : Cookie, pending : Native \cup {None},
                      oauth : Tab \cup {None}]
         IN  /\ Holds(s) \in Jars /\ Emptied \in Jars
             /\ [Holds(s) EXCEPT !.pending = None] \in Jars
             /\ [Holds(s) EXCEPT !.oauth = None] \in Jars
             /\ [jar EXCEPT !.access = s] \in Jars
             /\ \A u \in Native \cup {None} : [jar EXCEPT !.pending = u] \in Jars
             /\ \A t \in Tab \cup {None} : [jar EXCEPT !.oauth = t] \in Jars
BY DEF VarTypes, Holds, Emptied, Cookie

\* The variables of BrowserSession are of the right types in every reachable state.
THEOREM VarTypesHold == SafetySpec => []VarTypes
<1> USE UserAssumption, BoundAssumption
<1>1. Init => VarTypes
  <2> SUFFICES ASSUME Init PROVE VarTypes
    OBVIOUS
  <2>1. Away \in Page /\ NoCall \in Call /\ NoForm \in Form
    BY DEF Away, Page, NoCall, Call, NoForm, Form, Cookie, NoSession
  <2>2. VarTypes
    <3>1. jar \in [access : Cookie, refresh : Cookie, pending : Native \cup {None},
                   oauth : Tab \cup {None}]
      BY DEF Init, Cookie
    <3>2. /\ page \in [Tab -> Page] /\ call \in [Tab -> [Kind -> Call]]
          /\ renewal \in [Tab -> Cookie \cup {None}] /\ form \in [Tab -> Form]
      BY <2>1 DEF Init
    <3>3. owner \in [Session -> User \cup {None}]
      BY DEF Init
    <3> QED
      <4>1. account \in [Native -> {"none", "unconfirmed", "confirmed"}]
        BY DEF Init
      <4>2. faults \in 0..MaxFaults
        BY DEF Init
      <4>3. crossed \in BOOLEAN /\ stale \subseteq Tab
        BY Zenon DEF Init
      <4> QED
        BY <3>1, <3>2, <3>3, <4>1, <4>2, <4>3 DEF VarTypes
  <2> QED
    BY <2>2
<1>2. VarTypes /\ [Next]_vars => VarTypes'
  <2> SUFFICES ASSUME VarTypes, [Next]_vars
               PROVE  VarTypes'
    OBVIOUS
  <2>0. /\ \A t \in Tab : page[t] \in Page /\ call[t] \in [Kind -> Call] /\ form[t] \in Form
        /\ jar.access \in Cookie /\ jar.refresh \in Cookie /\ jar.pending \in Native \cup {None}
        /\ NoSession \in Cookie /\ Session \subseteq Cookie
        /\ "boot" \in Kind /\ "landing" \in Kind /\ "profile" \in Kind
    BY DEF VarTypes, Cookie, Kind
  <2>1. ASSUME NEW t \in Tab, NEW k \in Kind, CallSucceeds(t, k) PROVE VarTypes'
    <3>1. call[t][k].as \in Session
      BY <2>0, <2>1 DEF CallSucceeds, Call, Cookie
    <3>2. Answered(page[t], k, owner[call[t][k].as]) \in Page
      BY <2>0, <3>1, PageTypes DEF VarTypes
    <3>3. page' \in [Tab -> Page] /\ call' \in [Tab -> [Kind -> Call]]
      BY <2>0, <2>1, <3>2, CallTypes DEF CallSucceeds, VarTypes
    <3> QED
      BY <2>1, <3>3 DEF CallSucceeds, VarTypes, history
  <2>2. ASSUME NEW t \in Tab, NEW k \in Kind, CallRefused(t, k) \/ CallFails(t, k) PROVE VarTypes'
    <3>0. call[t][k] \in Call /\ NoCall \in Call
      BY <2>0, CallTypes
    <3>1. [call[t][k] EXCEPT !.st = "refused"] \in Call
      BY <3>0 DEF Call
    <3>2. page' \in [Tab -> Page] /\ call' \in [Tab -> [Kind -> Call]]
      <4>1. page' = page \/ page' = [page EXCEPT ![t] = Failed(@, k)]
        BY <2>2 DEF CallRefused, CallFails
      <4>2. Failed(page[t], k) \in Page
        BY <2>0, PageTypes
      <4>3. \E c \in Call : call' = [call EXCEPT ![t] = [call[t] EXCEPT ![k] = c]]
        BY <2>0, <2>2, <3>0, <3>1 DEF CallRefused, CallFails, VarTypes
      <4>4. \A c \in Call : [call[t] EXCEPT ![k] = c] \in [Kind -> Call]
        BY <2>0
      <4> QED
        BY <4>1, <4>2, <4>3, <4>4 DEF VarTypes
    <3>3. renewal' \in [Tab -> Cookie \cup {None}] /\ faults' \in 0..MaxFaults
      BY <2>0, <2>2 DEF CallRefused, CallFails, Fault, VarTypes
    <3> QED
      BY <2>2, <3>2, <3>3 DEF CallRefused, CallFails, VarTypes, history
  <2>3. ASSUME NEW t \in Tab, RefreshGranted(t) PROVE VarTypes'
    <3>1. renewal[t] \in Cookie
      BY <2>3 DEF RefreshGranted, VarTypes
    <3>2. call' \in [Tab -> [Kind -> Call]]
      BY <2>0, <2>3, <3>1, CallTypes DEF RefreshGranted, VarTypes
    <3>3. jar' \in [access : Cookie, refresh : Cookie, pending : Native \cup {None},
                    oauth : Tab \cup {None}]
      BY <2>3, <3>1, JarTypes DEF RefreshGranted
    <3> QED
      BY <2>3, <3>2, <3>3 DEF RefreshGranted, VarTypes, history
  <2>4. ASSUME NEW t \in Tab, RefreshRefused(t) \/ RefreshFails(t) PROVE VarTypes'
    <3>1. page' \in [Tab -> Page] /\ call' \in [Tab -> [Kind -> Call]]
          /\ UNCHANGED <<owner, account, form>> /\ renewal' \in [Tab -> Cookie \cup {None}]
      <4>1. Expires(t)
        BY <2>4 DEF RefreshRefused, RefreshFails
      <4>2. SignedOut(page[t]) \in Page /\ Unmounted(Dropped(t)) \in [Kind -> Call]
        BY <2>0, PageTypes, CallTypes
      <4> QED
        BY <4>1, <4>2 DEF Expires, VarTypes
    <3>2. crossed' \in BOOLEAN /\ stale' \subseteq Tab
      <4>1. ASSUME NEW P \in BOOLEAN PROVE (crossed \/ P) \in BOOLEAN
        OBVIOUS
      <4>2. Renewing' \in BOOLEAN /\ (\E u \in Tab : renewal'[u] # None) \in BOOLEAN
        BY DEF Renewing
      <4>3. CASE RefreshFails(t)
        BY <4>3 DEF RefreshFails, VarTypes, history
      <4>4. CASE RefreshRefused(t) /\ Holding
        BY <4>1, <4>2, <4>4 DEF RefreshRefused, Changes, VarTypes
      <4>5. CASE RefreshRefused(t) /\ ~Holding
        BY <4>1, <4>2, <4>5 DEF RefreshRefused, VarTypes
      <4> QED
        BY <2>4, <4>3, <4>4, <4>5
    <3>3. faults' \in 0..MaxFaults
      BY <2>4 DEF RefreshRefused, RefreshFails, Fault, VarTypes
    <3>4. jar' = Emptied \/ jar' = jar
      BY <2>4 DEF RefreshRefused, RefreshFails
    <3> QED
      BY <2>0, <3>1, <3>2, <3>3, <3>4, JarTypes DEF VarTypes
  <2>5. ASSUME NEW t \in Tab, Open(t) PROVE VarTypes'
    <3>1. page' \in [Tab -> Page] /\ call' \in [Tab -> [Kind -> Call]]
      BY <2>0, <2>5, PageTypes, CallTypes DEF Open, Loads, VarTypes
    <3> QED
      BY <2>5, <3>1 DEF Open, VarTypes, history
  <2>6. ASSUME NEW t \in Tab, Close(t) \/ GoToGoogle(t) PROVE VarTypes'
    <3>1. [Away EXCEPT !.at = "away"] \in Page /\ [Away EXCEPT !.at = "google"] \in Page
          /\ NoCall \in Call /\ NoForm \in Form
      BY <2>0, CallTypes DEF Away, Page, NoForm, Form
    <3>2. Leaves(t, "away") \/ Leaves(t, "google")
      BY <2>6 DEF Close, GoToGoogle
    <3>3. /\ page' \in [Tab -> Page] /\ call' \in [Tab -> [Kind -> Call]]
          /\ renewal' \in [Tab -> Cookie \cup {None}] /\ form' \in [Tab -> Form]
          /\ stale' \subseteq Tab /\ UNCHANGED <<owner, account, faults, crossed>>
      <4>1. PICK to \in {"away", "google"} : Leaves(t, to)
        BY <3>2
      <4>2. [Away EXCEPT !.at = to] \in Page /\ [k \in Kind |-> NoCall] \in [Kind -> Call]
        BY <3>1
      <4>3. page' \in [Tab -> Page] /\ call' \in [Tab -> [Kind -> Call]]
        BY <4>1, <4>2 DEF Leaves, VarTypes
      <4>4. renewal' \in [Tab -> Cookie \cup {None}] /\ form' \in [Tab -> Form]
        BY <3>1, <4>1 DEF Leaves, VarTypes
      <4> QED
        BY <4>1, <4>3, <4>4 DEF Leaves, VarTypes
    <3>4. jar' = jar \/ jar' = [jar EXCEPT !.oauth = t]
      BY <2>6 DEF Close, GoToGoogle
    <3> QED
      BY <2>0, <3>3, <3>4, JarTypes DEF VarTypes
  <2>7. ASSUME NEW t \in Tab, LoadProfile(t) PROVE VarTypes'
    BY <2>0, <2>7, CallTypes DEF LoadProfile, VarTypes, history
  <2>8. ASSUME NEW t \in Tab, GoogleReturns(t) PROVE VarTypes'
    <3>1. PICK u \in Federated, s \in Session :
            Starts(u, s) /\ jar' = [Holds(s) EXCEPT !.oauth = None]
      BY <2>8 DEF GoogleReturns
    <3>2. jar' \in [access : Cookie, refresh : Cookie, pending : Native \cup {None},
                    oauth : Tab \cup {None}]
      BY <2>0, <3>1, JarTypes
    <3>3. page' \in [Tab -> Page] /\ call' \in [Tab -> [Kind -> Call]]
      BY <2>0, <2>8, <3>2, PageTypes, CallTypes DEF GoogleReturns, Loads, VarTypes
    <3>4. owner' \in [Session -> User \cup {None}]
      BY <3>1 DEF Starts, VarTypes, User
    <3> QED
      BY <2>8, <3>2, <3>3, <3>4 DEF GoogleReturns, Changes, VarTypes
  <2>9. ASSUME NEW t \in Tab, GoogleRefused(t) PROVE VarTypes'
    <3>1. jar' \in [access : Cookie, refresh : Cookie, pending : Native \cup {None},
                    oauth : Tab \cup {None}]
      BY <2>0, <2>9, JarTypes DEF GoogleRefused
    <3>2. page' \in [Tab -> Page] /\ call' \in [Tab -> [Kind -> Call]]
      BY <2>0, <2>9, <3>1, PageTypes, CallTypes DEF GoogleRefused, Loads, VarTypes
    <3>3. faults' \in 0..MaxFaults
      BY <2>9 DEF GoogleRefused, Fault, VarTypes
    <3> QED
      BY <2>9, <3>1, <3>2, <3>3 DEF GoogleRefused, VarTypes, history
  <2>10. ASSUME NEW t \in Tab, NEW kind \in {"signin", "totp", "signup", "confirm", "signout"},
                NEW u \in Native \cup {None}, Submits(t, kind, u)
         PROVE  VarTypes'
    <3>1. form' \in [Tab -> Form]
      BY <2>0, <2>10, FormTypes DEF Submits, VarTypes
    <3> QED
      BY <2>10, <3>1 DEF Submits, VarTypes, history
  <2>11. ASSUME NEW t \in Tab, SessionReturns(t) PROVE VarTypes'
    <3>1. PICK s \in Session :
            Starts(form[t].user, s) /\ jar' = [Holds(s) EXCEPT !.pending = None]
      BY <2>11 DEF SessionReturns
    <3>2. owner' \in [Session -> User \cup {None}]
      BY <2>0, <3>1 DEF Starts, VarTypes, User, Form
    <3>3. page' \in [Tab -> Page] /\ form' \in [Tab -> Form]
      BY <2>0, <2>11, PageTypes, FormTypes DEF SessionReturns, Answer, VarTypes
    <3> QED
      BY <2>0, <2>11, <3>1, <3>2, <3>3, JarTypes DEF SessionReturns, Answer, Changes, VarTypes
  <2>12. ASSUME NEW t \in Tab, NEW to \in {"credentials", "totp", "confirm"}, Steps(t, to),
                form' = [form EXCEPT ![t] = NoForm], UNCHANGED <<renewal, faults>>,
                jar' = jar \/ \E u \in Native \cup {None} : jar' = [jar EXCEPT !.pending = u],
                \/ account' = account
                \/ \E st \in {"unconfirmed", "confirmed"} :
                     account' = [account EXCEPT ![form[t].user] = st]
         PROVE  VarTypes'
    <3>1. form[t].user \in Native \cup {None} /\ NoForm \in Form
      BY <2>0 DEF Form, NoForm
    <3>2. page' \in [Tab -> Page]
      <4>1. page' = [page EXCEPT ![t] = [page[t] EXCEPT !.step = to,
                       !.who = IF to = "credentials" THEN None ELSE form[t].user]]
        BY <2>12 DEF Steps, VarTypes
      <4>2. [page[t] EXCEPT !.step = to,
               !.who = IF to = "credentials" THEN None ELSE form[t].user] \in Page
        BY <2>0, <3>1 DEF Page
      <4> QED
        BY <4>1, <4>2 DEF VarTypes
    <3>3. form' \in [Tab -> Form] /\ account' \in [Native -> {"none", "unconfirmed", "confirmed"}]
      BY <2>12, <3>1 DEF VarTypes
    <3>4. jar' \in [access : Cookie, refresh : Cookie, pending : Native \cup {None},
                    oauth : Tab \cup {None}]
      BY <2>0, <2>12, JarTypes DEF VarTypes
    <3> QED
      BY <2>12, <3>2, <3>3, <3>4 DEF Steps, VarTypes, history
  <2>13. ASSUME NEW t \in Tab, \/ TotpAsked(t) \/ TotpExpired(t) \/ SignUpReturns(t)
                               \/ ConfirmationAsked(t) \/ ConfirmReturns(t)
         PROVE  VarTypes'
    <3>1. form[t].user \in Native \cup {None}
      BY <2>0 DEF Form
    <3>2. CASE TotpAsked(t) \/ TotpExpired(t)
      BY <2>12, <3>1, <3>2 DEF TotpAsked, TotpExpired, Answer
    <3>3. CASE SignUpReturns(t) \/ ConfirmationAsked(t) \/ ConfirmReturns(t)
      BY <2>12, <3>3 DEF SignUpReturns, ConfirmationAsked, ConfirmReturns, Answer
    <3> QED
      BY <2>13, <3>2, <3>3
  <2>14. ASSUME NEW t \in Tab, FormRefused(t) PROVE VarTypes'
    <3>1. form' \in [Tab -> Form]
      BY <2>14 DEF FormRefused, Answer, VarTypes, NoForm, Form
    <3> QED
      BY <2>14, <3>1 DEF FormRefused, Answer, VarTypes, history
  <2>15. ASSUME NEW t \in Tab, SignOutReturns(t) PROVE VarTypes'
    <3>1. form' \in [Tab -> Form]
      BY <2>15 DEF SignOutReturns, Answer, VarTypes, NoForm, Form
    <3>2. page' \in [Tab -> Page] /\ call' \in [Tab -> [Kind -> Call]]
      BY <2>0, <2>15, PageTypes, CallTypes DEF SignOutReturns, VarTypes
    <3> QED
      BY <2>0, <2>15, <3>1, <3>2, JarTypes DEF SignOutReturns, Answer, Changes, VarTypes
  <2>16. ASSUME NEW t \in Tab, FormLost(t) PROVE VarTypes'
    <3>1. form' \in [Tab -> Form] /\ faults' \in 0..MaxFaults
      BY <2>16 DEF FormLost, Fault, VarTypes, NoForm, Form
    <3>2. page' \in [Tab -> Page] /\ call' \in [Tab -> [Kind -> Call]]
      <4>1. SignedOut(page[t]) \in Page /\ Unmounted(call[t]) \in [Kind -> Call]
        BY <2>0, PageTypes, CallTypes
      <4> QED
        <5>1. \/ UNCHANGED <<page, call>>
              \/ /\ page' = [page EXCEPT ![t] = SignedOut(@)]
                 /\ call' = [call EXCEPT ![t] = Unmounted(@)]
          BY <2>16 DEF FormLost
        <5>2. page' \in [Tab -> Page]
          BY <4>1, <5>1 DEF VarTypes
        <5>3. call' \in [Tab -> [Kind -> Call]]
          BY <4>1, <5>1 DEF VarTypes
        <5> QED
          BY <5>2, <5>3
    <3>3. account' \in [Native -> {"none", "unconfirmed", "confirmed"}]
      BY <2>16 DEF FormLost, VarTypes
    <3> QED
      BY <2>16, <3>1, <3>2, <3>3 DEF FormLost, VarTypes, history
  <2>17. ASSUME NEW t \in Tab, BackToCredentials(t) PROVE VarTypes'
    <3>1. [page[t] EXCEPT !.step = "credentials", !.who = None] \in Page
      BY <2>0 DEF Page
    <3> QED
      BY <2>17, <3>1 DEF BackToCredentials, VarTypes, history
  <2>18. ASSUME \/ Lapses("access", NoSession) \/ Lapses("refresh", NoSession)
                \/ Lapses("pending", None) \/ Lapses("oauth", None)
         PROVE  VarTypes'
    BY <2>0, <2>18, JarTypes DEF Lapses, VarTypes, history
  <2>19. CASE UNCHANGED vars
    BY <2>19 DEF vars, VarTypes
  <2>20. ASSUME NEW t \in Tab, NEW u \in Native,
                SubmitSignIn(t, u) \/ SubmitSignUp(t, u)
         PROVE  VarTypes'
    BY <2>10, <2>20 DEF SubmitSignIn, SubmitSignUp
  <2>21. ASSUME NEW t \in Tab, SubmitTotp(t) \/ SubmitCode(t) \/ SubmitSignOut(t)
         PROVE  VarTypes'
    <3>1. page[t].who \in Native \cup {None}
      BY <2>0 DEF Page
    <3> QED
      BY <2>10, <2>21, <3>1 DEF SubmitTotp, SubmitCode, SubmitSignOut
  <2>22. ASSUME NEW t \in Tab, TabStep(t) PROVE VarTypes'
    BY <2>1, <2>2, <2>3, <2>4, <2>5, <2>6, <2>7, <2>8, <2>9, <2>11, <2>13, <2>14, <2>15, <2>16,
       <2>17, <2>20, <2>21, <2>22 DEF TabStep, FormReturns
  <2> QED
    BY <2>18, <2>19, <2>22 DEF Next
<1> QED
  BY <1>1, <1>2, PTL DEF SafetySpec

-----------------------------------------------------------------------------
(* What the steps do, as far as the properties can tell.                   *)

\* A step that touches no call, session or failure: the forms and the flow of
\* the sign-in pages, and cookies that run out.
Sidestep ==
  /\ UNCHANGED <<owner, call, renewal, faults, crossed>> /\ stale \subseteq stale'
  /\ jar'.refresh \in {jar.refresh, NoSession} /\ jar'.access \in {jar.access, NoSession}
  /\ \A u \in Tab :
       /\ Holding /\ ~Holding' =>
            page[u].at # "app" \/ Status(u) = "unauthenticated" \/ u \in stale'
       /\ page'[u].at = page[u].at /\ page'[u].status = page[u].status
       /\ page'[u].settled = page[u].settled /\ page'[u].shown = page[u].shown
       /\ \/ form'[u].kind \in {form[u].kind, "none"}
          \/ Idle(u) /\ (form'[u].kind \in {"signin", "totp"} => Status(u) = "unauthenticated")

\* The steps of that kind.
LEMMA Sidesteps ==
  ASSUME VarTypes,
         \/ \E t \in Tab :
              \/ \E u \in Native : SubmitSignIn(t, u) \/ SubmitSignUp(t, u)
              \/ SubmitTotp(t) \/ SubmitCode(t) \/ SubmitSignOut(t) \/ BackToCredentials(t)
              \/ TotpAsked(t) \/ TotpExpired(t) \/ SignUpReturns(t)
              \/ ConfirmationAsked(t) \/ ConfirmReturns(t) \/ FormRefused(t)
         \/ Lapses("access", NoSession) \/ Lapses("refresh", NoSession)
         \/ Lapses("pending", None) \/ Lapses("oauth", None)
         \/ UNCHANGED vars
  PROVE  Sidestep
<1> USE DEF history
<1>0. /\ \A t \in Tab : page[t] \in Page /\ form[t] \in Form
      /\ DOMAIN page = Tab /\ DOMAIN form = Tab
      /\ jar = [access |-> jar.access, refresh |-> jar.refresh, pending |-> jar.pending,
                oauth |-> jar.oauth]
  BY DEF VarTypes
<1>h. jar'.access = jar.access /\ jar'.refresh = jar.refresh => (Holding' <=> Holding)
  BY DEF Holding
<1>1. ASSUME NEW t \in Tab, NEW kind, NEW u, Submits(t, kind, u),
             kind \in {"signin", "totp"} => Status(t) = "unauthenticated"
      PROVE  Sidestep
  BY <1>0, <1>1, <1>h DEF Submits, Sidestep, Form, VarTypes
<1>2. ASSUME NEW t \in Tab,
             \/ \E u \in Native : SubmitSignIn(t, u) \/ SubmitSignUp(t, u)
             \/ SubmitTotp(t) \/ SubmitCode(t) \/ SubmitSignOut(t)
      PROVE  Sidestep
  BY <1>1, <1>2 DEF SubmitSignIn, SubmitSignUp, SubmitTotp, SubmitCode, SubmitSignOut, OnStep
<1>3. ASSUME NEW t \in Tab, NEW to, Steps(t, to), UNCHANGED <<renewal, faults>>,
             form' = [form EXCEPT ![t] = NoForm],
             jar'.refresh = jar.refresh, jar'.access = jar.access
      PROVE  Sidestep
  BY <1>0, <1>3, <1>h DEF Steps, Sidestep, NoForm, Form, Page, VarTypes
<1>4. ASSUME NEW t \in Tab, \/ TotpAsked(t) \/ TotpExpired(t) \/ SignUpReturns(t)
                            \/ ConfirmationAsked(t) \/ ConfirmReturns(t)
      PROVE  Sidestep
  <2>1. jar'.refresh = jar.refresh /\ jar'.access = jar.access
    BY <1>0, <1>4 DEF TotpAsked, TotpExpired, SignUpReturns, ConfirmationAsked, ConfirmReturns
  <2> QED
    BY <1>3, <1>4, <2>1
    DEF TotpAsked, TotpExpired, SignUpReturns, ConfirmationAsked, ConfirmReturns, Answer
<1>5. ASSUME NEW t \in Tab, FormRefused(t)
      PROVE  Sidestep
  BY <1>0, <1>5, <1>h DEF FormRefused, Answer, Sidestep, NoForm, Form
<1>6. ASSUME NEW t \in Tab, BackToCredentials(t)
      PROVE  Sidestep
  BY <1>0, <1>6, <1>h DEF BackToCredentials, Sidestep, Page
<1>7. ASSUME \/ Lapses("access", NoSession) \/ Lapses("refresh", NoSession)
             \/ Lapses("pending", None) \/ Lapses("oauth", None)
      PROVE  Sidestep
  <2>1. jar'.refresh \in {jar.refresh, NoSession} /\ jar'.access \in {jar.access, NoSession}
    BY <1>0, <1>7 DEF Lapses
  <2>2. /\ UNCHANGED <<owner, page, call, renewal, form, faults, crossed>>
        /\ stale' = IF Holding /\ ~Holding'
                    THEN stale \cup {t \in Tab : page[t].at = "app" /\ Status(t) # "unauthenticated"}
                    ELSE stale
    BY <1>7 DEF Lapses
  <2> QED
    BY <2>1, <2>2 DEF Sidestep
<1>8. CASE UNCHANGED vars
  BY <1>8, <1>h DEF vars, Sidestep
<1> QED
  BY <1>2, <1>4, <1>5, <1>6, <1>7, <1>8

\* What becomes of the calls when a page hears that its session is over.
LEMMA UnmountedCalls ==
  ASSUME NEW d \in [Kind -> Call]
  PROVE  /\ \A k \in Kind : Unmounted(d)[k].st = d[k].st /\ Unmounted(d)[k].as = d[k].as
                            /\ (Unmounted(d)[k].again <=> d[k].again)
                            /\ (k # "profile" => (Unmounted(d)[k].live <=> d[k].live))
         /\ ~Unmounted(d)["profile"].live
BY DEF Unmounted, Call, Kind

\* Whatever a call waits for has been asked for, and is asked for once.
LEMMA RefreshStaysAsked ==
  ASSUME VarTypes, RefreshIsAsked, [Next]_vars
  PROVE  RefreshIsAsked'
<1> USE UserAssumption DEF RefreshIsAsked, Waiting
<1>0. /\ \A t \in Tab : call[t] \in [Kind -> Call] /\ Dropped(t) \in [Kind -> Call]
      /\ jar.refresh # None
      /\ DOMAIN call = Tab /\ DOMAIN renewal = Tab
  <2>1. jar.refresh \in Cookie /\ Cookie \subseteq Int
    BY BoundAssumption DEF VarTypes, Cookie, Session, NoSession
  <2>2. \A t \in Tab : call[t] \in [Kind -> Call]
    BY DEF VarTypes
  <2> QED
    BY <2>1, <2>2, CallTypes DEF VarTypes
<1>1. ASSUME NEW t \in Tab, NEW k \in Kind, CallSucceeds(t, k) \/ CallFails(t, k)
      PROVE  RefreshIsAsked'
  BY <1>0, <1>1 DEF CallSucceeds, CallFails, NoCall
<1>2. ASSUME NEW t \in Tab, NEW k \in Kind, CallRefused(t, k)
      PROVE  RefreshIsAsked'
  <2>1. CASE call[t][k].again
    BY <1>0, <1>2, <2>1 DEF CallRefused, NoCall
  <2>2. CASE ~call[t][k].again
    BY <1>0, <1>2, <2>2 DEF CallRefused
  <2> QED
    BY <2>1, <2>2
<1>3. ASSUME NEW t \in Tab, RefreshGranted(t)
      PROVE  RefreshIsAsked'
  <2>1. \A k \in Kind : Resumed(t, renewal[t])[k].st # "refused"
    BY <1>0 DEF Resumed, Call
  <2> QED
    BY <1>0, <1>3, <2>1 DEF RefreshGranted
<1>4. ASSUME NEW t \in Tab, RefreshRefused(t) \/ RefreshFails(t)
      PROVE  RefreshIsAsked'
  <2>1. \A k \in Kind : Unmounted(Dropped(t))[k].st # "refused"
    <3>1. \A k \in Kind : Dropped(t)[k].st # "refused"
      BY DEF Dropped, NoCall
    <3> QED
      BY <1>0, <3>1, UnmountedCalls
  <2> QED
    BY <1>0, <1>4, <2>1 DEF RefreshRefused, RefreshFails, Expires
<1>5. ASSUME NEW t \in Tab, NEW kinds, Loads(t, kinds), UNCHANGED renewal
      PROVE  RefreshIsAsked'
  BY <1>0, <1>5 DEF Loads, Sent, NoCall
<1>6. ASSUME NEW t \in Tab, Open(t) \/ GoogleReturns(t) \/ GoogleRefused(t)
      PROVE  RefreshIsAsked'
  BY <1>5, <1>6 DEF Open, GoogleReturns, GoogleRefused
<1>7. ASSUME NEW t \in Tab, NEW to, Leaves(t, to)
      PROVE  RefreshIsAsked'
  BY <1>0, <1>7 DEF Leaves, NoCall
<1>8. ASSUME NEW t \in Tab, Close(t) \/ GoToGoogle(t)
      PROVE  RefreshIsAsked'
  BY <1>7, <1>8 DEF Close, GoToGoogle
<1>9. ASSUME NEW t \in Tab, LoadProfile(t)
      PROVE  RefreshIsAsked'
  BY <1>0, <1>9 DEF LoadProfile, Sent, NoCall
<1>10. ASSUME NEW t \in Tab, SessionReturns(t)
       PROVE  RefreshIsAsked'
  BY <1>10 DEF SessionReturns, Answer
<1>11. ASSUME NEW t \in Tab, SignOutReturns(t) \/ FormLost(t)
       PROVE  RefreshIsAsked'
  <2>1. UNCHANGED renewal /\ (call' = call \/ call' = [call EXCEPT ![t] = Unmounted(@)])
    BY <1>11 DEF SignOutReturns, Answer, FormLost
  <2>2. \A k \in Kind : Unmounted(call[t])[k].st = call[t][k].st
    BY <1>0, UnmountedCalls
  <2> QED
    BY <1>0, <2>1, <2>2
<1>12. ASSUME Sidestep
       PROVE  RefreshIsAsked'
  BY <1>12 DEF Sidestep
<1> QED
  BY <1>1, <1>2, <1>3, <1>4, <1>6, <1>8, <1>9, <1>10, <1>11, <1>12, Sidesteps
  DEF Next, TabStep, FormReturns

\* Every variable of BrowserSession has its type, and no call waits for a
\* refresh that nobody asked for (sessionRefresh.ts:39).
THEOREM TypeCorrect == SafetySpec => []TypeOK
<1>1. Init => RefreshIsAsked
  BY DEF Init, RefreshIsAsked, Waiting, NoCall
<1>2. VarTypes /\ RefreshIsAsked /\ [Next]_vars => RefreshIsAsked'
  BY RefreshStaysAsked
<1> QED
  BY <1>1, <1>2, VarTypesHold, PTL DEF SafetySpec, TypeOK

-----------------------------------------------------------------------------
(* What a tab says, and the cookies of the browser                         *)

\* What the events and answers do to a page.
LEMMA PageEvents ==
  ASSUME NEW p \in Page, NEW k \in Kind, NEW u
  PROVE  /\ SignedIn(p).status = "authenticated" /\ SignedIn(p).settled
         /\ SignedIn(p).at = p.at /\ SignedIn(p).shown = p.shown
         /\ SignedOut(p).status = "unauthenticated" /\ SignedOut(p).settled
         /\ SignedOut(p).at = p.at /\ SignedOut(p).shown = None
         /\ Failed(p, k).at = p.at /\ (Failed(p, k).settled <=> p.settled)
         /\ Failed(p, k).shown = p.shown
         /\ Failed(p, k).status =
              IF k = "boot" /\ ~p.settled THEN "unauthenticated" ELSE p.status
         /\ Answered(p, k, u).at = p.at
         /\ (Answered(p, k, u).settled <=> p.settled \/ k = "landing")
         /\ Answered(p, k, u).shown = IF k = "profile" THEN u ELSE p.shown
         /\ Answered(p, k, u).status =
              IF k = "landing" \/ (k = "boot" /\ ~p.settled) THEN "authenticated" ELSE p.status
BY DEF Page, SignedIn, SignedOut, Failed, Answered, Kind

\* What leaving and loading make of a page and its calls.
LEMMA PageLoads ==
  ASSUME NEW c \in Cookie, NEW to \in {"away", "google", "app"}
  PROVE  /\ Loaded.at = "app" /\ Loaded.status = "loading" /\ Loaded.shown = None
         /\ ~Loaded.settled
         /\ [Away EXCEPT !.at = to].at = to /\ [Away EXCEPT !.at = to].status = "loading"
         /\ [Away EXCEPT !.at = to].shown = None
         /\ Sent(c).st = "sent" /\ Sent(c).as = c /\ ~Sent(c).again /\ Sent(c).live
         /\ NoCall.st = "none" /\ ~NoCall.live /\ ~NoCall.again /\ NoForm.kind = "none"
BY DEF Away, Loaded, Sent, NoCall, NoForm

\* The types as the proofs below use them.
LEMMA TypesOfATab ==
  ASSUME VarTypes
  PROVE  /\ \A t \in Tab : /\ page[t] \in Page /\ call[t] \in [Kind -> Call] /\ form[t] \in Form
                           /\ Dropped(t) \in [Kind -> Call]
                           /\ \A k \in Kind : call[t][k] \in Call
         /\ DOMAIN page = Tab /\ DOMAIN call = Tab /\ DOMAIN renewal = Tab /\ DOMAIN form = Tab
         /\ Kind = {"boot", "landing", "profile"}
         /\ jar.access \in Cookie /\ jar.refresh \in Cookie /\ None \notin Cookie
<1>1. \A t \in Tab : page[t] \in Page /\ call[t] \in [Kind -> Call] /\ form[t] \in Form
  BY DEF VarTypes
<1>2. NoSession \in Cookie /\ Cookie \subseteq Int /\ jar.access \in Cookie /\ jar.refresh \in Cookie
  BY BoundAssumption DEF VarTypes, Cookie, Session, NoSession
<1>3. \A t \in Tab : Dropped(t) \in [Kind -> Call] /\ \A k \in Kind : call[t][k] \in Call
  BY <1>1, <1>2, CallTypes
<1> QED
  BY <1>1, <1>2, <1>3, UserAssumption DEF VarTypes, Kind

\* The inductive step of TabsAreCoherent.
LEMMA CoherenceStays ==
  ASSUME VarTypes, TabsAreCoherent, [Next]_vars
  PROVE  TabsAreCoherent'
<1> USE TypesOfATab DEF Status
<1> DEFINE Coherent(w) ==
      /\ page[w].at # "app" =>
           /\ Status(w) = "loading" /\ form[w].kind = "none" /\ renewal[w] = None
           /\ \A k \in Kind : call[w][k].st = "none"
      /\ Status(w) # "authenticated" => page[w].shown = None /\ ~call[w]["profile"].live
      /\ form[w].kind \in {"signin", "totp"} => Status(w) = "unauthenticated"
      /\ form[w].kind # "none" => call[w]["landing"].st = "none"
      /\ Status(w) # "loading" /\ call[w]["boot"].st # "none" => page[w].settled
<1>0. \A w \in Tab : Coherent(w)
  BY DEF TabsAreCoherent
<1> SUFFICES ASSUME NEW w \in Tab
             PROVE  Coherent(w)'
  BY DEF TabsAreCoherent
<1>1. ASSUME NEW t \in Tab, NEW k \in Kind, CallSucceeds(t, k)
      PROVE  Coherent(w)'
  <2>1. /\ call' = [call EXCEPT ![t] = [call[t] EXCEPT ![k] = NoCall]]
        /\ page'[t] = IF call[t][k].live THEN Answered(page[t], k, owner[call[t][k].as])
                      ELSE page[t]
        /\ \A u \in Tab \ {t} : page'[u] = page[u]
        /\ call[t][k].st = "sent" /\ UNCHANGED <<renewal, form>>
    BY <1>1 DEF CallSucceeds
  <2> QED
    BY <1>0, <2>1, PageEvents, PageLoads
<1>14. ASSUME NEW t \in Tab, NEW k \in Kind, call[t][k].st = "sent",
              call' = [call EXCEPT ![t] = [call[t] EXCEPT ![k] = NoCall]],
              page' = [page EXCEPT ![t] = Failed(page[t], k)], UNCHANGED <<renewal, form>>
       PROVE  Coherent(w)'
  <2>1. CASE w # t
    BY <1>0, <1>14, <2>1
  <2>2. CASE w = t
    <3>1. /\ Failed(page[t], k).at = page[t].at /\ Failed(page[t], k).shown = page[t].shown
          /\ (Failed(page[t], k).settled <=> page[t].settled)
          /\ Failed(page[t], k).status =
               IF k = "boot" /\ ~page[t].settled THEN "unauthenticated" ELSE page[t].status
      <4>1. page[t] \in Page
        OBVIOUS
      <4> QED
        BY ONLY <4>1 DEF Failed, Page
    <3>2. /\ page'[t] = Failed(page[t], k) /\ call'[t][k] = NoCall
          /\ \A j \in Kind \ {k} : call'[t][j] = call[t][j]
      BY <1>14
    <3>3. k = "boot" /\ ~page[t].settled => Status(t) = "loading"
      BY <1>0, <1>14
    <3> QED
      BY <1>0, <1>14, <2>2, <3>1, <3>2, <3>3, PageLoads
  <2> QED
    BY <2>1, <2>2
<1>2. ASSUME NEW t \in Tab, NEW k \in Kind, CallFails(t, k)
      PROVE  Coherent(w)'
  <2>1. /\ call' = [call EXCEPT ![t] = [call[t] EXCEPT ![k] = NoCall]]
        /\ page' = [page EXCEPT ![t] = Failed(page[t], k)]
        /\ call[t][k].st = "sent" /\ UNCHANGED <<renewal, form>>
    BY <1>2 DEF CallFails
  <2> QED
    BY <1>14, <2>1
<1>3. ASSUME NEW t \in Tab, NEW k \in Kind, CallRefused(t, k)
      PROVE  Coherent(w)'
  <2>1. CASE call[t][k].again
    <3>1. /\ call' = [call EXCEPT ![t] = [call[t] EXCEPT ![k] = NoCall]]
          /\ page' = [page EXCEPT ![t] = Failed(page[t], k)]
          /\ call[t][k].st = "sent" /\ UNCHANGED <<renewal, form>>
      BY <1>3, <2>1 DEF CallRefused
    <3> QED
      BY <1>14, <3>1
  <2>2. CASE ~call[t][k].again
    <3>1. /\ call' = [call EXCEPT ![t] = [call[t] EXCEPT ![k] = [call[t][k] EXCEPT !.st = "refused"]]]
          /\ call[t][k].st = "sent" /\ UNCHANGED <<page, form>>
          /\ \A u \in Tab \ {t} : renewal'[u] = renewal[u]
      BY <1>3, <2>2 DEF CallRefused
    <3>2. page[t].at = "app"
      BY <1>0, <3>1
    <3>3. /\ [call[t][k] EXCEPT !.st = "refused"].st = "refused"
          /\ ([call[t][k] EXCEPT !.st = "refused"].live <=> call[t][k].live)
      BY DEF Call
    <3> QED
      BY <1>0, <3>1, <3>2, <3>3
  <2> QED
    BY <2>1, <2>2
<1>4. ASSUME NEW t \in Tab, RefreshGranted(t)
      PROVE  Coherent(w)'
  <2>1. \A k \in Kind : /\ (Resumed(t, renewal[t])[k].live <=> call[t][k].live)
                        /\ (Resumed(t, renewal[t])[k].st = "none" <=> call[t][k].st = "none")
    BY DEF Resumed, Waiting, Call
  <2>2. page[t].at = "app"
    BY <1>0, <1>4 DEF RefreshGranted
  <2> QED
    BY <1>0, <1>4, <2>1, <2>2 DEF RefreshGranted
<1>5. ASSUME NEW t \in Tab, RefreshRefused(t) \/ RefreshFails(t)
      PROVE  Coherent(w)'
  <2>1. Expires(t) /\ renewal[t] # None
    BY <1>5 DEF RefreshRefused, RefreshFails
  <2>2. page[t].at = "app" /\ (form[t].kind # "none" => call[t]["landing"].st = "none")
    BY <1>0, <2>1
  <2>3. call[t]["landing"].st = "none" => Dropped(t)["landing"].st = "none"
    BY DEF Dropped, NoCall
  <2> QED
    <3> DEFINE d == Dropped(t)
    <3>1. /\ page' = [page EXCEPT ![t] = SignedOut(page[t])] /\ UNCHANGED form
          /\ call' = [call EXCEPT ![t] = Unmounted(d)] /\ renewal' = [renewal EXCEPT ![t] = None]
      BY <2>1 DEF Expires
    <3>2. /\ Unmounted(d)["landing"].st = d["landing"].st /\ ~Unmounted(d)["profile"].live
          /\ SignedOut(page[t]).status = "unauthenticated" /\ SignedOut(page[t]).settled
          /\ SignedOut(page[t]).at = "app" /\ SignedOut(page[t]).shown = None
      <4>1. d \in [Kind -> Call] /\ "landing" \in Kind
        OBVIOUS
      <4>2. Unmounted(d)["landing"].st = d["landing"].st /\ ~Unmounted(d)["profile"].live
        BY <4>1, UnmountedCalls
      <4>3. page[t] \in Page /\ "boot" \in Kind
        OBVIOUS
      <4> QED
        BY <2>2, <4>2, <4>3, PageEvents
    <3>3. CASE w # t
      BY <1>0, <3>1, <3>3
    <3>4. CASE w = t
      BY <1>0, <2>2, <2>3, <3>1, <3>2, <3>4
    <3> QED
      BY <3>3, <3>4
<1>6. ASSUME NEW t \in Tab, NEW kinds, Loads(t, kinds), UNCHANGED <<renewal, form>>,
             page[t].at # "app", "profile" \notin kinds, jar'.access \in Cookie
      PROVE  Coherent(w)'
  <2>1. /\ page' = [page EXCEPT ![t] = Loaded]
        /\ call'[t] = [k \in Kind |-> IF k \in kinds THEN Sent(jar'.access) ELSE NoCall]
        /\ \A u \in Tab \ {t} : call'[u] = call[u]
    BY <1>6 DEF Loads
  <2> QED
    BY <1>0, <1>6, <2>1, PageLoads
<1>7. ASSUME NEW t \in Tab, Open(t) \/ GoogleReturns(t) \/ GoogleRefused(t)
      PROVE  Coherent(w)'
  <2>1. page[t].at # "app" /\ UNCHANGED <<renewal, form>>
    BY <1>7 DEF Open, GoogleReturns, GoogleRefused
  <2>2. jar'.access \in Cookie
    <3>1. CASE Open(t) \/ GoogleRefused(t)
      BY <3>1 DEF Open, GoogleRefused, VarTypes
    <3>2. CASE GoogleReturns(t)
      <4>1. PICK s \in Session : jar' = [Holds(s) EXCEPT !.oauth = None]
        BY <3>2 DEF GoogleReturns
      <4> QED
        BY <4>1 DEF Holds, Cookie, VarTypes
    <3> QED
      BY <1>7, <3>1, <3>2
  <2> QED
    BY <1>6, <1>7, <2>1, <2>2 DEF Open, GoogleReturns, GoogleRefused
<1>8. ASSUME NEW t \in Tab, NEW to \in {"away", "google"}, Leaves(t, to)
      PROVE  Coherent(w)'
  BY <1>0, <1>8, PageLoads DEF Leaves
<1>9. ASSUME NEW t \in Tab, Close(t) \/ GoToGoogle(t)
      PROVE  Coherent(w)'
  BY <1>8, <1>9 DEF Close, GoToGoogle
<1>10. ASSUME NEW t \in Tab, LoadProfile(t)
       PROVE  Coherent(w)'
  <2>1. call' = [call EXCEPT ![t] = [call[t] EXCEPT !["profile"] = Sent(jar.access)]]
    BY <1>10 DEF LoadProfile
  <2> QED
    BY <1>0, <1>10, <2>1 DEF LoadProfile, Offers
<1>11. ASSUME NEW t \in Tab, SessionReturns(t)
       PROVE  Coherent(w)'
  <2>1. /\ page' = [page EXCEPT ![t] = SignedIn(page[t])] /\ form' = [form EXCEPT ![t] = NoForm]
        /\ UNCHANGED <<call, renewal>> /\ form[t].kind # "none"
    BY <1>11 DEF SessionReturns, Answer
  <2> QED
    <3>1. CASE w # t
      BY <1>0, <2>1, <3>1
    <3>2. CASE w = t
      <4>1. page[t].at = "app" /\ call[t]["landing"].st = "none" /\ NoForm.kind = "none"
        BY <1>0, <2>1, PageLoads
      <4>2. /\ SignedIn(page[t]).status = "authenticated" /\ SignedIn(page[t]).settled
            /\ SignedIn(page[t]).at = "app"
        BY <4>1, PageEvents
      <4> QED
        BY <2>1, <3>2, <4>1, <4>2
    <3> QED
      BY <3>1, <3>2
<1>12. ASSUME NEW t \in Tab, SignOutReturns(t) \/ FormLost(t)
       PROVE  Coherent(w)'
  <2>1. /\ form[t].kind # "none" /\ form' = [form EXCEPT ![t] = NoForm] /\ UNCHANGED renewal
        /\ \/ UNCHANGED <<page, call>>
           \/ /\ page' = [page EXCEPT ![t] = SignedOut(page[t])]
              /\ call' = [call EXCEPT ![t] = Unmounted(call[t])]
    BY <1>12 DEF SignOutReturns, Answer, FormLost
  <2>2. CASE UNCHANGED <<page, call>>
    BY <1>0, <2>1, <2>2, PageLoads
  <2>3. CASE /\ page' = [page EXCEPT ![t] = SignedOut(page[t])]
             /\ call' = [call EXCEPT ![t] = Unmounted(call[t])]
    <3>1. page[t].at = "app" /\ call[t]["landing"].st = "none" /\ NoForm.kind = "none"
      BY <1>0, <2>1, PageLoads
    <3>2. /\ Unmounted(call[t])["landing"].st = "none" /\ ~Unmounted(call[t])["profile"].live
          /\ SignedOut(page[t]).status = "unauthenticated" /\ SignedOut(page[t]).settled
          /\ SignedOut(page[t]).at = "app" /\ SignedOut(page[t]).shown = None
      <4>1. call[t] \in [Kind -> Call] /\ "landing" \in Kind
        OBVIOUS
      <4>2. /\ Unmounted(call[t])["landing"].st = call[t]["landing"].st
            /\ ~Unmounted(call[t])["profile"].live
        BY <4>1, UnmountedCalls
      <4>3. page[t] \in Page /\ "boot" \in Kind
        OBVIOUS
      <4> QED
        BY <3>1, <4>2, <4>3, PageEvents
    <3>3. CASE w # t
      BY <1>0, <2>1, <2>3, <3>3
    <3>4. CASE w = t
      BY <1>0, <2>1, <2>3, <3>1, <3>2, <3>4
    <3> QED
      BY <3>3, <3>4
  <2> QED
    BY <2>1, <2>2, <2>3
<1>13. ASSUME Sidestep
       PROVE  Coherent(w)'
  BY <1>0, <1>13 DEF Sidestep, Idle, Offers
<1> HIDE DEF Coherent
<1> QED
  BY <1>1, <1>2, <1>3, <1>4, <1>5, <1>7, <1>9, <1>10, <1>11, <1>12, <1>13, Sidesteps
  DEF Next, TabStep, FormReturns

\* StaysSignedIn, for any number of tabs, forms and failures: a late answer to
\* the boot call overrides no event.
THEOREM NoSilentSignOut == SafetySpec => StaysSignedIn
<1> DEFINE Loses(t) == Status(t) = "authenticated" /\ Status(t)' = "unauthenticated"
<1> DEFINE Kept == \A t \in Tab : Loses(t) => form[t].kind = "signout" \/ renewal[t] # None
<1>1. Init => TabsAreCoherent
  BY DEF Init, TabsAreCoherent, Status, Away, NoCall, NoForm, Kind
<1>2. VarTypes /\ TabsAreCoherent /\ [Next]_vars => TabsAreCoherent'
  BY CoherenceStays
<1>3. VarTypes /\ TabsAreCoherent /\ [Next]_vars => [Kept]_vars
  <2> SUFFICES ASSUME VarTypes, TabsAreCoherent, [Next]_vars, NEW w \in Tab, Loses(w),
                      form[w].kind # "signout", renewal[w] = None
               PROVE  FALSE
    OBVIOUS
  <2> USE TypesOfATab DEF Status
  <2>0. call[w]["boot"].st = "none" \/ page[w].settled
    BY DEF TabsAreCoherent
  <2>1. ASSUME NEW t \in Tab, NEW k \in Kind, CallSucceeds(t, k) PROVE FALSE
    BY <2>1, PageEvents DEF CallSucceeds
  <2>2. ASSUME NEW t \in Tab, NEW k \in Kind, CallRefused(t, k) \/ CallFails(t, k) PROVE FALSE
    <3>1. page' = page \/ page' = [page EXCEPT ![t] = Failed(page[t], k)]
      BY <2>2 DEF CallRefused, CallFails
    <3>2. call[t][k].st = "sent"
      BY <2>2 DEF CallRefused, CallFails
    <3>3. Failed(page[t], k).status =
               IF k = "boot" /\ ~page[t].settled THEN "unauthenticated" ELSE page[t].status
      <4>1. page[t] \in Page
        OBVIOUS
      <4> QED
        BY ONLY <4>1 DEF Failed, Page
    <3> QED
      BY <2>0, <3>1, <3>2, <3>3
  <2>3. ASSUME NEW t \in Tab, RefreshGranted(t) \/ LoadProfile(t) PROVE FALSE
    BY <2>3 DEF RefreshGranted, LoadProfile
  <2>4. ASSUME NEW t \in Tab, RefreshRefused(t) \/ RefreshFails(t) PROVE FALSE
    BY <2>4 DEF RefreshRefused, RefreshFails, Expires
  <2>5. ASSUME NEW t \in Tab, Open(t) \/ GoogleReturns(t) \/ GoogleRefused(t) PROVE FALSE
    BY <2>5, PageLoads DEF Open, GoogleReturns, GoogleRefused, Loads
  <2>6. ASSUME NEW t \in Tab, Close(t) \/ GoToGoogle(t) PROVE FALSE
    BY <2>6, PageLoads DEF Close, GoToGoogle, Leaves
  <2>7. ASSUME NEW t \in Tab, SessionReturns(t) PROVE FALSE
    BY <2>7, PageEvents DEF SessionReturns
  <2>8. ASSUME NEW t \in Tab, SignOutReturns(t) \/ FormLost(t) PROVE FALSE
    BY <2>8 DEF SignOutReturns, FormLost, Answer
  <2>9. CASE Sidestep
    BY <2>9 DEF Sidestep
  <2> QED
    BY <2>1, <2>2, <2>3, <2>4, <2>5, <2>6, <2>7, <2>8, <2>9, Sidesteps
    DEF Next, TabStep, FormReturns
<1> QED
  BY <1>1, <1>2, <1>3, VarTypesHold, PTL DEF SafetySpec, StaysSignedIn

\* When an answer changes the session of the browser and no refresh is in flight,
\* only the tab it came to is current, and it shows and awaits nothing yet.
LEMMA SessionChanges ==
  ASSUME VarTypes, TabsAreCoherent, NEW t \in Tab, Changes(t), ~crossed',
         jar'.access = jar'.refresh, jar'.refresh \in Cookie,
         \A u \in Tab \ {t} : page'[u] = page[u] /\ call'[u] = call[u],
         page'[t].shown = None, ~call'[t]["profile"].live
  PROVE  OneSessionAtATime'
<1> USE TypesOfATab DEF Changes, TabsAreCoherent, Status
<1>1. \A u \in Tab : renewal'[u] = None
  OBVIOUS
<1>2. ASSUME NEW u \in Tab, u \notin stale'
      PROVE  page'[u].shown = None /\ ~call'[u]["profile"].live
  BY <1>2
<1>3. IsTheSession(jar.refresh)'
  BY <1>1, <1>2 DEF IsTheSession
<1> QED
  BY <1>1, <1>3 DEF OneSessionAtATime

\* The inductive step of OneSessionAtATime.
LEMMA SessionStaysOne ==
  ASSUME VarTypes, TabsAreCoherent, OneSessionAtATime, [Next]_vars
  PROVE  OneSessionAtATime'
<1> USE TypesOfATab DEF Status
<1>s. PICK s \in Cookie : ~crossed => IsTheSession(s)
  BY DEF OneSessionAtATime, Cookie
<1> DEFINE Current(w) ==
      /\ renewal[w] \in {None, NoSession, s}
      /\ w \notin stale /\ call[w]["profile"].live => call[w]["profile"].as \in {NoSession, s}
      /\ w \notin stale /\ page[w].shown # None => s # NoSession /\ page[w].shown = owner[s]
<1>0. ~crossed => /\ jar.access \in {NoSession, s} /\ jar.refresh \in {NoSession, s}
                  /\ \A w \in Tab : Current(w)
  BY <1>s DEF IsTheSession
<1>k. ASSUME crossed => crossed',
             ~crossed => /\ jar'.access \in {NoSession, s} /\ jar'.refresh \in {NoSession, s}
                         /\ \A w \in Tab : Current(w)'
      PROVE  OneSessionAtATime'
  BY <1>k DEF OneSessionAtATime, IsTheSession
<1>00. jar = [access |-> jar.access, refresh |-> jar.refresh, pending |-> jar.pending,
              oauth |-> jar.oauth]
  BY DEF VarTypes
<1> DEFINE Still == /\ UNCHANGED <<jar, owner, crossed>> /\ stale' = stale
                    /\ \A w \in Tab : ~crossed => Current(w)'
<1>n. NoSession \in Cookie /\ Session \subseteq Cookie
  BY DEF Cookie
<1>1. ASSUME Still PROVE OneSessionAtATime'
  BY <1>0, <1>1, <1>k
<1>2. ASSUME NEW t \in Tab, NEW k \in Kind, CallSucceeds(t, k)
      PROVE  Still
  <2>1. /\ call' = [call EXCEPT ![t] = [call[t] EXCEPT ![k] = NoCall]]
        /\ page'[t] = IF call[t][k].live THEN Answered(page[t], k, owner[call[t][k].as])
                      ELSE page[t]
        /\ \A u \in Tab \ {t} : page'[u] = page[u]
        /\ call[t][k].as # NoSession
        /\ UNCHANGED <<jar, owner, renewal, crossed, stale>>
    BY <1>2 DEF CallSucceeds, history
  <2>2. Answered(page[t], k, owner[call[t][k].as]).shown =
          IF k = "profile" THEN owner[call[t][k].as] ELSE page[t].shown
    BY PageEvents
  <2> QED
    BY <1>0, <2>1, <2>2, PageLoads
<1>3. ASSUME NEW t \in Tab, NEW k \in Kind, CallRefused(t, k) \/ CallFails(t, k)
      PROVE  Still
  <2>1. /\ UNCHANGED <<jar, owner, crossed, stale>>
        /\ renewal' = renewal \/ renewal' = [renewal EXCEPT ![t] = IF @ = None THEN jar.refresh ELSE @]
        /\ page' = page \/ page' = [page EXCEPT ![t] = Failed(page[t], k)]
        /\ \E c \in {NoCall, [call[t][k] EXCEPT !.st = "refused"]} :
             call' = [call EXCEPT ![t] = [call[t] EXCEPT ![k] = c]]
    BY <1>3 DEF CallRefused, CallFails, history
  <2>2. Failed(page[t], k).shown = page[t].shown
    BY PageEvents
  <2>3. \A u \in Tab : page'[u].shown = page[u].shown
    BY <2>1, <2>2
  <2>4. /\ [call[t][k] EXCEPT !.st = "refused"].as = call[t][k].as
        /\ ([call[t][k] EXCEPT !.st = "refused"].live <=> call[t][k].live)
    BY DEF Call
  <2>5. \A u \in Tab : call'[u]["profile"].live =>
          call[u]["profile"].live /\ call'[u]["profile"].as = call[u]["profile"].as
    <3>1. PICK c \in {NoCall, [call[t][k] EXCEPT !.st = "refused"]} :
            call' = [call EXCEPT ![t] = [call[t] EXCEPT ![k] = c]]
      BY <2>1
    <3>2. c.live => call[t][k].live /\ c.as = call[t][k].as
      BY <2>4, PageLoads
    <3> QED
      BY <3>1, <3>2
  <2>6. \A u \in Tab : renewal'[u] \in {renewal[u], jar.refresh}
    BY <2>1
  <2> QED
    BY <1>0, <2>1, <2>3, <2>5, <2>6
<1>4. ASSUME NEW t \in Tab, RefreshGranted(t)
      PROVE  OneSessionAtATime'
  <2>1. \A k \in Kind : /\ (Resumed(t, renewal[t])[k].live <=> call[t][k].live)
                        /\ Resumed(t, renewal[t])[k].as \in {call[t][k].as, renewal[t]}
    BY DEF Resumed, Waiting, Call
  <2>2. /\ jar'.access = renewal[t] /\ jar'.refresh = jar.refresh /\ renewal[t] # None
        /\ renewal' = [renewal EXCEPT ![t] = None]
        /\ call' = [call EXCEPT ![t] = Resumed(t, renewal[t])]
        /\ UNCHANGED <<owner, page, crossed, stale>>
    BY <1>00, <1>4 DEF RefreshGranted, history
  <2>3. ~crossed => renewal[t] = s
    BY <1>0, <1>4, <2>2 DEF RefreshGranted
  <2>4. ~crossed => \A w \in Tab : Current(w)'
    BY <1>0, <2>1, <2>2, <2>3
  <2> QED
    BY <1>0, <1>k, <2>2, <2>3, <2>4
<1>5. ASSUME NEW t \in Tab, Expires(t)
      PROVE  /\ page'[t].shown = None /\ ~call'[t]["profile"].live
             /\ \A u \in Tab \ {t} : page'[u] = page[u] /\ call'[u] = call[u]
             /\ renewal' = [renewal EXCEPT ![t] = None] /\ owner' = owner
  <2>1. SignedOut(page[t]).shown = None
    BY PageEvents
  <2>2. ~Unmounted(Dropped(t))["profile"].live
    BY UnmountedCalls
  <2> QED
    BY <1>5, <2>1, <2>2 DEF Expires
<1>6. ASSUME NEW t \in Tab, RefreshRefused(t)
      PROVE  OneSessionAtATime'
  <2>1. jar'.access = NoSession /\ jar'.refresh = NoSession /\ Expires(t)
    BY <1>00, <1>6 DEF RefreshRefused, Emptied
  <2>2. CASE ~Holding
    <3>1. stale' = stale \ {t} /\ (crossed => crossed')
      BY <1>6, <2>2 DEF RefreshRefused
    <3>2. ~crossed => \A w \in Tab : Current(w)'
      BY <1>0, <1>5, <2>1, <3>1
    <3> QED
      BY <1>k, <2>1, <3>1, <3>2
  <2>3. CASE Holding
    <3>1. Changes(t)
      BY <1>6, <2>3 DEF RefreshRefused
    <3>2. CASE crossed'
      BY <3>2 DEF OneSessionAtATime
    <3>3. CASE ~crossed'
      BY <1>5, <1>n, <2>1, <3>1, <3>3, SessionChanges
    <3> QED
      BY <3>2, <3>3
  <2> QED
    BY <2>2, <2>3
<1>7. ASSUME NEW t \in Tab, RefreshFails(t)
      PROVE  Still
  <2>1. Expires(t) /\ UNCHANGED <<jar, crossed, stale>>
    BY <1>7 DEF RefreshFails, history
  <2> QED
    BY <1>0, <1>5, <2>1
<1>8. ASSUME NEW t \in Tab, NEW kinds, Loads(t, kinds), "profile" \notin kinds
      PROVE  /\ page'[t].shown = None /\ ~call'[t]["profile"].live
             /\ \A u \in Tab \ {t} : page'[u] = page[u] /\ call'[u] = call[u]
  BY <1>8, PageLoads DEF Loads
<1>9. ASSUME NEW t \in Tab, Open(t) \/ GoogleRefused(t)
      PROVE  OneSessionAtATime'
  <2>1. /\ jar'.access = jar.access /\ jar'.refresh = jar.refresh
        /\ UNCHANGED <<owner, renewal, crossed, stale>>
    BY <1>00, <1>9 DEF Open, GoogleRefused, history
  <2>2. Loads(t, {"boot"})
    BY <1>9 DEF Open, GoogleRefused
  <2> QED
    BY <1>0, <1>8, <1>k, <2>1, <2>2
<1>10. ASSUME NEW t \in Tab, GoogleReturns(t)
       PROVE  OneSessionAtATime'
  <2>1. jar'.access = jar'.refresh /\ jar'.refresh \in Cookie
    BY <1>00, <1>10, <1>n DEF GoogleReturns, Holds
  <2>2. Loads(t, {"boot", "landing"}) /\ Changes(t)
    BY <1>10 DEF GoogleReturns
  <2>3. CASE crossed'
    BY <2>3 DEF OneSessionAtATime
  <2>4. CASE ~crossed'
    BY <1>8, <2>1, <2>2, <2>4, SessionChanges
  <2> QED
    BY <2>3, <2>4
<1>11. ASSUME NEW t \in Tab, Close(t) \/ GoToGoogle(t)
       PROVE  OneSessionAtATime'
  <2>1. PICK to \in {"away", "google"} : Leaves(t, to)
    BY <1>11 DEF Close, GoToGoogle
  <2>2. /\ jar'.access = jar.access /\ jar'.refresh = jar.refresh
        /\ UNCHANGED <<owner, crossed>> /\ stale' = stale \ {t}
        /\ renewal' = [renewal EXCEPT ![t] = None]
        /\ \A u \in Tab \ {t} : page'[u] = page[u] /\ call'[u] = call[u]
    BY <1>00, <1>11, <2>1 DEF Close, GoToGoogle, Leaves
  <2>3. page'[t].shown = None /\ ~call'[t]["profile"].live
    BY <2>1, PageLoads DEF Leaves
  <2> QED
    BY <1>0, <1>k, <2>2, <2>3
<1>12. ASSUME NEW t \in Tab, LoadProfile(t)
       PROVE  Still
  <2>1. /\ call' = [call EXCEPT ![t] = [call[t] EXCEPT !["profile"] = Sent(jar.access)]]
        /\ UNCHANGED <<jar, owner, page, renewal, crossed, stale>>
    BY <1>12 DEF LoadProfile, history
  <2> QED
    BY <1>0, <2>1, PageLoads
<1>13. ASSUME NEW t \in Tab, SessionReturns(t)
       PROVE  OneSessionAtATime'
  <2>1. jar'.access = jar'.refresh /\ jar'.refresh \in Cookie
    BY <1>00, <1>13, <1>n DEF SessionReturns, Holds
  <2>2. Changes(t) /\ UNCHANGED call /\ page' = [page EXCEPT ![t] = SignedIn(@)]
    BY <1>13 DEF SessionReturns
  <2>3. page[t].shown = None /\ ~call[t]["profile"].live
    BY <1>13 DEF SessionReturns, Answer, TabsAreCoherent
  <2>4. SignedIn(page[t]).shown = page[t].shown
    BY PageEvents
  <2>5. CASE crossed'
    BY <2>5 DEF OneSessionAtATime
  <2>6. CASE ~crossed'
    BY <2>1, <2>2, <2>3, <2>4, <2>6, SessionChanges
  <2> QED
    BY <2>5, <2>6
<1>14. ASSUME NEW t \in Tab, page' = [page EXCEPT ![t] = SignedOut(@)],
              call' = [call EXCEPT ![t] = Unmounted(@)]
       PROVE  /\ page'[t].shown = None /\ ~call'[t]["profile"].live
              /\ \A u \in Tab \ {t} : page'[u] = page[u] /\ call'[u] = call[u]
  <2>1. SignedOut(page[t]).shown = None
    BY PageEvents
  <2>2. ~Unmounted(call[t])["profile"].live
    BY UnmountedCalls
  <2> QED
    BY <1>14, <2>1, <2>2
<1>15. ASSUME NEW t \in Tab, SignOutReturns(t)
       PROVE  OneSessionAtATime'
  <2>1. jar'.access = jar'.refresh /\ jar'.refresh \in Cookie
    BY <1>00, <1>15, <1>n DEF SignOutReturns, Emptied
  <2>2. CASE crossed'
    BY <2>2 DEF OneSessionAtATime
  <2>3. CASE ~crossed'
    BY <1>14, <1>15, <2>1, <2>3, SessionChanges DEF SignOutReturns
  <2> QED
    BY <2>2, <2>3
<1>16. ASSUME NEW t \in Tab, FormLost(t)
       PROVE  Still
  <2>1. UNCHANGED <<jar, owner, renewal, crossed, stale>>
    BY <1>16 DEF FormLost, history
  <2>2. CASE form[t].kind = "signout"
    BY <1>0, <1>14, <1>16, <2>1, <2>2 DEF FormLost
  <2>3. CASE form[t].kind # "signout"
    BY <1>0, <1>16, <2>1, <2>3 DEF FormLost
  <2> QED
    BY <2>2, <2>3
<1>17. ASSUME Sidestep
       PROVE  OneSessionAtATime'
  BY <1>0, <1>17, <1>k DEF Sidestep
<1> HIDE DEF Still
<1> QED
  BY <1>1, <1>2, <1>3, <1>4, <1>6, <1>7, <1>9, <1>10, <1>11, <1>12, <1>13, <1>15, <1>16, <1>17,
     Sidesteps
  DEF Next, TabStep, FormReturns

\* A tab that knew the cookies of the browser still does when an answer to another
\* tab changes them: whoever has a page open is out of date.
LEMMA OthersLoseTrack ==
  ASSUME VarTypes, TabsAreCoherent, NEW t \in Tab, Changes(t), NEW u \in Tab \ {t},
         u \notin stale', page'[u] = page[u], call'[u] = call[u]
  PROVE  Knows(u)'
<1>1. page[u].at # "app"
  BY DEF Changes
<1>2. Status(u) = "loading" /\ \A k \in Kind : call[u][k].st = "none"
  BY <1>1 DEF TabsAreCoherent
<1> QED
  BY <1>2 DEF Knows, Status, Kind

\* The inductive step of TabsKnow.
LEMMA TabsStillKnow ==
  ASSUME VarTypes, TabsAreCoherent, OneSessionAtATime, TabsKnow, [Next]_vars
  PROVE  TabsKnow'
<1> USE TypesOfATab DEF Status
<1> DEFINE Right(w) == Carries(w) /\ (w \notin stale => Knows(w))
<1>0. SUFFICES ASSUME faults' = 0, ~crossed', NEW w \in Tab
               PROVE  Right(w)'
  BY DEF TabsKnow
<1>00. /\ jar = [access |-> jar.access, refresh |-> jar.refresh, pending |-> jar.pending,
                 oauth |-> jar.oauth]
       /\ faults \in Nat
  BY BoundAssumption DEF VarTypes
<1>01. ~Fault
  BY <1>0, <1>00 DEF Fault
<1>02. ASSUME UNCHANGED <<faults, crossed>>
       PROVE  \A v \in Tab : Right(v)
  BY <1>0, <1>02 DEF TabsKnow
<1>03. ASSUME NEW t \in Tab, Changes(t), UNCHANGED faults
       PROVE  (\A v \in Tab : Right(v)) /\ (\A v \in Tab : renewal'[v] = None) /\ ~Renewing'
  BY <1>0, <1>03 DEF TabsKnow, Changes, Renewing
<1>04. ASSUME NEW t \in Tab, Changes(t), UNCHANGED faults, w # t,
              page'[w] = page[w], call'[w] = call[w]
       PROVE  Right(w)'
  <2>1. w \notin stale' => Knows(w)'
    BY <1>04, OthersLoseTrack
  <2>2. Carries(w)
    BY <1>03, <1>04
  <2> QED
    BY <1>03, <1>04, <2>1, <2>2 DEF Carries, Knows
\* The steps that neither end a session nor bring one to a browser without.
<1> DEFINE Lasts == /\ Holding => Holding'
                    /\ ~Holding /\ ~Renewing => ~Holding' /\ ~Renewing'
<1>j. ASSUME jar'.access = jar.access, jar'.refresh = jar.refresh,
             \A u \in Tab : renewal'[u] \in {renewal[u], None, jar.refresh}
      PROVE  Lasts
  BY <1>j DEF Holding, Renewing
<1>05. ASSUME UNCHANGED <<faults, crossed>>, Lasts,
              page'[w] = page[w], call'[w] = call[w], renewal'[w] = renewal[w],
              w \in stale => w \in stale'
       PROVE  Right(w)'
  BY <1>02, <1>05 DEF Carries, Knows
<1>1. ASSUME NEW t \in Tab, NEW k \in Kind, CallSucceeds(t, k)
      PROVE  Right(w)'
  <2>1. /\ call' = [call EXCEPT ![t] = [call[t] EXCEPT ![k] = NoCall]]
        /\ page'[t] = IF call[t][k].live THEN Answered(page[t], k, owner[call[t][k].as])
                      ELSE page[t]
        /\ \A u \in Tab \ {t} : page'[u] = page[u]
        /\ call[t][k].st = "sent" /\ call[t][k].as # NoSession
        /\ UNCHANGED <<jar, renewal, faults, crossed, stale>>
    BY <1>1 DEF CallSucceeds, history
  <2>h. Lasts
    BY <1>j, <2>1
  <2>2. CASE w # t
    BY <1>05, <2>1, <2>2, <2>h
  <2>3. CASE w = t
    <3>1. Carries(w)'
      BY <1>02, <2>1, <2>3, PageLoads DEF Carries
    <3>2. ASSUME w \notin stale
          PROVE  Knows(w)'
      <4>1. Knows(t)
        BY <1>02, <2>1, <2>3, <3>2
      <4> DEFINE q == Answered(page[t], k, owner[call[t][k].as])
      <4>2. /\ (q.settled <=> page[t].settled \/ k = "landing")
            /\ q.status = IF k = "landing" \/ (k = "boot" /\ ~page[t].settled)
                          THEN "authenticated" ELSE page[t].status
        BY PageEvents
      <4>3. k = "landing" \/ (k = "boot" /\ ~page[t].settled) => Holding
        BY <2>1, <4>1 DEF Knows
      <4>4. /\ call'[t][k].st = "none" /\ \A j \in Kind \ {k} : call'[t][j] = call[t][j]
            /\ page'[t] \in {page[t], q}
        BY <2>1, PageLoads
      <4>5. /\ Status(t)' = "authenticated" => Holding
            /\ Status(t)' = "unauthenticated" => ~Holding /\ ~Renewing
            /\ page[t].settled => page'[t].settled
        <5>1. CASE page'[t] = page[t]
          BY <4>1, <5>1 DEF Knows
        <5>2. CASE page'[t] = q
          BY <4>1, <4>2, <4>3, <5>2 DEF Knows
        <5> QED
          BY <4>4, <5>1, <5>2
      <4> QED
        BY <2>1, <2>3, <2>h, <4>1, <4>4, <4>5 DEF Knows
    <3> QED
      BY <2>1, <3>1, <3>2
  <2> QED
    BY <2>2, <2>3
<1>2. ASSUME NEW t \in Tab, NEW k \in Kind, CallRefused(t, k)
      PROVE  Right(w)'
  <2>1. call[t][k].st = "sent" /\ call[t][k].as = NoSession /\ UNCHANGED <<faults, crossed, stale>>
    BY <1>01, <1>2 DEF CallRefused, history
  <2>2. ~call[t][k].again
    BY <1>02, <2>1 DEF Carries
  <2>3. /\ call' = [call EXCEPT ![t] = [call[t] EXCEPT ![k] = [call[t][k] EXCEPT !.st = "refused"]]]
        /\ UNCHANGED <<page, jar>> /\ \A u \in Tab \ {t} : renewal'[u] = renewal[u]
    BY <1>2, <2>2 DEF CallRefused
  <2>h. Lasts
    <3>1. renewal'[t] \in {renewal[t], jar.refresh}
      BY <1>2, <2>2 DEF CallRefused
    <3> QED
      BY <1>j, <2>3, <3>1
  <2>4. CASE w # t
    BY <1>05, <2>1, <2>3, <2>4, <2>h
  <2>5. CASE w = t
    <3>0. [call[t][k] EXCEPT !.st = "refused"].st = "refused"
      BY DEF Call
    <3>1. call'[t][k].st = "refused" /\ \A j \in Kind \ {k} : call'[t][j] = call[t][j]
      BY <2>3, <3>0
    <3>2. Carries(t) /\ call[t]["landing"].st = "none"
      BY <1>02, <2>1 DEF Carries
    <3>3. Carries(w)'
      BY <2>1, <2>5, <3>1, <3>2 DEF Carries
    <3>4. ASSUME w \notin stale PROVE Knows(w)'
      <4>1. Knows(t)
        BY <1>02, <2>1, <2>5, <3>4
      <4> QED
        BY <2>3, <2>5, <2>h, <3>1, <4>1 DEF Knows
    <3> QED
      BY <2>1, <3>3, <3>4
  <2> QED
    BY <2>4, <2>5
<1>3. ASSUME NEW t \in Tab, RefreshGranted(t)
      PROVE  Right(w)'
  <2>1. /\ jar'.access = renewal[t] /\ renewal[t] # None /\ renewal[t] # NoSession
        /\ renewal' = [renewal EXCEPT ![t] = None]
        /\ call' = [call EXCEPT ![t] = Resumed(t, renewal[t])]
        /\ UNCHANGED <<page, faults, crossed, stale>>
    BY <1>00, <1>3 DEF RefreshGranted, history
  <2>2. Renewing /\ Holding'
    BY <2>1 DEF Renewing, Holding
  <2>3. CASE w # t
    BY <1>05, <2>1, <2>2, <2>3
  <2>4. CASE w = t
    <3>1. \A k \in Kind :
            \/ call'[t][k] = call[t][k]
            \/ /\ call[t][k].st = "refused" /\ call'[t][k].st = "sent"
               /\ call'[t][k].as = renewal[t]
      <4> DEFINE c(k) == [call[t][k] EXCEPT !.st = "sent", !.as = renewal[t], !.again = TRUE]
      <4>1. \A k \in Kind : c(k).st = "sent" /\ c(k).as = renewal[t]
        BY DEF Call
      <4>2. call'[t] = [k \in Kind |-> IF call[t][k].st = "refused" THEN c(k) ELSE call[t][k]]
        BY <2>1 DEF Resumed, Waiting
      <4> QED
        BY <4>1, <4>2
    <3>2. Carries(t) /\ call[t]["landing"].st = "none"
      BY <1>02, <2>1 DEF Carries
    <3>3. Carries(w)'
      BY <2>1, <2>2, <2>4, <3>1, <3>2 DEF Carries
    <3>4. ASSUME w \notin stale PROVE Knows(w)'
      <4>1. Knows(t)
        BY <1>02, <2>1, <2>4, <3>4
      <4> QED
        BY <2>1, <2>2, <2>4, <3>1, <3>2, <4>1 DEF Knows
    <3> QED
      BY <2>1, <3>3, <3>4
  <2> QED
    BY <2>3, <2>4
<1>4. ASSUME NEW t \in Tab, NEW d \in [Kind -> Call], Carries(t),
             \A k \in Kind : d[k] = call[t][k] \/ d[k] = NoCall,
             call' = [call EXCEPT ![t] = Unmounted(d)],
             page' = [page EXCEPT ![t] = SignedOut(page[t])], ~Holding', ~Renewing',
             call[t]["landing"].st = "none"
      PROVE  Right(t)'
  <2>1. call'[t] = Unmounted(d) /\ page'[t] = SignedOut(page[t])
    BY <1>4
  <2>2. \A k \in Kind : /\ call'[t][k].st = d[k].st /\ call'[t][k].as = d[k].as
                        /\ (call'[t][k].again <=> d[k].again)
    BY <2>1, UnmountedCalls
  <2>3. /\ page'[t].status = "unauthenticated" /\ page'[t].settled
        /\ call'[t]["landing"].st = "none"
    <3>1. SignedOut(page[t]).status = "unauthenticated" /\ SignedOut(page[t]).settled
      BY PageEvents
    <3>2. d["landing"].st = "none"
      BY <1>4 DEF Kind, NoCall
    <3>3. call'[t]["landing"].st = d["landing"].st
      BY <2>2 DEF Kind
    <3> QED
      BY <2>1, <3>1, <3>2, <3>3
  <2>4. Carries(t)'
    BY <1>4, <2>2, <2>3, PageLoads DEF Carries
  <2> QED
    BY <1>4, <2>3, <2>4 DEF Knows
<1>5. ASSUME NEW t \in Tab, RefreshRefused(t)
      PROVE  Right(w)'
  <2>1. /\ UNCHANGED faults /\ renewal[t] # None
        /\ renewal' = [renewal EXCEPT ![t] = None]
        /\ call' = [call EXCEPT ![t] = Unmounted(Dropped(t))]
        /\ page' = [page EXCEPT ![t] = SignedOut(page[t])]
    BY <1>5 DEF RefreshRefused, Expires
  <2>h. ~Holding'
    BY <1>00, <1>5 DEF RefreshRefused, Emptied, Holding
  <2>e. ASSUME ~Holding
        PROVE  stale' = stale \ {t} /\ ~Renewing' /\ UNCHANGED crossed
    <3>1. stale' = stale \ {t} /\ crossed' = (crossed \/ Renewing')
      BY <1>5, <2>e DEF RefreshRefused
    <3>2. crossed \in BOOLEAN /\ crossed' = FALSE
      <4>1. crossed \in BOOLEAN
        BY DEF VarTypes
      <4>2. ~crossed' /\ (Renewing' \in BOOLEAN)
        BY <1>0 DEF Renewing
      <4> QED
        BY <3>1, <4>1, <4>2
    <3>3. ~Renewing' /\ ~crossed
      BY <3>1, <3>2
    <3> QED
      BY <3>1, <3>2, <3>3
  <2>c. ASSUME Holding
        PROVE  Changes(t)
    BY <1>5, <2>c DEF RefreshRefused
  <2>2. CASE w = t
    <3>1. Carries(t) /\ ~Renewing'
      BY <1>02, <1>03, <2>1, <2>c, <2>e
    <3>2. call[t]["landing"].st = "none"
      BY <2>1, <3>1 DEF Carries
    <3>3. \A k \in Kind : Dropped(t)[k] = call[t][k] \/ Dropped(t)[k] = NoCall
      BY DEF Dropped
    <3> QED
      BY <1>4, <2>1, <2>2, <2>h, <3>1, <3>2, <3>3
  <2>3. CASE w # t
    <3>1. CASE ~Holding
      BY <1>05, <2>1, <2>3, <2>e, <2>h, <3>1
    <3>2. CASE Holding
      BY <1>04, <2>1, <2>3, <2>c, <3>2
    <3> QED
      BY <3>1, <3>2
  <2> QED
    BY <2>2, <2>3
<1>6. ASSUME NEW t \in Tab, Open(t) \/ GoogleRefused(t)
      PROVE  Right(w)'
  <2>1. /\ jar'.access = jar.access /\ jar'.refresh = jar.refresh /\ Loads(t, {"boot"})
        /\ UNCHANGED <<owner, renewal, faults, crossed, stale>>
    BY <1>00, <1>01, <1>6 DEF Open, GoogleRefused, history
  <2>h. Lasts
    BY <1>j, <2>1
  <2>2. CASE w = t
    <3>1. /\ page'[t] = Loaded
          /\ call'[t] = [k \in Kind |-> IF k \in {"boot"} THEN Sent(jar.access) ELSE NoCall]
      BY <2>1 DEF Loads
    <3>2. /\ call'[t]["boot"].as = jar.access /\ call'[t]["landing"].st = "none"
          /\ page'[t].status = "loading" /\ \A k \in Kind : ~call'[t][k].again
      BY <3>1, PageLoads
    <3> QED
      BY <2>1, <2>2, <3>2 DEF Carries, Knows, Holding
  <2>3. CASE w # t
    BY <1>05, <2>1, <2>3, <2>h DEF Loads
  <2> QED
    BY <2>2, <2>3
<1>7. ASSUME NEW t \in Tab, GoogleReturns(t)
      PROVE  Right(w)'
  <2>1. PICK s \in Session : jar' = [Holds(s) EXCEPT !.oauth = None]
    BY <1>7 DEF GoogleReturns
  <2>2. jar'.access = s /\ jar'.refresh = s /\ s # NoSession
    BY <1>00, <2>1 DEF Holds, Session, NoSession
  <2>3. Loads(t, {"boot", "landing"}) /\ Changes(t) /\ UNCHANGED faults
    BY <1>7 DEF GoogleReturns
  <2>4. CASE w = t
    <3>1. /\ page'[t] = Loaded
          /\ call'[t] = [k \in Kind |-> IF k \in {"boot", "landing"} THEN Sent(s) ELSE NoCall]
      BY <2>2, <2>3 DEF Loads
    <3>2. /\ call'[t]["profile"].st = "none" /\ page'[t].status = "loading"
          /\ \A k \in {"boot", "landing"} : call'[t][k].st = "sent" /\ call'[t][k].as = s
          /\ \A k \in Kind : ~call'[t][k].again
      <4>1. Sent(s).st = "sent" /\ Sent(s).as = s /\ ~Sent(s).again
        BY DEF Sent, NoCall
      <4> QED
        BY <3>1, <4>1, PageLoads
    <3>3. renewal'[t] = None
      BY <1>03, <2>3
    <3> QED
      BY <2>2, <2>4, <3>2, <3>3 DEF Carries, Knows, Holding
  <2>5. CASE w # t
    BY <1>04, <2>3, <2>5 DEF Loads
  <2> QED
    BY <2>4, <2>5
<1>8. ASSUME NEW t \in Tab, Close(t) \/ GoToGoogle(t)
      PROVE  Right(w)'
  <2>1. PICK to \in {"away", "google"} : Leaves(t, to)
    BY <1>8 DEF Close, GoToGoogle
  <2>2. /\ jar'.access = jar.access /\ jar'.refresh = jar.refresh
        /\ UNCHANGED <<owner, faults, crossed>> /\ stale' = stale \ {t}
        /\ renewal' = [renewal EXCEPT ![t] = None]
        /\ \A u \in Tab \ {t} : page'[u] = page[u] /\ call'[u] = call[u]
    BY <1>00, <1>8, <2>1 DEF Close, GoToGoogle, Leaves
  <2>3. CASE w = t
    <3>1. Status(t)' = "loading" /\ \A k \in Kind : call'[t][k].st = "none"
      BY <2>1, PageLoads DEF Leaves
    <3> QED
      BY <2>3, <3>1 DEF Carries, Knows
  <2>4. CASE w # t
    BY <1>05, <1>j, <2>2, <2>4
  <2> QED
    BY <2>3, <2>4
<1>9. ASSUME NEW t \in Tab, LoadProfile(t)
      PROVE  Right(w)'
  <2>1. /\ call' = [call EXCEPT ![t] = [call[t] EXCEPT !["profile"] = Sent(jar.access)]]
        /\ call[t]["landing"].st = "none"
        /\ UNCHANGED <<jar, owner, page, renewal, faults, crossed, stale>>
    BY <1>9 DEF LoadProfile, Offers, history
  <2>h. Lasts
    BY <1>j, <2>1
  <2>2. CASE w = t
    <3>1. /\ call'[t]["boot"] = call[t]["boot"] /\ call'[t]["landing"] = call[t]["landing"]
          /\ ~call'[t]["profile"].again
      BY <2>1, PageLoads
    <3> QED
      BY <1>02, <2>1, <2>2, <2>h, <3>1 DEF Carries, Knows
  <2>3. CASE w # t
    BY <1>05, <2>1, <2>3, <2>h
  <2> QED
    BY <2>2, <2>3
<1>10. ASSUME NEW t \in Tab, SessionReturns(t)
       PROVE  Right(w)'
  <2>1. PICK s \in Session : jar' = [Holds(s) EXCEPT !.pending = None]
    BY <1>10 DEF SessionReturns
  <2>2. jar'.refresh = s /\ s # NoSession
    BY <1>00, <2>1 DEF Holds, Session, NoSession
  <2>3. /\ Changes(t) /\ UNCHANGED <<call, renewal, faults>> /\ form[t].kind # "none"
        /\ page' = [page EXCEPT ![t] = SignedIn(page[t])]
    BY <1>10 DEF SessionReturns, Answer
  <2>4. CASE w = t
    <3>1. SignedIn(page[t]).status = "authenticated" /\ SignedIn(page[t]).settled
      BY PageEvents
    <3>2. Carries(t) /\ call[t]["landing"].st = "none"
      BY <1>03, <2>3 DEF TabsAreCoherent
    <3> QED
      BY <2>2, <2>3, <2>4, <3>1, <3>2 DEF Carries, Knows, Holding
  <2>5. CASE w # t
    BY <1>04, <2>3, <2>5
  <2> QED
    BY <2>4, <2>5
<1>11. ASSUME NEW t \in Tab, SignOutReturns(t)
       PROVE  Right(w)'
  <2>1. /\ Changes(t) /\ UNCHANGED faults /\ form[t].kind # "none"
        /\ ~Holding'
        /\ page' = [page EXCEPT ![t] = SignedOut(page[t])]
        /\ call' = [call EXCEPT ![t] = Unmounted(call[t])]
    BY <1>00, <1>11 DEF SignOutReturns, Answer, Emptied, Holding
  <2>2. CASE w = t
    <3>1. Carries(t) /\ call[t]["landing"].st = "none" /\ ~Renewing'
      BY <1>03, <2>1 DEF TabsAreCoherent
    <3> QED
      BY <1>4, <2>1, <2>2, <3>1
  <2>3. CASE w # t
    BY <1>04, <2>1, <2>3
  <2> QED
    BY <2>2, <2>3
<1>12. ASSUME Sidestep
       PROVE  Right(w)'
  <2>1. /\ UNCHANGED <<call, renewal, faults, crossed>> /\ stale \subseteq stale'
        /\ page'[w].status = page[w].status /\ page'[w].settled = page[w].settled
    BY <1>12 DEF Sidestep
  <2>2. Right(w)
    BY <1>02, <2>1
  <2>3. Carries(w)'
    BY <2>1, <2>2 DEF Carries
  <2>4. ~Holding => ~Holding'
    BY <1>12 DEF Sidestep, Holding
  <2>5. Renewing' <=> Renewing
    BY <2>1 DEF Renewing
  <2>6. ASSUME w \notin stale'
        PROVE  Knows(w)'
    <3>1. Knows(w)
      BY <2>1, <2>2, <2>6
    <3>2. CASE Holding => Holding'
      BY <2>1, <2>4, <2>5, <3>1, <3>2 DEF Knows
    <3>3. CASE Holding /\ ~Holding'
      <4>1. page[w].at # "app" \/ Status(w) = "unauthenticated"
        BY <1>12, <2>6, <3>3 DEF Sidestep
      <4>2. page[w].at # "app"
        BY <3>1, <3>3, <4>1 DEF Knows
      <4>3. Status(w) = "loading" /\ \A k \in Kind : call[w][k].st = "none"
        BY <4>2 DEF TabsAreCoherent
      <4> QED
        BY <2>1, <4>3 DEF Knows
    <3> QED
      BY <3>2, <3>3
  <2> QED
    BY <2>3, <2>6
<1>13. ~\E t \in Tab : FormLost(t) \/ RefreshFails(t) \/ \E k \in Kind : CallFails(t, k)
  BY <1>01 DEF FormLost, RefreshFails, CallFails
<1> HIDE DEF Right, Lasts
<1> QED
  BY <1>1, <1>2, <1>3, <1>5, <1>6, <1>7, <1>8, <1>9, <1>10, <1>11, <1>12, <1>13, Sidesteps
  DEF Next, TabStep, FormReturns

\* TabsMatchTheJar, for any number of tabs, candidates and sessions: the cookies
\* are one session's, a tab that says whether it is signed in is right, and the
\* profile it shows is that of the session its next request is made under.
THEOREM TabsAreRight == SafetySpec => []TabsMatchTheJar
<1>1. Init => TabsAreCoherent /\ OneSessionAtATime /\ TabsKnow
  <2> SUFFICES ASSUME Init
               PROVE  TabsAreCoherent /\ OneSessionAtATime /\ TabsKnow
    OBVIOUS
  <2>1. TabsAreCoherent /\ TabsKnow
    BY DEF Init, TabsAreCoherent, TabsKnow, Carries, Knows, Status, Away, NoCall, NoForm, Kind
  <2>2. IsTheSession(NoSession)
    BY DEF Init, IsTheSession, Away, NoCall, Kind
  <2> QED
    BY <2>1, <2>2 DEF OneSessionAtATime, Cookie
<1>2. VarTypes /\ TabsAreCoherent /\ [Next]_vars => TabsAreCoherent'
  BY CoherenceStays
<1>3. VarTypes /\ TabsAreCoherent /\ OneSessionAtATime /\ [Next]_vars => OneSessionAtATime'
  BY SessionStaysOne
<1>4. VarTypes /\ TabsAreCoherent /\ OneSessionAtATime /\ TabsKnow /\ [Next]_vars => TabsKnow'
  BY TabsStillKnow
<1>5. VarTypes /\ OneSessionAtATime /\ TabsKnow => TabsMatchTheJar
  <2> SUFFICES ASSUME VarTypes, OneSessionAtATime, TabsKnow
               PROVE  TabsMatchTheJar
    OBVIOUS
  <2>1. JarIsOneSession
    BY DEF OneSessionAtATime, IsTheSession, JarIsOneSession
  <2>2. StatusMatchesJar
    <3>1. \A t \in Tab : page[t].status \in {"loading", "authenticated", "unauthenticated"}
      BY DEF VarTypes, Page
    <3> QED
      BY <3>1 DEF TabsKnow, Knows, StatusMatchesJar, Status
  <2>3. TabShowsItsSession
    BY DEF OneSessionAtATime, IsTheSession, TabShowsItsSession
  <2> QED
    BY <2>1, <2>2, <2>3 DEF TabsMatchTheJar
<1> QED
  BY <1>1, <1>2, <1>3, <1>4, <1>5, VarTypesHold, PTL DEF SafetySpec

-----------------------------------------------------------------------------
(* The second factor                                                       *)

ActType == [kind : {"none", "load", "verify", "disable"},
            step : {"none", "sent", "half", "done"},
            secret : 0..MaxSecrets, on : BOOLEAN]
PanelType == [shows : {"checking", "error", "off", "enrolling", "on"},
              secret : 0..MaxSecrets, act : ActType,
              asked : 0..2, answers : SUBSET Secret]

-----------------------------------------------------------------------------
(* Types. *)

LEMMA FactorTypes ==
  FactorTypeOK <=>
    /\ totp \in [made : 0..MaxSecrets, device : 0..MaxSecrets, on : BOOLEAN]
    /\ authenticator \subseteq Secret
    /\ panel \in [Panel -> PanelType]
    /\ mishaps \in 0..MaxMishaps
    /\ outdated \subseteq Panel
  BY DEF FactorTypeOK, PanelType, ActType

\* No call, and a call that is sent.
LEMMA ActsAreActs ==
  /\ NoAct \in ActType
  /\ \A k \in {"load", "verify", "disable"}, s \in 0..MaxSecrets : Act(k, s) \in ActType
<1>1. 0 \in 0..MaxSecrets
  BY FactorAssumption
<1>2. NoAct \in ActType
  BY <1>1 DEF NoAct, ActType, NoSecret
<1>3. ASSUME NEW k \in {"load", "verify", "disable"}, NEW s \in 0..MaxSecrets
      PROVE  Act(k, s) \in ActType
  BY <1>2, <1>3 DEF Act, ActType
<1> QED
  BY <1>2, <1>3

LEMMA CheckingIsPanel == Checking \in PanelType
<1>1. NoSecret \in 0..MaxSecrets /\ 0 \in 0..2
  BY FactorAssumption DEF NoSecret
<1>2. Act("load", NoSecret) \in ActType
  BY <1>1, ActsAreActs
<1> QED
  BY <1>1, <1>2 DEF Checking, PanelType

\* What is being set up is a secret.
EnrollingHasSecret == \A p \in Panel : Shows(p, "enrolling") => panel[p].secret \in Secret

LEMMA FactorTypesInit == FactorInit => FactorTypeOK /\ EnrollingHasSecret
<1> SUFFICES ASSUME FactorInit PROVE FactorTypeOK /\ EnrollingHasSecret
  OBVIOUS
<1>1. panel \in [Panel -> PanelType]
  BY CheckingIsPanel DEF FactorInit
<1>2. totp \in [made : 0..MaxSecrets, device : 0..MaxSecrets, on : BOOLEAN]
  <2>1. NoSecret \in 0..MaxSecrets
    BY FactorAssumption DEF NoSecret
  <2> QED
    BY <2>1 DEF FactorInit
<1>3. FactorTypeOK
  BY <1>1, <1>2, FactorTypes, FactorAssumption DEF FactorInit
<1>4. EnrollingHasSecret
  BY DEF FactorInit, Checking, EnrollingHasSecret, Shows
<1> QED
  BY <1>3, <1>4

\* A step changes the section of one tab to another section.
LEMMA PanelSteps ==
  ASSUME panel \in [Panel -> PanelType], EnrollingHasSecret,
         NEW p \in Panel, NEW r \in PanelType, r.shows = "enrolling" => r.secret \in Secret,
         panel' = [panel EXCEPT ![p] = r]
  PROVE  panel' \in [Panel -> PanelType] /\ EnrollingHasSecret'
  BY DEF EnrollingHasSecret, Shows

LEMMA ReachesKeeps ==
  ASSUME panel \in [Panel -> PanelType], EnrollingHasSecret,
         NEW p \in Panel, NEW step \in {"half", "done"}, Reaches(p, step)
  PROVE  panel' \in [Panel -> PanelType] /\ EnrollingHasSecret'
<1>1. panel[p] \in PanelType
  OBVIOUS
<1> DEFINE r == [panel[p] EXCEPT !.act.step = step]
<1>2. [panel[p].act EXCEPT !.step = step] \in ActType
  BY <1>1 DEF PanelType, ActType
<1>3. r \in PanelType /\ (r.shows = "enrolling" => r.secret \in Secret)
  BY <1>1, <1>2 DEF PanelType, EnrollingHasSecret, Shows
<1>4. panel' = [panel EXCEPT ![p] = r]
  BY DEF Reaches
<1> HIDE DEF r
<1> QED
  BY <1>3, <1>4, PanelSteps

LEMMA FactorTypesKept ==
  ASSUME FactorTypeOK, EnrollingHasSecret, [FactorNext]_factorVars
  PROVE  FactorTypeOK' /\ EnrollingHasSecret'
<1>0. /\ totp \in [made : 0..MaxSecrets, device : 0..MaxSecrets, on : BOOLEAN]
      /\ authenticator \subseteq Secret
      /\ panel \in [Panel -> PanelType]
      /\ mishaps \in 0..MaxMishaps
      /\ outdated \subseteq Panel
  BY FactorTypes
<1>b. FactorTypeOK' <=>
        /\ totp' \in [made : 0..MaxSecrets, device : 0..MaxSecrets, on : BOOLEAN]
        /\ authenticator' \subseteq Secret
        /\ panel' \in [Panel -> PanelType]
        /\ mishaps' \in 0..MaxMishaps
        /\ outdated' \subseteq Panel
  BY DEF FactorTypeOK, PanelType, ActType
<1> USE <1>0, <1>b, ActsAreActs, CheckingIsPanel DEF EnrollingHasSecret, Shows
<1>1. ASSUME NEW p \in Panel, Load(p)
      PROVE  FactorTypeOK' /\ EnrollingHasSecret'
  BY <1>1, PanelSteps DEF Load, Checking
<1>2. ASSUME NEW p \in Panel, GetTotpEnabled(p)
      PROVE  FactorTypeOK' /\ EnrollingHasSecret'
  <2>1. panel[p] \in PanelType
    OBVIOUS
  <2> DEFINE r == [panel[p] EXCEPT !.act.step = "done", !.act.on = totp.on]
  <2>5. r \in PanelType /\ (r.shows = "enrolling" => r.secret \in Secret)
    BY <1>2, <2>1 DEF PanelType, ActType, GetTotpEnabled
  <2>6. panel' = [panel EXCEPT ![p] = r]
    BY <1>2 DEF GetTotpEnabled
  <2> HIDE DEF r
  <2> QED
    BY <1>2, <2>5, <2>6, PanelSteps DEF GetTotpEnabled
<1>3. ASSUME NEW p \in Panel, LoadAnswered(p)
      PROVE  FactorTypeOK' /\ EnrollingHasSecret'
  <2>1. panel[p] \in PanelType
    OBVIOUS
  <2> DEFINE r == [panel[p] EXCEPT !.act = NoAct, !.shows = IF panel[p].act.on THEN "on" ELSE "off"]
  <2>5. r \in PanelType /\ (r.shows = "enrolling" => r.secret \in Secret)
    BY <1>3, <2>1 DEF PanelType, ActType, LoadAnswered
  <2>6. panel' = [panel EXCEPT ![p] = r]
    BY <1>3 DEF LoadAnswered
  <2> HIDE DEF r
  <2> QED
    BY <1>3, <2>5, <2>6, PanelSteps DEF LoadAnswered
<1>4. ASSUME NEW p \in Panel, StartEnrolling(p)
      PROVE  FactorTypeOK' /\ EnrollingHasSecret'
  <2>1. panel[p] \in PanelType
    OBVIOUS
  <2> DEFINE r == [panel[p] EXCEPT !.asked = @ + 1]
  <2>5. r \in PanelType /\ (r.shows = "enrolling" => r.secret \in Secret)
    BY <1>4, <2>1 DEF PanelType, ActType, StartEnrolling
  <2>6. panel' = [panel EXCEPT ![p] = r]
    BY <1>4 DEF StartEnrolling
  <2> HIDE DEF r
  <2> QED
    BY <1>4, <2>5, <2>6, PanelSteps DEF StartEnrolling
<1>5. ASSUME NEW p \in Panel, StartTotpSetup(p)
      PROVE  FactorTypeOK' /\ EnrollingHasSecret'
  <2>1. panel[p] \in PanelType
    OBVIOUS
  <2> DEFINE r == [panel[p] EXCEPT !.asked = @ - 1, !.answers = @ \cup {totp.made + 1}]
  <2>2. totp.made + 1 \in Secret /\ totp' \in [made : 0..MaxSecrets, device : 0..MaxSecrets, on : BOOLEAN]
    BY <1>5, FactorAssumption DEF StartTotpSetup, Secret
  <2>3. panel[p].asked - 1 \in 0..2
    BY <1>5, <2>1 DEF StartTotpSetup, PanelType
  <2>5. r \in PanelType /\ (r.shows = "enrolling" => r.secret \in Secret)
    BY <1>5, <2>1, <2>2, <2>3 DEF PanelType, ActType, StartTotpSetup
  <2>6. panel' = [panel EXCEPT ![p] = r]
    BY <1>5 DEF StartTotpSetup
  <2> HIDE DEF r
  <2> QED
    BY <1>5, <2>2, <2>5, <2>6, PanelSteps DEF StartTotpSetup
<1>6. ASSUME NEW p \in Panel, SetupAnswered(p)
      PROVE  FactorTypeOK' /\ EnrollingHasSecret'
  <2>1. panel[p] \in PanelType
    OBVIOUS
  <2>2. PICK s \in panel[p].answers :
          panel' = [panel EXCEPT ![p].answers = @ \ {s}, ![p].shows = "enrolling", ![p].secret = s]
    BY <1>6 DEF SetupAnswered
  <2>3. s \in Secret /\ s \in 0..MaxSecrets
    BY <2>1 DEF PanelType, Secret
  <2> DEFINE r == [panel[p] EXCEPT !.answers = @ \ {s}, !.shows = "enrolling", !.secret = s]
  <2>5. r \in PanelType /\ r.secret \in Secret
    BY <2>1, <2>3 DEF PanelType
  <2>6. panel' = [panel EXCEPT ![p] = r]
    BY <2>2
  <2> HIDE DEF r
  <2> QED
    BY <1>6, <2>5, <2>6, PanelSteps DEF SetupAnswered
<1>7. ASSUME NEW p \in Panel, OnVerify(p)
      PROVE  FactorTypeOK' /\ EnrollingHasSecret'
  <2>1. panel[p].secret \in Secret /\ panel[p].secret \in 0..MaxSecrets
    BY <1>7 DEF OnVerify, Secret
  <2>2. authenticator' \subseteq Secret
    BY <1>7, <2>1 DEF OnVerify
  <2>3. Act("verify", panel[p].secret) \in ActType
    BY <2>1
  <2> QED
    BY <1>7, <2>2, <2>3 DEF OnVerify, Sends, PanelType
<1>8. ASSUME NEW p \in Panel, VerifyTotpSetup(p)
      PROVE  FactorTypeOK' /\ EnrollingHasSecret'
  <2>1. totp' \in [made : 0..MaxSecrets, device : 0..MaxSecrets, on : BOOLEAN]
    BY <1>8 DEF VerifyTotpSetup
  <2>2. CASE Reaches(p, "half")
    BY <1>8, <2>1, <2>2, ReachesKeeps DEF VerifyTotpSetup
  <2>3. CASE panel' = [panel EXCEPT ![p].act = NoAct]
    BY <1>8, <2>1, <2>3 DEF VerifyTotpSetup, PanelType
  <2> QED
    BY <1>8, <2>2, <2>3 DEF VerifyTotpSetup
<1>9. ASSUME NEW p \in Panel, SetUserMFAPreference(p)
      PROVE  FactorTypeOK' /\ EnrollingHasSecret'
  <2>1. TRUE \in BOOLEAN /\ outdated' \subseteq Panel
    BY <1>9 DEF SetUserMFAPreference, Turned
  <2>2. totp' \in [made : 0..MaxSecrets, device : 0..MaxSecrets, on : BOOLEAN]
    BY <1>9, <2>1 DEF SetUserMFAPreference, Turned
  <2>3. panel' \in [Panel -> PanelType] /\ EnrollingHasSecret'
    BY <1>9, ReachesKeeps DEF SetUserMFAPreference
  <2> QED
    BY <1>9, <2>1, <2>2, <2>3 DEF SetUserMFAPreference
<1>10. ASSUME NEW p \in Panel, OnDisable(p)
      PROVE  FactorTypeOK' /\ EnrollingHasSecret'
  <2>1. Act("disable", NoSecret) \in ActType
    BY FactorAssumption DEF NoSecret
  <2> QED
    BY <1>10, <2>1 DEF OnDisable, Sends, PanelType
<1>11. ASSUME NEW p \in Panel, DisableTotp(p)
      PROVE  FactorTypeOK' /\ EnrollingHasSecret'
  <2>1. FALSE \in BOOLEAN /\ outdated' \subseteq Panel
    BY <1>11 DEF DisableTotp, Turned
  <2>2. totp' \in [made : 0..MaxSecrets, device : 0..MaxSecrets, on : BOOLEAN]
    BY <1>11, <2>1 DEF DisableTotp, Turned
  <2>3. panel' \in [Panel -> PanelType] /\ EnrollingHasSecret'
    BY <1>11, ReachesKeeps DEF DisableTotp
  <2> QED
    BY <1>11, <2>1, <2>2, <2>3 DEF DisableTotp
<1>12. ASSUME NEW p \in Panel, TurnAnswered(p)
      PROVE  FactorTypeOK' /\ EnrollingHasSecret'
  <2>1. PICK turn \in {<<"verify", "on">>, <<"disable", "off">>} :
          panel' = [panel EXCEPT ![p].act = NoAct, ![p].shows = turn[2]]
    BY <1>12 DEF TurnAnswered
  <2>2. turn[2] \in {"on", "off"}
    OBVIOUS
  <2>3. panel' \in [Panel -> PanelType] /\ EnrollingHasSecret'
    BY <2>1, <2>2 DEF PanelType
  <2> QED
    BY <1>12, <2>3 DEF TurnAnswered
<1>13. ASSUME NEW p \in Panel, Cancel(p)
      PROVE  FactorTypeOK' /\ EnrollingHasSecret'
  BY <1>13 DEF Cancel, PanelType
<1>14. ASSUME NEW p \in Panel, FactorCallFails(p)
      PROVE  FactorTypeOK' /\ EnrollingHasSecret'
  <2>1. mishaps' \in 0..MaxMishaps
    BY <1>14, FactorAssumption DEF FactorCallFails
  <2>2. CASE ~Free(p)
    BY <1>14, <2>1, <2>2 DEF FactorCallFails, PanelType
  <2>3. CASE panel[p].asked > 0 /\ panel' = [panel EXCEPT ![p].asked = @ - 1]
    <3>1. panel[p].asked - 1 \in 0..2
      BY <2>3 DEF PanelType
    <3> QED
      BY <1>14, <2>1, <2>3, <3>1 DEF FactorCallFails, PanelType
  <2> QED
    BY <1>14, <2>2, <2>3 DEF FactorCallFails
<1>15. CASE UNCHANGED factorVars
  BY <1>15 DEF factorVars
<1> QED
  BY <1>1, <1>2, <1>3, <1>4, <1>5, <1>6, <1>7, <1>8, <1>9, <1>10, <1>11, <1>12, <1>13, <1>14, <1>15
  DEF FactorNext

-----------------------------------------------------------------------------
(* Nobody is locked out. *)

\* What is verified, or about to be, is in the candidate's app.
CodesInv ==
  /\ FactorTypeOK /\ EnrollingHasSecret
  /\ totp.device # NoSecret => totp.device \in authenticator
  /\ \A p \in Panel : panel[p].act.kind = "verify" => panel[p].act.secret \in authenticator
  /\ \A p \in Panel : InFlight(p, "verify", "half") => totp.device # NoSecret
  /\ totp.on => totp.device # NoSecret

LEMMA CodesInit == FactorInit => CodesInv
<1> SUFFICES ASSUME FactorInit PROVE CodesInv
  OBVIOUS
<1>1. ~totp.on /\ totp.device = NoSecret
  BY DEF FactorInit
<1>2. \A p \in Panel : panel[p].act.kind = "load"
  BY DEF FactorInit, Checking, Act, NoAct
<1> QED
  BY <1>1, <1>2, FactorTypesInit DEF CodesInv, InFlight

LEMMA CodesKept ==
  ASSUME CodesInv, [FactorNext]_factorVars
  PROVE  CodesInv'
<1> USE DEF CodesInv, InFlight, NoSecret
<1>1. FactorTypeOK' /\ EnrollingHasSecret'
  BY FactorTypesKept
<1>2. /\ panel \in [Panel -> PanelType]
      /\ totp \in [made : 0..MaxSecrets, device : 0..MaxSecrets, on : BOOLEAN]
      /\ authenticator \subseteq Secret
  BY FactorTypes
<1> USE <1>1, <1>2
<1>3. ASSUME NEW p \in Panel,
             \/ Load(p) \/ LoadAnswered(p) \/ TurnAnswered(p) \/ FactorCallFails(p)
             \/ StartEnrolling(p) \/ SetupAnswered(p) \/ Cancel(p) \/ OnDisable(p)
      PROVE  CodesInv'
  <2>1. UNCHANGED <<totp, authenticator>>
    BY <1>3 DEF Load, LoadAnswered, TurnAnswered, FactorCallFails, StartEnrolling, SetupAnswered, Cancel, OnDisable
  <2>2. \A q \in Panel : panel'[q].act = panel[q].act \/ panel'[q].act.kind # "verify"
    <3>1. CASE Load(p)
      BY <3>1 DEF Load, Checking, Act, NoAct, PanelType
    <3>2. CASE OnDisable(p)
      BY <3>2 DEF OnDisable, Sends, Act, NoAct, PanelType
    <3>3. CASE LoadAnswered(p)
      BY <3>3 DEF LoadAnswered, NoAct, PanelType
    <3>4. CASE TurnAnswered(p)
      BY <3>4 DEF TurnAnswered, NoAct, PanelType
    <3>5. CASE StartEnrolling(p)
      BY <3>5 DEF StartEnrolling, PanelType
    <3>6. CASE SetupAnswered(p)
      BY <3>6 DEF SetupAnswered, PanelType
    <3>7. CASE Cancel(p)
      BY <3>7 DEF Cancel, PanelType
    <3>8. CASE FactorCallFails(p)
      BY <3>8 DEF FactorCallFails, NoAct, PanelType
    <3> QED
      BY <1>3, <3>1, <3>2, <3>3, <3>4, <3>5, <3>6, <3>7, <3>8
  <2> QED
    BY <2>1, <2>2
<1>4. ASSUME NEW p \in Panel, GetTotpEnabled(p)
      PROVE  CodesInv'
  BY <1>4 DEF GetTotpEnabled, PanelType, ActType
<1>5. ASSUME NEW p \in Panel, StartTotpSetup(p)
      PROVE  CodesInv'
  BY <1>5 DEF StartTotpSetup, PanelType, ActType
<1>6. ASSUME NEW p \in Panel, OnVerify(p)
      PROVE  CodesInv'
  BY <1>6 DEF OnVerify, Sends, Act, NoAct, PanelType, ActType
<1>7. ASSUME NEW p \in Panel, VerifyTotpSetup(p)
      PROVE  CodesInv'
  BY <1>7 DEF VerifyTotpSetup, Reaches, NoAct, PanelType, ActType, Secret
<1>8. ASSUME NEW p \in Panel, SetUserMFAPreference(p)
      PROVE  CodesInv'
  BY <1>8 DEF SetUserMFAPreference, Reaches, Turned, PanelType, ActType
<1>9. ASSUME NEW p \in Panel, DisableTotp(p)
      PROVE  CodesInv'
  BY <1>9 DEF DisableTotp, Reaches, Turned, PanelType, ActType
<1>10. CASE UNCHANGED factorVars
  BY <1>10 DEF factorVars
<1> QED
  BY <1>3, <1>4, <1>5, <1>6, <1>7, <1>8, <1>9, <1>10 DEF FactorNext

-----------------------------------------------------------------------------
(* The section says what sign-in does. *)

\* A section that loads shows nothing else, and waits for no setup.
LoadsCheck(p) ==
  panel[p].act.kind = "load" => Shows(p, "checking") /\ panel[p].asked = 0 /\ panel[p].answers = {}

\* What an up-to-date section shows is the preference, or the call that changes it.
Matches(p) ==
  /\ InFlight(p, "load", "done") => (panel[p].act.on <=> totp.on)
  /\ Shows(p, "off") => Free(p) /\ ~totp.on
  /\ Shows(p, "on") =>
       \/ totp.on /\ (Free(p) \/ InFlight(p, "disable", "sent"))
       \/ ~totp.on /\ InFlight(p, "disable", "done")
  /\ Shows(p, "enrolling") =>
       \/ ~totp.on /\ (Free(p) \/ InFlight(p, "verify", "sent") \/ InFlight(p, "verify", "half"))
       \/ totp.on /\ InFlight(p, "verify", "done")

PanelsMatch ==
  mishaps = 0 => \A p \in Panel : LoadsCheck(p) /\ (p \notin outdated => Matches(p))

\* A step of tab p leaves the other tabs alone, or behind.
OthersStay(p) ==
  /\ mishaps' = mishaps
  /\ \A q \in Panel \ {p} :
       /\ panel'[q] = panel[q]
       /\ q \notin outdated' => q \notin outdated /\ (totp'.on <=> totp.on)

LEMMA TabsApart ==
  ASSUME PanelsMatch, NEW p \in Panel, OthersStay(p),
         mishaps' = 0 => LoadsCheck(p)' /\ (p \notin outdated' => Matches(p)')
  PROVE  PanelsMatch'
<1> SUFFICES ASSUME mishaps' = 0, NEW q \in Panel \ {p}
             PROVE  LoadsCheck(q)' /\ (q \notin outdated' => Matches(q)')
  BY DEF PanelsMatch
<1>1. LoadsCheck(q) /\ (q \notin outdated => Matches(q))
  BY DEF PanelsMatch, OthersStay
<1> QED
  BY <1>1 DEF OthersStay, LoadsCheck, Matches, Shows, InFlight, Free

LEMMA MatchInit == FactorInit => PanelsMatch
<1> SUFFICES ASSUME FactorInit, NEW p \in Panel
             PROVE  LoadsCheck(p) /\ Matches(p)
  BY DEF PanelsMatch
<1>1. panel[p] = Checking
  BY DEF FactorInit
<1>2. /\ panel[p].shows = "checking" /\ panel[p].asked = 0 /\ panel[p].answers = {}
      /\ panel[p].act.step = "sent"
  <2>1. Act("load", NoSecret).step = "sent"
    BY DEF Act, NoAct
  <2> QED
    BY <1>1, <2>1 DEF Checking
<1> QED
  BY <1>2 DEF LoadsCheck, Matches, Shows, InFlight

LEMMA MatchKept ==
  ASSUME FactorTypeOK, PanelsMatch, [FactorNext]_factorVars
  PROVE  PanelsMatch'
<1>1. panel \in [Panel -> PanelType] /\ totp \in [made : 0..MaxSecrets, device : 0..MaxSecrets, on : BOOLEAN]
  BY FactorTypes
<1>2. mishaps \in Nat
  BY FactorTypes
<1> USE <1>1
<1>3. ASSUME NEW p \in Panel, Load(p)
      PROVE  PanelsMatch'
  <2>1. OthersStay(p)
    BY <1>3 DEF OthersStay, Load
  <2>2. mishaps' = 0 => LoadsCheck(p)' /\ (p \notin outdated' => Matches(p)')
    BY <1>3 DEF Load, Checking, Act, NoAct, PanelsMatch, LoadsCheck, Matches, Shows, InFlight, Free, PanelType
  <2> QED
    BY <1>3, <2>1, <2>2, TabsApart
<1>4. ASSUME NEW p \in Panel, GetTotpEnabled(p)
      PROVE  PanelsMatch'
  <2>1. OthersStay(p)
    BY <1>4 DEF OthersStay, GetTotpEnabled
  <2>2. mishaps' = 0 => LoadsCheck(p)' /\ (p \notin outdated' => Matches(p)')
    BY <1>4 DEF GetTotpEnabled, ActType, PanelsMatch, LoadsCheck, Matches, Shows, InFlight, Free, PanelType
  <2> QED
    BY <1>4, <2>1, <2>2, TabsApart
<1>5. ASSUME NEW p \in Panel, LoadAnswered(p)
      PROVE  PanelsMatch'
  <2>1. OthersStay(p)
    BY <1>5 DEF OthersStay, LoadAnswered
  <2>2. mishaps' = 0 => LoadsCheck(p)' /\ (p \notin outdated' => Matches(p)')
    BY <1>5 DEF LoadAnswered, NoAct, PanelsMatch, LoadsCheck, Matches, Shows, InFlight, Free, PanelType
  <2> QED
    BY <1>5, <2>1, <2>2, TabsApart
<1>6. ASSUME NEW p \in Panel, StartEnrolling(p)
      PROVE  PanelsMatch'
  <2>1. OthersStay(p)
    BY <1>6 DEF OthersStay, StartEnrolling
  <2>2. mishaps' = 0 => LoadsCheck(p)' /\ (p \notin outdated' => Matches(p)')
    BY <1>6 DEF StartEnrolling, NoAct, PanelsMatch, LoadsCheck, Matches, Shows, InFlight, Free, PanelType
  <2> QED
    BY <1>6, <2>1, <2>2, TabsApart
<1>7. ASSUME NEW p \in Panel, StartTotpSetup(p)
      PROVE  PanelsMatch'
  <2>1. OthersStay(p)
    BY <1>7 DEF OthersStay, StartTotpSetup
  <2>2. mishaps' = 0 => LoadsCheck(p)' /\ (p \notin outdated' => Matches(p)')
    BY <1>7 DEF StartTotpSetup, PanelsMatch, LoadsCheck, Matches, Shows, InFlight, Free, PanelType
  <2> QED
    BY <1>7, <2>1, <2>2, TabsApart
<1>8. ASSUME NEW p \in Panel, SetupAnswered(p)
      PROVE  PanelsMatch'
  <2>1. OthersStay(p)
    BY <1>8 DEF OthersStay, SetupAnswered
  <2>2. mishaps' = 0 => LoadsCheck(p)' /\ (p \notin outdated' => Matches(p)')
    BY <1>8 DEF SetupAnswered, NoAct, PanelsMatch, LoadsCheck, Matches, Shows, InFlight, Free, PanelType
  <2> QED
    BY <1>8, <2>1, <2>2, TabsApart
<1>9. ASSUME NEW p \in Panel, OnVerify(p)
      PROVE  PanelsMatch'
  <2>1. OthersStay(p)
    BY <1>9 DEF OthersStay, OnVerify, Sends
  <2>2. mishaps' = 0 => LoadsCheck(p)' /\ (p \notin outdated' => Matches(p)')
    BY <1>9 DEF OnVerify, Sends, Act, NoAct, PanelsMatch, LoadsCheck, Matches, Shows, InFlight, Free, PanelType
  <2> QED
    BY <1>9, <2>1, <2>2, TabsApart
<1>10. ASSUME NEW p \in Panel, VerifyTotpSetup(p)
      PROVE  PanelsMatch'
  <2>1. OthersStay(p)
    BY <1>10 DEF OthersStay, VerifyTotpSetup, Reaches
  <2>2. mishaps' = 0 => LoadsCheck(p)' /\ (p \notin outdated' => Matches(p)')
    <3> USE DEF PanelsMatch, LoadsCheck, Matches, Shows, InFlight, Free, NoAct, PanelType
    <3>1. totp'.on = totp.on /\ mishaps' = mishaps /\ outdated' = outdated
      BY <1>10 DEF VerifyTotpSetup
    <3>2. CASE Reaches(p, "half")
      BY <1>10, <3>1, <3>2 DEF VerifyTotpSetup, Reaches, ActType
    <3>3. CASE panel' = [panel EXCEPT ![p].act = NoAct]
      BY <1>10, <3>1, <3>3 DEF VerifyTotpSetup
    <3> QED
      BY <1>10, <3>2, <3>3 DEF VerifyTotpSetup
  <2> QED
    BY <1>10, <2>1, <2>2, TabsApart
<1>11. ASSUME NEW p \in Panel, SetUserMFAPreference(p)
      PROVE  PanelsMatch'
  <2>1. OthersStay(p)
    BY <1>11 DEF OthersStay, SetUserMFAPreference, Reaches, Turned
  <2>2. mishaps' = 0 => LoadsCheck(p)' /\ (p \notin outdated' => Matches(p)')
    BY <1>11 DEF SetUserMFAPreference, Reaches, Turned, ActType, NoAct, PanelsMatch, LoadsCheck, Matches, Shows, InFlight, Free, PanelType
  <2> QED
    BY <1>11, <2>1, <2>2, TabsApart
<1>12. ASSUME NEW p \in Panel, OnDisable(p)
      PROVE  PanelsMatch'
  <2>1. OthersStay(p)
    BY <1>12 DEF OthersStay, OnDisable, Sends
  <2>2. mishaps' = 0 => LoadsCheck(p)' /\ (p \notin outdated' => Matches(p)')
    BY <1>12 DEF OnDisable, Sends, Act, NoAct, PanelsMatch, LoadsCheck, Matches, Shows, InFlight, Free, PanelType
  <2> QED
    BY <1>12, <2>1, <2>2, TabsApart
<1>13. ASSUME NEW p \in Panel, DisableTotp(p)
      PROVE  PanelsMatch'
  <2>1. OthersStay(p)
    BY <1>13 DEF OthersStay, DisableTotp, Reaches, Turned
  <2>2. mishaps' = 0 => LoadsCheck(p)' /\ (p \notin outdated' => Matches(p)')
    BY <1>13 DEF DisableTotp, Reaches, Turned, ActType, NoAct, PanelsMatch, LoadsCheck, Matches, Shows, InFlight, Free, PanelType
  <2> QED
    BY <1>13, <2>1, <2>2, TabsApart
<1>14. ASSUME NEW p \in Panel, TurnAnswered(p)
      PROVE  PanelsMatch'
  <2>1. OthersStay(p)
    BY <1>14 DEF OthersStay, TurnAnswered
  <2>2. mishaps' = 0 => LoadsCheck(p)' /\ (p \notin outdated' => Matches(p)')
    BY <1>14 DEF TurnAnswered, NoAct, PanelsMatch, LoadsCheck, Matches, Shows, InFlight, Free, PanelType
  <2> QED
    BY <1>14, <2>1, <2>2, TabsApart
<1>15. ASSUME NEW p \in Panel, Cancel(p)
      PROVE  PanelsMatch'
  <2>1. OthersStay(p)
    BY <1>15 DEF OthersStay, Cancel
  <2>2. mishaps' = 0 => LoadsCheck(p)' /\ (p \notin outdated' => Matches(p)')
    BY <1>15 DEF Cancel, NoAct, PanelsMatch, LoadsCheck, Matches, Shows, InFlight, Free, PanelType
  <2> QED
    BY <1>15, <2>1, <2>2, TabsApart
<1>16. ASSUME NEW p \in Panel, FactorCallFails(p)
      PROVE  PanelsMatch'
  BY <1>16, <1>2 DEF FactorCallFails, PanelsMatch
<1>17. CASE UNCHANGED factorVars
  BY <1>17 DEF factorVars, PanelsMatch, LoadsCheck, Matches, Shows, InFlight, Free
<1> QED
  BY <1>3, <1>4, <1>5, <1>6, <1>7, <1>8, <1>9, <1>10, <1>11, <1>12, <1>13, <1>14, <1>15, <1>16, <1>17 DEF FactorNext

-----------------------------------------------------------------------------
(* The theorems. *)

\* The variables keep their types for any tabs, setups and failed calls
\* (MfaSettings.tsx:40).
THEOREM FactorTypesHold == FactorSpec => []FactorTypeOK
<1>1. CodesInv => FactorTypeOK
  BY DEF CodesInv
<1> QED
  BY CodesInit, CodesKept, <1>1, PTL DEF FactorSpec

\* However many tabs set up, verify and disable at once, and whichever calls
\* fail, sign-in never asks for a code the candidate's app cannot give
\* (cognitoUserAuth.ts:566).
THEOREM NobodyLockedOut == FactorSpec => []CodesCanBeGiven
<1>1. CodesInv => CodesCanBeGiven
  BY DEF CodesInv, CodesCanBeGiven
<1> QED
  BY CodesInit, CodesKept, <1>1, PTL DEF FactorSpec

\* At rest, a section no other tab has overtaken shows whether sign-in asks for
\* a code (MfaSettings.tsx:133).
THEOREM PanelsTellTheTruth == FactorSpec => []PanelIsTrue
<1>1. CodesInv => FactorTypeOK
  BY DEF CodesInv
<1>2. FactorInit => CodesInv /\ PanelsMatch
  BY CodesInit, MatchInit
<1>3. CodesInv /\ PanelsMatch /\ [FactorNext]_factorVars => CodesInv' /\ PanelsMatch'
  BY <1>1, CodesKept, MatchKept
<1>4. PanelsMatch => PanelIsTrue
  BY DEF PanelsMatch, Matches, PanelIsTrue, Free, Shows, InFlight, NoAct
<1> QED
  BY <1>2, <1>3, <1>4, PTL DEF FactorSpec

\* The second factor is what the candidate was shown and can answer.
THEOREM FactorHolds == FactorSpec => []FactorIsUsable
  BY NobodyLockedOut, PanelsTellTheTruth, PTL DEF FactorIsUsable
=============================================================================
