--------------------------- MODULE BrowserSession ---------------------------
(***************************************************************************)
(* Signing in and staying signed in: the tabs of one browser, the cookies  *)
(* they share and the API's auth routes.  No tab sees a cookie: it learns  *)
(* where it stands from answers and from the events of its own page.  A    *)
(* request carries the cookies of the moment it was sent; an answer sets   *)
(* cookies when it arrives, and what the API decided is chosen then.       *)
(*                                                                         *)
(* A session is a refresh token with the access tokens made from it.       *)
(* Whether Cognito still honours one is its own affair: any refresh may be *)
(* refused.                                                                *)
(***************************************************************************)
EXTENDS Integers, FiniteSets

CONSTANTS
  Tab,
  Native,       \* who signs in with a password
  Federated,    \* who signs in through Google
  Protected,    \* who has a second factor
  None,
  MaxSessions,  \* bound on the sessions started
  MaxFaults     \* bound on the requests that fail

User == Native \cup Federated
Session == 1..MaxSessions
NoSession == 0
Cookie == Session \cup {NoSession}

ASSUME UserAssumption ==
  /\ Native \cap Federated = {} /\ Protected \subseteq Native
  /\ None \notin User \cup Tab \cup Int
ASSUME BoundAssumption == MaxSessions \in Nat /\ MaxFaults \in Nat

VARIABLES
  jar,      \* the cookies: access, refresh with username, pending TOTP, OAuth state
  owner,    \* whose each session is, in the order they started
  account,  \* what Cognito knows of each candidate with a password
  page,     \* each tab's AuthProvider, its sign-in form and the profile it shows
  call,     \* each tab's requests through the api client
  renewal,  \* the session each tab's refresh in flight asks for, if any
  form,     \* each tab's request of the auth routes
  faults,
  \* history: the session changed while a refresh was in flight; the tabs whose
  \* session ended or changed behind them, by another tab or with its cookies
  crossed, stale

vars == <<jar, owner, account, page, call, renewal, form, faults, crossed, stale>>
history == <<crossed, stale>>

\* fetchMe of AuthProvider, fetchMe of the Google landing page, the profile.
Kind == {"boot", "landing", "profile"}

NoCall == [st |-> "none", as |-> NoSession, again |-> FALSE, live |-> FALSE]
NoForm == [kind |-> "none", user |-> None, pending |-> None]
Away == [at |-> "away", status |-> "loading", settled |-> FALSE, step |-> "credentials",
         who |-> None, shown |-> None]
Loaded == [Away EXCEPT !.at = "app"]

Waiting(t) == {k \in Kind : call[t][k].st = "refused"}

\* A page in its tab, a call through the api client, and a form that is out.
Page == [at : {"away", "google", "app"},
         status : {"loading", "authenticated", "unauthenticated"},
         settled : BOOLEAN, step : {"credentials", "totp", "confirm"},
         who : Native \cup {None}, shown : User \cup {None}]
Call == [st : {"none", "sent", "refused"}, as : Cookie, again : BOOLEAN, live : BOOLEAN]
Form == [kind : {"none", "signin", "totp", "signup", "confirm", "signout"},
         user : Native \cup {None}, pending : Native \cup {None}]

VarTypes ==
  /\ jar \in [access : Cookie, refresh : Cookie, pending : Native \cup {None},
              oauth : Tab \cup {None}]
  /\ owner \in [Session -> User \cup {None}]
  /\ account \in [Native -> {"none", "unconfirmed", "confirmed"}]
  /\ page \in [Tab -> Page] /\ call \in [Tab -> [Kind -> Call]]
  /\ renewal \in [Tab -> Cookie \cup {None}] /\ form \in [Tab -> Form]
  /\ faults \in 0..MaxFaults
  /\ crossed \in BOOLEAN /\ stale \subseteq Tab

\* Nobody waits for a refresh that was not asked for.
RefreshIsAsked == \A t \in Tab : Waiting(t) # {} => renewal[t] # None

TypeOK == VarTypes /\ RefreshIsAsked

Init ==
  /\ jar = [access |-> NoSession, refresh |-> NoSession, pending |-> None, oauth |-> None]
  /\ owner = [s \in Session |-> None]
  /\ account \in [Native -> {"none", "confirmed"}]
  /\ page = [t \in Tab |-> Away]
  /\ call = [t \in Tab |-> [k \in Kind |-> NoCall]]
  /\ renewal = [t \in Tab |-> None] /\ form = [t \in Tab |-> NoForm]
  /\ faults = 0 /\ crossed = FALSE /\ stale = {}

Status(t) == page[t].status
\* The landing page of Google's sign-in offers nothing until its call is answered.
Offers(t) == page[t].at = "app" /\ call[t]["landing"].st = "none"
Idle(t) == Offers(t) /\ form[t].kind = "none"
Issued == {s \in Session : owner[s] # None}

\* The events of a page, to AuthProvider and to the guards below it, which
\* unmount what belongs to a session with it.
SignedIn(p) == [p EXCEPT !.status = "authenticated", !.settled = TRUE, !.step = "credentials",
                         !.who = None]
SignedOut(p) == [p EXCEPT !.status = "unauthenticated", !.settled = TRUE, !.shown = None]
\* Wrong on purpose: the late answer still renders.
StaysMounted(calls) == calls
Unmounted(calls) == [calls EXCEPT !["profile"].live = FALSE]

\* The cookies of a new session, which leave the pending second factor alone,
\* and of none.
Holds(s) == [jar EXCEPT !.access = s, !.refresh = s]
Emptied == [jar EXCEPT !.access = NoSession, !.refresh = NoSession, !.pending = None]

\* A session is there, in the token of an hour or in the one that renews it.
Holding == jar.access # NoSession \/ jar.refresh # NoSession

\* A refresh in flight asks for a session.
Renewing == \E t \in Tab : renewal[t] \notin {None, NoSession}

\* An answer to tab t changes the session of the browser.
Changes(t) ==
  /\ crossed' = (crossed \/ \E u \in Tab : renewal'[u] # None)
  /\ stale' = (stale \cup {u \in Tab : page[u].at = "app"}) \ {t}

Fault == faults < MaxFaults /\ faults' = faults + 1

Starts(u, s) ==
  /\ Cardinality(Issued) < MaxSessions /\ s = Cardinality(Issued) + 1
  /\ owner' = [owner EXCEPT ![s] = u]

-----------------------------------------------------------------------------
(***************************************************************************)
(* The api client: a call, its refusal, one refresh for all that wait.     *)
(***************************************************************************)

Sent(token) == [NoCall EXCEPT !.st = "sent", !.as = token, !.live = TRUE]

\* Wrong on purpose: the boot call's answer overrides an event.
FailsAnyway(p, k) == IF k = "boot" THEN [p EXCEPT !.status = "unauthenticated"] ELSE p

\* What became of a call shows: boot settles the status unless an event has.
Failed(p, k) ==
  IF k = "boot" /\ ~p.settled THEN [p EXCEPT !.status = "unauthenticated"] ELSE p

Answered(p, k, u) ==
  CASE k = "boot" -> IF p.settled THEN p ELSE [p EXCEPT !.status = "authenticated"]
    [] k = "landing" -> SignedIn(p)
    [] k = "profile" -> [p EXCEPT !.shown = u]

CallSucceeds(t, k) ==
  /\ call[t][k].st = "sent" /\ call[t][k].as # NoSession
  /\ page' = [page EXCEPT ![t] =
                IF call[t][k].live THEN Answered(@, k, owner[call[t][k].as]) ELSE @]
  /\ call' = [call EXCEPT ![t][k] = NoCall]
  /\ UNCHANGED <<jar, owner, account, renewal, form, faults, history>>

\* 401: no token, or one that ran out on the way.  The first refusal waits for
\* the refresh in flight or asks for one; a second is the caller's to handle.
CallRefused(t, k) ==
  /\ call[t][k].st = "sent"
  /\ IF call[t][k].as = NoSession THEN UNCHANGED faults ELSE Fault
  /\ IF call[t][k].again
     THEN /\ call' = [call EXCEPT ![t][k] = NoCall]
          /\ page' = [page EXCEPT ![t] = Failed(@, k)]
          /\ UNCHANGED renewal
     ELSE /\ call' = [call EXCEPT ![t][k].st = "refused"]
          /\ renewal' = [renewal EXCEPT ![t] = IF @ = None THEN jar.refresh ELSE @]
          /\ UNCHANGED page
  /\ UNCHANGED <<jar, owner, account, form, history>>

\* No answer, or one that is neither 2xx nor 401.
CallFails(t, k) ==
  /\ call[t][k].st = "sent" /\ Fault
  /\ call' = [call EXCEPT ![t][k] = NoCall]
  /\ page' = [page EXCEPT ![t] = Failed(@, k)]
  /\ UNCHANGED <<jar, owner, account, renewal, form, history>>

\* Wrong on purpose: only one of those that waited is resumed.
ResumesOne(t, token) ==
  LET first == CHOOSE k \in Waiting(t) : TRUE
  IN  IF Waiting(t) = {} THEN call[t]
      ELSE [call[t] EXCEPT ![first].st = "sent", ![first].as = token, ![first].again = TRUE]

\* Every call that waited goes out again, once.
Resumed(t, token) ==
  [k \in Kind |-> IF k \in Waiting(t)
                  THEN [call[t][k] EXCEPT !.st = "sent", !.as = token, !.again = TRUE]
                  ELSE call[t][k]]
Dropped(t) == [k \in Kind |-> IF k \in Waiting(t) THEN NoCall ELSE call[t][k]]

RefreshGranted(t) ==
  /\ renewal[t] \notin {None, NoSession}
  /\ renewal' = [renewal EXCEPT ![t] = None]
  /\ jar' = [jar EXCEPT !.access = renewal[t]]
  /\ call' = [call EXCEPT ![t] = Resumed(t, renewal[t])]
  /\ UNCHANGED <<owner, account, page, form, faults, history>>

\* The page hears that the session expired; the calls that waited fail.
Expires(t) ==
  /\ renewal' = [renewal EXCEPT ![t] = None]
  /\ page' = [page EXCEPT ![t] = SignedOut(@)]
  /\ call' = [call EXCEPT ![t] = Unmounted(Dropped(t))]
  /\ UNCHANGED <<owner, account, form>>

\* No refresh cookie, or Cognito refuses it: the session's cookies go.
RefreshRefused(t) ==
  /\ renewal[t] # None
  /\ Expires(t)
  /\ jar' = Emptied
  /\ IF Holding THEN Changes(t)
     ELSE stale' = stale \ {t} /\ crossed' = (crossed \/ Renewing')
  /\ UNCHANGED faults

\* An outage: nothing is said about the session, so its cookies stay.
RefreshFails(t) ==
  /\ renewal[t] # None /\ Fault
  /\ Expires(t)
  /\ UNCHANGED <<jar, history>>

-----------------------------------------------------------------------------
(***************************************************************************)
(* A tab and its guards.                                                   *)
(***************************************************************************)

\* A page that loads asks who is signed in; the Google landing page asks too.
Loads(t, kinds) ==
  /\ page' = [page EXCEPT ![t] = Loaded]
  /\ call' = [call EXCEPT ![t] =
                [k \in Kind |-> IF k \in kinds THEN Sent(jar'.access) ELSE NoCall]]

Open(t) ==
  /\ page[t].at = "away"
  /\ UNCHANGED <<jar, owner, account, renewal, form, faults, history>>
  /\ Loads(t, {"boot"})

\* Nothing that was under way is heard of again.
Leaves(t, to) ==
  /\ page' = [page EXCEPT ![t] = [Away EXCEPT !.at = to]]
  /\ call' = [call EXCEPT ![t] = [k \in Kind |-> NoCall]]
  /\ renewal' = [renewal EXCEPT ![t] = None] /\ form' = [form EXCEPT ![t] = NoForm]
  /\ stale' = stale \ {t}
  /\ UNCHANGED <<owner, account, faults, crossed>>

Close(t) == page[t].at = "app" /\ Leaves(t, "away") /\ UNCHANGED jar

\* ProfileProvider loads when RequireAuth lets it mount, and when asked to again.
LoadProfile(t) ==
  /\ Offers(t) /\ Status(t) = "authenticated" /\ page[t].shown = None
  /\ call[t]["profile"].st = "none"
  /\ call' = [call EXCEPT ![t]["profile"] = Sent(jar.access)]
  /\ UNCHANGED <<jar, owner, account, page, renewal, form, faults, history>>

GoToGoogle(t) ==
  /\ Idle(t) /\ Status(t) = "unauthenticated"
  /\ jar' = [jar EXCEPT !.oauth = t]
  /\ Leaves(t, "google")

\* The callback starts a session only if the state it returns with is the one
\* the browser holds, which it uses up either way.
GoogleReturns(t) ==
  /\ page[t].at = "google" /\ jar.oauth = t
  /\ \E u \in Federated, s \in Session :
       Starts(u, s) /\ jar' = [Holds(s) EXCEPT !.oauth = None]
  /\ Loads(t, {"boot", "landing"})
  /\ UNCHANGED <<account, renewal, form, faults>> /\ Changes(t)

GoogleRefused(t) ==
  /\ page[t].at = "google"
  /\ IF jar.oauth = t THEN Fault ELSE UNCHANGED faults
  /\ jar' = [jar EXCEPT !.oauth = None]
  /\ Loads(t, {"boot"})
  /\ UNCHANGED <<owner, account, renewal, form, history>>

-----------------------------------------------------------------------------
(***************************************************************************)
(* The auth routes: a form goes out, and its answer returns to the tab.    *)
(***************************************************************************)

Submits(t, kind, u) ==
  /\ Idle(t)
  /\ form' = [form EXCEPT ![t] = [kind |-> kind, user |-> u, pending |-> jar.pending]]
  /\ UNCHANGED <<jar, owner, account, page, call, renewal, faults, history>>

\* The pages of a visitor: the two forms for credentials, the second factor, and
\* the code of the email.
OnStep(t, step) == Status(t) = "unauthenticated" /\ page[t].step = step
SubmitSignIn(t, u) == OnStep(t, "credentials") /\ Submits(t, "signin", u)
SubmitSignUp(t, u) == OnStep(t, "credentials") /\ Submits(t, "signup", u)
SubmitTotp(t)      == OnStep(t, "totp") /\ Submits(t, "totp", page[t].who)
SubmitCode(t)      == OnStep(t, "confirm") /\ Submits(t, "confirm", page[t].who)

SubmitSignOut(t) == Status(t) = "authenticated" /\ Submits(t, "signout", None)

\* The answer to a form of one of these kinds.
Answer(t, kinds) ==
  /\ form[t].kind \in kinds
  /\ form' = [form EXCEPT ![t] = NoForm]
  /\ UNCHANGED <<renewal, faults>>

\* The browser may be in a session already, another tab's: it is replaced.
SessionReturns(t) ==
  /\ Answer(t, {"signin", "totp"})
  /\ account[form[t].user] = "confirmed"
  /\ form[t].kind = "signin" => form[t].user \notin Protected
  /\ form[t].kind = "totp" => form[t].pending = form[t].user
  /\ \E s \in Session :
       Starts(form[t].user, s) /\ jar' = [Holds(s) EXCEPT !.pending = None]
  /\ page' = [page EXCEPT ![t] = SignedIn(@)]
  /\ UNCHANGED <<account, call>> /\ Changes(t)

\* The next page of the flow.
Steps(t, to) ==
  /\ page' = [page EXCEPT ![t].step = to,
                          ![t].who = IF to = "credentials" THEN None ELSE form[t].user]
  /\ UNCHANGED <<owner, call, history>>

TotpAsked(t) ==
  /\ Answer(t, {"signin"})
  /\ account[form[t].user] = "confirmed" /\ form[t].user \in Protected
  /\ jar' = [jar EXCEPT !.pending = form[t].user]
  /\ Steps(t, "totp") /\ UNCHANGED account

\* The challenge ran out: without the cookie, or in Cognito.
TotpExpired(t) ==
  /\ Answer(t, {"totp"})
  /\ jar' = IF form[t].pending = None THEN jar ELSE [jar EXCEPT !.pending = None]
  /\ Steps(t, "credentials") /\ UNCHANGED account

SignUpReturns(t) ==
  /\ Answer(t, {"signup"}) /\ account[form[t].user] = "none"
  /\ account' = [account EXCEPT ![form[t].user] = "unconfirmed"]
  /\ Steps(t, "confirm") /\ UNCHANGED jar

ConfirmationAsked(t) ==
  /\ Answer(t, {"signin"}) /\ account[form[t].user] = "unconfirmed"
  /\ Steps(t, "confirm") /\ UNCHANGED <<jar, account>>

\* Confirming twice is no failure, and confirming signs nobody in.
ConfirmReturns(t) ==
  /\ Answer(t, {"confirm"})
  /\ account' = [account EXCEPT ![form[t].user] = "confirmed"]
  /\ Steps(t, "credentials") /\ UNCHANGED jar

\* A wrong password or code, an account that exists: the page stays.
FormRefused(t) ==
  /\ Answer(t, {"signin", "totp", "signup", "confirm"})
  /\ form[t].kind = "signup" => account[form[t].user] # "none"
  /\ form[t].kind = "totp" => form[t].pending # None
  /\ form[t].kind = "confirm" => account[form[t].user] = "unconfirmed"
  /\ UNCHANGED <<jar, owner, account, page, call, history>>

SignOutReturns(t) ==
  /\ Answer(t, {"signout"})
  /\ jar' = Emptied
  /\ page' = [page EXCEPT ![t] = SignedOut(@)]
  /\ call' = [call EXCEPT ![t] = Unmounted(@)]
  /\ UNCHANGED <<owner, account>> /\ Changes(t)

\* No answer: sign-out tells the tab it is out all the same, and a sign-up or
\* confirmation may have been served.
FormLost(t) ==
  /\ form[t].kind # "none" /\ Fault
  /\ form' = [form EXCEPT ![t] = NoForm]
  /\ IF form[t].kind = "signout"
     THEN page' = [page EXCEPT ![t] = SignedOut(@)] /\ call' = [call EXCEPT ![t] = Unmounted(@)]
     ELSE UNCHANGED <<page, call>>
  /\ \/ UNCHANGED account
     \/ /\ form[t].kind = "signup" /\ account[form[t].user] = "none"
        /\ account' = [account EXCEPT ![form[t].user] = "unconfirmed"]
     \/ /\ form[t].kind = "confirm"
        /\ account' = [account EXCEPT ![form[t].user] = "confirmed"]
  /\ UNCHANGED <<jar, owner, renewal, history>>

BackToCredentials(t) ==
  /\ Idle(t) /\ page[t].step # "credentials"
  /\ page' = [page EXCEPT ![t].step = "credentials", ![t].who = None]
  /\ UNCHANGED <<jar, owner, account, call, renewal, form, faults, history>>

-----------------------------------------------------------------------------
\* The cookies run out, each at its own time: a refresh renews access and leaves
\* the cookie it came with to its week.  No page hears of it.
Lapses(cookie, none) ==
  /\ jar[cookie] # none /\ jar' = [jar EXCEPT ![cookie] = none]
  /\ stale' = IF Holding /\ ~Holding'
              THEN stale \cup {t \in Tab : page[t].at = "app" /\ Status(t) # "unauthenticated"}
              ELSE stale
  /\ UNCHANGED <<owner, account, page, call, renewal, form, faults, crossed>>

FormReturns(t) ==
  \/ SessionReturns(t) \/ TotpAsked(t) \/ TotpExpired(t) \/ SignUpReturns(t)
  \/ ConfirmationAsked(t) \/ ConfirmReturns(t) \/ FormRefused(t) \/ SignOutReturns(t)
  \/ FormLost(t)

TabStep(t) ==
  \/ \E k \in Kind : CallSucceeds(t, k) \/ CallRefused(t, k) \/ CallFails(t, k)
  \/ RefreshGranted(t) \/ RefreshRefused(t) \/ RefreshFails(t)
  \/ Open(t) \/ Close(t) \/ LoadProfile(t)
  \/ GoToGoogle(t) \/ GoogleReturns(t) \/ GoogleRefused(t)
  \/ \E u \in Native : SubmitSignIn(t, u) \/ SubmitSignUp(t, u)
  \/ SubmitTotp(t) \/ SubmitCode(t) \/ SubmitSignOut(t) \/ BackToCredentials(t) \/ FormReturns(t)

Next ==
  \/ \E t \in Tab : TabStep(t)
  \/ Lapses("access", NoSession) \/ Lapses("refresh", NoSession)
  \/ Lapses("pending", None) \/ Lapses("oauth", None)

\* The API answers, or the client's timeout does.
Fairness ==
  \A t \in Tab :
    /\ \A k \in Kind : WF_vars(CallSucceeds(t, k) \/ CallRefused(t, k) \/ CallFails(t, k))
    /\ WF_vars(RefreshGranted(t) \/ RefreshRefused(t) \/ RefreshFails(t))

SafetySpec == Init /\ [][Next]_vars
Spec == SafetySpec /\ Fairness

-----------------------------------------------------------------------------
(***************************************************************************)
(* Properties.                                                             *)
(***************************************************************************)

\* The cookies of the browser are one session's, unless the session changed
\* while a refresh was in flight: /refresh sets the access cookie of whatever
\* session it was asked for, and drops whatever cookies are there when it is
\* refused (auth.ts:253, :259).
JarIsOneSession ==
  ~crossed => jar.access = NoSession \/ jar.refresh = NoSession \/ jar.access = jar.refresh

\* A tab that says whether it is signed in is right, whatever it has in flight,
\* unless a request failed, another tab changed the session or its cookies ran
\* out, and then until it is next refused (auth.tsx:35, authApi.ts:100).
StatusMatchesJar ==
  faults = 0 /\ ~crossed =>
    \A t \in Tab \ stale : page[t].at = "app" /\ Status(t) # "loading" =>
      (Status(t) = "authenticated" <=> Holding)

\* The profile a tab shows is that of the session its next request is made
\* under, so nobody edits another's profile; a profile asked for before a
\* sign-out is not shown after the next sign-in (profile.tsx:54).
TabShowsItsSession ==
  ~crossed =>
    \A t \in Tab \ stale : page[t].shown # None /\ jar.access # NoSession =>
      page[t].shown = owner[jar.access]

\* The cookies are one session's, and what a tab says of the session, and whose
\* profile it shows, is what they hold.
TabsMatchTheJar == JarIsOneSession /\ StatusMatchesJar /\ TabShowsItsSession

\* Only its own sign-out and its own refresh take a tab from signed in to
\* signed out: not a late answer to the boot call (auth.tsx:46).
StaysSignedIn ==
  [][\A t \in Tab : Status(t) = "authenticated" /\ Status(t)' = "unauthenticated" =>
       form[t].kind = "signout" \/ renewal[t] # None]_vars

\* Every call is answered in the end, those that waited for somebody else's
\* refresh and those refused again after it (sessionRefresh.ts:39, :56).
EveryCallSettles ==
  \A t \in Tab, k \in Kind : []<>(call[t][k].st = "none")

-----------------------------------------------------------------------------
(***************************************************************************)
(* The inductive invariants behind them.                                   *)
(***************************************************************************)

\* Only a signed-in tab shows a profile or waits for one, a visitor's forms are
\* a visitor's, and a tab that knows where it stands ignores its boot call.
TabsAreCoherent ==
  \A t \in Tab :
    /\ page[t].at # "app" =>
         /\ Status(t) = "loading" /\ form[t].kind = "none" /\ renewal[t] = None
         /\ \A k \in Kind : call[t][k].st = "none"
    /\ Status(t) # "authenticated" => page[t].shown = None /\ ~call[t]["profile"].live
    /\ form[t].kind \in {"signin", "totp"} => Status(t) = "unauthenticated"
    /\ form[t].kind # "none" => call[t]["landing"].st = "none"
    /\ Status(t) # "loading" /\ call[t]["boot"].st # "none" => page[t].settled

\* Until the session changes under a refresh, what is held and asked for is one
\* session, and so is what a tab shows or will show.
IsTheSession(s) ==
  /\ {jar.access, jar.refresh} \subseteq {NoSession, s}
  /\ \A t \in Tab :
       /\ renewal[t] \in {None, NoSession, s}
       /\ t \notin stale /\ call[t]["profile"].live => call[t]["profile"].as \in {NoSession, s}
       /\ t \notin stale /\ page[t].shown # None => s # NoSession /\ page[t].shown = owner[s]
OneSessionAtATime == ~crossed => \E s \in Cookie : IsTheSession(s)

\* Without failures only the end of a session refuses a call that carries a
\* token, as the calls of Google's landing page and those sent again do.
Carries(t) ==
  /\ \A k \in Kind : call[t][k].again /\ call[t][k].st = "sent" => call[t][k].as # NoSession
  /\ call[t]["landing"].st # "none" =>
       /\ renewal[t] = None /\ call[t]["profile"].st = "none"
       /\ \A k \in {"boot", "landing"} : call[t][k].st # "none" =>
            call[t][k].st = "sent" /\ call[t][k].as # NoSession

\* What a tab says, or will once it is answered, is what the cookies hold, and
\* after it has said that there is none no refresh brings a session back.
Knows(t) ==
  /\ Status(t) = "authenticated" => Holding
  /\ Status(t) = "unauthenticated" => ~Holding /\ ~Renewing
  /\ \A k \in {"boot", "landing"} :
       call[t][k].st = "sent" /\ (k = "boot" => ~page[t].settled) =>
         call[t][k].as = NoSession \/ Holding

TabsKnow ==
  faults = 0 /\ ~crossed => \A t \in Tab : Carries(t) /\ (t \notin stale => Knows(t))
=============================================================================
