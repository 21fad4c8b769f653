---------------------------- MODULE SecondFactor ----------------------------
(***************************************************************************)
(* Turning the second factor on and off: the Security section of the       *)
(* profile page (components/MfaSettings.tsx) open in several tabs of one   *)
(* candidate, the routes behind it and what Cognito keeps.  A setup is a   *)
(* new secret; a code made from it verifies it, and only a second call to  *)
(* Cognito makes sign-in ask for codes.                                    *)
(*                                                                         *)
(* Secrets are numbered in the order they are made.                        *)
(***************************************************************************)
EXTENDS Naturals

CONSTANTS
  Panel,      \* the tabs
  MaxSecrets, \* bound on the setups
  MaxMishaps  \* bound on the calls that fail

ASSUME FactorAssumption == {MaxSecrets, MaxMishaps} \subseteq Nat

VARIABLES
  totp,          \* Cognito: the secret set up last, the one verified last, and
                 \* is the second factor preferred
  authenticator, \* the secrets in the candidate's app
  panel,         \* each tab: what it shows, its call in flight, its setups
  mishaps,
  \* history: the tabs that show what another has changed, or a setup that
  \* came when it was not waited for
  outdated

factorVars == <<totp, authenticator, panel, mishaps, outdated>>

Secret == 1..MaxSecrets
NoSecret == 0

NoAct == [kind |-> "none", step |-> "none", secret |-> NoSecret, on |-> FALSE]
Act(k, s) == [NoAct EXCEPT !.kind = k, !.step = "sent", !.secret = s]
Checking == [shows |-> "checking", secret |-> NoSecret, act |-> Act("load", NoSecret),
             asked |-> 0, answers |-> {}]

FactorTypeOK ==
  /\ totp \in [made : 0..MaxSecrets, device : 0..MaxSecrets, on : BOOLEAN]
  /\ authenticator \subseteq Secret
  /\ panel \in [Panel -> [shows : {"checking", "error", "off", "enrolling", "on"},
                          secret : 0..MaxSecrets,
                          act : [kind : {"none", "load", "verify", "disable"},
                                 step : {"none", "sent", "half", "done"},
                                 secret : 0..MaxSecrets, on : BOOLEAN],
                          asked : 0..2, answers : SUBSET Secret]]
  /\ mishaps \in 0..MaxMishaps
  /\ outdated \subseteq Panel

FactorInit ==
  /\ totp = [made |-> NoSecret, device |-> NoSecret, on |-> FALSE]
  /\ authenticator = {}
  /\ panel = [p \in Panel |-> Checking]
  /\ mishaps = 0 /\ outdated = {}

Shows(p, what) == panel[p].shows = what
InFlight(p, k, step) == panel[p].act.kind = k /\ panel[p].act.step = step
Free(p) == panel[p].act = NoAct
Sends(p, k, s) == panel' = [panel EXCEPT ![p].act = Act(k, s)]
Reaches(p, step) == panel' = [panel EXCEPT ![p].act.step = step]

\* Tab p turns the factor on or off: the others do not know.
Turned(p, on) ==
  /\ totp' = [totp EXCEPT !.on = on]
  /\ outdated' = IF on = totp.on THEN outdated ELSE outdated \cup (Panel \ {p})

-----------------------------------------------------------------------------
\* load, when the section mounts and on Retry: GET /auth/mfa.
Load(p) ==
  /\ Free(p) /\ panel[p].asked = 0 /\ panel[p].answers = {}
  /\ panel' = [panel EXCEPT ![p] = Checking]
  /\ UNCHANGED <<totp, authenticator, mishaps, outdated>>

GetTotpEnabled(p) ==
  /\ InFlight(p, "load", "sent")
  /\ panel' = [panel EXCEPT ![p].act.step = "done", ![p].act.on = totp.on]
  /\ outdated' = outdated \ {p}
  /\ UNCHANGED <<totp, authenticator, mishaps>>

LoadAnswered(p) ==
  /\ InFlight(p, "load", "done")
  /\ panel' = [panel EXCEPT ![p].act = NoAct,
                            ![p].shows = IF panel[p].act.on THEN "on" ELSE "off"]
  /\ UNCHANGED <<totp, authenticator, mishaps, outdated>>

\* startEnrolling.  The button stays as it is while the server answers.
StartEnrolling(p) ==
  /\ Shows(p, "off") /\ Free(p) /\ panel[p].asked < 2
  /\ panel' = [panel EXCEPT ![p].asked = @ + 1]
  /\ UNCHANGED <<totp, authenticator, mishaps, outdated>>

\* A new secret replaces the one that waits to be verified.
StartTotpSetup(p) ==
  /\ panel[p].asked > 0 /\ totp.made < MaxSecrets
  /\ totp' = [totp EXCEPT !.made = @ + 1]
  /\ panel' = [panel EXCEPT ![p].asked = @ - 1, ![p].answers = @ \cup {totp.made + 1}]
  /\ UNCHANGED <<authenticator, mishaps, outdated>>

\* The answer shows its secret, whatever the section shows by now.
SetupAnswered(p) ==
  /\ \E s \in panel[p].answers :
       panel' = [panel EXCEPT ![p].answers = @ \ {s}, ![p].shows = "enrolling", ![p].secret = s]
  /\ outdated' = IF Shows(p, "off") THEN outdated ELSE outdated \cup {p}
  /\ UNCHANGED <<totp, authenticator, mishaps>>

\* onVerify: the candidate adds the secret on the screen to the app and types
\* the code it gives.
OnVerify(p) ==
  /\ Shows(p, "enrolling") /\ Free(p)
  /\ authenticator' = authenticator \cup {panel[p].secret}
  /\ Sends(p, "verify", panel[p].secret)
  /\ UNCHANGED <<totp, mishaps, outdated>>

\* Wrong on purpose: the factor is preferred whatever became of the code.
PreferUnverified(p) ==
  /\ InFlight(p, "verify", "sent") /\ Reaches(p, "half")
  /\ totp' = IF totp.made = panel[p].act.secret THEN [totp EXCEPT !.device = totp.made] ELSE totp
  /\ UNCHANGED <<authenticator, mishaps, outdated>>

\* VerifySoftwareToken: a code of the secret made last, or CODE_INVALID.
VerifyTotpSetup(p) ==
  /\ InFlight(p, "verify", "sent")
  /\ IF totp.made = panel[p].act.secret
       THEN totp' = [totp EXCEPT !.device = totp.made] /\ Reaches(p, "half")
       ELSE UNCHANGED totp /\ panel' = [panel EXCEPT ![p].act = NoAct]
  /\ UNCHANGED <<authenticator, mishaps, outdated>>

\* SetUserMFAPreference, "the write that actually turns it on".
SetUserMFAPreference(p) ==
  /\ InFlight(p, "verify", "half") /\ Reaches(p, "done") /\ Turned(p, TRUE)
  /\ UNCHANGED <<authenticator, mishaps>>

\* onDisable, confirmed in its dialog.
OnDisable(p) ==
  /\ Shows(p, "on") /\ Free(p) /\ Sends(p, "disable", NoSecret)
  /\ UNCHANGED <<totp, authenticator, mishaps, outdated>>

DisableTotp(p) ==
  /\ InFlight(p, "disable", "sent") /\ Reaches(p, "done") /\ Turned(p, FALSE)
  /\ UNCHANGED <<authenticator, mishaps>>

\* The answer to a verification or to a disable.
TurnAnswered(p) ==
  /\ \E turn \in {<<"verify", "on">>, <<"disable", "off">>} :
       /\ InFlight(p, turn[1], "done")
       /\ panel' = [panel EXCEPT ![p].act = NoAct, ![p].shows = turn[2]]
  /\ UNCHANGED <<totp, authenticator, mishaps, outdated>>

\* Cancel goes back to "off", which is where setting up began.
Cancel(p) ==
  /\ Shows(p, "enrolling") /\ Free(p)
  /\ panel' = [panel EXCEPT ![p].shows = "off"]
  /\ UNCHANGED <<totp, authenticator, mishaps, outdated>>

\* A call fails, before Cognito acts or after.  A load says so in place of the
\* section, anything else in a toast over it.
FactorCallFails(p) ==
  /\ mishaps < MaxMishaps /\ mishaps' = mishaps + 1
  /\ \/ /\ ~Free(p)
        /\ panel' = [panel EXCEPT ![p].act = NoAct,
                       ![p].shows = IF panel[p].act.kind = "load" THEN "error" ELSE @]
     \/ panel[p].asked > 0 /\ panel' = [panel EXCEPT ![p].asked = @ - 1]
  /\ UNCHANGED <<totp, authenticator, outdated>>

FactorNext ==
  \E p \in Panel :
    \/ Load(p) \/ GetTotpEnabled(p) \/ LoadAnswered(p)
    \/ StartEnrolling(p) \/ StartTotpSetup(p) \/ SetupAnswered(p)
    \/ OnVerify(p) \/ VerifyTotpSetup(p) \/ SetUserMFAPreference(p)
    \/ OnDisable(p) \/ DisableTotp(p) \/ TurnAnswered(p)
    \/ Cancel(p) \/ FactorCallFails(p)

FactorSpec == FactorInit /\ [][FactorNext]_factorVars

-----------------------------------------------------------------------------
\* Nobody is locked out: when sign-in asks for a code, the secret it is checked
\* against is in the candidate's app, whatever tabs set up, verify and disable
\* at once and whichever of their calls fails (cognitoUserAuth.ts:566).
CodesCanBeGiven == totp.on => totp.device \in authenticator

\* At rest the section says what sign-in does, unless a call failed, another
\* tab changed it, or a second setup was answered behind the first.
PanelIsTrue ==
  mishaps = 0 =>
    \A p \in Panel \ outdated :
      Free(p) /\ panel[p].shows \in {"on", "off"} => (Shows(p, "on") <=> totp.on)

\* The second factor is what the candidate was shown and can answer.
FactorIsUsable == CodesCanBeGiven /\ PanelIsTrue

\* What MfaSettings.tsx:38 says of its states: it never sets up what is on.
NeverOnAndEnrolling ==
  mishaps = 0 => \A p \in Panel : Shows(p, "enrolling") /\ Free(p) => ~totp.on
=============================================================================
