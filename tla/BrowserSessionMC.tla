--------------------------- MODULE BrowserSessionMC ---------------------------
(***************************************************************************)
(* BrowserSession with two tabs that play different parts: in one the      *)
(* candidate uses a password, in the other Google.  Before either is used, *)
(* the settings of the second factor, which share nothing with them but    *)
(* the account.                                                            *)
(***************************************************************************)
EXTENDS BrowserSession, SecondFactor

CONSTANTS PasswordTab, GoogleTab

BrowserInit == Init /\ FactorInit
BrowserNext ==
  \/ FactorInit /\ Next /\ UNCHANGED factorVars
  \/ Init /\ FactorNext /\ UNCHANGED vars
BrowserSpec == BrowserInit /\ [][BrowserNext]_<<vars, factorVars>> /\ Fairness

\* The account is made before the second tab is opened.  Once the session has
\* changed under a refresh the properties promise nothing more about the
\* cookies, and the search stops there.  A request that fails while both tabs are
\* open does so in the first session; the settings are used beside one account.
\* Cookies that run out one by one do so in the first session, and neither that
\* nor a tab left over an empty jar meets a request that fails.
Focus ==
  /\ ~crossed
  /\ page[PasswordTab].at # "google"
  /\ form[GoogleTab].kind \in {"none", "signout"}
  /\ page[GoogleTab].at = "away" \/ account = [u \in Native |-> "confirmed"]
  /\ faults = 0 \/ Cardinality(Issued) <= 1 \/ page[GoogleTab].at = "away"
  /\ FactorInit \/ account = [u \in Native |-> "confirmed"]
  /\ jar.refresh # NoSession \/ jar.access = NoSession
       \/ (Cardinality(Issued) <= 1 /\ faults = 0)
  /\ Holding \/ stale = {} \/ faults = 0
=============================================================================
