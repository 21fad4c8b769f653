---------------------------- MODULE AdminConsole ----------------------------
(***************************************************************************)
(* The admin page and its routes: a form that grants an allowance to the   *)
(* account an email or a username names, and a table of accounts that      *)
(* reloads when a grant is saved.  One of the accounts is the candidate of *)
(* Interview, whose connections are running meanwhile.                     *)
(*                                                                         *)
(* A grant is a lookup in Cognito, a write to DynamoDB and an answer; a    *)
(* page of the table a ListUsers and a BatchGetItem, which is not a        *)
(* consistent read.  The browser gives up on an answer, the server does    *)
(* not: two grants of one form may be under way.                           *)
(***************************************************************************)
EXTENDS Interview, ServiceHealth

CONSTANTS
  User,       \* Cognito usernames
  Mine,       \* the user whose interviews Interview models
  Email,
  EmailOf,    \* several users may share one: a password and a Google account
  Onboarded,  \* the users with a profile
  FirstPage,  \* the users ListUsers returns first
  None,
  MaxGrants,  \* bound on the grants submitted from one page
  MaxLoads,   \* bound on the loads of the table
  MaxSlips    \* bound on the console's failed calls

ASSUME UserAssumption ==
  /\ IsFiniteSet(User) /\ None \notin User
  /\ Mine \in Onboarded /\ Onboarded \subseteq User
  /\ EmailOf \in [User -> Email] /\ FirstPage \subseteq User
  /\ {MaxGrants, MaxLoads, MaxSlips} \subseteq Nat

VARIABLES
  page,     \* "off", "checking", "denied", "open"
  member,   \* does the operator's access token carry the admin group
  grants,   \* the allowances of the other accounts
  form,     \* GrantForm
  posts,    \* its requests, in the order of submission
  table,    \* AccountTable
  loads,    \* its requests, in the order they began
  slips,
  \* history: accounts changed behind the form's back; two loads were out at a
  \* time since the last that began alone; a load read a replica that lagged
  crossed, tangled, lagged

consoleVars == <<page, member, grants, form, posts, table, loads, slips,
                 crossed, tangled, lagged, healthVars>>
allVars == <<vars, consoleVars>>

Post == 1..MaxGrants
Load == 1..MaxLoads
Others == User \ {Mine}
InForce(u) == IF u = Mine THEN limit ELSE grants[u]

\* A row shows an allowance, or that the account has no profile.
Row == Limits \cup {None}
Rows == UNION {[us -> Row] : us \in SUBSET User}

NoPost == [pc |-> "off", heard |-> FALSE, email |-> CHOOSE e \in Email : TRUE,
           username |-> None, user |-> None, want |-> DefaultLimit]
NoLoad == [pc |-> "off", more |-> FALSE, base |-> <<>>, got |-> <<>>]
BlankForm == [state |-> "idle", username |-> None, options |-> {}, user |-> None,
              says |-> DefaultLimit]

FormRecord == [state : {"idle", "saving", "saved", "error", "ambiguous"},
               username : User \cup {None}, options : SUBSET User,
               user : User \cup {None}, says : Limits]
PostRecord == [pc : {"off", "lookup", "write", "saved", "ambiguous", "error", "over"},
               heard : BOOLEAN, email : Email, username : User \cup {None},
               user : User \cup {None}, want : Limits]
TableRecord == [state : {"off", "loading", "error"}] \cup
               [state : {"ready"}, cursor : BOOLEAN, loadingMore : BOOLEAN, rows : Rows]
LoadRecord == [pc : {"off", "list", "profiles", "answer", "lost", "over"},
               more : BOOLEAN, base : Rows, got : Rows]

ConsoleTypeOK ==
  /\ page \in {"off", "checking", "denied", "open"} /\ member \in BOOLEAN
  /\ grants \in [Others -> Limits]
  /\ form \in FormRecord /\ posts \in [Post -> PostRecord]
  /\ table \in TableRecord /\ loads \in [Load -> LoadRecord]
  /\ slips \in 0..MaxSlips
  /\ crossed \subseteq User /\ tangled \in BOOLEAN /\ lagged \in BOOLEAN
  /\ HealthTypeOK

ConsoleInit ==
  /\ Init
  /\ page = "off" /\ member \in BOOLEAN
  /\ grants = [u \in Others |-> DefaultLimit]
  /\ form = BlankForm /\ posts = [p \in Post |-> NoPost]
  /\ table = [state |-> "off"] /\ loads = [k \in Load |-> NoLoad]
  /\ slips = 0
  /\ crossed = {} /\ tangled = FALSE /\ lagged = FALSE
  /\ HealthInit

Slip == slips < MaxSlips /\ slips' = slips + 1

-----------------------------------------------------------------------------
(* The page                                                                *)

\* RequireAdminPage asks /auth/me whether the token carries the group, and
\* takes a failure for a no.
OpenConsole ==
  /\ page = "off" /\ page' = "checking"
  /\ UNCHANGED <<vars, member, grants, form, posts, table, loads, slips, crossed, tangled,
                 lagged, healthVars>>

ListOut == \E k \in Load : loads[k].pc \notin {"off", "over"}

\* load(): the first page, read again from its start, whatever else is out.
BeginLoad ==
  \E k \in Load :
    /\ loads[k].pc = "off" /\ \A j \in 1..(k - 1) : loads[j].pc # "off"
    /\ loads' = [loads EXCEPT ![k] = [NoLoad EXCEPT !.pc = "list"]]
    /\ tangled' = ListOut /\ lagged' = (lagged /\ ListOut)
    /\ table' = [state |-> "loading"]

AdminKnown ==
  /\ page = "checking"
  /\ \/ /\ member /\ page' = "open" /\ BeginLoad /\ UNCHANGED slips
     \/ /\ page' = "denied"
        /\ IF member THEN Slip ELSE UNCHANGED slips
        /\ UNCHANGED <<table, loads, tangled, lagged>>
  /\ UNCHANGED <<vars, member, grants, form, posts, crossed, healthVars>>

\* What every admin route asks of the token.
RequireAdmin == member

\* The token is refreshed after the operator has left the group.
LeaveGroup ==
  /\ page = "open" /\ member /\ member' = FALSE
  /\ UNCHANGED <<vars, page, grants, form, posts, table, loads, slips, crossed, tangled,
                 lagged, healthVars>>

-----------------------------------------------------------------------------
(* The form                                                                *)

FormFrame ==
  UNCHANGED <<vars, page, member, grants, table, loads, slips, tangled, lagged, healthVars>>

\* submit(): a username, when there is one, replaces the email.  The button is
\* disabled while a grant is being saved, the fields are not.
Submit(e, want) ==
  /\ page = "open" /\ form.state # "saving"
  /\ \E p \in Post :
       /\ posts[p].pc = "off" /\ \A q \in 1..(p - 1) : posts[q].pc # "off"
       /\ posts' = [posts EXCEPT ![p] =
            [pc |-> IF RequireAdmin THEN "lookup" ELSE "error", heard |-> TRUE, email |-> e,
             username |-> form.username, user |-> None, want |-> want]]
  /\ form' = [form EXCEPT !.state = "saving", !.options = {}]
  /\ UNCHANGED crossed /\ FormFrame

\* A limit that is no number is refused before anything is sent.
SubmitNoNumber ==
  /\ page = "open" /\ form.state # "saving"
  /\ form' = [form EXCEPT !.state = "error", !.options = {}]
  /\ UNCHANGED <<posts, crossed>> /\ FormFrame

\* A candidate's button fills the username in.
PickCandidate(u) ==
  /\ form.state = "ambiguous" /\ u \in form.options
  /\ form' = [form EXCEPT !.state = "idle", !.username = u, !.options = {}]
  /\ UNCHANGED <<posts, crossed>> /\ FormFrame

ClearUsername ==
  /\ form.username # None
  /\ form' = [form EXCEPT !.username = None]
  /\ UNCHANGED <<posts, crossed>> /\ FormFrame

-----------------------------------------------------------------------------
(* POST /admin/unlimited-access                                            *)

PostFrame ==
  UNCHANGED <<page, member, form, table, loads, tangled, lagged, healthVars>>

\* The accounts the request may mean.
Named(p) == IF posts[p].username # None THEN {posts[p].username}
            ELSE {u \in User : EmailOf[u] = posts[p].email}

\* Wrong on purpose: the first of several accounts is taken.
TakeFirstMatch(p) ==
  /\ posts[p].pc = "lookup"
  /\ \E u \in Named(p) : posts' = [posts EXCEPT ![p].pc = "write", ![p].user = u]
  /\ UNCHANGED <<vars, grants, slips, crossed>> /\ PostFrame

\* findDirectoryUser: none is an error, several are handed back to choose from.
FindDirectoryUser(p) ==
  /\ posts[p].pc = "lookup"
  /\ LET named == Named(p) IN
       posts' = [posts EXCEPT ![p] =
         IF named = {} THEN [@ EXCEPT !.pc = "error"]
         ELSE IF Cardinality(named) > 1 THEN [@ EXCEPT !.pc = "ambiguous"]
         ELSE [@ EXCEPT !.pc = "write", !.user = CHOOSE u \in named : TRUE]]
  /\ UNCHANGED <<vars, grants, slips, crossed>> /\ PostFrame

\* setAccessGrant's condition: a profile, and not one being erased.
Grantable(u) == u \in Onboarded /\ (u = Mine => account = "active")

Granted(u, want) ==
  IF u = Mine THEN SetAccessGrant(want) /\ UNCHANGED grants
              ELSE grants' = [grants EXCEPT ![u] = want] /\ UNCHANGED vars

\* The write; what the form hears of is no longer behind its back.
WriteGrant(p) ==
  /\ posts[p].pc = "write"
  /\ LET u == posts[p].user IN
       IF Grantable(u)
         THEN /\ Granted(u, posts[p].want)
              /\ posts' = [posts EXCEPT ![p].pc = IF posts[p].heard THEN "saved" ELSE "over"]
              /\ crossed' = IF posts[p].heard THEN crossed \ {u} ELSE crossed \cup {u}
         ELSE /\ posts' = [posts EXCEPT ![p].pc = "error"]
              /\ UNCHANGED <<vars, grants, crossed>>
  /\ UNCHANGED slips /\ PostFrame

\* A call of the handler fails; the write may have been applied.
GrantFails(p) ==
  /\ posts[p].pc \in {"lookup", "write"} /\ Slip
  /\ posts' = [posts EXCEPT ![p].pc = "error"]
  /\ \/ UNCHANGED <<vars, grants, crossed>>
     \/ /\ posts[p].pc = "write" /\ Grantable(posts[p].user)
        /\ Granted(posts[p].user, posts[p].want)
        /\ crossed' = crossed \cup {posts[p].user}
  /\ PostFrame

AnswerFrame == UNCHANGED <<vars, page, member, grants, slips, healthVars>>

\* Wrong on purpose: the table is not told.
SavedQuietly(p) ==
  /\ posts[p].pc = "saved" /\ posts[p].heard
  /\ posts' = [posts EXCEPT ![p] = [NoPost EXCEPT !.pc = "over"]]
  /\ form' = [form EXCEPT !.state = "saved", !.user = posts[p].user, !.says = posts[p].want]
  /\ UNCHANGED <<table, loads, tangled, lagged, crossed>> /\ AnswerFrame

\* The form says which account was changed and to what, as the server answered,
\* and the table reloads.
SavedAnswered(p) ==
  /\ posts[p].pc = "saved" /\ posts[p].heard
  /\ posts' = [posts EXCEPT ![p] = [NoPost EXCEPT !.pc = "over"]]
  /\ form' = [form EXCEPT !.state = "saved", !.user = posts[p].user, !.says = posts[p].want]
  /\ BeginLoad
  /\ UNCHANGED crossed /\ AnswerFrame

\* A refusal is shown, and several accounts are offered.
RefusalAnswered(p) ==
  /\ posts[p].pc \in {"ambiguous", "error"} /\ posts[p].heard
  /\ posts' = [posts EXCEPT ![p] = [NoPost EXCEPT !.pc = "over"]]
  /\ form' = [form EXCEPT !.state = posts[p].pc,
                !.options = IF posts[p].pc = "ambiguous" THEN Named(p) ELSE {}]
  /\ UNCHANGED <<table, loads, tangled, lagged, crossed>> /\ AnswerFrame

\* API_TIMEOUT_MS, or the connection: an error, while the server goes on.
GiveUp(p) ==
  /\ posts[p].heard /\ Slip
  /\ posts' = [posts EXCEPT ![p] = [@ EXCEPT !.heard = FALSE,
       !.pc = IF posts[p].pc \in {"lookup", "write"} THEN posts[p].pc ELSE "over"]]
  /\ form' = [form EXCEPT !.state = "error"]
  /\ crossed' = IF posts[p].pc = "saved" THEN crossed \cup {posts[p].user} ELSE crossed
  /\ UNCHANGED <<vars, page, member, grants, table, loads, tangled, lagged, healthVars>>

-----------------------------------------------------------------------------
(* The table                                                               *)

TableFrame == UNCHANGED <<vars, page, member, grants, form, posts, crossed, healthVars>>

\* Retry, beside the error.
RetryLoad ==
  /\ table.state = "error" /\ BeginLoad
  /\ UNCHANGED slips /\ TableFrame

\* loadMore: the rows on screen now are those the page will be appended to.
LoadMore ==
  /\ table.state = "ready" /\ table.cursor /\ ~table.loadingMore
  /\ \E k \in Load :
       /\ loads[k].pc = "off" /\ \A j \in 1..(k - 1) : loads[j].pc # "off"
       /\ loads' = [loads EXCEPT ![k] = [NoLoad EXCEPT !.pc = "list", !.more = TRUE,
                                                       !.base = table.rows]]
  /\ tangled' = (tangled \/ ListOut)
  /\ table' = [table EXCEPT !.loadingMore = TRUE]
  /\ UNCHANGED <<slips, lagged>> /\ TableFrame

\* listDirectoryUsers: a page of users, whose profiles are read next.
ListDirectoryUsers(k) ==
  /\ loads[k].pc = "list"
  /\ \/ /\ RequireAdmin /\ UNCHANGED slips
        /\ loads' = [loads EXCEPT ![k] = [@ EXCEPT !.pc = "profiles",
             !.got = [u \in (IF loads[k].more THEN User \ FirstPage ELSE FirstPage) |-> None]]]
     \/ /\ IF RequireAdmin THEN Slip ELSE UNCHANGED slips
        /\ loads' = [loads EXCEPT ![k].pc = "lost"]
  /\ UNCHANGED <<table, tangled, lagged>> /\ TableFrame

\* GET /admin/users: the directory's users joined to the profiles read.
Joined(us, behind, old) ==
  [u \in us |-> IF u \notin Onboarded THEN None ELSE IF u \in behind THEN old ELSE InForce(u)]

\* getAdminProfiles: a profile may be read as it was before a grant, or be left
\* unprocessed, which shows as no profile.
GetAdminProfiles(k) ==
  /\ loads[k].pc = "profiles"
  /\ \E behind \in {{}} \cup {{u} : u \in DOMAIN loads[k].got \cap Onboarded} :
     \E old \in IF behind = {} THEN {None} ELSE {None, DefaultLimit} :
       /\ loads' = [loads EXCEPT ![k] = [@ EXCEPT !.pc = "answer",
                                               !.got = Joined(DOMAIN loads[k].got, behind, old)]]
       /\ lagged' = (lagged \/ behind # {})
       /\ IF behind = {} THEN UNCHANGED slips ELSE Slip
  /\ UNCHANGED <<table, tangled>> /\ TableFrame

\* The answer is shown, whichever load it belongs to; a failure replaces the
\* rows on screen.
Listed(k) ==
  /\ loads[k].pc \in {"answer", "lost"}
  /\ loads' = [loads EXCEPT ![k] = [NoLoad EXCEPT !.pc = "over"]]
  /\ table' = IF loads[k].pc = "lost" THEN [state |-> "error"]
              ELSE [state |-> "ready", cursor |-> ~loads[k].more /\ FirstPage # User,
                    loadingMore |-> FALSE,
                    rows |-> [u \in DOMAIN loads[k].base \cup DOMAIN loads[k].got |->
                                IF u \in DOMAIN loads[k].got THEN loads[k].got[u]
                                                             ELSE loads[k].base[u]]]
  /\ UNCHANGED <<slips, tangled, lagged>> /\ TableFrame

-----------------------------------------------------------------------------
GrantForm ==
  \/ \E e \in Email, want \in Limits : Submit(e, want)
  \/ SubmitNoNumber \/ ClearUsername \/ \E u \in User : PickCandidate(u)

PostStep(p) ==
  \/ FindDirectoryUser(p) \/ WriteGrant(p) \/ GrantFails(p)
  \/ SavedAnswered(p) \/ RefusalAnswered(p) \/ GiveUp(p)

AccountTable ==
  \/ RetryLoad \/ LoadMore
  \/ \E k \in Load : ListDirectoryUsers(k) \/ GetAdminProfiles(k) \/ Listed(k)

\* Another administrator's grant, the connections, the erasure.
Meanwhile ==
  /\ Next
  /\ crossed' = IF page = "open" /\ limit' # limit THEN crossed \cup {Mine} ELSE crossed
  /\ UNCHANGED <<page, member, grants, form, posts, table, loads, slips, tangled, lagged,
                 healthVars>>

Charts ==
  /\ page = "open" /\ HealthNext
  /\ UNCHANGED <<vars, page, member, grants, form, posts, table, loads, slips, crossed,
                 tangled, lagged>>

ConsoleNext ==
  \/ Meanwhile \/ OpenConsole \/ AdminKnown \/ LeaveGroup \/ GrantForm
  \/ (\E p \in Post : PostStep(p)) \/ AccountTable \/ Charts

ConsoleSpec == ConsoleInit /\ [][ConsoleNext]_allVars /\ Fairness

-----------------------------------------------------------------------------
\* What the form says was saved is in force, for the account it says.
SavedStands ==
  form.state = "saved" /\ form.user \notin crossed => InForce(form.user) = form.says

\* Once the loads are answered the table has left "loading" and shows the
\* allowances in force: a grant that was saved is visible without a refresh,
\* unless loads were out at a time, the read lagged, or the account was changed
\* by a grant this form did not hear of.
TableShowsGrants ==
  ~ListOut =>
    /\ table.state # "loading"
    /\ table.state = "ready" => ~table.loadingMore
    /\ table.state = "ready" /\ form.state # "saving" /\ ~tangled /\ ~lagged =>
         \A u \in DOMAIN table.rows \cap (Onboarded \ crossed) : table.rows[u] = InForce(u)

\* What the admin page says is what is stored.
ConsoleTellsTheTruth ==
  ConsoleTypeOK /\ (page = "open" => SavedStands /\ TableShowsGrants /\ ChartsFitWindow)

\* A grant changes the one account its request can mean, and nobody's when
\* several share the email.
Changed(u) == InForce(u)' # InForce(u)
GrantsHitOneAccount ==
  [][ \A u \in Others : Changed(u) =>
        \E p \in Post : posts[p].pc = "write" /\ Named(p) = {u} /\ ~Changed(Mine) ]_allVars
=============================================================================
