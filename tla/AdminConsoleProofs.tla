------------------------- MODULE AdminConsoleProofs -------------------------
(***************************************************************************)
(* Proofs about the admin page: its types, that it runs Interview, that    *)
(* what it says is what is stored, and that a grant hits one account.  For *)
(* any number of accounts, posts, loads, reads and failed calls, and any   *)
(* connections meanwhile.                                                  *)
(***************************************************************************)
EXTENDS AdminConsole, InterviewProofs

-----------------------------------------------------------------------------
(* Types                                                                   *)

\* A step of Interview leaves the allowance alone or is a grant of one.
LEMMA OnlyGrantsMoveLimit ==
  ASSUME TypeOK, [Next]_vars
  PROVE  limit' = limit \/ limit' \in Limits
<1>1. ASSUME NEW l \in Limits, SetAccessGrant(l)
      PROVE  limit' \in Limits
  BY <1>1 DEF SetAccessGrant
<1>2. ASSUME NEW c \in Conn,
             ReadQuota(c) \/ ClaimInterviewSlot(c) \/ ClaimResent(c) \/ StartupFails(c)
      PROVE  limit' = limit
  BY <1>2 DEF ReadQuota, ClaimInterviewSlot, ClaimResent, Claim, ClaimLost, ClaimFrame,
              StartupFails, profile
<1>3. MarkProfileDeleting \/ Crash \/ UNCHANGED vars => limit' = limit
  BY DEF MarkProfileDeleting, Crash, vars, profile
<1> QED
  BY <1>1, <1>2, <1>3, QuietSteps
  DEF Next, Startup, Close, Fail, Repeat, QuotaQuiet

\* The types of the console and of the connections it runs beside; a post that
\* writes or has written a grant does so for a user.
ConsoleTyped ==
  /\ TypeOK /\ ConsoleTypeOK
  /\ \A p \in Post : posts[p].pc \in {"write", "saved"} => posts[p].user \in User

\* The rows a page of the directory joins to are rows.
LEMMA JoinedRows ==
  ASSUME ConsoleTyped, NEW us \in SUBSET User, NEW behind, NEW old \in {None, DefaultLimit}
  PROVE  Joined(us, behind, old) \in Rows
<1>1. \A u \in us : InForce(u) \in Limits
  BY UserAssumption DEF ConsoleTyped, TypeOK, ConsoleTypeOK, InForce, Others
<1>2. DefaultLimit \in Limits
  BY DEF Limits
<1>3. Joined(us, behind, old) \in [us -> Row]
  BY <1>1, <1>2 DEF Joined, Row
<1> QED
  BY <1>3 DEF Rows

LEMMA EmptyRows == <<>> \in Rows
<1>1. <<>> \in [{} -> Row]
  OBVIOUS
<1> QED
  BY <1>1 DEF Rows

LEMMA RowsAreRows ==
  ASSUME NEW f \in Rows
  PROVE  DOMAIN f \subseteq User /\ f \in [DOMAIN f -> Row]
BY DEF Rows

\* Blank records are of their types.
LEMMA BlanksTyped ==
  /\ NoPost \in [pc : {"off"}, heard : {FALSE}, email : Email, username : {None},
                 user : {None}, want : Limits]
  /\ NoLoad \in [pc : {"off"}, more : {FALSE}, base : Rows, got : Rows]
  /\ NotRead \in [pc : {"off"}, window : Window, routes : {FALSE}, drawn : SUBSET Series]
<1>1. (CHOOSE e \in Email : TRUE) \in Email
  BY UserAssumption
<1>2. (CHOOSE w \in Window : TRUE) \in Window
  BY WindowAssumption
<1> QED
  BY <1>1, <1>2, EmptyRows DEF NoPost, NoLoad, NotRead, Limits

\* A load begins with no rows of its own.
LEMMA LoadsBegin ==
  ASSUME ConsoleTyped, BeginLoad
  PROVE  /\ loads' \in [Load -> LoadRecord]
         /\ table' = [state |-> "loading"] /\ tangled' \in BOOLEAN /\ lagged' \in BOOLEAN
<1> DEFINE Fresh == [NoLoad EXCEPT !.pc = "list"]
<1>1. Fresh \in [pc : {"list"}, more : BOOLEAN, base : Rows, got : Rows]
  BY BlanksTyped
<1>2. PICK k \in Load : loads' = [loads EXCEPT ![k] = Fresh]
  BY DEF BeginLoad
<1>3. ListOut \in BOOLEAN
  BY DEF ListOut
<1>4. Fresh \in LoadRecord
  BY <1>1 DEF LoadRecord
<1> HIDE DEF Fresh
<1> QED
  BY <1>2, <1>3, <1>4 DEF BeginLoad, ConsoleTyped, ConsoleTypeOK

\* A grant sets an allowance of one account.
LEMMA GrantTypes ==
  ASSUME ConsoleTyped, NEW u \in User, NEW want \in Limits, Granted(u, want)
  PROVE  [Next]_vars /\ grants' \in [Others -> Limits]
BY DEF Granted, ConsoleTyped, ConsoleTypeOK, Others, Next

\* A step of the charts keeps their types.
LEMMA ChartsTyped ==
  ASSUME HealthTypeOK, HealthNext \/ UNCHANGED healthVars
  PROVE  HealthTypeOK'
<1> USE DEF HealthTypeOK
<1>1. ASSUME NEW w \in Window, LoadMetrics(w), hours' \in Window
      PROVE  HealthTypeOK'
  <2> DEFINE Fresh == [NotRead EXCEPT !.pc = "discover", !.window = w]
  <2>1. Fresh \in [pc : {"discover"}, window : Window, routes : BOOLEAN, drawn : SUBSET Series]
    BY BlanksTyped
  <2>2. PICK k \in Read : reads' = [reads EXCEPT ![k] = Fresh]
    BY <1>1 DEF LoadMetrics
  <2>3. (\E j \in Read : Out(j)) \in BOOLEAN
    OBVIOUS
  <2> HIDE DEF Fresh
  <2>4. reads' \in [Read -> [pc : {"off", "discover", "data", "answer", "lost", "over"},
                            window : Window, routes : BOOLEAN, drawn : SUBSET Series]]
    BY <2>1, <2>2
  <2>5. /\ charts' \in [state : {"off", "loading", "error"}] \cup [state : {"ready"}, data : Chart]
        /\ mixed' \in BOOLEAN
    BY <1>1, <2>3 DEF LoadMetrics
  <2> QED
    BY <1>1, <2>4, <2>5
<1>2. CASE MountHealth \/ Refresh
  BY <1>1, <1>2 DEF MountHealth, Refresh
<1>3. ASSUME NEW w \in Window, ChooseWindow(w)
      PROVE  HealthTypeOK'
  BY <1>1, <1>3 DEF ChooseWindow
<1>4. ASSUME NEW k \in Read, DiscoverRoutes(k)
      PROVE  HealthTypeOK'
  <2>1. PICK found \in BOOLEAN :
          reads' = [reads EXCEPT ![k] = [@ EXCEPT !.pc = "data", !.routes = found]]
    BY <1>4 DEF DiscoverRoutes
  <2> QED
    BY <1>4, <2>1 DEF DiscoverRoutes
<1>5. ASSUME NEW k \in Read, ReadMetrics(k)
      PROVE  HealthTypeOK'
  <2>1. CASE reads' = [reads EXCEPT ![k].pc = "lost"]
    BY <1>5, <2>1 DEF ReadMetrics
  <2>2. ASSUME NEW drawn \in SUBSET Series,
               reads' = [reads EXCEPT ![k] = [@ EXCEPT !.pc = "answer", !.drawn = drawn]]
        PROVE  HealthTypeOK'
    BY <1>5, <2>2 DEF ReadMetrics
  <2>3. \/ reads' = [reads EXCEPT ![k].pc = "lost"]
        \/ \E drawn \in SUBSET (IF reads[k].routes THEN Series ELSE {"aggregate"}) :
             reads' = [reads EXCEPT ![k] = [@ EXCEPT !.pc = "answer", !.drawn = drawn]]
    BY ONLY <1>5 DEF ReadMetrics
  <2>4. (IF reads[k].routes THEN Series ELSE {"aggregate"}) \subseteq Series
    BY DEF Series
  <2>5. ASSUME NEW drawn \in SUBSET (IF reads[k].routes THEN Series ELSE {"aggregate"}),
               reads' = [reads EXCEPT ![k] = [@ EXCEPT !.pc = "answer", !.drawn = drawn]]
        PROVE  HealthTypeOK'
    <3>1. drawn \in SUBSET Series
      BY ONLY <2>4, drawn \in SUBSET (IF reads[k].routes THEN Series ELSE {"aggregate"})
    <3> QED
      BY ONLY <2>2, <2>5, <3>1
  <2> QED
    BY ONLY <2>1, <2>3, <2>5
<1>6. ASSUME NEW k \in Read, MetricsAnswered(k)
      PROVE  HealthTypeOK'
  <2> DEFINE Fresh == [NotRead EXCEPT !.pc = "over"]
  <2>1. Fresh \in [pc : {"over"}, window : Window, routes : BOOLEAN, drawn : SUBSET Series]
    BY BlanksTyped
  <2>2. reads' = [reads EXCEPT ![k] = Fresh]
    BY <1>6 DEF MetricsAnswered
  <2> HIDE DEF Fresh
  <2>3. reads' \in [Read -> [pc : {"off", "discover", "data", "answer", "lost", "over"},
                            window : Window, routes : BOOLEAN, drawn : SUBSET Series]]
    BY <2>1, <2>2
  <2>4. reads[k].window \in Window /\ reads[k].drawn \in SUBSET Series
    OBVIOUS
  <2>5. Answer(reads[k].window, reads[k].drawn) \in Chart
    BY <2>4 DEF Answer, Chart
  <2>6. charts' \in [state : {"off", "loading", "error"}] \cup [state : {"ready"}, data : Chart]
    BY <1>6, <2>5 DEF MetricsAnswered
  <2> QED
    BY <1>6, <2>3, <2>6 DEF MetricsAnswered
<1>7. CASE UNCHANGED healthVars
  BY <1>7 DEF healthVars
<1> QED
  BY <1>2, <1>3, <1>4, <1>5, <1>6, <1>7 DEF HealthNext

\* What a grant's request may mean are users.
LEMMA NamedAreUsers ==
  ASSUME ConsoleTypeOK, NEW p \in Post
  PROVE  Named(p) \subseteq User
BY DEF ConsoleTypeOK, PostRecord, Named

\* The console's types, a step at a time.
LEMMA FormTyped ==
  ASSUME ConsoleTyped, GrantForm
  PROVE  form' \in FormRecord /\ posts' \in [Post -> PostRecord] /\ crossed' \subseteq User
         /\ UNCHANGED <<vars, page, member, grants, table, loads, slips, tangled, lagged,
                        healthVars>>
<1> USE DEF ConsoleTyped, ConsoleTypeOK, FormFrame
<1>1. ASSUME NEW e \in Email, NEW want \in Limits, Submit(e, want)
      PROVE  form' \in FormRecord /\ posts' \in [Post -> PostRecord]
  <2> DEFINE Sent == [pc |-> IF RequireAdmin THEN "lookup" ELSE "error", heard |-> TRUE,
                      email |-> e, username |-> form.username, user |-> None, want |-> want]
  <2>1. Sent \in PostRecord
    BY DEF PostRecord, FormRecord
  <2>2. PICK p \in Post : posts' = [posts EXCEPT ![p] = Sent]
    BY <1>1 DEF Submit
  <2> HIDE DEF Sent
  <2> QED
    BY <1>1, <2>1, <2>2 DEF Submit, FormRecord
<1>2. ASSUME NEW u \in User, PickCandidate(u)
      PROVE  form' \in FormRecord
  BY <1>2 DEF PickCandidate, FormRecord
<1>3. SubmitNoNumber \/ ClearUsername => form' \in FormRecord
  BY DEF SubmitNoNumber, ClearUsername, FormRecord
<1> QED
  BY <1>1, <1>2, <1>3 DEF GrantForm, Submit, SubmitNoNumber, ClearUsername, PickCandidate

\* A post's record moves on within its type.
LEMMA PostMoves ==
  ASSUME ConsoleTyped, NEW p \in Post, NEW r \in PostRecord,
         r.pc \in {"write", "saved"} => r.user \in User,
         posts' = [posts EXCEPT ![p] = r]
  PROVE  /\ posts' \in [Post -> PostRecord]
         /\ \A q \in Post : posts'[q].pc \in {"write", "saved"} => posts'[q].user \in User
BY DEF ConsoleTyped, ConsoleTypeOK

PostsTyped ==
  /\ posts \in [Post -> PostRecord]
  /\ \A q \in Post : posts[q].pc \in {"write", "saved"} => posts[q].user \in User

LEMMA FoundPosts ==
  ASSUME ConsoleTyped, NEW p \in Post, FindDirectoryUser(p)
  PROVE  PostsTyped'
<1> DEFINE To(l) == [posts[p] EXCEPT !.pc = l]
           Found(u) == [posts[p] EXCEPT !.pc = "write", !.user = u]
<1>1. posts[p] \in PostRecord /\ Named(p) \subseteq User
  BY NamedAreUsers DEF ConsoleTyped, ConsoleTypeOK
<1>2. /\ To("error") \in PostRecord /\ To("ambiguous") \in PostRecord
      /\ To("error").pc = "error" /\ To("ambiguous").pc = "ambiguous"
  BY <1>1 DEF PostRecord
<1>3. \A u \in User : Found(u) \in PostRecord /\ Found(u).user = u
  BY <1>1 DEF PostRecord
<1>4. Named(p) # {} => (CHOOSE u \in Named(p) : TRUE) \in User
  BY <1>1
<1>5. CASE Named(p) = {}
  <2>1. posts' = [posts EXCEPT ![p] = To("error")]
    BY <1>5 DEF FindDirectoryUser
  <2> QED
    BY <1>2, <2>1, PostMoves DEF PostsTyped
<1>6. CASE Named(p) # {} /\ Cardinality(Named(p)) > 1
  <2>1. posts' = [posts EXCEPT ![p] = To("ambiguous")]
    BY <1>6 DEF FindDirectoryUser
  <2> QED
    BY <1>2, <2>1, PostMoves DEF PostsTyped
<1>7. CASE Named(p) # {} /\ ~(Cardinality(Named(p)) > 1)
  <2>1. posts' = [posts EXCEPT ![p] = Found(CHOOSE u \in Named(p) : TRUE)]
    BY <1>7 DEF FindDirectoryUser
  <2> QED
    BY <1>3, <1>4, <1>7, <2>1, PostMoves DEF PostsTyped
<1> QED
  BY <1>5, <1>6, <1>7

LEMMA PostTyped ==
  ASSUME ConsoleTyped, NEW p \in Post, PostStep(p)
  PROVE  PostsTyped'
<1> DEFINE r == posts[p]
           To(l) == [r EXCEPT !.pc = l]
           Blank == [NoPost EXCEPT !.pc = "over"]
           Unheard == [r EXCEPT !.heard = FALSE,
                                !.pc = IF r.pc \in {"lookup", "write"} THEN r.pc ELSE "over"]
<1>1. r \in PostRecord /\ (r.pc \in {"write", "saved"} => r.user \in User)
  BY DEF ConsoleTyped, ConsoleTypeOK
<1>2. \A l \in {"error", "saved", "over"} :
        To(l) \in PostRecord /\ To(l).pc = l /\ To(l).user = r.user
  BY <1>1 DEF PostRecord
<1>3. Blank \in PostRecord /\ Blank.pc = "over"
  BY BlanksTyped DEF PostRecord
<1>4. Unheard \in PostRecord /\ Unheard.user = r.user /\ Unheard.pc \in {r.pc, "over"}
  BY <1>1 DEF PostRecord
<1>5. CASE WriteGrant(p)
  <2>1. \E l \in {"error", "saved", "over"} : posts' = [posts EXCEPT ![p] = To(l)]
    BY <1>5 DEF WriteGrant
  <2>2. r.pc = "write"
    BY <1>5 DEF WriteGrant
  <2> QED
    BY <1>1, <1>2, <2>1, <2>2, PostMoves DEF PostsTyped
<1>6. CASE GrantFails(p)
  <2>1. posts' = [posts EXCEPT ![p] = To("error")]
    BY <1>6 DEF GrantFails
  <2> QED
    BY <1>2, <2>1, PostMoves DEF PostsTyped
<1>7. CASE SavedAnswered(p) \/ RefusalAnswered(p)
  <2>1. posts' = [posts EXCEPT ![p] = Blank]
    BY <1>7 DEF SavedAnswered, RefusalAnswered
  <2> QED
    BY <1>3, <2>1, PostMoves DEF PostsTyped
<1>8. CASE GiveUp(p)
  <2>1. posts' = [posts EXCEPT ![p] = Unheard]
    BY ONLY <1>8 DEF GiveUp
  <2> QED
    BY <1>1, <1>4, <2>1, PostMoves DEF PostsTyped
<1> QED
  BY <1>5, <1>6, <1>7, <1>8, FoundPosts DEF PostStep

\* What a step of a post does to the accounts: at most the grant it carries.
LEMMA PostGrants ==
  ASSUME ConsoleTyped, NEW p \in Post, PostStep(p)
  PROVE  [Next]_vars /\ grants' \in [Others -> Limits] /\ crossed' \subseteq User
<1>1. /\ posts[p] \in PostRecord /\ (posts[p].pc \in {"write", "saved"} => posts[p].user \in User)
      /\ grants \in [Others -> Limits] /\ crossed \subseteq User
  BY DEF ConsoleTyped, ConsoleTypeOK
<1>2. posts[p].want \in Limits
  BY <1>1 DEF PostRecord
<1>3. CASE UNCHANGED <<vars, grants>>
  BY <1>1, <1>3 DEF PostStep, FindDirectoryUser, WriteGrant, GrantFails, SavedAnswered,
                    RefusalAnswered, GiveUp
<1>4. CASE posts[p].pc = "write" /\ Granted(posts[p].user, posts[p].want)
           /\ crossed' \in {crossed \ {posts[p].user}, crossed \cup {posts[p].user}}
  BY <1>1, <1>2, <1>4, GrantTypes
<1>5. WriteGrant(p) => UNCHANGED <<vars, grants>>
        \/ (posts[p].pc = "write" /\ Granted(posts[p].user, posts[p].want)
            /\ crossed' \in {crossed \ {posts[p].user}, crossed \cup {posts[p].user}})
  BY DEF WriteGrant
<1>6. GrantFails(p) => UNCHANGED <<vars, grants>>
        \/ (posts[p].pc = "write" /\ Granted(posts[p].user, posts[p].want)
            /\ crossed' \in {crossed \ {posts[p].user}, crossed \cup {posts[p].user}})
  BY DEF GrantFails
<1>7. FindDirectoryUser(p) \/ SavedAnswered(p) \/ RefusalAnswered(p) \/ GiveUp(p)
        => UNCHANGED <<vars, grants>>
  BY DEF FindDirectoryUser, SavedAnswered, RefusalAnswered, GiveUp, AnswerFrame
<1> QED
  BY <1>3, <1>4, <1>5, <1>6, <1>7 DEF PostStep

\* What a step of a post does to the page: the form, and a load of the table.
LEMMA PostShown ==
  ASSUME ConsoleTyped, NEW p \in Post, PostStep(p)
  PROVE  /\ form' \in FormRecord /\ table' \in TableRecord /\ loads' \in [Load -> LoadRecord]
         /\ tangled' \in BOOLEAN /\ lagged' \in BOOLEAN /\ slips' \in 0..MaxSlips
         /\ UNCHANGED <<page, member, healthVars>>
<1>1. /\ posts[p] \in PostRecord /\ form \in FormRecord /\ Named(p) \subseteq User
      /\ (posts[p].pc = "saved" => posts[p].user \in User)
  BY NamedAreUsers DEF ConsoleTyped, ConsoleTypeOK
<1>2. form' \in FormRecord
  <2>1. CASE UNCHANGED form
    BY <1>1, <2>1
  <2>2. CASE form' = [form EXCEPT !.state = "saved", !.user = posts[p].user, !.says = posts[p].want]
             /\ posts[p].pc = "saved"
    BY <1>1, <2>2 DEF FormRecord, PostRecord
  <2>3. ASSUME NEW us \in SUBSET User, NEW l \in {"error", "ambiguous"},
               form' = [form EXCEPT !.state = l, !.options = us]
        PROVE  form' \in FormRecord
    BY <1>1, <2>3 DEF FormRecord
  <2>4. CASE RefusalAnswered(p)
    <3>1. (IF posts[p].pc = "ambiguous" THEN Named(p) ELSE {}) \in SUBSET User
      BY <1>1
    <3>2. posts[p].pc \in {"error", "ambiguous"}
      BY <2>4 DEF RefusalAnswered
    <3> QED
      BY <2>3, <2>4, <3>1, <3>2 DEF RefusalAnswered
  <2>5. CASE GiveUp(p)
    <3>1. form' = [form EXCEPT !.state = "error"]
      BY <2>5 DEF GiveUp
    <3> QED
      BY <1>1, <3>1 DEF FormRecord
  <2> QED
    BY <2>1, <2>2, <2>4, <2>5
    DEF PostStep, FindDirectoryUser, WriteGrant, GrantFails, SavedAnswered, PostFrame
<1>3. /\ table' \in TableRecord /\ loads' \in [Load -> LoadRecord]
      /\ tangled' \in BOOLEAN /\ lagged' \in BOOLEAN
  <2>1. CASE UNCHANGED <<table, loads, tangled, lagged>>
    BY <2>1 DEF ConsoleTyped, ConsoleTypeOK
  <2>2. CASE BeginLoad
    BY <2>2, LoadsBegin DEF TableRecord
  <2> QED
    BY <2>1, <2>2 DEF PostStep, FindDirectoryUser, WriteGrant, GrantFails, SavedAnswered,
                      RefusalAnswered, GiveUp, PostFrame
<1>4. slips' \in 0..MaxSlips
  BY UserAssumption DEF ConsoleTyped, ConsoleTypeOK, PostStep, FindDirectoryUser, WriteGrant,
    GrantFails, SavedAnswered, RefusalAnswered, GiveUp, AnswerFrame, Slip
<1>5. UNCHANGED <<page, member, healthVars>>
  BY DEF PostStep, FindDirectoryUser, WriteGrant, GrantFails, SavedAnswered,
         RefusalAnswered, GiveUp, PostFrame, AnswerFrame
<1> QED
  BY <1>2, <1>3, <1>4, <1>5

TableTyped ==
  /\ table \in TableRecord /\ loads \in [Load -> LoadRecord]
  /\ tangled \in BOOLEAN /\ lagged \in BOOLEAN /\ slips \in 0..MaxSlips

\* A step of the table keeps its types.
LEMMA TableSteps ==
  ASSUME ConsoleTyped, AccountTable
  PROVE  TableTyped' /\ UNCHANGED <<vars, page, member, grants, form, posts, crossed, healthVars>>
<1>1. /\ TableTyped
      /\ \A k \in Load : loads[k] \in LoadRecord
                         /\ DOMAIN loads[k].got \subseteq User
                         /\ DOMAIN loads[k].base \subseteq User
  BY RowsAreRows DEF ConsoleTyped, ConsoleTypeOK, TableTyped, LoadRecord
<1>2. UNCHANGED slips \/ Slip => slips' \in 0..MaxSlips
  BY <1>1, UserAssumption DEF TableTyped, Slip
<1>3. CASE RetryLoad
  BY <1>1, <1>3, LoadsBegin DEF RetryLoad, TableFrame, TableTyped, TableRecord
<1>4. CASE LoadMore
  <2> DEFINE More == [NoLoad EXCEPT !.pc = "list", !.more = TRUE, !.base = table.rows]
             Waiting == [table EXCEPT !.loadingMore = TRUE]
  <2>1. table \in [state : {"ready"}, cursor : BOOLEAN, loadingMore : BOOLEAN, rows : Rows]
    BY <1>1, <1>4 DEF LoadMore, TableTyped, TableRecord
  <2>2. More \in LoadRecord
    BY <2>1, BlanksTyped DEF LoadRecord
  <2>3. Waiting \in TableRecord
    BY <2>1 DEF TableRecord
  <2>4. PICK k \in Load : loads' = [loads EXCEPT ![k] = More]
    BY <1>4 DEF LoadMore
  <2>5. ListOut \in BOOLEAN
    BY DEF ListOut
  <2>6. table' = Waiting
    BY <1>4 DEF LoadMore
  <2> HIDE DEF More, Waiting
  <2> QED
    BY <1>1, <1>4, <2>2, <2>3, <2>4, <2>5, <2>6 DEF LoadMore, TableFrame, TableTyped
<1>5. ASSUME NEW k \in Load, ListDirectoryUsers(k)
      PROVE  TableTyped'
  <2> DEFINE us == IF loads[k].more THEN User \ FirstPage ELSE FirstPage
             Found == [loads[k] EXCEPT !.pc = "profiles", !.got = [u \in us |-> None]]
  <2>1. [u \in us |-> None] \in Rows
    <3>1. us \in SUBSET User
      BY UserAssumption
    <3> HIDE DEF us
    <3>2. [u \in us |-> None] \in [us -> Row]
      BY DEF Row
    <3> QED
      BY <3>1, <3>2 DEF Rows
  <2>2. Found \in LoadRecord /\ [loads[k] EXCEPT !.pc = "lost"] \in LoadRecord
    BY <1>1, <2>1 DEF LoadRecord
  <2>3. loads' \in {[loads EXCEPT ![k] = Found], [loads EXCEPT ![k].pc = "lost"]}
    BY <1>5 DEF ListDirectoryUsers
  <2>4. loads' \in [Load -> LoadRecord]
    BY <1>1, <2>2, <2>3 DEF TableTyped
  <2> QED
    BY <1>1, <1>2, <1>5, <2>4 DEF ListDirectoryUsers, TableTyped
<1>6. ASSUME NEW k \in Load, GetAdminProfiles(k)
      PROVE  TableTyped'
  <2> DEFINE Got(rows) == [loads[k] EXCEPT !.pc = "answer", !.got = rows]
  <2>1. PICK behind, old : /\ old \in {None, DefaultLimit}
                           /\ loads' = [loads EXCEPT ![k] =
                                          Got(Joined(DOMAIN loads[k].got, behind, old))]
                           /\ lagged' = (lagged \/ behind # {})
                           /\ IF behind = {} THEN UNCHANGED slips ELSE Slip
    BY <1>6 DEF GetAdminProfiles
  <2>2. Joined(DOMAIN loads[k].got, behind, old) \in Rows
    BY <1>1, <2>1, JoinedRows
  <2>3. \A rows \in Rows : Got(rows) \in LoadRecord
    BY <1>1 DEF LoadRecord
  <2>4. Got(Joined(DOMAIN loads[k].got, behind, old)) \in LoadRecord
    BY <2>2, <2>3
  <2> HIDE DEF Got
  <2> QED
    BY <1>1, <1>2, <1>6, <2>1, <2>4 DEF GetAdminProfiles, TableTyped
<1>7. ASSUME NEW k \in Load, Listed(k)
      PROVE  TableTyped'
  <2> DEFINE Blank == [NoLoad EXCEPT !.pc = "over"]
             rows == [u \in DOMAIN loads[k].base \cup DOMAIN loads[k].got |->
                        IF u \in DOMAIN loads[k].got THEN loads[k].got[u] ELSE loads[k].base[u]]
             more == loads[k].more
  <2>1. Blank \in LoadRecord
    BY BlanksTyped DEF LoadRecord
  <2>2. loads[k].base \in Rows /\ loads[k].got \in Rows /\ more \in BOOLEAN
    BY <1>1 DEF LoadRecord
  <2>3. rows \in [DOMAIN rows -> Row] /\ DOMAIN rows \subseteq User
    BY <1>1, <2>2, RowsAreRows
  <2>4. rows \in Rows
    BY <2>3 DEF Rows
  <2>5. loads' = [loads EXCEPT ![k] = Blank]
    BY <1>7 DEF Listed
  <2>6. table' = [state |-> "error"] \/
        table' = [state |-> "ready", cursor |-> ~more /\ FirstPage # User, loadingMore |-> FALSE,
                  rows |-> rows]
    BY <1>7 DEF Listed
  <2> HIDE DEF Blank, rows, more
  <2>7. table' \in TableRecord
    <3>1. (~more /\ FirstPage # User) \in BOOLEAN
      OBVIOUS
    <3> DEFINE cursor == ~more /\ FirstPage # User
    <3> HIDE DEF cursor
    <3>2. [state |-> "ready", cursor |-> cursor, loadingMore |-> FALSE, rows |-> rows]
            \in TableRecord
      BY <2>4, <3>1 DEF TableRecord, cursor
    <3>3. [state |-> "error"] \in TableRecord
      BY DEF TableRecord
    <3> QED
      BY ONLY <2>6, <3>2, <3>3 DEF cursor
  <2> QED
    BY <1>1, <1>7, <2>1, <2>5, <2>7 DEF Listed, TableTyped
<1> QED
  BY <1>3, <1>4, <1>5, <1>6, <1>7
  DEF AccountTable, RetryLoad, LoadMore, ListDirectoryUsers, GetAdminProfiles, Listed, TableFrame

\* Every step of the console keeps the types, and is a step of Interview or
\* leaves its variables alone.
LEMMA ConsoleTypesStay ==
  ASSUME ConsoleTyped, [ConsoleNext]_allVars
  PROVE  ConsoleTyped' /\ [Next]_vars
<1> DEFINE Typed == /\ ConsoleTyped' /\ [Next]_vars
<1>1. CASE UNCHANGED allVars
  <2>1. UNCHANGED vars /\ UNCHANGED healthVars
    BY <1>1 DEF allVars, consoleVars
  <2> QED
    BY <1>1, <2>1, TypesStay, ChartsTyped DEF ConsoleTyped, ConsoleTypeOK, allVars, consoleVars
<1>2. CASE Meanwhile
  <2>1. crossed' \subseteq User
    BY <1>2, UserAssumption DEF Meanwhile, ConsoleTyped, ConsoleTypeOK
  <2> QED
    BY <1>2, <2>1, TypesStay, ChartsTyped DEF Meanwhile, ConsoleTyped, ConsoleTypeOK
<1>3. CASE OpenConsole \/ LeaveGroup
  BY <1>3, TypesStay, ChartsTyped DEF OpenConsole, LeaveGroup, ConsoleTyped, ConsoleTypeOK
<1>4. CASE AdminKnown
  <2>1. /\ page' \in {"open", "denied"}
        /\ UNCHANGED <<vars, member, grants, form, posts, crossed, healthVars>>
    BY <1>4 DEF AdminKnown
  <2>2. TableTyped'
    <3>1. CASE BeginLoad /\ UNCHANGED slips
      BY <3>1, LoadsBegin DEF TableTyped, TableRecord, ConsoleTyped, ConsoleTypeOK
    <3>2. CASE (UNCHANGED slips \/ Slip) /\ UNCHANGED <<table, loads, tangled, lagged>>
      BY <3>2, UserAssumption DEF TableTyped, Slip, ConsoleTyped, ConsoleTypeOK
    <3> QED
      BY <1>4, <3>1, <3>2 DEF AdminKnown
  <2> QED
    BY <2>1, <2>2, TypesStay, ChartsTyped DEF ConsoleTyped, ConsoleTypeOK, TableTyped
<1>5. CASE GrantForm
  <2>1. form' \in FormRecord /\ posts' \in [Post -> PostRecord] /\ crossed' \subseteq User
        /\ UNCHANGED <<vars, page, member, grants, table, loads, slips, tangled, lagged,
                        healthVars>>
    BY <1>5, FormTyped
  <2>2. \A p \in Post : posts'[p].pc \in {"write", "saved"} => posts'[p].user \in User
    <3>1. ASSUME NEW e \in Email, NEW want \in Limits, Submit(e, want), NEW p \in Post
          PROVE  posts'[p] = posts[p] \/ posts'[p].pc \in {"lookup", "error"}
      BY <3>1 DEF Submit, ConsoleTyped, ConsoleTypeOK
    <3>2. ASSUME NEW p \in Post
          PROVE  posts'[p] = posts[p] \/ posts'[p].pc \in {"lookup", "error"}
      BY <1>5, <3>1 DEF GrantForm, SubmitNoNumber, ClearUsername, PickCandidate
    <3> QED
      BY <3>2 DEF ConsoleTyped
  <2> QED
    BY <2>1, <2>2, TypesStay, ChartsTyped DEF ConsoleTyped, ConsoleTypeOK
<1>6. ASSUME NEW p \in Post, PostStep(p)
      PROVE  Typed
  BY <1>6, PostTyped, PostGrants, PostShown, TypesStay, ChartsTyped
  DEF ConsoleTyped, ConsoleTypeOK, PostsTyped
<1>7. CASE AccountTable
  BY <1>7, TableSteps, TypesStay, ChartsTyped DEF ConsoleTyped, ConsoleTypeOK, TableTyped
<1>8. CASE Charts
  BY <1>8, TypesStay, ChartsTyped DEF Charts, ConsoleTyped, ConsoleTypeOK
<1> QED
  BY <1>1, <1>2, <1>3, <1>4, <1>5, <1>6, <1>7, <1>8 DEF ConsoleNext

LEMMA ConsoleStartsTyped == ConsoleInit => ConsoleTyped
<1> SUFFICES ASSUME ConsoleInit PROVE ConsoleTyped
  OBVIOUS
<1>1. TypeOK
  BY ConnAssumption, SessionAssumption, LimitAssumption, BoundAssumption, ScoreAssumption
  DEF ConsoleInit, Init, TypeOK, Limits, Exchange
<1>2. NoPost \in PostRecord /\ NoLoad \in LoadRecord
  BY BlanksTyped DEF PostRecord, LoadRecord
<1>3. NoPost.pc = "off" /\ posts = [p \in Post |-> NoPost] /\ loads = [k \in Load |-> NoLoad]
  BY DEF ConsoleInit, NoPost
<1>4. BlankForm \in FormRecord
  BY DEF BlankForm, FormRecord, Limits
<1>5. HealthTypeOK
  BY WindowAssumption, BlanksTyped DEF ConsoleInit, HealthInit, HealthTypeOK
<1>6. grants \in [Others -> Limits] /\ table \in TableRecord
  BY DEF ConsoleInit, TableRecord, Limits
<1>7. slips \in 0..MaxSlips
  BY UserAssumption DEF ConsoleInit
<1> HIDE DEF NoPost, NoLoad
<1> QED
  BY <1>1, <1>2, <1>3, <1>4, <1>5, <1>6, <1>7 DEF ConsoleTyped, ConsoleTypeOK, ConsoleInit

\* The console's variables are of the right types in every reachable state.
THEOREM ConsoleTypeCorrect == ConsoleSpec => []ConsoleTyped
BY ConsoleStartsTyped, ConsoleTypesStay, PTL DEF ConsoleSpec

\* The admin page grants within what Interview allows for: every behaviour of
\* the page beside the connections is one of the connections, for which the
\* quota and the records are proved above.
THEOREM ConsoleInterviews == ConsoleSpec => SafetySpec
<1>1. ConsoleInit => Init
  BY DEF ConsoleInit
<1>2. ConsoleTyped /\ [ConsoleNext]_allVars => [Next]_vars
  BY ConsoleTypesStay
<1> QED
  BY <1>1, <1>2, ConsoleTypeCorrect, PTL DEF ConsoleSpec, SafetySpec

-----------------------------------------------------------------------------
(* What the form and the table rely on                                     *)

\* Before the page is open it has asked for nothing and shows nothing.
NothingYet ==
  page # "open" =>
    /\ form.state = "idle" /\ table.state = "off"
    /\ \A p \in Post : posts[p].pc = "off" /\ ~posts[p].heard
    /\ \A k \in Load : loads[k].pc = "off"

\* The form waits for one post at most, and says a user's name.
OneIsHeard ==
  /\ \A p \in Post : posts[p].heard => form.state = "saving"
  /\ \A p, q \in Post : posts[p].heard /\ posts[q].heard => p = q
  /\ form.state = "saved" => form.user \in User

\* A saved grant whose answer is under way is in force.
AnswerStands ==
  \A p \in Post :
    posts[p].pc = "saved" /\ posts[p].heard /\ posts[p].user \notin crossed
      => InForce(posts[p].user) = posts[p].want

FormInv == NothingYet /\ OneIsHeard /\ AnswerStands /\ SavedStands

\* No grant to the user since the rows were read, but for one that will make
\* the table reload or that the form does not hear of.
Settled(u) ==
  /\ u \notin crossed
  /\ \A p \in Post : posts[p].pc = "saved" /\ posts[p].heard => posts[p].user # u
Fits(rows) == \A u \in DOMAIN rows \cap Onboarded : Settled(u) => rows[u] = InForce(u)

LoadOut(k) == loads[k].pc \notin {"off", "over"}

\* While one load is out at a time and none lagged, the rows shown and the rows
\* it carries fit.
RowsFit ==
  ~tangled /\ ~lagged =>
    /\ table.state = "ready" => Fits(table.rows)
    /\ \A k \in Load : LoadOut(k) => Fits(loads[k].base)
                                     /\ (loads[k].pc = "answer" => Fits(loads[k].got))

TableInv ==
  /\ table.state = "loading" => ListOut
  /\ table.state = "ready" => (table.loadingMore => ListOut)
  /\ ~tangled => \A j, k \in Load : LoadOut(j) /\ LoadOut(k) => j = k
  /\ RowsFit

\* An account the table may show as it is was so before the step, and its
\* allowance did not move.
AccountsKept == \A u \in User : Settled(u)' => Settled(u) /\ InForce(u)' = InForce(u)

LEMMA OtherPostsStay ==
  ASSUME ConsoleTyped, NEW p \in Post, PostStep(p)
  PROVE  \A q \in Post \ {p} : posts'[q] = posts[q]
BY DEF ConsoleTyped, ConsoleTypeOK, PostStep, FindDirectoryUser, WriteGrant, GrantFails,
       SavedAnswered, RefusalAnswered, GiveUp

LEMMA GrantSets ==
  ASSUME ConsoleTyped, NEW u \in User, NEW want, Granted(u, want)
  PROVE  InForce(u)' = want /\ \A v \in User \ {u} : InForce(v)' = InForce(v)
BY DEF ConsoleTyped, ConsoleTypeOK, Granted, SetAccessGrant, InForce, Others, vars, profile

LEMMA SameAccounts ==
  ASSUME UNCHANGED <<vars, grants>>
  PROVE  \A u : InForce(u)' = InForce(u)
BY DEF InForce, vars, profile

\* A failed write, and one nobody waits for, is behind the form's back; one the
\* form waits for is settled when it is answered.
LEMMA PostKeepsAccounts ==
  ASSUME ConsoleTyped, NEW p \in Post, PostStep(p), ~SavedAnswered(p)
  PROVE  AccountsKept
<1> USE OtherPostsStay
<1>1. /\ posts[p].pc \in {"write", "saved"} => posts[p].user \in User
      /\ posts \in [Post -> PostRecord]
  BY DEF ConsoleTyped, ConsoleTypeOK
<1>2. CASE FindDirectoryUser(p) \/ RefusalAnswered(p)
  <2>1. posts[p].pc # "saved" /\ UNCHANGED <<vars, grants, crossed>>
    BY <1>2 DEF FindDirectoryUser, RefusalAnswered, AnswerFrame
  <2> QED
    BY <2>1, SameAccounts DEF AccountsKept, Settled
<1>3. CASE GiveUp(p)
  <2>1. /\ UNCHANGED <<vars, grants>>
        /\ crossed' = IF posts[p].pc = "saved" THEN crossed \cup {posts[p].user} ELSE crossed
    BY <1>3 DEF GiveUp
  <2> QED
    BY <2>1, SameAccounts DEF AccountsKept, Settled
<1>4. CASE GrantFails(p)
  <2>1. CASE UNCHANGED <<vars, grants, crossed>>
    BY <1>4, <2>1, SameAccounts DEF GrantFails, AccountsKept, Settled
  <2>2. CASE /\ posts[p].pc = "write" /\ Granted(posts[p].user, posts[p].want)
             /\ crossed' = crossed \cup {posts[p].user}
    BY <1>1, <2>2, GrantSets DEF AccountsKept, Settled
  <2> QED
    BY <1>4, <2>1, <2>2 DEF GrantFails
<1>5. CASE WriteGrant(p)
  <2>1. posts[p].pc = "write"
    BY <1>5 DEF WriteGrant
  <2>2. CASE UNCHANGED <<vars, grants, crossed>>
    BY <2>1, <2>2, SameAccounts DEF AccountsKept, Settled
  <2>3. CASE /\ Granted(posts[p].user, posts[p].want)
             /\ posts' = [posts EXCEPT ![p].pc = IF posts[p].heard THEN "saved" ELSE "over"]
             /\ crossed' = IF posts[p].heard THEN crossed \ {posts[p].user}
                                             ELSE crossed \cup {posts[p].user}
    <3>1. ASSUME NEW u \in User, Settled(u)'
          PROVE  u # posts[p].user /\ Settled(u)
      <4>1. CASE posts[p].heard
        <5>1. posts'[p].pc = "saved" /\ posts'[p].heard /\ posts'[p].user = posts[p].user
          BY <1>1, <2>3, <4>1 DEF PostRecord
        <5> QED
          BY <2>1, <2>3, <3>1, <4>1, <5>1 DEF Settled
      <4>2. CASE ~posts[p].heard
        BY <2>1, <2>3, <3>1, <4>2 DEF Settled
      <4> QED
        BY <4>1, <4>2
    <3> QED
      BY <1>1, <2>1, <2>3, <3>1, GrantSets DEF AccountsKept
  <2> QED
    BY <1>5, <2>2, <2>3 DEF WriteGrant
<1> QED
  BY <1>2, <1>3, <1>4, <1>5 DEF PostStep

\* Neither the form nor a grant by somebody else settles an account.
LEMMA OthersKeepAccounts ==
  ASSUME ConsoleTyped, GrantForm \/ (Meanwhile /\ page = "open")
                       \/ UNCHANGED <<vars, grants, crossed, posts>>
  PROVE  AccountsKept
<1>1. CASE GrantForm
  <2>1. UNCHANGED <<vars, grants, crossed>>
    BY <1>1 DEF GrantForm, Submit, SubmitNoNumber, ClearUsername, PickCandidate, FormFrame
  <2>2. ASSUME NEW e \in Email, NEW want \in Limits, Submit(e, want), NEW p \in Post
        PROVE  posts'[p] = posts[p] \/ posts[p].pc = "off"
    BY <2>2 DEF Submit, ConsoleTyped, ConsoleTypeOK
  <2>3. ASSUME NEW p \in Post
        PROVE  posts'[p] = posts[p] \/ posts[p].pc = "off"
    BY <1>1, <2>2 DEF GrantForm, SubmitNoNumber, ClearUsername, PickCandidate
  <2> QED
    BY <2>1, <2>3, SameAccounts DEF AccountsKept, Settled
<1>2. CASE Meanwhile /\ page = "open"
  <2>1. /\ crossed' = IF limit' # limit THEN crossed \cup {Mine} ELSE crossed
        /\ UNCHANGED <<grants, posts>>
    BY <1>2 DEF Meanwhile
  <2> QED
    BY <2>1 DEF AccountsKept, Settled, InForce
<1>3. CASE UNCHANGED <<vars, grants, crossed, posts>>
  BY <1>3, SameAccounts DEF AccountsKept, Settled
<1> QED
  BY <1>1, <1>2, <1>3

-----------------------------------------------------------------------------
(* The table                                                               *)

\* A table nobody touches stays as fitting as it was.
LEMMA TableKept ==
  ASSUME ConsoleTyped, TableInv, AccountsKept, UNCHANGED <<table, loads, tangled, lagged>>
  PROVE  TableInv'
<1>1. ASSUME NEW f, DOMAIN f \subseteq User, Fits(f)
      PROVE  \A u \in DOMAIN f \cap Onboarded : Settled(u)' => f[u] = InForce(u)'
  BY <1>1 DEF Fits, AccountsKept
<1>2. table.state = "ready" => DOMAIN table.rows \subseteq User
  BY RowsAreRows DEF ConsoleTyped, ConsoleTypeOK, TableRecord
<1>3. \A k \in Load : DOMAIN loads[k].base \subseteq User /\ DOMAIN loads[k].got \subseteq User
  BY RowsAreRows DEF ConsoleTyped, ConsoleTypeOK, LoadRecord
<1>4. table.state = "ready" /\ Fits(table.rows) => Fits(table.rows)'
  BY <1>1, <1>2 DEF Fits
<1>5. ASSUME NEW k \in Load
      PROVE  /\ Fits(loads[k].base) => Fits(loads[k].base)'
             /\ Fits(loads[k].got) => Fits(loads[k].got)'
  BY <1>1, <1>3 DEF Fits
<1>6. RowsFit'
  BY <1>4, <1>5 DEF TableInv, RowsFit, LoadOut
<1> QED
  BY <1>6 DEF TableInv, ListOut, LoadOut

\* A table nothing was asked for.
LEMMA NoTable ==
  ASSUME table.state = "off", \A k \in Load : loads[k].pc = "off"
  PROVE  TableInv
BY DEF TableInv, RowsFit, LoadOut, ListOut

\* A load that begins alone starts afresh.
LEMMA BeginsFresh ==
  ASSUME ConsoleTyped, BeginLoad
  PROVE  TableInv'
<1> DEFINE Fresh == [NoLoad EXCEPT !.pc = "list"]
<1>1. Fresh.pc = "list" /\ Fresh.base = <<>>
  BY DEF NoLoad
<1>2. PICK k \in Load : loads[k].pc = "off" /\ loads' = [loads EXCEPT ![k] = Fresh]
  BY DEF BeginLoad
<1> HIDE DEF Fresh
<1>3. /\ loads'[k] = Fresh /\ \A j \in Load \ {k} : loads'[j] = loads[j]
  BY <1>2 DEF ConsoleTyped, ConsoleTypeOK
<1>4. table' = [state |-> "loading"] /\ tangled' = ListOut
  BY DEF BeginLoad
<1>5. ListOut'
  BY <1>1, <1>3 DEF ListOut
<1>6. ~tangled' => \A j \in Load \ {k} : ~LoadOut(j)'
  BY <1>3, <1>4 DEF ListOut, LoadOut
<1>7. Fits(loads[k].base)'
  <2>1. loads'[k].base = <<>>
    BY <1>1, <1>3
  <2>2. DOMAIN <<>> = {}
    OBVIOUS
  <2> QED
    BY <2>1, <2>2 DEF Fits
<1>8. loads'[k].pc # "answer" /\ table'.state = "loading"
  BY <1>1, <1>3, <1>4
<1>9. RowsFit'
  BY <1>6, <1>7, <1>8 DEF RowsFit
<1> QED
  BY <1>5, <1>6, <1>8, <1>9 DEF TableInv

\* The rows joined to the profiles read fit, unless one was read as it had been.
LEMMA JoinedFits ==
  ASSUME NEW us \in SUBSET User, NEW old
  PROVE  Fits(Joined(us, {}, old))
BY DEF Fits, Joined

\* Each load reads, and each answer is shown, without moving an account.
LEMMA TableStays ==
  ASSUME ConsoleTyped, TableInv, AccountTable
  PROVE  TableInv'
<1>1. UNCHANGED <<vars, grants, posts, crossed>>
  BY TableSteps
<1>2. ASSUME NEW f
      PROVE  Fits(f) <=> \A u \in DOMAIN f \cap Onboarded : Settled(u)' => f[u] = InForce(u)'
  BY <1>1, SameAccounts DEF Fits, Settled
<1>3. \A k \in Load : loads[k] \in LoadRecord /\ DOMAIN loads[k].got \subseteq User
  BY RowsAreRows DEF ConsoleTyped, ConsoleTypeOK, LoadRecord
<1>4. loads \in [Load -> LoadRecord] /\ table \in TableRecord
  BY DEF ConsoleTyped, ConsoleTypeOK
<1>5. table.state = "ready" /\ Fits(table.rows) /\ table'.rows = table.rows => Fits(table.rows)'
  BY <1>2 DEF Fits
<1>6. ASSUME NEW k \in Load
      PROVE  /\ Fits(loads[k].base) /\ loads'[k].base = loads[k].base => Fits(loads[k].base)'
             /\ Fits(loads[k].got) /\ loads'[k].got = loads[k].got => Fits(loads[k].got)'
  BY <1>2 DEF Fits
<1>7. CASE RetryLoad
  BY <1>7, BeginsFresh DEF RetryLoad
<1>8. CASE LoadMore
  <2> DEFINE More == [NoLoad EXCEPT !.pc = "list", !.more = TRUE, !.base = table.rows]
  <2>1. More.pc = "list" /\ More.base = table.rows
    BY DEF NoLoad
  <2>2. PICK k \in Load : loads[k].pc = "off" /\ loads' = [loads EXCEPT ![k] = More]
    BY <1>8 DEF LoadMore
  <2> HIDE DEF More
  <2>3. loads'[k] = More /\ \A j \in Load \ {k} : loads'[j] = loads[j]
    BY <1>4, <2>2
  <2>4. table.state = "ready" /\ table'.state = "ready" /\ table'.rows = table.rows
    BY <1>4, <1>8 DEF LoadMore, TableRecord
  <2>5. tangled' = (tangled \/ ListOut) /\ lagged' = lagged
    BY <1>8 DEF LoadMore
  <2>6. ListOut'
    BY <2>1, <2>3 DEF ListOut
  <2>7. ~tangled' => ~tangled /\ \A j \in Load \ {k} : ~LoadOut(j)'
    BY <2>3, <2>5 DEF ListOut, LoadOut
  <2>8. Fits(table.rows) => Fits(table.rows)' /\ Fits(loads[k].base)'
    BY <1>2, <2>1, <2>3, <2>4 DEF Fits
  <2>9. loads'[k].pc # "answer"
    BY <2>1, <2>3
  <2>10. RowsFit'
    BY <2>4, <2>5, <2>7, <2>8, <2>9 DEF TableInv, RowsFit
  <2> QED
    BY <2>4, <2>6, <2>7, <2>10 DEF TableInv
<1>9. ASSUME NEW k \in Load,
             loads[k].pc \in {"list", "profiles"}, loads'[k].pc \in {"profiles", "answer", "lost"},
             \A j \in Load \ {k} : loads'[j] = loads[j],
             loads'[k].base = loads[k].base, UNCHANGED <<table, tangled>>,
             lagged => lagged',
             ~lagged' /\ loads'[k].pc = "answer" => Fits(loads[k].got)'
      PROVE  TableInv'
  <2>1. LoadOut(k) /\ LoadOut(k)' /\ \A j \in Load \ {k} : LoadOut(j)' = LoadOut(j)
    BY <1>9 DEF LoadOut
  <2>2. ListOut'
    BY <2>1 DEF ListOut, LoadOut
  <2>3. ~tangled' => \A i, j \in Load : LoadOut(i)' /\ LoadOut(j)' => i = j
    BY <1>9, <2>1 DEF TableInv
  <2>4. RowsFit'
    <3>1. ASSUME ~tangled', ~lagged'
          PROVE  /\ table'.state = "ready" => Fits(table.rows)'
                 /\ \A j \in Load : LoadOut(j)' =>
                      Fits(loads[j].base)' /\ (loads'[j].pc = "answer" => Fits(loads[j].got)')
      <4>1. ~tangled /\ ~lagged /\ RowsFit
        BY <1>9, <3>1 DEF TableInv, ConsoleTyped, ConsoleTypeOK
      <4>2. table'.state = "ready" => Fits(table.rows)'
        BY <1>5, <1>9, <3>1, <4>1 DEF RowsFit
      <4>3. ASSUME NEW j \in Load, LoadOut(j)'
            PROVE  Fits(loads[j].base)' /\ (loads'[j].pc = "answer" => Fits(loads[j].got)')
        <5>1. j = k
          BY <2>1, <2>3, <3>1, <4>3
        <5>2. Fits(loads[k].base)
          BY <2>1, <4>1, <3>1 DEF RowsFit
        <5> QED
          BY <1>6, <1>9, <3>1, <5>1, <5>2
      <4> QED
        BY <4>2, <4>3
    <3> QED
      BY <3>1 DEF RowsFit
  <2> QED
    BY <1>9, <2>2, <2>3, <2>4 DEF TableInv
<1>10. ASSUME NEW k \in Load, ListDirectoryUsers(k)
       PROVE  TableInv'
  <2> DEFINE us == IF loads[k].more THEN User \ FirstPage ELSE FirstPage
             Found == [loads[k] EXCEPT !.pc = "profiles", !.got = [u \in us |-> None]]
             Lost == [loads[k] EXCEPT !.pc = "lost"]
  <2>1. /\ Found.pc = "profiles" /\ Found.base = loads[k].base
        /\ Lost.pc = "lost" /\ Lost.base = loads[k].base
    BY <1>3 DEF LoadRecord
  <2>2. PICK r \in {Found, Lost} : loads' = [loads EXCEPT ![k] = r]
    BY <1>10 DEF ListDirectoryUsers
  <2> HIDE DEF Found, Lost
  <2>3. /\ loads'[k].pc \in {"profiles", "lost"} /\ loads'[k].base = loads[k].base
        /\ \A j \in Load \ {k} : loads'[j] = loads[j]
    BY <1>4, <2>1, <2>2
  <2>4. loads[k].pc = "list" /\ UNCHANGED <<table, tangled, lagged>>
    BY <1>10 DEF ListDirectoryUsers
  <2> QED
    BY <1>9, <2>3, <2>4
<1>11. ASSUME NEW k \in Load, GetAdminProfiles(k)
       PROVE  TableInv'
  <2> DEFINE Got(rows) == [loads[k] EXCEPT !.pc = "answer", !.got = rows]
  <2>1. \A rows : Got(rows).pc = "answer" /\ Got(rows).got = rows /\ Got(rows).base = loads[k].base
    BY <1>3 DEF LoadRecord
  <2>2. PICK behind, old :
          /\ loads' = [loads EXCEPT ![k] = Got(Joined(DOMAIN loads[k].got, behind, old))]
          /\ lagged' = (lagged \/ behind # {})
    BY <1>11 DEF GetAdminProfiles
  <2> HIDE DEF Got
  <2>3. /\ loads'[k] = Got(Joined(DOMAIN loads[k].got, behind, old))
        /\ \A j \in Load \ {k} : loads'[j] = loads[j]
    BY <1>4, <2>2
  <2>4. loads[k].pc = "profiles" /\ UNCHANGED <<table, tangled>>
    BY <1>11 DEF GetAdminProfiles
  <2>5. ~lagged' => Fits(loads[k].got)'
    <3>1. ~lagged' => loads'[k].got = Joined(DOMAIN loads[k].got, {}, old)
      BY <2>1, <2>2, <2>3
    <3>2. Fits(Joined(DOMAIN loads[k].got, {}, old))
      BY <1>3, JoinedFits
    <3> QED
      BY <1>2, <3>1, <3>2 DEF Fits
  <2>6. /\ loads'[k].pc = "answer" /\ loads'[k].base = loads[k].base
        /\ \A j \in Load \ {k} : loads'[j] = loads[j]
    BY <2>1, <2>3
  <2>7. lagged => lagged'
    BY <2>2
  <2> QED
    BY <1>9, <2>4, <2>5, <2>6, <2>7
<1>12. ASSUME NEW k \in Load, Listed(k)
       PROVE  TableInv'
  <2> DEFINE Blank == [NoLoad EXCEPT !.pc = "over"]
             base == loads[k].base
             got == loads[k].got
             rows == [u \in DOMAIN base \cup DOMAIN got |->
                        IF u \in DOMAIN got THEN got[u] ELSE base[u]]
  <2>1. Blank.pc = "over"
    BY DEF NoLoad
  <2>2. loads' = [loads EXCEPT ![k] = Blank] /\ loads[k].pc \in {"answer", "lost"}
    BY <1>12 DEF Listed
  <2>3. loads'[k].pc = "over" /\ \A j \in Load \ {k} : loads'[j] = loads[j]
    BY <1>4, <2>1, <2>2
  <2>4. LoadOut(k) /\ ~LoadOut(k)' /\ \A j \in Load \ {k} : LoadOut(j)' = LoadOut(j)
    BY <2>2, <2>3 DEF LoadOut
  <2>5. UNCHANGED <<tangled, lagged>>
    BY <1>12 DEF Listed
  <2>6. /\ table'.state \in {"error", "ready"}
        /\ table'.state = "ready" => /\ loads[k].pc = "answer"
                                     /\ table'.rows = rows /\ table'.loadingMore = FALSE
    BY <1>12 DEF Listed
  <2>7. Fits(base) /\ Fits(got) => Fits(rows)
    BY DEF Fits
  <2> HIDE DEF rows
  <2>8. ~tangled => /\ \A j \in Load : ~LoadOut(j)'
                    /\ ~lagged => Fits(base) /\ (loads[k].pc = "answer" => Fits(got))
    BY <2>4 DEF TableInv, RowsFit
  <2>9. Fits(rows) /\ table'.rows = rows => Fits(table.rows)'
    BY <1>2 DEF Fits
  <2>10. RowsFit'
    BY <2>5, <2>6, <2>7, <2>8, <2>9 DEF RowsFit
  <2> QED
    BY <2>4, <2>5, <2>6, <2>8, <2>10 DEF TableInv
<1> QED
  BY <1>7, <1>8, <1>10, <1>11, <1>12 DEF AccountTable

-----------------------------------------------------------------------------
(* The form                                                                *)

\* The grant of a post that the form still waits for.
GrantStands(p) ==
  /\ posts[p].pc = "write" /\ posts[p].heard
  /\ Granted(posts[p].user, posts[p].want)
  /\ posts' = [posts EXCEPT ![p].pc = "saved"]

\* Any other step of a post leaves an account alone or marks it.
LEMMA BehindTheForm ==
  ASSUME ConsoleTyped, NEW p \in Post, FindDirectoryUser(p) \/ WriteGrant(p) \/ GrantFails(p),
         ~GrantStands(p)
  PROVE  /\ \A u \in User : u \notin crossed' => u \notin crossed /\ InForce(u)' = InForce(u)
         /\ ~(posts'[p].pc = "saved" /\ posts'[p].heard)
<1>1. /\ posts[p] \in PostRecord /\ (posts[p].pc = "write" => posts[p].user \in User)
      /\ posts \in [Post -> PostRecord]
  BY DEF ConsoleTyped, ConsoleTypeOK
<1>2. CASE FindDirectoryUser(p)
  <2>1. UNCHANGED <<vars, grants, crossed>>
    BY <1>2 DEF FindDirectoryUser
  <2>2. posts'[p].pc \in {"error", "ambiguous", "write"}
    <3>1. \A u : [posts[p] EXCEPT !.pc = "write", !.user = u].pc = "write"
      BY <1>1 DEF PostRecord
    <3>2. \A l : [posts[p] EXCEPT !.pc = l].pc = l
      BY <1>1 DEF PostRecord
    <3> QED
      BY <1>1, <1>2, <3>1, <3>2 DEF FindDirectoryUser
  <2> QED
    BY <2>1, <2>2, SameAccounts
<1>3. CASE GrantFails(p)
  <2>1. posts'[p].pc = "error"
    BY <1>1, <1>3 DEF GrantFails, PostRecord
  <2>2. CASE UNCHANGED <<vars, grants, crossed>>
    BY <2>1, <2>2, SameAccounts
  <2>3. CASE /\ posts[p].pc = "write" /\ Granted(posts[p].user, posts[p].want)
             /\ crossed' = crossed \cup {posts[p].user}
    BY <1>1, <2>1, <2>3, GrantSets
  <2> QED
    BY <1>3, <2>2, <2>3 DEF GrantFails
<1>4. CASE WriteGrant(p)
  <2>1. CASE UNCHANGED <<vars, grants, crossed>> /\ posts' = [posts EXCEPT ![p].pc = "error"]
    <3>1. posts'[p].pc = "error"
      BY <1>1, <2>1 DEF PostRecord
    <3> QED
      BY <2>1, <3>1, SameAccounts
  <2>2. CASE /\ posts[p].pc = "write" /\ Granted(posts[p].user, posts[p].want)
             /\ posts' = [posts EXCEPT ![p].pc = IF posts[p].heard THEN "saved" ELSE "over"]
             /\ crossed' = IF posts[p].heard THEN crossed \ {posts[p].user}
                                             ELSE crossed \cup {posts[p].user}
    <3>1. ~posts[p].heard
      BY <2>2 DEF GrantStands
    <3>2. posts'[p].pc = "over"
      BY <1>1, <2>2, <3>1 DEF PostRecord
    <3> QED
      BY <1>1, <2>2, <3>1, <3>2, GrantSets
  <2> QED
    BY <1>4, <2>1, <2>2 DEF WriteGrant
<1> QED
  BY <1>2, <1>3, <1>4

\* What the form was told of stays so.
LEMMA FormStays ==
  ASSUME ConsoleTyped, FormInv, ConsoleNext, page = "open"
  PROVE  FormInv'
<1> USE DEF FormInv
<1>1. /\ \A p \in Post : posts[p] \in PostRecord
                         /\ (posts[p].pc \in {"write", "saved"} => posts[p].user \in User)
      /\ form \in FormRecord /\ posts \in [Post -> PostRecord]
  BY DEF ConsoleTyped, ConsoleTypeOK
<1>2. page' = "open"
  BY DEF ConsoleNext, Meanwhile, OpenConsole, AdminKnown, LeaveGroup, GrantForm, FormFrame,
    Submit, SubmitNoNumber, PickCandidate, ClearUsername, PostStep, FindDirectoryUser, WriteGrant,
    GrantFails, SavedAnswered, RefusalAnswered, GiveUp, PostFrame, AnswerFrame, AccountTable,
    RetryLoad, LoadMore, ListDirectoryUsers, GetAdminProfiles, Listed, TableFrame, Charts
<1>3. NothingYet'
  BY <1>2 DEF NothingYet
<1>4. ASSUME UNCHANGED <<form, posts>>, AccountsKept,
             \A u \in User : u \notin crossed' => u \notin crossed /\ InForce(u)' = InForce(u)
      PROVE  FormInv'
  BY <1>1, <1>3, <1>4 DEF OneIsHeard, AnswerStands, SavedStands
<1>5. ASSUME UNCHANGED <<form, posts>>,
             UNCHANGED <<vars, grants, crossed>> \/ Meanwhile
      PROVE  FormInv'
  <2>1. CASE UNCHANGED <<vars, grants, crossed>>
    BY <1>4, <1>5, <2>1, SameAccounts, OthersKeepAccounts
  <2>2. CASE Meanwhile
    <3>1. \A u \in User : u \notin crossed' => u \notin crossed /\ InForce(u)' = InForce(u)
      BY <2>2 DEF Meanwhile, InForce
    <3> QED
      BY <1>4, <1>5, <2>2, <3>1, OthersKeepAccounts
  <2> QED
    BY <1>5, <2>1, <2>2
<1>6. CASE GrantForm
  <2>1. UNCHANGED <<vars, grants, crossed>>
    BY <1>6 DEF GrantForm, Submit, SubmitNoNumber, ClearUsername, PickCandidate, FormFrame
  <2>2. \A u : InForce(u)' = InForce(u)
    BY <2>1, SameAccounts
  <2>3. ASSUME NEW e \in Email, NEW want \in Limits, Submit(e, want)
        PROVE  FormInv'
    <3> DEFINE Sent == [pc |-> IF RequireAdmin THEN "lookup" ELSE "error", heard |-> TRUE,
                        email |-> e, username |-> form.username, user |-> None, want |-> want]
    <3>1. PICK p \in Post : posts' = [posts EXCEPT ![p] = Sent]
      BY <2>3 DEF Submit
    <3>2. Sent.pc # "saved"
      OBVIOUS
    <3> HIDE DEF Sent
    <3>3. posts'[p].pc # "saved" /\ \A q \in Post \ {p} : posts'[q] = posts[q]
      BY <1>1, <3>1, <3>2
    <3>4. form'.state = "saving" /\ form.state # "saving"
      BY <1>1, <2>3 DEF Submit, FormRecord
    <3> QED
      BY <1>3, <2>1, <2>2, <3>3, <3>4 DEF OneIsHeard, AnswerStands, SavedStands
  <2>4. ASSUME UNCHANGED posts, form.state # "saving", form'.state \notin {"saving", "saved"}
        PROVE  FormInv'
    BY <1>3, <2>1, <2>2, <2>4 DEF OneIsHeard, AnswerStands, SavedStands
  <2>5. CASE SubmitNoNumber
    BY <1>1, <2>4, <2>5 DEF SubmitNoNumber, FormRecord
  <2>6. ASSUME NEW u \in User, PickCandidate(u)
        PROVE  FormInv'
    BY <1>1, <2>4, <2>6 DEF PickCandidate, FormRecord
  <2>7. CASE ClearUsername
    <3>1. /\ form'.state = form.state /\ form'.user = form.user /\ form'.says = form.says
          /\ UNCHANGED posts
      BY <1>1, <2>7 DEF ClearUsername, FormRecord
    <3> QED
      BY <1>3, <2>1, <2>2, <3>1 DEF OneIsHeard, AnswerStands, SavedStands
  <2> QED
    BY <1>6, <2>3, <2>5, <2>6, <2>7 DEF GrantForm
<1>7. ASSUME NEW p \in Post, FindDirectoryUser(p) \/ WriteGrant(p) \/ GrantFails(p)
      PROVE  FormInv'
  <2>1. /\ PostStep(p) /\ UNCHANGED form
        /\ posts[p].pc \in {"lookup", "write"} /\ posts'[p].heard = posts[p].heard
    <3>1. CASE FindDirectoryUser(p)
      <4>1. \A u : [posts[p] EXCEPT !.pc = "write", !.user = u].heard = posts[p].heard
        BY <1>1 DEF PostRecord
      <4>2. \A l : [posts[p] EXCEPT !.pc = l].heard = posts[p].heard
        BY <1>1 DEF PostRecord
      <4> QED
        BY <1>1, <3>1, <4>1, <4>2 DEF PostStep, FindDirectoryUser, PostFrame
    <3>2. CASE WriteGrant(p) \/ GrantFails(p)
      BY <1>1, <3>2 DEF PostStep, WriteGrant, GrantFails, PostFrame, PostRecord
    <3> QED
      BY <1>7, <3>1, <3>2
  <2>2. \A q \in Post \ {p} : posts'[q] = posts[q]
    BY <2>1, OtherPostsStay
  <2>3. OneIsHeard'
    BY <2>1, <2>2 DEF OneIsHeard
  <2>4. CASE GrantStands(p)
    <3>1. InForce(posts[p].user)' = posts[p].want
      BY <1>1, <2>4, GrantSets DEF GrantStands
    <3>2. /\ posts'[p].pc = "saved" /\ posts'[p].user = posts[p].user
          /\ posts'[p].want = posts[p].want
      BY <1>1, <2>4 DEF GrantStands, PostRecord
    <3>3. \A q \in Post \ {p} : ~posts[q].heard
      BY <2>4 DEF GrantStands, OneIsHeard
    <3>4. form.state = "saving"
      BY <2>4 DEF GrantStands, OneIsHeard
    <3>5. AnswerStands'
      BY <2>2, <3>1, <3>2, <3>3 DEF AnswerStands
    <3>6. SavedStands'
      BY <2>1, <3>4 DEF SavedStands
    <3> QED
      BY <1>3, <2>3, <3>5, <3>6
  <2>5. CASE ~GrantStands(p)
    <3>1. /\ \A u \in User : u \notin crossed' => u \notin crossed /\ InForce(u)' = InForce(u)
          /\ ~(posts'[p].pc = "saved" /\ posts'[p].heard)
      BY <1>7, <2>5, BehindTheForm
    <3>2. AnswerStands'
      BY <1>1, <2>2, <3>1 DEF AnswerStands
    <3>3. SavedStands'
      BY <2>1, <3>1 DEF OneIsHeard, SavedStands
    <3> QED
      BY <1>3, <2>3, <3>2, <3>3
  <2> QED
    BY <2>4, <2>5
<1>8. ASSUME NEW p \in Post, SavedAnswered(p) \/ RefusalAnswered(p) \/ GiveUp(p)
      PROVE  FormInv'
  <2>1. PostStep(p) /\ posts[p].heard
    BY <1>8 DEF PostStep, SavedAnswered, RefusalAnswered, GiveUp
  <2>2. UNCHANGED <<vars, grants>> /\ (crossed' = crossed \/ form'.state = "error")
    BY <1>1, <1>8 DEF SavedAnswered, RefusalAnswered, GiveUp, AnswerFrame, FormRecord
  <2>3. \A q \in Post \ {p} : posts'[q] = posts[q] /\ ~posts[q].heard
    BY <2>1, OtherPostsStay DEF OneIsHeard
  <2>4. ~posts'[p].heard
    <3>1. [NoPost EXCEPT !.pc = "over"].heard = FALSE
      BY DEF NoPost
    <3>2. CASE GiveUp(p)
      <4> DEFINE Unheard == [posts[p] EXCEPT !.heard = FALSE,
                   !.pc = IF posts[p].pc \in {"lookup", "write"} THEN posts[p].pc ELSE "over"]
      <4>1. Unheard.heard = FALSE
        BY <1>1 DEF PostRecord
      <4>2. posts' = [posts EXCEPT ![p] = Unheard]
        BY <3>2 DEF GiveUp
      <4> HIDE DEF Unheard
      <4> QED
        BY <1>1, <4>1, <4>2
    <3> QED
      BY <1>1, <1>8, <3>1, <3>2 DEF SavedAnswered, RefusalAnswered
  <2>5. AnswerStands' /\ (form'.state = "saved" /\ form'.user \in User => OneIsHeard')
    BY <2>3, <2>4 DEF AnswerStands, OneIsHeard
  <2>6. CASE SavedAnswered(p)
    <3>1. /\ posts[p].pc = "saved" /\ form'.user = posts[p].user /\ form'.says = posts[p].want
          /\ form'.state = "saved" /\ UNCHANGED crossed
      BY <1>1, <2>6 DEF SavedAnswered, FormRecord
    <3>2. SavedStands'
      BY <2>1, <2>2, <3>1, SameAccounts DEF SavedStands, AnswerStands
    <3> QED
      BY <1>1, <1>3, <2>5, <3>1, <3>2
  <2>7. CASE RefusalAnswered(p) \/ GiveUp(p)
    <3>1. form'.state \in {"ambiguous", "error"}
      BY <1>1, <2>7 DEF RefusalAnswered, GiveUp, FormRecord
    <3>2. OneIsHeard'
      BY <2>3, <2>4, <3>1 DEF OneIsHeard
    <3> QED
      BY <1>3, <2>5, <3>1, <3>2 DEF SavedStands
  <2> QED
    BY <1>8, <2>6, <2>7
<1> QED
  BY <1>5, <1>6, <1>7, <1>8
  DEF ConsoleNext, OpenConsole, AdminKnown, LeaveGroup, PostStep, AccountTable, RetryLoad, LoadMore,
      ListDirectoryUsers, GetAdminProfiles, Listed, TableFrame, Charts, Meanwhile

\* Until the page is open nothing was asked for.
LEMMA FormWaits ==
  ASSUME ConsoleTyped, FormInv, TableInv, [ConsoleNext]_allVars, page # "open"
  PROVE  FormInv' /\ TableInv'
<1>1. /\ form.state = "idle" /\ table.state = "off"
      /\ \A p \in Post : posts[p].pc = "off" /\ ~posts[p].heard
      /\ \A k \in Load : loads[k].pc = "off"
  BY DEF FormInv, NothingYet
<1>2. ASSUME UNCHANGED posts, form'.state = "idle",
             page' = "open" \/ UNCHANGED <<table, loads>>
      PROVE  FormInv'
  BY <1>1, <1>2 DEF FormInv, NothingYet, OneIsHeard, AnswerStands, SavedStands
<1>3. ASSUME UNCHANGED <<table, loads>>
      PROVE  TableInv'
  <2>1. table'.state = "off" /\ \A k \in Load : loads'[k].pc = "off"
    BY <1>1, <1>3
  <2> QED
    BY <2>1 DEF TableInv, RowsFit, LoadOut, ListOut
<1>4. CASE Meanwhile \/ OpenConsole \/ UNCHANGED allVars
  BY <1>1, <1>2, <1>3, <1>4 DEF Meanwhile, OpenConsole, allVars, consoleVars
<1>5. CASE AdminKnown
  <2>1. UNCHANGED <<form, posts>> /\ (page' = "open" \/ UNCHANGED <<table, loads>>)
    BY <1>5 DEF AdminKnown
  <2>2. BeginLoad \/ UNCHANGED <<table, loads>>
    BY <1>5 DEF AdminKnown
  <2> QED
    BY <1>1, <1>2, <1>3, <2>1, <2>2, BeginsFresh
<1>6. CASE GrantForm
  <2>1. ClearUsername
    BY <1>1, <1>6 DEF GrantForm, Submit, SubmitNoNumber, PickCandidate
  <2>2. form'.state = "idle"
    BY <1>1, <2>1 DEF ClearUsername, ConsoleTyped, ConsoleTypeOK, FormRecord
  <2> QED
    BY <1>2, <1>3, <2>1, <2>2 DEF ClearUsername, FormFrame
<1>7. ~LeaveGroup /\ ~Charts
  BY DEF LeaveGroup, Charts
<1>8. \A p \in Post : ~PostStep(p)
  BY <1>1 DEF PostStep, FindDirectoryUser, WriteGrant, GrantFails, SavedAnswered,
              RefusalAnswered, GiveUp
<1>9. ~AccountTable
  BY <1>1 DEF AccountTable, RetryLoad, LoadMore, ListDirectoryUsers, GetAdminProfiles, Listed
<1> QED
  BY <1>4, <1>5, <1>6, <1>7, <1>8, <1>9 DEF ConsoleNext

\* The form and the table, a step at a time.
LEMMA PageStays ==
  ASSUME ConsoleTyped, FormInv, TableInv, [ConsoleNext]_allVars
  PROVE  FormInv' /\ TableInv'
<1>1. CASE page # "open"
  BY <1>1, FormWaits
<1>2. CASE UNCHANGED allVars
  <2>1. UNCHANGED <<vars, grants, crossed, posts>> /\ UNCHANGED <<table, loads, tangled, lagged>>
        /\ UNCHANGED <<form, page>>
    BY <1>2 DEF allVars, consoleVars
  <2>2. TableInv'
    BY <2>1, OthersKeepAccounts, TableKept
  <2>3. \A u : InForce(u)' = InForce(u)
    BY <2>1, SameAccounts
  <2>4. FormInv'
    BY <2>1, <2>3 DEF FormInv, NothingYet, OneIsHeard, AnswerStands, SavedStands
  <2> QED
    BY <2>2, <2>4
<1>3. CASE page = "open" /\ ConsoleNext
  <2>1. FormInv'
    BY <1>3, FormStays
  <2>2. CASE GrantForm \/ Meanwhile
    <3>1. UNCHANGED <<table, loads, tangled, lagged>>
      BY <2>2 DEF GrantForm, Submit, SubmitNoNumber, PickCandidate, ClearUsername, FormFrame,
                       Meanwhile
    <3> QED
      BY <1>3, <2>1, <2>2, <3>1, OthersKeepAccounts, TableKept
  <2>3. CASE LeaveGroup \/ Charts
    <3>1. UNCHANGED <<table, loads, tangled, lagged>> /\ UNCHANGED <<vars, grants, crossed, posts>>
      BY <2>3 DEF LeaveGroup, Charts
    <3> QED
      BY <2>1, <3>1, OthersKeepAccounts, TableKept
  <2>4. CASE AccountTable
    BY <2>1, <2>4, TableStays
  <2>5. ASSUME NEW p \in Post, PostStep(p)
        PROVE  TableInv'
    <3>1. CASE SavedAnswered(p)
      BY <3>1, BeginsFresh DEF SavedAnswered
    <3>2. CASE ~SavedAnswered(p)
      <4>1. UNCHANGED <<table, loads, tangled, lagged>>
        BY <2>5, <3>2 DEF PostStep, FindDirectoryUser, WriteGrant, GrantFails,
                          RefusalAnswered, GiveUp, PostFrame
      <4> QED
        BY <2>5, <3>2, <4>1, PostKeepsAccounts, TableKept
    <3> QED
      BY <3>1, <3>2
  <2>6. ~OpenConsole /\ ~AdminKnown
    BY <1>3 DEF OpenConsole, AdminKnown
  <2> QED
    BY <1>3, <2>1, <2>2, <2>3, <2>4, <2>5, <2>6 DEF ConsoleNext
<1> QED
  BY <1>1, <1>2, <1>3

-----------------------------------------------------------------------------
(* The charts                                                              *)

\* The charts loading have a read out; while one is out at a time it and the
\* charts shown are of the window chosen.
ChartsInv ==
  /\ charts.state = "loading" => \E k \in Read : Out(k)
  /\ ~mixed => /\ \A j, k \in Read : Out(j) /\ Out(k) => j = k
               /\ \A k \in Read : Out(k) => reads[k].window = hours
               /\ charts.state = "ready" => charts.data.window = hours

\* The charts, a step at a time.
LEMMA ChartsStay ==
  ASSUME HealthTypeOK, ChartsInv, HealthNext \/ UNCHANGED healthVars
  PROVE  ChartsInv'
<1>1. /\ reads \in [Read -> [pc : {"off", "discover", "data", "answer", "lost", "over"},
                             window : Window, routes : BOOLEAN, drawn : SUBSET Series]]
      /\ \A k \in Read : reads[k] \in [pc : {"off", "discover", "data", "answer", "lost", "over"},
                                       window : Window, routes : BOOLEAN, drawn : SUBSET Series]
  BY DEF HealthTypeOK
<1>2. ASSUME NEW w \in Window, LoadMetrics(w), hours' = w
      PROVE  ChartsInv'
  <2> DEFINE Fresh == [NotRead EXCEPT !.pc = "discover", !.window = w]
  <2>1. Fresh.pc = "discover" /\ Fresh.window = w
    BY DEF NotRead
  <2>2. PICK k \in Read : reads[k].pc = "off" /\ reads' = [reads EXCEPT ![k] = Fresh]
    BY <1>2 DEF LoadMetrics, Upcoming
  <2> HIDE DEF Fresh
  <2>3. /\ reads'[k].pc = "discover" /\ reads'[k].window = w
        /\ \A j \in Read \ {k} : reads'[j] = reads[j]
    BY <1>1, <2>1, <2>2
  <2>4. charts'.state = "loading" /\ mixed' = \E j \in Read : Out(j)
    BY <1>2 DEF LoadMetrics
  <2>5. Out(k)' /\ (~mixed' => \A j \in Read \ {k} : ~Out(j)')
    BY <2>3, <2>4 DEF Out
  <2> QED
    BY <1>2, <2>3, <2>4, <2>5 DEF ChartsInv
<1>3. CASE MountHealth \/ Refresh
  BY <1>2, <1>3 DEF MountHealth, Refresh, HealthTypeOK
<1>4. ASSUME NEW w \in Window, ChooseWindow(w)
      PROVE  ChartsInv'
  BY <1>2, <1>4 DEF ChooseWindow
<1>5. ASSUME NEW k \in Read, DiscoverRoutes(k) \/ ReadMetrics(k)
      PROVE  ChartsInv'
  <2>2. \E r : reads' = [reads EXCEPT ![k] = r]
               /\ r.window = reads[k].window /\ r.pc \in {"data", "answer", "lost"}
    <3> DEFINE Known(found) == [reads[k] EXCEPT !.pc = "data", !.routes = found]
               Drawn(drawn) == [reads[k] EXCEPT !.pc = "answer", !.drawn = drawn]
               Lost == [reads[k] EXCEPT !.pc = "lost"]
    <3>1. \/ \E found : reads' = [reads EXCEPT ![k] = Known(found)]
          \/ \E drawn : reads' = [reads EXCEPT ![k] = Drawn(drawn)]
          \/ reads' = [reads EXCEPT ![k] = Lost]
      BY <1>5 DEF DiscoverRoutes, ReadMetrics
    <3>2. /\ \A found : Known(found).window = reads[k].window /\ Known(found).pc = "data"
          /\ \A drawn : Drawn(drawn).window = reads[k].window /\ Drawn(drawn).pc = "answer"
          /\ Lost.window = reads[k].window /\ Lost.pc = "lost"
      BY <1>1
    <3> HIDE DEF Known, Drawn, Lost
    <3> QED
      BY <3>1, <3>2
  <2>3. /\ reads'[k].window = reads[k].window /\ reads'[k].pc \in {"data", "answer", "lost"}
        /\ \A j \in Read \ {k} : reads'[j] = reads[j]
    BY <1>1, <2>2
  <2>4. reads[k].pc \in {"discover", "data"} /\ UNCHANGED <<hours, charts, mixed>>
    BY <1>5 DEF DiscoverRoutes, ReadMetrics
  <2>5. \A j \in Read : Out(j)' = Out(j) /\ reads'[j].window = reads[j].window
    BY <2>3, <2>4 DEF Out
  <2> QED
    BY <2>4, <2>5 DEF ChartsInv
<1>6. ASSUME NEW k \in Read, MetricsAnswered(k)
      PROVE  ChartsInv'
  <2> DEFINE Blank == [NotRead EXCEPT !.pc = "over"]
  <2>1. Blank.pc = "over"
    BY DEF NotRead
  <2>2. reads' = [reads EXCEPT ![k] = Blank] /\ Out(k) /\ UNCHANGED <<hours, mixed>>
    BY <1>6 DEF MetricsAnswered, Out
  <2> HIDE DEF Blank
  <2>3. ~Out(k)' /\ \A j \in Read \ {k} : reads'[j] = reads[j] /\ Out(j)' = Out(j)
    BY <1>1, <2>1, <2>2 DEF Out
  <2>4. /\ charts'.state \in {"error", "ready"}
        /\ charts'.state = "ready" => charts'.data.window = reads[k].window
    BY <1>6 DEF MetricsAnswered, Answer
  <2> QED
    BY <2>2, <2>3, <2>4 DEF ChartsInv
<1>7. CASE UNCHANGED healthVars
  BY <1>7 DEF healthVars, ChartsInv, Out
<1> QED
  BY <1>3, <1>4, <1>5, <1>6, <1>7 DEF HealthNext

-----------------------------------------------------------------------------
(* The page                                                                *)

\* What the admin page says was saved is in force, what its table shows is what
\* is stored and its charts are of the window chosen, but for what the
\* properties name: grants behind the form's back, answers out of order and a
\* read that lagged.  For any accounts, posts, loads and reads.
THEOREM ConsoleTruth == ConsoleSpec => []ConsoleTellsTheTruth
<1>1. ConsoleInit => FormInv /\ TableInv /\ ChartsInv
  <2> SUFFICES ASSUME ConsoleInit PROVE FormInv /\ TableInv /\ ChartsInv
    OBVIOUS
  <2>1. NoPost.pc = "off" /\ NoPost.heard = FALSE /\ NoLoad.pc = "off" /\ NotRead.pc = "off"
        /\ BlankForm.state = "idle"
    BY DEF NoPost, NoLoad, NotRead, BlankForm
  <2>2. /\ \A p \in Post : posts[p].pc = "off" /\ ~posts[p].heard
        /\ \A k \in Load : loads[k].pc = "off"
        /\ form.state = "idle" /\ table.state = "off"
    BY <2>1, ConsoleInit DEF ConsoleInit
  <2>3. FormInv
    BY <2>2 DEF FormInv, NothingYet, OneIsHeard, AnswerStands, SavedStands
  <2>4. (\A k \in Read : ~Out(k)) /\ charts.state = "off"
    BY <2>1, ConsoleInit DEF ConsoleInit, HealthInit, Out
  <2>5. ChartsInv
    BY <2>4 DEF ChartsInv
  <2> QED
    BY <2>2, <2>3, <2>5, NoTable
<1>2. ConsoleTyped /\ (FormInv /\ TableInv /\ ChartsInv) /\ [ConsoleNext]_allVars
        => (FormInv /\ TableInv /\ ChartsInv)'
  <2> SUFFICES ASSUME ConsoleTyped, FormInv, TableInv, ChartsInv, [ConsoleNext]_allVars
               PROVE  FormInv' /\ TableInv' /\ ChartsInv'
    OBVIOUS
  <2>1. HealthNext \/ UNCHANGED healthVars
    BY PostShown, TableSteps, FormTyped
    DEF ConsoleNext, Meanwhile, OpenConsole, AdminKnown, LeaveGroup, Charts, allVars, consoleVars
  <2> QED
    BY <2>1, PageStays, ChartsStay DEF ConsoleTyped, ConsoleTypeOK
<1>3. ConsoleTyped /\ FormInv /\ TableInv /\ ChartsInv => ConsoleTellsTheTruth
  <2> SUFFICES ASSUME ConsoleTyped, FormInv, TableInv, ChartsInv PROVE ConsoleTellsTheTruth
    OBVIOUS
  <2>1. TableShowsGrants
    <3>1. form.state # "saving" => \A p \in Post : ~posts[p].heard
      BY DEF FormInv, OneIsHeard
    <3>2. ASSUME table.state = "ready", form.state # "saving", ~tangled, ~lagged,
                 NEW u \in DOMAIN table.rows \cap (Onboarded \ crossed)
          PROVE  table.rows[u] = InForce(u)
      BY <3>1, <3>2 DEF TableInv, RowsFit, Fits, Settled
    <3> QED
      BY <3>2 DEF TableShowsGrants, TableInv
  <2>2. ChartsFitWindow
    BY DEF ChartsFitWindow, Quiet, ChartsInv
  <2> QED
    BY <2>1, <2>2 DEF ConsoleTellsTheTruth, ConsoleTyped, FormInv
<1> QED
  BY <1>1, <1>2, <1>3, ConsoleTypeCorrect, PTL DEF ConsoleSpec

-----------------------------------------------------------------------------
(* Whom a grant hits                                                       *)

\* A grant about to be written is for the one account its request can mean.
OneIsMeant == \A p \in Post : posts[p].pc = "write" => Named(p) = {posts[p].user}

\* A post writes for the account its request named alone.
LEMMA MeantStays ==
  ASSUME ConsoleTyped, OneIsMeant, [ConsoleNext]_allVars
  PROVE  OneIsMeant'
<1>1. ASSUME UNCHANGED posts
      PROVE  OneIsMeant'
  BY <1>1 DEF OneIsMeant, Named
<1>2. posts \in [Post -> PostRecord] /\ \A q \in Post : posts[q] \in PostRecord
  BY DEF ConsoleTyped, ConsoleTypeOK
<1>3. ASSUME NEW p \in Post, \A q \in Post \ {p} : posts'[q] = posts[q],
             posts'[p].pc = "write" =>
               /\ posts'[p].username = posts[p].username /\ posts'[p].email = posts[p].email
               /\ Named(p) = {posts'[p].user}
      PROVE  OneIsMeant'
  BY <1>3 DEF OneIsMeant, Named
<1>4. CASE GrantForm
  <2>1. ASSUME NEW e \in Email, NEW want \in Limits, Submit(e, want)
        PROVE  OneIsMeant'
    <3> DEFINE Sent == [pc |-> IF RequireAdmin THEN "lookup" ELSE "error", heard |-> TRUE,
                        email |-> e, username |-> form.username, user |-> None, want |-> want]
    <3>1. PICK p \in Post : posts' = [posts EXCEPT ![p] = Sent]
      BY <2>1 DEF Submit
    <3>2. Sent.pc # "write"
      OBVIOUS
    <3> HIDE DEF Sent
    <3> QED
      BY <1>2, <1>3, <3>1, <3>2
  <2> QED
    BY <1>1, <1>4, <2>1 DEF GrantForm, SubmitNoNumber, PickCandidate, ClearUsername
<1>5. ASSUME NEW p \in Post, PostStep(p)
      PROVE  OneIsMeant'
  <2>1. \A q \in Post \ {p} : posts'[q] = posts[q]
    BY <1>5, OtherPostsStay
  <2>2. CASE FindDirectoryUser(p)
    <3> DEFINE Found(u) == [posts[p] EXCEPT !.pc = "write", !.user = u]
    <3>1. \A l : [posts[p] EXCEPT !.pc = l].pc = l
      BY <1>2 DEF PostRecord
    <3>2. \A u : Found(u).username = posts[p].username /\ Found(u).email = posts[p].email
                 /\ Found(u).user = u
      BY <1>2 DEF PostRecord
    <3>3. CASE Named(p) = {} \/ Cardinality(Named(p)) > 1
      <4>1. posts'[p].pc # "write"
        BY <1>2, <2>2, <3>1, <3>3 DEF FindDirectoryUser
      <4> QED
        BY <1>3, <2>1, <4>1
    <3>4. CASE Named(p) # {} /\ ~(Cardinality(Named(p)) > 1)
      <4>1. posts' = [posts EXCEPT ![p] = Found(CHOOSE u \in Named(p) : TRUE)]
        BY <2>2, <3>4 DEF FindDirectoryUser
      <4> HIDE DEF Found
      <4>2. posts'[p] = Found(CHOOSE u \in Named(p) : TRUE)
        BY <1>2, <4>1
      <4>3. Named(p) = {CHOOSE u \in Named(p) : TRUE}
        <5>1. IsFiniteSet(Named(p))
          BY NamedAreUsers, UserAssumption, FS_Subset DEF ConsoleTyped
        <5>2. Cardinality(Named(p)) = 1
          BY <3>4, <5>1, FS_CardinalityType, FS_EmptySet
        <5>3. PICK u : Named(p) = {u}
          BY <5>1, <5>2, FS_Singleton
        <5> QED
          BY <5>3
      <4>4. PICK u : u = CHOOSE v \in Named(p) : TRUE
        OBVIOUS
      <4>5. /\ posts'[p].username = posts[p].username /\ posts'[p].email = posts[p].email
            /\ Named(p) = {posts'[p].user}
        BY <3>2, <4>2, <4>3, <4>4
      <4> QED
        BY <1>3, <2>1, <4>5
    <3> QED
      BY <3>3, <3>4
  <2>3. CASE WriteGrant(p) \/ GrantFails(p)
    <3>1. \A l : [posts[p] EXCEPT !.pc = l].pc = l
      BY <1>2 DEF PostRecord
    <3>2. \E l \in {"saved", "over", "error"} :
            posts' = [posts EXCEPT ![p] = [posts[p] EXCEPT !.pc = l]]
      BY <2>3 DEF WriteGrant, GrantFails
    <3>3. posts'[p].pc # "write"
      BY <1>2, <3>1, <3>2
    <3> QED
      BY <1>3, <2>1, <3>3
  <2>4. CASE SavedAnswered(p) \/ RefusalAnswered(p)
    <3>1. posts'[p] = [NoPost EXCEPT !.pc = "over"]
      BY <1>2, <2>4 DEF SavedAnswered, RefusalAnswered
    <3>2. posts'[p].pc = "over"
      BY <3>1 DEF NoPost
    <3> QED
      BY <1>3, <2>1, <3>2
  <2>5. CASE GiveUp(p)
    <3> DEFINE l == IF posts[p].pc \in {"lookup", "write"} THEN posts[p].pc ELSE "over"
               Unheard == [posts[p] EXCEPT !.heard = FALSE, !.pc = l]
    <3>1. /\ Unheard.pc = "write" => posts[p].pc = "write"
          /\ Unheard.username = posts[p].username /\ Unheard.email = posts[p].email
          /\ Unheard.user = posts[p].user
      BY <1>2 DEF PostRecord
    <3>2. posts' = [posts EXCEPT ![p] = Unheard]
      BY <2>5 DEF GiveUp
    <3> HIDE DEF Unheard
    <3>3. posts'[p] = Unheard
      BY <1>2, <3>2
    <3>4. posts[p].pc = "write" => Named(p) = {posts[p].user}
      BY DEF OneIsMeant
    <3> QED
      BY <1>3, <2>1, <3>1, <3>3, <3>4
  <2> QED
    BY <1>5, <2>2, <2>3, <2>4, <2>5 DEF PostStep
<1>6. CASE AccountTable
  BY <1>1, <1>6, TableSteps
<1> QED
  BY <1>1, <1>4, <1>5, <1>6
  DEF ConsoleNext, Meanwhile, OpenConsole, AdminKnown, LeaveGroup, Charts, allVars, consoleVars

\* A grant changes the one account its request can mean, and nobody's when
\* several share the email: for any accounts and any number of posts.
THEOREM OneAccountPerGrant == ConsoleSpec => GrantsHitOneAccount
<1> DEFINE Hit == \A u \in Others : Changed(u) =>
                    \E p \in Post : posts[p].pc = "write" /\ Named(p) = {u} /\ ~Changed(Mine)
<1>1. ConsoleInit => OneIsMeant
  <2>1. NoPost.pc = "off"
    BY DEF NoPost
  <2> QED
    BY <2>1 DEF ConsoleInit, OneIsMeant
<1>2. ConsoleTyped /\ OneIsMeant /\ [ConsoleNext]_allVars => OneIsMeant'
  BY MeantStays
<1>3. ConsoleTyped /\ OneIsMeant /\ [ConsoleNext]_allVars => [Hit]_allVars
  <2> SUFFICES ASSUME ConsoleTyped, OneIsMeant, ConsoleNext PROVE Hit
    OBVIOUS
  <2>1. Mine \notin Others
    BY DEF Others
  <2>2. ASSUME UNCHANGED grants
        PROVE  Hit
    BY <2>1, <2>2 DEF Changed, InForce
  <2>3. ASSUME NEW p \in Post, WriteGrant(p) \/ GrantFails(p)
        PROVE  Hit
    <3>1. \/ UNCHANGED grants
          \/ posts[p].pc = "write" /\ Granted(posts[p].user, posts[p].want)
      BY <2>3 DEF WriteGrant, GrantFails
    <3>2. CASE posts[p].pc = "write" /\ Granted(posts[p].user, posts[p].want)
      <4>1. posts[p].user \in User /\ Named(p) = {posts[p].user}
        BY <3>2 DEF ConsoleTyped, OneIsMeant
      <4>2. \A v \in User \ {posts[p].user} : ~Changed(v)
        BY <3>2, <4>1, GrantSets DEF Changed
      <4> QED
        BY <3>2, <4>1, <4>2, UserAssumption DEF Others
    <3> QED
      BY <2>2, <3>1, <3>2
  <2>4. ASSUME NEW p \in Post, PostStep(p)
        PROVE  Hit
    BY <2>2, <2>3, <2>4 DEF PostStep, FindDirectoryUser, SavedAnswered, RefusalAnswered, GiveUp,
                            AnswerFrame
  <2>5. CASE GrantForm \/ AccountTable
    BY <2>2, <2>5, FormTyped, TableSteps
  <2>6. CASE Meanwhile \/ OpenConsole \/ AdminKnown \/ LeaveGroup \/ Charts
    BY <2>2, <2>6 DEF Meanwhile, OpenConsole, AdminKnown, LeaveGroup, Charts
  <2> HIDE DEF Hit
  <2> QED
    BY <2>4, <2>5, <2>6 DEF ConsoleNext
<1>4. ConsoleSpec => []OneIsMeant
  BY <1>1, <1>2, ConsoleTypeCorrect, PTL DEF ConsoleSpec
<1> QED
  BY <1>3, <1>4, ConsoleTypeCorrect, PTL DEF ConsoleSpec, GrantsHitOneAccount

=============================================================================
