----------------------------- MODULE InterviewMC -----------------------------
(***************************************************************************)
(* Interview on small instances whose tabs and sessions are                *)
(* interchangeable, and the admin page that grants its allowance.          *)
(***************************************************************************)
EXTENDS AdminConsole, TLC

CONSTANTS c1, c2, s1, s2, mine, twin, solo, shared, lone, nobody

\* For runs without temporal properties, which symmetry would make unsound.
Symmetry == Permutations(Conn) \cup Permutations(Session)

\* The candidate has a password and a Google account on one address; another
\* user has not onboarded, and some addresses have no account.
ThreeUsers == {mine, twin, solo}
Addresses == {shared, lone, nobody}
AddressOf == (mine :> shared) @@ (twin :> shared) @@ (solo :> lone)

\* The first tab alone meets failures, repeated writes, the erasure mark and an
\* unlimited allowance over all its exchanges, or two failures over one; two tabs
\* race without failures, over one exchange each and the grant of one more session.
\* In both, nobody grants the default allowance again.
Alone == boot[c2] = "off" /\ target[c1] \in {NoSession, s1} /\ 2 \notin allowed

Interviews ==
  /\ page = "off" /\ member /\ (limit = DefaultLimit => allowed = {DefaultLimit})
  /\ \/ Alone /\ (faults + resends < 2 \/ (taken[c1] <= 1 /\ faults + resends < 3))
     \/ /\ faults + resends = 0 /\ account = "active" /\ Unlimited \notin allowed
        /\ \A c \in Conn : taken[c] = 0 \/ (taken[c] = 1 /\ c \notin spoken)

\* The admin page, while nobody is interviewed: two grants; the second may
\* follow one the browser gave up on, and the table is then not paged.  A third
\* read of the charts follows two that are over.
Used(p) == posts[p].pc # "off"
Wanted(p, limits) == posts[p].pc \in {"off", "over"} \/ posts[p].want \in limits

Administration ==
  /\ \A c \in Conn : boot[c] = "off"
  /\ faults + resends = 0
  /\ (2 \in allowed => Used(1)) /\ (Unlimited \in allowed => Used(2))
  /\ Wanted(1, {2}) /\ Wanted(2, {1, Unlimited}) /\ posts[2].email # nobody
  /\ Used(2) => loads[1].pc = "over" /\ \A k \in Load : ~loads[k].more
  /\ slips > 0 \/ ~member => loads[3].pc = "off"
  /\ ~member \/ account = "deleting" => ~Used(2) /\ slips = 0 /\ loads[2].pc = "off"
  /\ charts.state # "off" => form = BlankForm /\ loads[1].pc = "list"
  /\ reads[3].pc # "off" => \A k \in 1..2 : reads[k].pc = "over"

Focus == Interviews \/ Administration
=============================================================================
