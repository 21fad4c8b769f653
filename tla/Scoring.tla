------------------------------ MODULE Scoring ------------------------------
(***************************************************************************)
(* What asynchronous scoring promises whoever reads a session's results:   *)
(* every answer ends up scored or withheld, one result is drawn from the   *)
(* scores, once, and only after every answer is accounted for; the session *)
(* is published after that; an erased session has nothing left to show.    *)
(***************************************************************************)
CONSTANT Question

VARIABLES
  scored,      \* answers with a score
  withheld,    \* answers recorded as unscored
  result,      \* the scores the published averages are drawn from
  published,   \* the session is reported complete
  erased

vars == <<scored, withheld, result, published, erased>>

TypeOK ==
  /\ scored \subseteq Question /\ withheld \subseteq Question
  /\ result \subseteq Question
  /\ published \in BOOLEAN /\ erased \in BOOLEAN

Init ==
  /\ scored = {} /\ withheld = {} /\ result = {}
  /\ published = FALSE /\ erased = FALSE

Complete == scored \cup withheld = Question

\* An answer gets a score, even one that was withheld before.
Score(q) ==
  /\ ~erased
  /\ scored' = scored \cup {q}
  /\ UNCHANGED <<withheld, result, published, erased>>

Withhold(q) ==
  /\ ~erased
  /\ withheld' = withheld \cup {q}
  /\ UNCHANGED <<scored, result, published, erased>>

\* The one result: some scores, and everything left out of it is withheld.
Settle(R) ==
  /\ ~erased /\ Complete /\ result = {}
  /\ R # {} /\ R \subseteq scored /\ Question \ R \subseteq withheld
  /\ result' = R
  /\ UNCHANGED <<scored, withheld, published, erased>>

Publish ==
  /\ ~erased /\ Complete
  /\ result # {} \/ withheld = Question
  /\ published' = TRUE
  /\ UNCHANGED <<scored, withheld, result, erased>>

Erase ==
  /\ ~erased /\ erased' = TRUE
  /\ scored' = {} /\ withheld' = {} /\ result' = {} /\ published' = FALSE

Next ==
  \/ \E q \in Question : Score(q) \/ Withhold(q)
  \/ \E R \in SUBSET Question : Settle(R)
  \/ Publish
  \/ Erase

Spec == Init /\ [][Next]_vars
=============================================================================
