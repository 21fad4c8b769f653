---------------------------- MODULE SonicStreamMC ----------------------------
(***************************************************************************)
(* SonicStream on two kinds of interview: long ones of many streams that   *)
(* carry nothing, and short ones of three streams that carry traffic or    *)
(* run by the clock.                                                       *)
(***************************************************************************)
EXTENDS SonicStream

Unread == \A s \in Stream : heard[s] = <<>>

Handovers == traffic = 0 /\ elapsed = 0 /\ Unread
Talks == opened <= 3 /\ (traffic = 3 => opened <= 2) /\ elapsed = 0 /\ Cardinality(own) <= 1 /\ Unread
Clocks == /\ opened <= 3 /\ traffic = exchanges /\ exchanges <= 1 /\ Unread
          /\ own # {} => opened <= 2 /\ exchanges = 0 /\ Cardinality(own) = 1
\* Only here does the service pull, with the queues that fill and drain.
Pulls == opened <= 2 /\ elapsed = 0 /\ traffic <= 2 /\ exchanges = 0 /\ own = {}

Focus == Handovers \/ Talks \/ Clocks \/ Pulls
=============================================================================
