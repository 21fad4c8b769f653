-------------------------- MODULE InterviewPageMC --------------------------
(***************************************************************************)
(* InterviewPage for TLC, which looks at three scenes: a long dialogue on  *)
(* a page that keeps up with it; a short one on a page that lags; and the  *)
(* page itself, started again, stopped and left, while one turn is spoken. *)
(***************************************************************************)
EXTENDS InterviewPage

Calm == mounted /\ faults = 0 /\ reason # "you" /\ \A a \in Attempts : a > 1 => at[a] = "none"
KeepsUp == \A a \in Attempts : Len(link[a].wire) + Len(dev.playing[a]) <= 1
Focus ==
    \/ Calm /\ KeepsUp /\ (turn.n > 1 => ~endRequested) /\ (turn.n = 3 => turn.blocks = 1)
    \/ Calm /\ turn.n <= 1 /\ Len(said) <= 1
    \/ /\ turn.n <= 1 /\ turn.blocks <= 1 /\ said = <<>> /\ ~endRequested
       /\ at[MaxAttempts] # "none" \/ faults > 0 => KeepsUp
=============================================================================
