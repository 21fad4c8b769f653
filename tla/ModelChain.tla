----------------------------- MODULE ModelChain -----------------------------
(***************************************************************************)
(* The text models behind every agent: a chain of Bedrock models tried in  *)
(* turn, and what each agent makes of an answer.  An answer is "text" the  *)
(* agent can read, "garbled" (it does not validate), "empty", an "error",  *)
(* or "blocked" by the guardrail.                                          *)
(***************************************************************************)
EXTENDS Naturals

CONSTANT Model   \* how many models config.bedrockTextModelIds names

ASSUME ModelAssumption == Model \in Nat \ {0}

Answer == {"text", "garbled", "empty", "error", "blocked"}
Answers == [1..Model -> Answer]

\* An empty answer or an error falls through to the next model; text ends the
\* chain whether or not anybody can read it, and so does the guardrail.
Falls == {"empty", "error"}

Converse(answers) ==
  IF \A m \in 1..Model : answers[m] \in Falls THEN "failed"
  ELSE answers[CHOOSE m \in 1..Model : /\ answers[m] \notin Falls
                                       /\ \A n \in 1..(m - 1) : answers[n] \in Falls]

\* The planner plans from one answer, or throws.
Planned(answers) == Converse(answers) = "text"

\* Gap asks again when the first answer cannot be read, never when it is blocked.
Analysed(first, second) ==
  \/ Converse(first) = "text"
  \/ Converse(first) = "garbled" /\ Converse(second) = "text"

\* Coach writes its report without prose when the answer cannot be used.
Written(answers) == Converse(answers) = "text"
=============================================================================
