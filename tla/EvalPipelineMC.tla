--------------------------- MODULE EvalPipelineMC ---------------------------
(***************************************************************************)
(* EvalPipeline on small instances whose answers and invocations are       *)
(* interchangeable.                                                        *)
(***************************************************************************)
EXTENDS EvalPipeline, TLC

\* For runs without temporal properties, which symmetry would make unsound.
Symmetry == Permutations(Question) \cup Permutations(Worker)
=============================================================================
