\* One fault: a crash, or a failed completeEvaluation, after the election is won.
SPECIFICATION SafetySpec
CONSTANTS
  Question = {q1}
  NoQuestion = none
  Worker = {w1, w2}
  MaxReceives = 2
  BatchSize = 1
  Lambda = TRUE
  Overlap = FALSE
  Erasable = FALSE
  MaxFaults = 1
INVARIANT
  NotParked
SYMMETRY Symmetry
CHECK_DEADLOCK FALSE
