\* Two answers, two concurrent Lambda invocations, overlapping deliveries, one fault.
SPECIFICATION Spec
CONSTANTS
  Question = {q1, q2}
  NoQuestion = none
  Worker = {w1, w2}
  MaxReceives = 2
  BatchSize = 2
  Lambda = TRUE
  Overlap = TRUE
  Erasable = FALSE
  MaxFaults = 1
INVARIANTS
  TypeOK
  OutcomesAreCounted
PROPERTIES
  EventuallyComplete
  KeepsPromise
CHECK_DEADLOCK FALSE
