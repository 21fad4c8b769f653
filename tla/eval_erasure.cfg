\* One answer, two overlapping poller deliveries, the erasure sweep, one fault.
SPECIFICATION Spec
CONSTANTS
  Question = {q1}
  NoQuestion = none
  Worker = {w1, w2}
  MaxReceives = 2
  BatchSize = 1
  Lambda = FALSE
  Overlap = TRUE
  Erasable = TRUE
  MaxFaults = 1
PROPERTIES
  MetaStaysErased
  QueueDrains
CHECK_DEADLOCK FALSE
