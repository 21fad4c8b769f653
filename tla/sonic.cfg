\* Interviews of up to six streams: five renewals, any of which may fail; of
\* three streams with three frames, tool calls and exchanges; of three streams
\* by the clock of a fifteen-minute plan.
SPECIFICATION StreamSpec
CONSTANTS
  MaxStreams = 6
  TestMode = FALSE
  TestTargetMinutes = 6
  WrapUpBefore = 180
  FinalCallBefore = 60
  HardStopGrace = 60
  WrapUpAtRemainingMin = 3
  PlannedMinutes = 15
  Instant = {690, 720, 810, 840, 870, 900, 960}
  MaxReplayed = 1
  MaxQueued = 3
  MaxTraffic = 3
CONSTRAINT Focus
INVARIANTS
  TypeOK
  HandoverIsSeamless
  
  StreamsAreWellFormed
  ConversationIsCarried
PROPERTIES
  NothingReopens
  EverythingEnds
CHECK_DEADLOCK FALSE
