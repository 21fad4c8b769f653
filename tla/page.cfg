CONSTANTS
  MaxAttempts = 2
  MaxTurns = 3
  MaxBlocks = 2
  MaxWords = 2
  MaxWire = 2
  MaxFaults = 1
  MaxChunks = 2
SPECIFICATION Spec
CONSTRAINT Focus
INVARIANTS TypeOK AnswersFitTheirQuestions TurnIsTheTurns
PROPERTIES ReasonIsKept MicIsReleased
CHECK_DEADLOCK FALSE
