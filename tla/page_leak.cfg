CONSTANTS
  MaxAttempts = 1
  MaxTurns = 1
  MaxBlocks = 1
  MaxWords = 1
  MaxWire = 1
  MaxFaults = 0
  MaxChunks = 1
SPECIFICATION Spec
INVARIANTS NoMicBehindThePage
CHECK_DEADLOCK FALSE
