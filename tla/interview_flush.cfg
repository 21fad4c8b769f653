\* One connection, no failure at all: a hot-path write meets the shutdown.
SPECIFICATION SafetySpec
CONSTANTS
  Conn = {c1}
  Session = {s1}
  NoSession = none
  Unlimited = unlimited
  Allowance = {}
  DefaultLimit = 1
  MaxAttempts = 3
  MaxExchanges = 2
  Scoreable = {1, 2}
  Erasable = FALSE
  MaxFaults = 0
  MaxResends = 0
INVARIANT
  EveryAnswerQueued
CHECK_DEADLOCK FALSE
