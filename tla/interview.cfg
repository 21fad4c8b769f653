\* Two tabs race for two sessions without failures, one tab alone meets
\* failures, a crash, repeated writes and the erasure mark, and the admin page
\* grants allowances.
SPECIFICATION ConsoleSpec
CONSTANTS
  c1 = c1
  c2 = c2
  s1 = s1
  s2 = s2
  mine = mine
  twin = twin
  solo = solo
  shared = shared
  lone = lone
  nobody = nobody
  Conn = {c1, c2}
  Session = {s1, s2}
  NoSession = none
  Unlimited = unlimited
  Allowance = {2, unlimited}
  DefaultLimit = 1
  MaxAttempts = 2
  MaxExchanges = 3
  Scoreable = {1, 3}
  Erasable = TRUE
  MaxFaults = 2
  MaxResends = 1
  User <- ThreeUsers
  Mine = mine
  Email <- Addresses
  EmailOf <- AddressOf
  Onboarded = {mine, twin}
  FirstPage = {mine, solo}
  None = none
  MaxGrants = 2
  MaxLoads = 3
  MaxSlips = 1
  Window = {1, 24}
  MaxReads = 3
CONSTRAINT Focus
INVARIANTS
  TypeOK
  CounterIsHonest
  CounterMatchesRecords
  OneConnectionPerSession
  AnswersReachScoring
  ConsoleTellsTheTruth
PROPERTIES
  LeavesInProgress
  GrantsHitOneAccount
CHECK_DEADLOCK FALSE
