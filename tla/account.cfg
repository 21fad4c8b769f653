SPECIFICATION LimitedSpec
CONSTANTS
  r1 = r1
  r2 = r2
  r3 = r3
  s0 = s0
  Model = 1
  Request <- ThreeRequests
  FirstSession = s0
  None = None
  Role <- TwoRoles
  role1 = role1
  role2 = role2
  Casts <- SomeCasts
  Postings <- SomePostings
  CallsPerDay = 1
  RunsPerSession = 2
  LastDay = 2
  MaxFaults = 1
  MaxErasures = 2
  MaxMissed = 1
  Hit = {h1, h2, h3, h4}
  h1 = h1
  h2 = h2
  h3 = h3
  h4 = h4
  Limit = 1
  LastWindow = 2
  MaxErrors = 1
  MaxDeleted = 1
CONSTRAINT Focus
INVARIANTS TypeOK ErasureIsExact CapPerDay PlansHold LimitIsExact
PROPERTIES ErasureSticks
CHECK_DEADLOCK FALSE
