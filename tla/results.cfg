CONSTANTS
  q1 = q1
  q2 = q2
  Question <- Questions
  Pasts <- Histories
  Watched <- Latest
  Load = {1}
  Visit = {1, 2}
  MaxFaults = 1
  MaxExpired = 1
  MinSessions = 2
  MaxTrends = 3
  MaxItems = 3
  Epsilon = 5
  Unrecorded = Unrecorded
  Nothing = Nothing
SPECIFICATION FairSpec
CONSTRAINT Focus
INVARIANTS TypeOK ResultsAddUp CoachIsSound
PROPERTY ScoringEndsUndisturbed
CHECK_DEADLOCK FALSE
