\* Two tabs, one a candidate's with a second factor and one of Google's, two sessions.
SPECIFICATION BrowserSpec
CONSTANTS
  PasswordTab = t1
  GoogleTab = t2
  Tab = {t1, t2}
  Native = {n1}
  Federated = {g1}
  Protected = {n1}
  None = none
  MaxSessions = 2
  MaxFaults = 1
  Panel = {p1, p2}
  p1 = p1
  p2 = p2
  MaxSecrets = 2
  MaxMishaps = 1
CONSTRAINT Focus
INVARIANTS
  TypeOK
  TabsMatchTheJar
  FactorIsUsable
PROPERTIES
  StaysSignedIn
  EveryCallSettles
CHECK_DEADLOCK FALSE
