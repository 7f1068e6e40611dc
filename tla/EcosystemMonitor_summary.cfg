SPECIFICATION Spec

CONSTANTS
  s1 = s1
  s2 = s2
  h1 = h1
  h2 = h2
  Services <- TwoServices
  ConfigServices <- OneService
  Handlers <- OneHandler
  Housekeeper = housekeeper
  Modes <- UpDownModes
  ClientTimeout = 1
  ServiceTimeout = 1
  WriteTimeout = 1
  Interval = 3
  SinceCap = 8

INVARIANTS
  CollectedIsRecent
  HealthyAnswerJustified
  CallBound
