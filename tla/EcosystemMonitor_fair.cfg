SPECIFICATION FairSpec

CONSTANTS
  s1 = s1
  s2 = s2
  h1 = h1
  h2 = h2
  Services <- OneService
  ConfigServices <- OneService
  Handlers <- OneHandler
  Housekeeper = housekeeper
  Modes <- AllModes
  ClientTimeout = 2
  ServiceTimeout = 1
  WriteTimeout = 2
  Interval = 3
  SinceCap = 0

INVARIANTS
  StatusAgeBound

PROPERTIES
  EventuallyAccurate
  CallsReturn
