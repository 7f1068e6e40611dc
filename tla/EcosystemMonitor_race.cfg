SPECIFICATION Spec

CONSTANTS
  s1 = s1
  s2 = s2
  h1 = h1
  h2 = h2
  Services <- OneService
  ConfigServices <- OneService
  Handlers <- TwoHandlers
  Housekeeper = housekeeper
  Modes <- AllModes
  ClientTimeout = 1
  ServiceTimeout = 1
  WriteTimeout = 1
  Interval = 3
  SinceCap = 8

SYMMETRY HandlerSymmetry

INVARIANTS
  TypeOK
  CollectedIsRecent
  VerdictWasSeen
  StatusAgeBound
  AccurateInTime

PROPERTIES
  ImplementsBoard
