SPECIFICATION Spec

CONSTANTS
  c1 = c1
  c2 = c2
  r1 = r1
  r2 = r2
  r3 = r3
  Clients <- MCClients
  Requests <- MCRequests
  ClientOf <- MCClientOf
  Audited = c1
  Free = Free
  Minute = 3
  RequestsPerMinute = 2
  BurstSize = 2
  EvictAge = 3
  SweepPeriod = 2
  MaxLag = 1
  MaxWindow = 5
  SinceCap = 0

INVARIANTS
  TypeOK
  HeldBucketIsLive
  NoStaleBucket
  WindowBound

PROPERTIES
  ImplementsBudget
