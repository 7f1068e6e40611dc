SPECIFICATION FairSpec

CONSTANTS
  r1 = r1
  r2 = r2
  r3 = r3
  Requests <- MCRequests
  Grace = 2
  FlushTimeout = 2
  StopTimeout = 7

PROPERTY
  ServesOrEnds

CHECK_DEADLOCK FALSE
