SPECIFICATION FairPathSpec

CONSTANTS
  c1 = c1
  r1 = r1
  r2 = r2
  a = a
  k1 = k1
  Clients = {c1}
  Requests = {r1, r2}
  ClientOf <- MCClientOf
  Audited = c1
  Free = Free
  Minute = 3
  RequestsPerMinute = 1
  BurstSize = 1
  EvictAge = 1
  SweepPeriod = 2
  MaxLag = 1
  MaxWindow = 2
  SinceCap = 3
  Users = {a}
  Secrets = {k1}
  Configs <- MCConfigs
  Routes = {"service", "login"}
  NoToken = NoToken
  Expiry = 1
  MaxCount = 4
  MaxUptime = 4

INVARIANTS
  PathTypeOK
  CountedWithinRate
  EvictionWindowBound

PROPERTIES
  RefusalJustified
  ServedAgain
