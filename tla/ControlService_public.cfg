SPECIFICATION Spec
CONSTANTS
  a = a
  b = b
  k1 = k1
  k2 = k2
  Users = {a, b}
  Secrets = {k1, k2}
  Requests = {r1}
  Configs <- MCConfigs
  Routes = {"health", "login"}
  NoToken = NoToken
  Expiry = 1
  MaxCount = 1
  SinceCap = 1
INVARIANTS
  PublicRoutesAreOpen
