SPECIFICATION Spec
CONSTANTS
  a = a
  b = b
  k1 = k1
  k2 = k2
  Users = {a, b}
  Secrets = {k1, k2}
  Requests = {r1, r2}
  Configs <- MCConfigs
  Routes = {"config", "service", "tenants", "login"}
  NoToken = NoToken
  Expiry = 2
  MaxCount = 2
  SinceCap = 3
SYMMETRY Symmetry
INVARIANTS
  TypeOK
  CountersAgree
  RemovalTakesEffect
PROPERTIES
  AdminCallsAuthorized
