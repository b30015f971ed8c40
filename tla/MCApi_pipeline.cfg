SPECIFICATION Spec
SYMMETRY Symmetry
CHECK_DEADLOCK FALSE
CONSTANTS
  r1 = r1
  r2 = r2
  r3 = r3
  a1 = a1
  boss = boss
  clerk = clerk
  Nobody = Nobody
  Request = {r1, r2, r3}
  Workload <- MCWorkload
  Address = {a1}
  Credential = {boss, clerk}
  Admin = {boss}
  MaxRequests = 1
  MaxAuth = 1
INVARIANTS
  AccessFollowsRole
  SdkReachesItsHandler
  CheckedWhenServed
  HeldIsBounded
