CONSTANTS
  k1 = k1
  k2 = k2
  alice = alice
  p = p
  t0 = t0
  t1 = t1
  t2 = t2
  Nobody = Nobody
  NoToken = NoToken
  NoPassword = NoPassword
  NoCredentials = NoCredentials
  Task = {k1, k2}
  Call <- MCCall
  Wishes <- EveryWish
  Credentials <- MCCredentials
  Address = {alice}
  User = {alice}
  Lower <- MCLower
  Password = {p}
  Hash <- MCHash
  Token = {t0, t1, t2}
  Enrolled = {alice}
  First <- MCFirst
  Issued = {t0}
  IssuedTo <- MCIssuedTo
  Workload <- MCWorkload
  MaxCrashes = 1
SPECIFICATION Spec
SYMMETRY Symmetry
INVARIANTS
  OneRefreshAtATime
  CarriedOutOnce
  NotStranded
PROPERTIES
  SessionsSpec
CHECK_DEADLOCK FALSE
