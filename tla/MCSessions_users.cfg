CONSTANTS
  c1 = c1
  c2 = c2
  c3 = c3
  alice = alice
  bob = bob
  aliceTyped = aliceTyped
  bobTyped = bobTyped
  BobTyped = BobTyped
  p = p
  q = q
  pp = pp
  t1 = t1
  t2 = t2
  t3 = t3
  t4 = t4
  Nobody = Nobody
  NoToken = NoToken
  NoPassword = NoPassword
  Call = {c1, c2, c3}
  Address = {aliceTyped, bobTyped, BobTyped}
  User = {alice, bob}
  Lower <- MCLower
  Password = {p, q, pp}
  Hash <- MCHash
  Token = {t1, t2, t3, t4}
  Enrolled = {alice}
  First <- MCFirst
  Issued = {t1}
  IssuedTo <- MCIssuedTo
  Workload <- MCWorkload
  MaxCrashes = 1
SPECIFICATION SessionsSpec
SYMMETRY Symmetry
INVARIANTS
  SessionsStayPut
  OneRegistrationWins
  RotatedTokenRefused
  NoSessionLostQuietly
CHECK_DEADLOCK FALSE
