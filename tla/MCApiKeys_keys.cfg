CONSTANTS
  c1 = c1
  c2 = c2
  c3 = c3
  alice = alice
  bob = bob
  ka = ka
  kb = kb
  kl = kl
  n1 = n1
  n2 = n2
  n3 = n3
  Nobody = Nobody
  Jwt = Jwt
  Call = {c1, c2, c3}
  User = {alice, bob}
  Key = {ka, kb, kl, n1, n2, n3}
  Prefix <- MCPrefix
  Legacy = {kl}
  Issued = {ka, kb, kl}
  Issuer <- MCIssuer
  Workload <- MCWorkload
  MaxKeys = 2
SPECIFICATION KeysSpec
SYMMETRY Symmetry
INVARIANTS
  RevokedKeyRefused
  ActiveKeyAccepted
  OvershootIsBounded
CHECK_DEADLOCK FALSE
