SPECIFICATION Spec
SYMMETRY Symmetry
CHECK_DEADLOCK FALSE
CONSTANTS
  u1 = u1
  u2 = u2
  w1 = w1
  w2 = w2
  m1 = m1
  b1 = b1
  p1 = p1
  unknown = unknown
  NoPayee = NoPayee
  Call = {c1, c2, c3}
  User <- Users
  Payee <- AllPayees
  GivenId <- GivenIds
  Given <- Rows
  Workload <- Requests
  MaxMethods = 1
INVARIANTS
  LateCallsRefused
  LinksAreAccountedFor
  OvershootIsBounded
