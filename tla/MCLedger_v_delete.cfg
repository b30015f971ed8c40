CONSTANTS
  r1 = r1
  r2 = r2
  r3 = r3
  alice = alice
  bob = bob
  Nobody = Nobody
  Request = {r1, r2}
  Account = {3}
  User <- MCUser
  Owner <- MCOwner
  MaxBalance = 3
  Workload <- DeleteRaceWork
  Opened = {3}
  Opening <- MCOpening
  MaxCrashes = 0
SPECIFICATION Spec
SYMMETRY RequestSymmetry
INVARIANTS
  NoMoneyDeleted
CHECK_DEADLOCK FALSE
