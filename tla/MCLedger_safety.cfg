CONSTANTS
  r1 = r1
  r2 = r2
  r3 = r3
  alice = alice
  bob = bob
  Nobody = Nobody
  Request = {r1, r2, r3}
  Account = {1, 2, 3}
  User <- MCUser
  Owner <- MCOwner
  MaxBalance = 3
  Workload <- SafetyWork
  Opened = {1, 2}
  Opening <- MCOpening
  MaxCrashes = 0
SPECIFICATION Spec
SYMMETRY RequestSymmetry
INVARIANTS
  BalancesInColumn
  DeadlocksNeedBulk
  AuditTrail
  JournalKept
PROPERTIES
  RecordTellsBalance
CHECK_DEADLOCK FALSE
