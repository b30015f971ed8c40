CONSTANTS
  r1 = r1
  r2 = r2
  r3 = r3
  alice = alice
  bob = bob
  Nobody = Nobody
  Request = {r1, r2}
  Account = {1, 2, 3, 4}
  User <- MCUser
  Owner <- MCOwner
  MaxBalance = 3
  Workload <- BankWork
  Opened = {1, 2, 3}
  Opening <- MCOpening
  MaxCrashes = 1
SPECIFICATION FairSpec
PROPERTIES
  BankSpec
  EveryRequestAnswered
CHECK_DEADLOCK FALSE
