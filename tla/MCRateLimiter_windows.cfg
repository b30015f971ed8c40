SPECIFICATION Spec
CHECK_DEADLOCK FALSE
CONSTANTS
  Address = {a1, a2}
  Patient = {a1}
  MaxRequests = 2
  MaxAuth = 1
  Second = 2
  WindowMs = 4
  Lag = 1
  Horizon = 9
  MaxSent = 5
INVARIANTS
  BurstIsBounded
PROPERTIES
  PatientIsAdmitted
