SPECIFICATION Spec
SYMMETRY Symmetry
CHECK_DEADLOCK FALSE
CONSTANTS
  o1 = o1
  o2 = o2
  o3 = o3
  Op = {o1, o2, o3}
  Kind <- Kinds
  Day = 2
  Zones <- MCZones
  Timeout = 1
  MaxSpan = 3
  PageSize = 2
  Queries <- Lists
  MaxTime = 2
  MaxStatements = 2
INVARIANTS
  WalkErrsForAReason
  PastPeriodsAreFinal
  OnExactlyOneDay
  BalanceExplained
