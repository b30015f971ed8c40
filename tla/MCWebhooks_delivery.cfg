CONSTANTS
  s1 = s1
  s2 = s2
  e1 = e1
  Subscription = {s1, s2}
  Event = {e1}
  Matches <- BothMatch
  MaxCrashes = 1
SPECIFICATION FairSpec
INVARIANTS
  HistoryIsTrue
  OneLatePost
  MissedForAReason
PROPERTIES
  NoRepeatAfterSuccess
  DeliverySpec
  EveryDeliverySettles
CHECK_DEADLOCK FALSE
