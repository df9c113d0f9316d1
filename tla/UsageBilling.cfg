CONSTANTS
  r1 = r1
  r2 = r2
  Requests = {r1, r2}
  Estimates = {0, 1, 3}
  Actuals = {1, 3}
  Quotas <- SmallQuotas
  DailyLimit = 3
  Day = 2
  Period = 1
  MaxNow = 2
  MaxAnchor = 3
SYMMETRY Symmetric
SPECIFICATION Spec
CHECK_DEADLOCK FALSE
INVARIANTS
  FreeUseIsCapped
  DailyTokensAreCapped
  SettledIsPaid
  HoldsFollowTheWork
