CONSTANTS
  u1 = u1
  free = free
  pro = pro
  max = max
  c1 = c1
  c2 = c2
  o1 = o1
  r1 = r1
  r2 = r2
  DefaultGroup = free
  Users = {u1}
  Groups = {free, pro, max}
  Codes = {c1, c2}
  CodeOf <- OneSlotEach
  Orders = {o1}
  BillingCycle = 1
  AdminExpiries = {0, 2}
  Requests = {r1, r2}
  MaxNow = 3
  MaxAnchor = 3
SPECIFICATION Spec
SYMMETRY Symmetry
CHECK_DEADLOCK FALSE
INVARIANTS
  TierIsEntitled
PROPERTIES
  PaidTimeIsKept
  RunningMembershipSurvivesExpiry
