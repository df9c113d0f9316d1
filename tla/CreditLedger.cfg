CONSTANTS
  u1 = u1
  u2 = u2
  k1 = k1
  k2 = k2
  g1 = g1
  Users = {u1, u2}
  Groups = {g1}
  Keys = {k1, k2}
  Amounts = {2}
  Configs <- TwoConfigs
  TTL = 1
  MaxMicros = 4
  MaxNow = 2
  MaxAnchor = 2
  MaxLedger = 3
SPECIFICATION Spec
SYMMETRY KeyAndUserSymmetry
CHECK_DEADLOCK FALSE
INVARIANTS
  ChargedOnce
  HoldGuaranteesSettlement
  TimedWithinAllowance
PROPERTIES
  HoldsStayCovered
