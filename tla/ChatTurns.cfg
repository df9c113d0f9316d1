CONSTANTS
  t1 = t1
  t2 = t2
  t3 = t3
  u1 = u1
  u2 = u2
  NoMessage = NoMessage
  Turns = {t1, t2}
  Users = {u1, u2}
  Owner = u1
  TTL = 2
  Lifetime = 1
  MaxNow = 3
SPECIFICATION Spec
SYMMETRY TurnSymmetry
CHECK_DEADLOCK FALSE
INVARIANTS
  TreeStaysConnected
  LiveTurnKeepsItsClaim
  OneSendPerParent
  CrashBlocksNobody
  
