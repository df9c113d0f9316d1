CONSTANTS
  j1 = j1
  j2 = j2
  j3 = j3
  j4 = j4
  w1 = w1
  w2 = w2
  Jobs = {j1, j2, j3, j4}
  Pool = {w1, w2}
  Buffer = 2
SPECIFICATION QueueSpec
CHECK_DEADLOCK FALSE
INVARIANTS
  EachJobInOnePlace
PROPERTIES
  CloseReturns
  QueuedJobEnds
