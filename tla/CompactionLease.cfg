CONSTANTS
  w1 = w1
  w2 = w2
  c1 = c1
  c2 = c2
  Workers = {w1, w2}
  Conversations = {c1, c2}
  MaxDuration = 1
  TTL = 3
  Skew = 1
  MaxNow = 5
  MaxAttempts = 2
SPECIFICATION Spec
SYMMETRY WorkerSymmetry
CHECK_DEADLOCK FALSE
INVARIANTS
  OneSummaryAtATime
PROPERTIES
  KeepsPromise
