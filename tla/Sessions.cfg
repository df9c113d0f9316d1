CONSTANTS
  r1 = r1
  r2 = r2
  j1 = j1
  j2 = j2
  k1 = k1
  l1 = l1
  None = None
  Requests = {r1, r2}
  Jtis = {j1, j2}
  Tickets = {k1}
  Links = {l1}
  MaxVersion = 2
  MaxAdmin = 1
  MaxSecrets = 1
SYMMETRY Symmetric
SPECIFICATION Spec
CHECK_DEADLOCK FALSE
INVARIANTS
  LiveSessionsAreCurrent
PROPERTIES
  SignInsAreCurrent
  RefusedForGood
  
