CONSTANTS
  c1 = c1
  c2 = c2
  p1 = p1
  p2 = p2
  d1 = d1
  kb = kb
  Job = Job
  Sweeper = Sweeper
  NoPath = NoPath
  Paths = {p1, p2}
  Conversations = {c1, c2}
  First = c1
  FirstPath = p1
  Library = kb
  Deleters = {d1}
  Postgres = FALSE
  AtOnce = 1
  MaxFailures = 1
  MaxCrashes = 1
SPECIFICATION Spec
CHECK_DEADLOCK FALSE
INVARIANTS
  ReferencedBytesExist
  DeletionsAreRemembered
PROPERTIES
  OrphansAreRemoved
