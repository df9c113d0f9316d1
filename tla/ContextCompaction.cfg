CONSTANTS
  w1 = w1
  NoMessage = NoMessage
  Workers = {w1}
  MaxMessages = 6
  MaxVersion = 2
  Edited = {1, 2}
  Interrupted = {2, 4}
SPECIFICATION CompactionSpec
CHECK_DEADLOCK FALSE
INVARIANTS
  SummariesAreCurrent
  NothingIsSkipped
PROPERTIES
  NoBranchLosesItsSummary
