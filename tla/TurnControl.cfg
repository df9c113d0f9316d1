CONSTANTS
  Scopes = {"generation", "message", "conversation"}
  Attempts = 2
  MaxChanges = 2
  MaxDeltas = 1
  BatchSize = 2
  MaxEvents = 2
SPECIFICATION ControlSpec
CHECK_DEADLOCK FALSE
INVARIANTS
  StopSparesSetup
  
PROPERTIES
  
  CancelledTurnEnds
  FollowerIsReleased
