CONSTANTS
  r1 = r1
  r2 = r2
  r3 = r3
  Requests = {r1, r2, r3}
  Providers = {"stripe", "waffo", "epay"}
SPECIFICATION Spec
CHECK_DEADLOCK FALSE
INVARIANTS
  RecordedMeansDelivered
  ClosedWithGateway
PROPERTIES
  EPayChargeIsDelivered
  KeepsOrderPromise
