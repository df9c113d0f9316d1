CONSTANTS
  r1 = r1
  r2 = r2
  r3 = r3
  Requests = {r1, r2}
  Providers = {"stripe"}
SPECIFICATION Spec
CHECK_DEADLOCK FALSE
INVARIANTS
  AwaitedPaymentIsDeliverable
