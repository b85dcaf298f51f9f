\* A handler is cut short between the claim and the seat.
SPECIFICATION FairSpec
CONSTANTS
  Orders = {o1}
  Attempts = {a1, a2}
  Handlers = {h1}
  Worker = w
  TestAttempts = {}
  MaxCrashes = 1
  None = None
PROPERTIES ChargedOrderServed
CHECK_DEADLOCK FALSE
