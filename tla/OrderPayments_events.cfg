\* Events may be lost, or repeated until answered; one handler cut short.
SPECIFICATION LossySpec
CONSTANTS
  Orders = {o1}
  Attempts = {a1, a2}
  Handlers = {h1}
  Worker = w
  TestAttempts = {}
  MaxCrashes = 1
  None = None
PROPERTIES BookedMoneySettles PaidPageSettlesWithoutEvent StaleOrderEnds SettledIsServed ChargedOrderSettles
CHECK_DEADLOCK FALSE
