\* One order; two hosted attempts or one of the test provider's; two requests and the
\* worker; one handler cut short.
SPECIFICATION Spec
CONSTANTS
  Orders = {o1}
  Attempts = {a1, a2, a3}
  Handlers = {h1, h2}
  Worker = w
  TestAttempts = {a3}
  MaxCrashes = 1
  None = None
SYMMETRY Symmetry
CONSTRAINT OneProvider
INVARIANTS SettledOnce LedgerAgrees SettledOnMoney
PROPERTY KeepsLifecycle
CHECK_DEADLOCK FALSE
