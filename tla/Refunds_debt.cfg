\* Two partial refunds, nothing lost.
SPECIFICATION Spec
CONSTANTS
  p1 = p1
  p2 = p2
  o1 = o1
  o2 = o2
  Orders = {o1}
  Payments = {p1}
  OrderOf <- OnlyOne
  Refunds = {r1, r2}
  Price = 3
  Handlers = {h1, h2}
  MaxCuts = 0
  None = None
SYMMETRY Symmetry
INVARIANTS DebtFollowsRefunds
CHECK_DEADLOCK FALSE
