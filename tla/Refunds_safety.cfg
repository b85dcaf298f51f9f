\* Three refunds of two payments, two handlers, one lost booking for each refund.
SPECIFICATION Spec
CONSTANTS
  p1 = p1
  p2 = p2
  o1 = o1
  o2 = o2
  Orders = {o1, o2}
  Payments = {p1, p2}
  OrderOf <- OwnOrder
  Refunds = {r1, r2, r3}
  Price = 2
  Handlers = {h1, h2}
  MaxCuts = 1
  None = None
SYMMETRY Symmetry
INVARIANTS BooksWithinPayment StatusFollowsRefunds SentAccounted
CHECK_DEADLOCK FALSE
