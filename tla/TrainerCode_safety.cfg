\* Two purchases of one learner, two statements for two cohorts, two handlers.
SPECIFICATION Spec
CONSTANTS
  u1 = u1
  u2 = u2
  o1 = o1
  o2 = o2
  o3 = o3
  c1 = c1
  c2 = c2
  Users = {u1, u2}
  Orders = {o1, o2}
  Buyer <- Twice
  Limit = 1
  Amount = 2
  Cohorts = {c1, c2}
  Fee <- Fees
  Statements = {s1, s2}
  Handlers = {h1, h2}
  None = None
SYMMETRY Symmetry
INVARIANTS UsesCounted PaidUseRecorded DebtConserved DeductedOnce
CHECK_DEADLOCK FALSE
