\* Two handlers at a time through every door.
SPECIFICATION Spec
CONSTANTS
  u1 = u1
  u2 = u2
  u3 = u3
  u4 = u4
  o1 = o1
  o2 = o2
  o3 = o3
  Users = {u1, u2}
  Orders = {o1}
  Buyer <- One
  Handlers = {h1, h2}
  Doors = {"request", "plan", "approve", "reject", "checkout", "cancel", "settle", "late", "staff", "override", "drop", "bar"}
  Cap = 1
  MaxStaff = 1
  None = None
SYMMETRY Symmetry
INVARIANTS TypeOK HeldForLiveOrder
CHECK_DEADLOCK FALSE
