\* Three buyers at once for two seats; nobody is enrolled between the two counts of a check.
SPECIFICATION CalmSpec
CONSTANTS
  u1 = u1
  u2 = u2
  u3 = u3
  u4 = u4
  o1 = o1
  o2 = o2
  o3 = o3
  Users = {u1, u2, u3}
  Orders = {o1, o2, o3}
  Buyer <- OneEach
  Handlers = {h1, h2, h3}
  Doors = {"checkout", "cancel", "settle", "bar"}
  Cap = 2
  MaxStaff = 0
  None = None
SYMMETRY Symmetry
INVARIANTS PaidSeatGiven WithinCapacity
PROPERTY HoldEndsWithOrder
CHECK_DEADLOCK FALSE
