SPECIFICATION Spec
CONSTANTS
  l1 = l1
  l2 = l2
  l3 = l3
  Links = {l1, l2, l3}
  p1 = p1
  Phones = {p1}
  u1 = u1
  Users = {u1}
  None = None
  MaxFailures = 1
  MaxStarts = 2
  EarlyLeave = TRUE
INVARIANTS PairedEndsOpen
CHECK_DEADLOCK FALSE
