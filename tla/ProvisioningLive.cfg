SPECIFICATION FairSpec
CONSTANTS
  Order = {o1}
  User = {u1}
  Name = {n1, n2}
  Row = {r1, r2, r3}
  Worker = {w1}
  Foreign = Foreign
  None = None
  OnDemand = TRUE
  StaffRename = FALSE
  VoidActions = {"disable", "delete"}
PROPERTY
  PaidIsSettled
CHECK_DEADLOCK FALSE
