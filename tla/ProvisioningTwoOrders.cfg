SPECIFICATION Spec
CONSTANTS
  Order = {o1, o2}
  User = {u1, u2}
  Name = {n1, n2}
  Row = {r1, r2}
  Worker = {w1}
  Foreign = Foreign
  None = None
  OnDemand = FALSE
  StaffRename = TRUE
  VoidActions = {"delete"}
SYMMETRY Symmetry
INVARIANT
  ServiceIsTheBuyers
CHECK_DEADLOCK FALSE
PROPERTY
  LinksOwn
