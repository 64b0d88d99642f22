SPECIFICATION Spec
CONSTANTS
  Order = {o1}
  User = {u1}
  Name = {n1, n2, n3}
  Row = {r1, r2, r3}
  Worker = {w1, w2}
  Foreign = Foreign
  None = None
  OnDemand = FALSE
  StaffRename = FALSE
  VoidActions = {}
SYMMETRY Symmetry
INVARIANTS
  NoOrphanAccount
CHECK_DEADLOCK FALSE
