\* The model stops when every order has been placed and closed.
SPECIFICATION Spec
SYMMETRY Symmetry
CHECK_DEADLOCK FALSE
CONSTANTS
  Order = {o1, o2}
  User = {u1, u2}
  Amount = {a1}
  gold = gold
  silver = silver
  Item = {gold}
  Renewal = {}
  About <- OneService
  Code = {c1}
  NoCode = NoCode
  NoInvoice = NoInvoice
  NoAmount = NoAmount
  NoOrder = NoOrder
  Worker = {w1, w2}
INVARIANTS
  LockDiscipline
  OpenAmountsDistinct
  ApprovedNeverAwaitsPayment
  PaidHasPayment
PROPERTIES
  ReservationSurvivesReview
  PoolSpec
  LifeSpec
