\* The model stops when every order has been placed and closed.
SPECIFICATION FairSpec
CHECK_DEADLOCK FALSE
CONSTANTS
  Order = {o1, o2}
  User = {u1}
  Amount = {a1, a2}
  gold = gold
  silver = silver
  Item = {gold, silver}
  Renewal = {gold, silver}
  About <- OneService
  Code = {}
  NoCode = NoCode
  NoInvoice = NoInvoice
  NoAmount = NoAmount
  NoOrder = NoOrder
  Worker = {w1}
PROPERTIES
  CancelledComesBackOnlyByRestore
  PaidRenewalKept
  ReservationEnds
