\* The model stops when there is no room for another row.
SPECIFICATION Spec
CHECK_DEADLOCK FALSE
CONSTANTS
  Price = {1, 2}
  Amount = {2}
  MaxEntry = 3
  MaxInvoice = 2
  MaxPayment = 2
  MaxDeposit = 1
CONSTRAINT Few
INVARIANTS
  TypeOK
  PaidExactly
  NotOverspent
PROPERTIES
  ExcessOnlyUnderReview
  PaidStaysPaid
