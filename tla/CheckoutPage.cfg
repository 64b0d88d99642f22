SPECIFICATION FairSpec
CONSTANTS
  gold = gold
  silver = silver
  sub = sub
  Plan = {gold}
  Service = {}
  None = None
  MaxOrders = 1
  MaxPolls = 2
  MaxQuotes = 1
  MaxLeft = 1
  MaxLoads = 2
  MaxMoves = 2
  Voiding = FALSE
INVARIANTS OneBlock SavedIsOpen ReloadKeepsInvoice
PROPERTIES StatusCatchesUp
CHECK_DEADLOCK FALSE
