SPECIFICATION FairSpec
CONSTANTS
  s1 = s1
  Service = {s1}
  Order = {o1, o2}
  Plan <- CarryOvers
  Volume = {0, 1}
  Job = {j1, j2}
  MaxFaults = 1
  MaxCount = 1
  None = None
INVARIANTS
  CompletedIsDelivered
PROPERTIES
  AppliedIsOnPanel
  EndedIsRenewed
CHECK_DEADLOCK FALSE
