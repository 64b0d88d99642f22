SPECIFICATION FairSpec
CONSTANTS
  f1 = f1
  f2 = f2
  m = m
  x = x
  Catalogue <- AllLists
  Filter = {f1, f2}
  First = f1
  Mine = {m}
  Theirs = {x}
  None = None
  MaxPicks = 2
  MaxFails = 1
  MaxReads = 3
INVARIANT SettledRight
PROPERTIES SpinnerEnds 
CHECK_DEADLOCK FALSE
