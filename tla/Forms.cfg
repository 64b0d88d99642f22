SPECIFICATION FairSpec
CONSTANTS
  plain = plain
  rest = rest
  secret = secret
  m1 = m1
  m2 = m2
  Catalogue <- AllForms
  Plain = plain
  Rest = rest
  Secret = secret
  Own = {m1, m2}
  Usual = m1
  Old = Old
  Theirs = Theirs
  Blank = Blank
  Unsent = Unsent
  None = None
  MaxClicks = 2
  MaxFails = 2
  MaxEdits = 1
INVARIANT NothingTwice
PROPERTIES OnlyEditedChanges ClosedMeansSaved SaveEnds
CHECK_DEADLOCK FALSE
