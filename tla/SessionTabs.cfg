SPECIFICATION FairSpec
CONSTANTS
  t1 = t1
  t2 = t2
  r1 = r1
  r2 = r2
  Tabs = {t1, t2}
  Accounts = {a}
  NoOne = NoOne
  Me = me
  Calls = {me, r1, r2}
  Reqs <- CallsOfTabs
  MeTries = 1
  MaxIssue = 2
INVARIANTS SpentOnce RelaunchOnce
PROPERTIES NothingHangs
CHECK_DEADLOCK FALSE
