SPECIFICATION Spec
CONSTANTS
  t1 = t1
  t2 = t2
  r1 = r1
  r2 = r2
  admin = admin
  manager = manager
  clerk = clerk
  s1 = s1
  s2 = s2
  None = None
  Tabs = {t1, t2}
  Reqs = {r1, r2}
  Accounts = {admin, manager, clerk}
  Users = {admin}
  Rank <- MCRank
  AdminRank = 2
  Sessions = {s1, s2}
  MaxEpoch = 0
  MaxCalls = 2
PROPERTY OriginalSurvives
CHECK_DEADLOCK FALSE
