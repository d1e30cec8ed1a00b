CONSTANTS
  p1 = p1
  p2 = p2
  j1 = j1
  m1 = m1
  m2 = m2
  None = None
  Job = {j1}
  Member = {m1, m2}
  FirstManager = {m1}
  Proc = {p1, p2}
  Lifetime = 1
  MaxTime = 1
  MaxOps = 4
  MaxToken = 2
  MaxDeaths = 1
SPECIFICATION FairSpec
CHECK_DEADLOCK FALSE
INVARIANTS
  DueIsInInbox
  LinksWork
PROPERTIES
  DueReachesInbox
