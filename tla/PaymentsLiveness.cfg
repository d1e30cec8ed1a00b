CONSTANTS
  j1 = j1
  j2 = j2
  k1 = k1
  k2 = k2
  p1 = p1
  p2 = p2
  None = None
  Key = {k1}
  JobOf <- JobOfOne
  Proc = {p1, p2}
  Job = {j1}
  PublicJob = {j1}
  Price = {1}
  LineItemTotal = {}
  StripeBehaviour = {"decline", "async"}
  MaxDeaths = 2
SPECIFICATION FairSpec
CHECK_DEADLOCK FALSE
PROPERTY EveryPaymentIsCredited
