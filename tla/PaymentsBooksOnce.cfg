CONSTANTS
  j1 = j1
  j2 = j2
  k1 = k1
  k2 = k2
  p1 = p1
  p2 = p2
  None = None
  Key = {k1, k2}
  JobOf <- JobOfShared
  Proc = {p1}
  Job = {j1, j2}
  PublicJob = {j1}
  Price = {1, 2}
  LineItemTotal = {0, 3}
  StripeBehaviour = {}
  MaxDeaths = 2
SPECIFICATION Spec
CHECK_DEADLOCK FALSE
PROPERTY BooksEachPaymentOnce
 
