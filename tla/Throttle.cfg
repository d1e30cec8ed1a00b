CONSTANTS
  p1 = p1
  p2 = p2
  Served = {p1, p2}
  Limit = 2
  Window = 2
  Block = 3
  MaxFailures = 2
SPECIFICATION ThrottleFairSpec
INVARIANTS
  CountersExpire
PROPERTY CallerGetsThrough
