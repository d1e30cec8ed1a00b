CONSTANTS
  w1 = w1
  w2 = w2
  p1 = p1
  p2 = p2
  p3 = p3
  b1 = b1
  b2 = b2
  b3 = b3
  b4 = b4
  None = None
  Job = {b1, b2, b3, b4}
  Worker = {w1, w2}
  Intent = {"i1", "i2"}
  StaffKey = {"k1", "k2"}
  Proc = {p1, p2}
  Span <- TwoSlots
  Open <- Uneven
  EditStatus = {"SCHEDULED"}
  Ops = {}
SPECIFICATION Spec
CHECK_DEADLOCK FALSE
SYMMETRY BothSymmetry
INVARIANT CreationsNeverClash
INVARIANT CapacityIsKept
