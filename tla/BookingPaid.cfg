CONSTANTS
  w1 = w1
  w2 = w2
  p1 = p1
  p2 = p2
  p3 = p3
  b1 = b1
  b2 = b2
  b3 = b3
  b4 = b4
  None = None
  Job = {b1}
  Worker = {w1}
  Intent = {"i1"}
  StaffKey = {}
  Proc = {p1, p2}
  Span <- Apart
  Open <- AlwaysOpen
  EditStatus = {"CANCELED"}
  Ops = {"review", "edit", "complete", "reopen", "delete", "pay"}
SPECIFICATION FairSpec
CHECK_DEADLOCK FALSE
PROPERTY PaidBookingsStay
PROPERTY EveryDraftIsAnswered
