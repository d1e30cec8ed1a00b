CONSTANTS
  None = None
  w = w w1 = w1 w2 = w2 j1 = j1 j2 = j2 p1 = p1 p2 = p2
  Job = {j1, j2}
  Worker = {w}
  Proc = {p1, p2}
  Calendars <- SomeCalendars
  Changes = {"CANCELED"}
  Day = 2
  Days = 3
  Ttl = 2
  Heavy = 2
  Many = 2
  UnpaidAge = 1
  First = 3
  Last = 5
  MaxChanges = 1
SPECIFICATION ReadsSpec
SYMMETRY Symmetry
CHECK_DEADLOCK FALSE
INVARIANTS
  WorkerSlotsAreExact
  ReservationsCanBeServed
  BriefingsAreRecent
  OverloadedIsOfOneDay
