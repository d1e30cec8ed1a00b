CONSTANTS
  j = j t = t k = k m1 = m1 m2 = m2 t1 = t1 t2 = t2 a = a b = b x = x y = y
  List = {"jobs", "tasks"}
  Item = {j, t}
  Job = {j}
  ListOf <- DayLists
  Mutation = {m1, m2}
  Time = {1, 2}
  View <- Pages
  BoardLimits <- Boards
  Tab = {t1, t2}
  Company = {a, b}
  ServicesOf <- Services
  SlotsOf <- Offered
  MaxIntents = 2
  WizardLimits <- Wizards
  GridJob = {j, k}
  GridTask = {t}
  Day = 6
  Step = 2
  Zones <- ClockChanges
  Spans <- DragSpans
  Lengths = {2}
  ServerAgrees = FALSE
  Pointer <- Moves
  MaxDrops = 2
  Record = {x, y}
  MaxSaves = 2
  FormsLimits <- ClientForms
SPECIFICATION Spec
CHECK_DEADLOCK FALSE
SYMMETRY RowsAlike
INVARIANTS
  
  PostsAreComplete
  PaidIsNotOffered
  LanesAreApart
  OwnSavesSurvive
  SavesFitTheirRow
PROPERTY CardsStayWhereDropped
