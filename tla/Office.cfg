CONSTANTS
  h1 = h1 h2 = h2 u1 = u1 u2 = u2 p1 = p1 p2 = p2 c1 = c1 k1 = k1
  None = None
  User = {u1, u2}
  Company = {h1, h2}
  Demo = h1
  TokenManager = {}
  StartRole <- Starts
  Proc = {p1, p2}
  MaxRequests = 4
  Home = h1
  Client = {c1}
  Task = {k1}
  Email = {"e"}
  Lists = {{u1}, {u2}}
  Sent = {{"start"}, {"end"}, {"completed"}, {"customer", "assigned"}}
  MaxTime = 2
SPECIFICATION Spec
CHECK_DEADLOCK FALSE
SYMMETRY ProcSymmetry
INVARIANTS
  TasksEndAfterTheyStart
  AssigneesAreOneRequests
  
  RemovedClientsHaveNoTasks
PROPERTY AdminsStay
