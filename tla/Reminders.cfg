SPECIFICATION FairSpec
CONSTANTS
  Job = {j1}
  Proc = {p1}
  None = None
  Definitions <- OneKind
  Offset <- Offsets
  Start = {2, 3}
  MaxTime = 3
  MAX_ATTEMPTS = 2
  EditStatus = {"CANCELED", "NO_SHOW"}
  MaxOps = 3
  MaxDeaths = 1
  MaxWorkerDeaths = 1
INVARIANTS
  
  
  
  ShownWasSent

  
CHECK_DEADLOCK FALSE
