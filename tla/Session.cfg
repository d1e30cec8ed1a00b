CONSTANTS
  t1 = t1 t2 = t2 r1 = r1 r2 = r2
  Tab = {t1, t2}
  Req = {r1, r2}
  TabsOf <- Tabs
  MaxLogins = 2
  MaxLogouts = 1
  MaxFaults = 1
SPECIFICATION FairSpec
INVARIANTS
  SessionCarriesRequests
  LoggedOutStaysOut
PROPERTIES
  RequestsSettle
