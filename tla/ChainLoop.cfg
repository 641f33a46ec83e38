SPECIFICATION Spec
CONSTANTS
  web = web  db = db
  a1 = a1  a2 = a2  a3 = a3  a0 = a0
  Analyses = {a1, a2, a3, a0}
  Past = {a1, a2, a3}
  Requests <- WebCrashes
  Policies <- DefaultOnly
  Services <- MCServices
  Namespaces <- MCNamespaces
  AnyService = AnyService
  Upstream <- WebNeedsDb
  Frozen = {}
  CriticalServices = {}
  Bucket = 2
  CascadeWindow = 3
  ChainWindow = 3
  RateWindow = 20
  LoopWindow = 120
  BudgetWindow = 10
  EscalateAt = 3
  FreezeAt = 5
  ZThreshold = 2
  StoreMayFail = FALSE
  MaxFaults = 0
  MaxTime = 2
CHECK_DEADLOCK FALSE
INVARIANTS LoopBroken
