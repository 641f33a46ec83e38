SPECIFICATION Spec
CONSTANTS
  web = web  db = db
  a1 = a1  a2 = a2  a3 = a3
  Analyses = {a1}
  Past = {}
  Requests <- InPayments
  Policies <- GuardedOrPassive
  Services <- MCServices
  Namespaces <- MCNamespaces
  AnyService = AnyService
  Upstream <- WebNeedsDb
  Frozen = {}
  CriticalServices = {}
  Bucket = 2
  CascadeWindow = 3
  ChainWindow = 3
  RateWindow = 20
  LoopWindow = 120
  BudgetWindow = 10
  EscalateAt = 3
  FreezeAt = 5
  ZThreshold = 2
  StoreMayFail = FALSE
  MaxFaults = 0
  MaxTime = 0
CHECK_DEADLOCK FALSE
INVARIANTS OnePolicyPermits
