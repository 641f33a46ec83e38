SPECIFICATION Spec
CONSTANTS
  web = web  db = db
  a1 = a1  a2 = a2  a3 = a3
  Analyses = {a1}
  Past = {}
  Requests <- EveryRequest
  Policies <- DefaultOrLax
  Services <- MCServices
  Namespaces <- MCNamespaces
  AnyService = AnyService
  Upstream <- WebNeedsDb
  Frozen = {db}
  CriticalServices = {}
  Bucket = 2
  CascadeWindow = 3
  ChainWindow = 3
  RateWindow = 3
  LoopWindow = 4
  BudgetWindow = 10
  EscalateAt = 2
  FreezeAt = 3
  ZThreshold = 2
  StoreMayFail = TRUE
  MaxFaults = 1
  MaxTime = 0
CHECK_DEADLOCK FALSE
INVARIANTS TypeOK DestructiveNeedsEvidence PermittedMeanwhile GatedOrOverridden
