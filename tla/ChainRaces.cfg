SPECIFICATION Spec
CONSTANTS
  web = web  db = db
  a1 = a1  a2 = a2  a3 = a3
  Analyses = {a1, a2, a3}
  Past = {}
  Requests <- WebOrDb
  Policies <- TightOnly
  Services <- MCServices
  Namespaces <- MCNamespaces
  AnyService = AnyService
  Upstream <- WebNeedsDb
  Frozen = {db}
  CriticalServices = {}
  Bucket = 2
  CascadeWindow = 3
  ChainWindow = 3
  RateWindow = 2
  LoopWindow = 4
  BudgetWindow = 10
  EscalateAt = 2
  FreezeAt = 3
  ZThreshold = 2
  StoreMayFail = TRUE
  MaxFaults = 2
  MaxTime = 3
CHECK_DEADLOCK FALSE
SYMMETRY Interchangeable
INVARIANTS OnePerBucket LockedUnlessFailed RunsAreBounded
