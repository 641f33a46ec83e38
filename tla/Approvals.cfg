SPECIFICATION Spec
CONSTANTS
  Services <- FourServices
  Replicas = {r1, r2}
  Analyses = {a1, a2}
  Requests <- TwoRequests
  Maps <- TwoMaps
  Registries <- TwoMaps
  CriticalServices = {"web"}
  CacheTTL = 2
  ExpirySeconds = 1
  MaxTime = 3
  MaxFaults = 1
  MaxEdits = 1
SYMMETRY Perms
INVARIANTS TypeOK OnlyRestartForgets UnseenIsLocal
PROPERTY HumanDecides
CHECK_DEADLOCK FALSE
