SPECIFICATION Spec
CONSTANTS
  Services <- FourServices
  Replicas = {r1}
  Analyses = {a1}
  Requests <- TwoRequests
  Maps <- TwoMaps
  Registries <- TwoMaps
  CriticalServices = {"web"}
  CacheTTL = 2
  ExpirySeconds = 1
  MaxTime = 3
  MaxFaults = 1
  MaxEdits = 0
PROPERTY StaticIsRegistry
CHECK_DEADLOCK FALSE
