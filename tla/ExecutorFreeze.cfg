SPECIFICATION Spec
CONSTANTS
  x1 = x1  i1 = i1
  Actions = {x1}
  IncidentOf <- MCIncidentOf
  Kinds = {"restart_pod", "scale_up"}
  Images = {"v1", "v2"}
  FirstSpecs <- OneReplica
  MaxReplicas = 2
  ScaleTo = 2
  PollMax = 2
  RenewEvery = 1
  WaitMax = 1
  MaxFaults = 0
CHECK_DEADLOCK FALSE
INVARIANTS FailedRollbackFreezes
