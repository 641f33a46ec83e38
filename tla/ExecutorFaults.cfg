SPECIFICATION FairSpec
CONSTANTS
  x1 = x1  i1 = i1
  Actions = {x1}
  IncidentOf <- MCIncidentOf
  Kinds = {"restart_pod", "rollback", "scale_up"}
  Images = {"v1", "v2"}
  FirstSpecs <- EverySize
  MaxReplicas = 3
  ScaleTo = 2
  PollMax = 3
  RenewEvery = 2
  WaitMax = 2
  MaxFaults = 2
CHECK_DEADLOCK FALSE
INVARIANTS TypeOK RestoreExact PatientRollback
PROPERTIES OnlyMovesOn PollEnds
