SPECIFICATION Spec
CONSTANTS
  p1 = p1  p2 = p2  p3 = p3
  j1 = j1  j2 = j2
  Pods = {p1, p2}
  Jobs = {j1}
  Documented = {j1}
  NoPod = NoPod
  NoJob = NoJob
  ClaimLimit = 1
  LeaseTTL = 2
  OrphanAge = 3
  VerifyDelay = 4
  SweepInterval = 1
  StoreMayFail = FALSE
  MaxFaults = 0
PROPERTIES VerifiedOnce
