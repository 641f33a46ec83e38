SPECIFICATION FairSpec
CONSTANTS
  RawEvents <- MCEvents
  Critical <- MCCritical
  Warning <- MCWarning
  Cooldown = 3
  QueueMax = 2
  MaxConcurrent = 2
  RateLimit = 1
  Window = 1
  MaxPosted = 1
  MaxTasks = 1
INVARIANTS TypeOK QueueIsNewest PacedDispatch
PROPERTIES NothingAfterStop AnalysesStart StopCompletes
CHECK_DEADLOCK FALSE
