SPECIFICATION FairSpec
CONSTANT Services = {s1, s2, s3}
INVARIANTS TypeOK NobodyLost ExpandedAsReached ScoreIsReach
PROPERTY Terminates
CHECK_DEADLOCK FALSE
