SPECIFICATION FairSpec
CONSTANTS
    Workers = {w1, w2}
    MaxJobs = 2
    MaxDeliveries = 3
    MaxTexts = 3
CHECK_DEADLOCK FALSE
INVARIANTS
    OneActiveJob
PROPERTIES
    SweepSparesFinished
    ActiveJobEnds
