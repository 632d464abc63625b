\* Two targets, one of which completes before the other fails.
CONSTANTS
    m1 = m1
    m2 = m2
    t1 = t1
    t2 = t2
    Managers <- MCManagers1
    Targets <- MCTargets2
    NumStages = 1
    MaxRev = 0
SPECIFICATION FairSpec
CHECK_DEADLOCK FALSE
PROPERTY FailureReported
