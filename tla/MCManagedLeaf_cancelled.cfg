\* A campaign is cancelled, with one leaf of two stages.
CONSTANTS
    m1 = m1
    m2 = m2
    t1 = t1
    t2 = t2
    Managers <- MCManagers1
    Targets <- MCTargets1
    NumStages = 2
    MaxRev = 1
SPECIFICATION FairSpec
CHECK_DEADLOCK FALSE
PROPERTY CancellationCompletes
