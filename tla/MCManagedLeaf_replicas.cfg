\* Two replicas of the manager, one of which may be deposed, and one leaf, under
\* the fairness of the requeue.
CONSTANTS
    m1 = m1
    m2 = m2
    t1 = t1
    t2 = t2
    Managers <- MCManagers2
    Targets <- MCTargets1
    NumStages = 1
    MaxRev = 1
SPECIFICATION MCFairSpec
CHECK_DEADLOCK FALSE
INVARIANTS TypeOK ClaimBacked GrantBacked
PROPERTIES CancelIsFinal CancellationConverges
