\* A campaign of two targets and one manager.
CONSTANTS
    m1 = m1
    m2 = m2
    t1 = t1
    t2 = t2
    Managers <- MCManagers1
    Targets <- MCTargets2
    NumStages = 2
    MaxRev = 1
SPECIFICATION Spec
CHECK_DEADLOCK FALSE
INVARIANT TerminalQuiet
PROPERTY FailedStopsAdmission
SYMMETRY MCSymT
