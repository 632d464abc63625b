\* Two records of another release at risk at once, or one of them and a new
\* action, with one fault, under the fairness of the work queues.
CONSTANTS
    u1 = u1
    w1 = w1
    None = None
    Actions = {1, 2}
    Legacy = {1}
    Upgrades = {u1}
    Writers = {}
    Procs = {p1}
    Kind <- MCKinds
    MaxFaults = 1
SPECIFICATION MCFairSpec
CHECK_DEADLOCK FALSE
PROPERTIES EveryRecordEnds DeletionCompletes
