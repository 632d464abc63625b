\* One process, one fault: an action, an ordinary write and what an earlier
\* release left behind share a device.
CONSTANTS
    u1 = u1
    w1 = w1
    None = None
    Actions = {1, 2, 3}
    Legacy = {1}
    Upgrades = {u1}
    Writers = {w1}
    Procs = {p1}
    Kind <- MCKinds
    MaxFaults = 1
SPECIFICATION MCSpec
CHECK_DEADLOCK FALSE
INVARIANTS TypeOK FencedWhileWorking TaintedWhileWorking
PROPERTIES StartsAlone ImplementsDispatchOnce
