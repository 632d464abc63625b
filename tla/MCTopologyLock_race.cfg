\* Two managers, two campaigns that plan the same device.
SPECIFICATION Spec
CONSTANTS
    Campaigns = {c1, c2}
    Devices = {d1}
    Locks = {k1, k2, k3}
    Children = {u1, u2}
    Tokens = {}
    None = None
    Managers = {m1, m2}
    LeafUID <- MCLeafUID
SYMMETRY Symmetry
CHECK_DEADLOCK FALSE
INVARIANTS TypeOK LockCoversReservation ReleasedStaysReleased
PROPERTIES LockAdvancesOnly
