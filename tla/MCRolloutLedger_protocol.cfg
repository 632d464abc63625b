\* Two campaigns compete for one device through every epoch, acquisition,
\* leaf, drain session and control revision.
SPECIFICATION Spec
CONSTANTS
    Campaigns = {c1, c2}
    Devices = {d1}
    Locks = {k1, k2}
    Children = {u1, u2}
    Tokens = {t1, t2}
    None = None
    Epochs = {1, 2}
    Versions = {1, 2}
    Revs = {0, 1}
    Times = {1, 2}
INVARIANTS TypeOK FenceExcludesReservation
PROPERTIES DrainProvenancePermanent ReservationIdentityStable GrantedEndsResolved ImplementsDeviceClaim
SYMMETRY Symmetry
