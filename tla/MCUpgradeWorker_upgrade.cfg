\* One worker, which may stop at any call, takes every kind of upgrade to its end.
SPECIFICATION FairSpec
CONSTANTS
    w1 = w1
    Workers <- MCOne
    Requests <- MCRequests
    Devices <- MCDevices
INVARIANTS
    TypeOK
    FencedWhileOutstanding
    TruthfulOutcome
    ActivatesInstalledImage
    NoOrphanLease
PROPERTIES
    ImplementsDispatchOnce
    UpgradeEnds
    SettledReleases
\* A deleted or finished upgrade is the end.
CHECK_DEADLOCK FALSE
