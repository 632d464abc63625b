\* What becomes of an image that the device has confirmed.
SPECIFICATION Spec
CONSTANTS
    w1 = w1
    Workers <- MCOne
    Requests <- MCRequests
    Devices <- MCDevices
INVARIANTS
    CompletedInstallKept
CHECK_DEADLOCK FALSE
