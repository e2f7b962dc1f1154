SPECIFICATION Spec
CONSTANTS
    MaxPts = 4
    QueueSize = 2
    Capacity = 2
    MaxDelay = 1
INVARIANTS
    InOrder
    HolesAreLosses
    QuietAfterStop
PROPERTIES
    QueuedFramesAreEncoded
    StopReturns
    FeedsTheRing
CHECK_DEADLOCK FALSE
