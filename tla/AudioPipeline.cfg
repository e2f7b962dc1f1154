SPECIFICATION Spec
CONSTANTS
    MaxFrames = 6
    Capacity = 3
    MaxLosses = 1
    MaxFailures = 2
INVARIANTS
    MixedInStep
    Gapless
    QuietAfterStop
PROPERTIES
    StopReturns
    DeliveredIsMixed
CHECK_DEADLOCK FALSE
