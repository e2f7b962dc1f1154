SPECIFICATION Spec
CONSTANTS
    MaxPts = 4
    QueueSize = 2
    Capacity = 2
    MaxDelay = 1
INVARIANTS
    EncodesOnlyCaptured
CHECK_DEADLOCK FALSE
