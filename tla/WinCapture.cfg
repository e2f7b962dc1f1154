SPECIFICATION Spec
CONSTANTS
    Rotates = FALSE
    MaxEvents = 3
    MaxFaults = 2
INVARIANTS
    ReadyToAcquire
    NullOnlyAfterGivingUp
PROPERTIES
    CaptureResumes
    MonitorStops
CHECK_DEADLOCK FALSE
