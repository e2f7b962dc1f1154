SPECIFICATION Spec
CONSTANTS
    VideoTicks = 2
    AudioTicks = 3
    MaxSnapshot = 4
    MaxStart = 2
INVARIANTS
    LeavesMuxPrefix
    WrittenInOrder
    OnlyTailLost
    StartApartByLosses
CHECK_DEADLOCK FALSE
