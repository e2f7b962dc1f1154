SPECIFICATION MRSpec
CONSTANTS
    RingSize = 1
    Requested = 1
    Capacity <- MCCapacity
    Exporters = {io, s1, s2}
    Io = io
    None = None
    MaxFrames = 1
    NoFile = NoFile
    Leftover = Leftover
INVARIANTS
    MutexHeld
    NoOrphanSave
    NothingOutlivesMain
PROPERTIES
    SavesAcceptedOnlyWhileRunning
    EverySaveEnds
    ShutdownExits
CHECK_DEADLOCK FALSE
