SPECIFICATION Spec
CONSTANTS
    RingSize = 2
    Requested = 2
    Capacity <- MCCapacity
    Exporters = {e1}
    MaxFrames = 3
    NoFile = NoFile
    Leftover = Leftover
INVARIANTS
    ExportInOrder
