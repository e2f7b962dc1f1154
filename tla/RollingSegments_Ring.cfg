SPECIFICATION Spec
CONSTANTS
    RingSize = 3
    Requested = 3
    Capacity <- MCCapacity
    Exporters = {e1}
    MaxFrames = 4
    NoFile = NoFile
    Leftover = Leftover
INVARIANTS
    TypeOK
    WindowInOrder
    SavedOnlyOnce
    CleanExportInOrder
    OnlyFirstMisplaced
    NoLeftoverExported
PROPERTIES
    NoOtherLoss
    ListedFilesStable
