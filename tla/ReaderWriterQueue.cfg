SPECIFICATION Spec
CONSTANTS
    VideoSize = 8
    AudioSize = 1
    MAX_BLOCK_SIZE = 4
    MaxElement = 13
    MaxBlocks = 3
INVARIANTS
    AssertionsHold
    NothingLeaks
PROPERTIES
    ImplementsFifo
    RefusesOnlyWhenFull
    ConsumerIsToldTheTruth
CHECK_DEADLOCK FALSE
