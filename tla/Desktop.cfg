SPECIFICATION Spec
CONSTANTS
    Ports = {p1, p2}
    Keys = {NoKey, k1}
    NoKey = NoKey
    PathMayFail = TRUE
    Attempts = 2
    MaxEdits = 2
    MaxCrashes = 1
PROPERTIES
    AppliedUnlessSaving
    HealthyIsTheNewOne
CHECK_DEADLOCK FALSE
