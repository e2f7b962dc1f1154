SPECIFICATION Spec
CONSTANTS
    Ports = {p1}
    Keys = {NoKey, k1}
    NoKey = NoKey
    PathMayFail = FALSE
    Attempts = 2
    MaxEdits = 1
    MaxCrashes = 0
PROPERTIES
    SettingsApplied
CHECK_DEADLOCK FALSE
