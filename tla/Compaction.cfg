CONSTANTS
    None = None
    RecentTurns = 2
    MinTurns = 1
    MaxIds = 6
    MaxEvents = 2
    NativeMode = "auto"
    MayBeOversized = TRUE
SPECIFICATION Spec
INVARIANTS RequestIsComplete RestartKeepsView
CHECK_DEADLOCK FALSE
