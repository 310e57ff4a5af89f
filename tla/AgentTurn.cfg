CONSTANTS
    None = None
    MaxUses = 2
    MaxContinuations = 1
    InternalTools = TRUE
    MaxMessages = 2
    MaxCalls = 2
    MaxInterrupts = 1
    MaxEvents = 1
SPECIFICATION TurnSpec
INVARIANTS RequestIsPaired SentIsSaved
CHECK_DEADLOCK FALSE
PROPERTY StopEndsTurn
