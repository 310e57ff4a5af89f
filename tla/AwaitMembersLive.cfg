SPECIFICATION Spec
CONSTANTS
    Req <- TwoReqs
    Member <- OneMember
    WatchAll = TRUE
    Mode = "all"
    Target <- Completed
    Timeout = 1
    FinalTTL = 2
    PendingTTL = 0
    Capacity = 1
    MaxNow = 1
    MaxChanges = 2
    MaxCrashes = 0
    MayClose = FALSE
    q1 = q1
    q2 = q2
    m1 = m1
    None = None
PROPERTIES PromptAnswer WatcherEnds
CHECK_DEADLOCK FALSE
