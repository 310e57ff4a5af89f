SPECIFICATION Spec
CONSTANTS
    Req <- TwoReqs
    Member <- OneMember
    WatchAll = TRUE
    Mode = "all"
    Target <- Completed
    Timeout = 1
    FinalTTL = 1
    PendingTTL = 0
    Capacity = 1
    MaxNow = 2
    MaxChanges = 2
    MaxCrashes = 1
    MayClose = TRUE
    q1 = q1
    q2 = q2
    m1 = m1
    None = None
SYMMETRY Symmetry
INVARIANTS TypeOK ActiveHasWatcher AtMostOneReply
PROPERTIES DeadlineFixed
CHECK_DEADLOCK FALSE
