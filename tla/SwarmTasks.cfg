SPECIFICATION Spec
CONSTANTS
    Id <- TwoTasks
    Task <- TwoTasks
    Dep <- Chain
    Session <- TwoSessions
    Req <- TwoReqs
    Attended <- AttendedSessions
    Actions <- AllActions
    MaxEvents = 1
    q1 = q1
    q2 = q2
    q3 = q3
    w1 = w1
    w2 = w2
    None = None
INVARIANTS TypeOK RunningHasRun WorkedAfterDeps
PROPERTY RunsEnd
CHECK_DEADLOCK FALSE
