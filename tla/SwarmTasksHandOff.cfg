SPECIFICATION Spec
CONSTANTS
    Id <- TwoTasks
    Task <- OneTask
    Dep <- Single
    Session <- TwoSessions
    Req <- ThreeReqs
    Attended = {}
    Actions <- HandOffs
    MaxEvents = 0
    q1 = q1
    q2 = q2
    q3 = q3
    w1 = w1
    w2 = w2
    None = None
PROPERTIES HandOffIsSafe
CHECK_DEADLOCK FALSE
