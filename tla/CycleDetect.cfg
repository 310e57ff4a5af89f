\* All plans over three ids.
SPECIFICATION KSpec
CONSTANTS
    None = None
    Session = {}
    Id <- MCId
    InitPlans <- MCPlans
INVARIANTS ReturnsCycleIds ReleasedInOrder NoSilentStall PickIsNotBlocked
CHECK_DEADLOCK FALSE
