\* Three requests for one key, a slow clock and one restart.
SPECIFICATION Spec
CONSTANTS
    r1 = r1
    r2 = r2
    r3 = r3
    k1 = k1
    None = None
    Req <- MCReq
    Key <- MCKey
    keyOf <- MCSameKey
    FinalTTL = 1
    PendingTTL = 2
    MaxNow = 3
    MaxCrashes = 1
    SaveMayFail = TRUE
INVARIANTS TypeOK OneOwnerPerKey AtMostOneReply RepliesAreResults ExecutorAnswered
  
CHECK_DEADLOCK FALSE
