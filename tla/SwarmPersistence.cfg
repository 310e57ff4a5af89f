SPECIFICATION FairSpec
CONSTANTS
    None = None
    Task = {t1}
    Session = {s1}
    Saver = {sweep, a, b}
    Sweeper = sweep
    StaleAfter = 1
    MaxOps = 3
    MaxRestarts = 1
    DiskFails = TRUE
INVARIANTS TypeOK SnapshotSurvives QuietSaveIsCurrent
PROPERTY InterruptedSettles
