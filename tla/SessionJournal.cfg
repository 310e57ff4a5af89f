SPECIFICATION Spec
CONSTANTS
    None = None
    Owner = server
    Clients = {client}
    MaxEnvSnapshots = 1
    JournalLimit = 1
    MaxChanges = 2
    MaxCrashes = 1
    DiskFails = TRUE
INVARIANTS QuietDiskIsSaved
PROPERTY LoadKeepsSaved
CHECK_DEADLOCK FALSE
