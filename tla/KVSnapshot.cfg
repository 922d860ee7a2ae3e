\* One clerk, snapshots and crashes.
SPECIFICATION LedSpec
CONSTANTS
    writer = writer
    other = other
    Clerk = {writer}
    NumServers = 2
    Key = {x}
    Kinds <- Appends
    None = None
    MaxSeq = 1
    MaxTerm = 2
    MaxLog = 2
    MaxStray = 1
    MaxRestarts = 1
    SnapshotsOn = TRUE
    Rollback = FALSE
INVARIANTS TypeOK ReplicaPrefix SnapshotCoversLog
CHECK_DEADLOCK FALSE
VIEW View
