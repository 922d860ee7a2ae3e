\* A snapshot that is older than what the server has applied.
SPECIFICATION LedSpec
CONSTANTS
    writer = writer
    other = other
    Clerk = {writer}
    NumServers = 2
    Key = {x}
    Kinds <- Appends
    None = None
    MaxSeq = 3
    MaxTerm = 1
    MaxLog = 3
    MaxStray = 0
    MaxRestarts = 0
    SnapshotsOn = TRUE
    Rollback = TRUE
INVARIANT ReplicaPrefix
CHECK_DEADLOCK FALSE
VIEW View
