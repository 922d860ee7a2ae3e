\* Two clerks, retries and changes of leader; no snapshots.
SPECIFICATION LedSpec
CONSTANTS
    writer = writer
    other = other
    Clerk = {writer, other}
    NumServers = 2
    Key = {x}
    Kinds <- WriterAndOther
    None = None
    MaxSeq = 1
    MaxTerm = 2
    MaxLog = 2
    MaxStray = 0
    MaxRestarts = 0
    SnapshotsOn = FALSE
    Rollback = FALSE
PROPERTY Linearizable
CHECK_DEADLOCK FALSE
VIEW View
