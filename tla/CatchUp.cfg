SPECIFICATION CatchUpSpec
CONSTANTS
    Server = {s1, s2, s3}
    Command = {a}
    None = None
    MaxTerm = 4
    MaxIndex = 4
    MaxRestarts = 0
    MaxCalls = 2
    MaxApplied = 0
    SnapshotsOn = TRUE
    Late = {}
    Lead = s1
    Follow = s2
    SnapshotAhead = FALSE
PROPERTY EventuallyInSync
