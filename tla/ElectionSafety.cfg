SPECIFICATION Spec
CONSTANTS
    Server = {s1, s2, s3}
    Command = {a}
    None = None
    MaxTerm = 2
    MaxIndex = 0
    MaxRestarts = 0
    MaxCalls = 4
    MaxApplied = 0
    SnapshotsOn = FALSE
    Late = {}
CHECK_DEADLOCK FALSE
INVARIANT ElectionSafety
