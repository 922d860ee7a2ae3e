SPECIFICATION LedSpec
CONSTANTS
    Server = {s1, s2, s3}
    Command = {a}
    None = None
    MaxTerm = 1
    MaxIndex = 2
    MaxRestarts = 1
    MaxCalls = 2
    MaxApplied = 2
    SnapshotsOn = TRUE
    Late = {}
CHECK_DEADLOCK FALSE
SYMMETRY Symmetry
VIEW RecoveryView
CONSTRAINT RegularElections
INVARIANTS TypeOK NoDoubleGrant BallotSafety LogDurable SnapshotCommitted MatchWithinLog NoFault
