SPECIFICATION ConflictSpec
CONSTANTS
    Server = {s1, s2, s3}
    Command = {a}
    None = None
    MaxTerm = 4
    MaxIndex = 2
    MaxRestarts = 0
    MaxCalls = 2
    MaxApplied = 0
    SnapshotsOn = FALSE
    Late = {}
CHECK_DEADLOCK FALSE
SYMMETRY Symmetry
VIEW RecoveryView
CONSTRAINT RegularElections
INVARIANTS LogMatching LeaderCompleteness CommitMeetsElection
