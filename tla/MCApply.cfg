SPECIFICATION LedSpec
CONSTANTS
    Server = {s1, s2, s3}
    Command = {a, b}
    None = None
    MaxTerm = 2
    MaxIndex = 1
    MaxRestarts = 0
    MaxCalls = 2
    MaxApplied = 1
    SnapshotsOn = TRUE
    Late = {}
CHECK_DEADLOCK FALSE
SYMMETRY Symmetry
VIEW LogView
CONSTRAINT RegularElections
INVARIANTS StateMachineSafety EntryAgreement
