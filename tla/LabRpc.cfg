CONSTANTS
    Server = {s1, s2}
    Call = {c1}
    Client = client
    MaxBoots = 2
SPECIFICATION Spec
INVARIANTS AckedPersists OldInstanceSilent DetachedStaysOut
PROPERTY CallReturns
CHECK_DEADLOCK FALSE
