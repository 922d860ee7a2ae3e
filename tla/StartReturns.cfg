CONSTANTS
    Worker = {w1, w2}
    NoOne = NoOne
    MaxIndex = 1
    KillOn = FALSE
SPECIFICATION Spec
PROPERTY StartReturns
CHECK_DEADLOCK FALSE
