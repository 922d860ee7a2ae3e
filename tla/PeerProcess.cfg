CONSTANTS
    Worker = {w1, w2}
    NoOne = NoOne
    MaxIndex = 1
    KillOn = TRUE
SPECIFICATION Spec
INVARIANTS TypeOK LocksExclude DrainReady NoLostWakeup
PROPERTIES StartWaitsOnlyInCircle CommitsReachService ElectionDaemonExits
CHECK_DEADLOCK FALSE
