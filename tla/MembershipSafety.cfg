SPECIFICATION Spec
CONSTANTS
    Node <- MCNode
    PortOf <- MCPortOf
    None = None
    TimeOut = 0
    FlakyProbe = TRUE
    SlowProbe = TRUE
    TimePasses = TRUE
    MaxLive = 2
    MaxStarts = 2
    MaxCrashes = 1
CONSTRAINT RestartIsLater
INVARIANTS
    TypeOK
    CheckExclusive
    MasterInOwnCopy
    LockAccounted
PROPERTIES
    LostByOvertaking
CHECK_DEADLOCK FALSE
