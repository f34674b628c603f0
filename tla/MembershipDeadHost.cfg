SPECIFICATION FairSpec
CONSTANTS
    Node <- MCNode
    PortOf <- MCPortOf
    None = None
    TimeOut = 1
    FlakyProbe = FALSE
    SlowProbe = FALSE
    TimePasses = TRUE
    MaxLive = 1
    MaxStarts = 2
    MaxCrashes = 1
PROPERTIES
    DeadHostRemoved
CHECK_DEADLOCK FALSE
