SPECIFICATION FairSpec
CONSTANTS
    Node <- MCNode
    PortOf <- MCPortOf
    None = None
    TimeOut = 1
    FlakyProbe = FALSE
    SlowProbe = FALSE
    TimePasses = TRUE
    MaxLive = 1
    MaxStarts = 3
    MaxCrashes = 2
PROPERTIES
    HandlingEnds
    SilenceEvicts
CHECK_DEADLOCK FALSE
