SPECIFICATION FairSpec
CONSTANTS
    Node <- MCPair
    PortOf <- MCPortOf
    None = None
    TimeOut = 0
    FlakyProbe = FALSE
    SlowProbe = FALSE
    TimePasses = TRUE
    MaxLive = 2
    MaxStarts = 2
    MaxCrashes = 1
PROPERTIES
    JoinHeals
    MasterElected
CHECK_DEADLOCK FALSE
