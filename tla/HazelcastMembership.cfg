SPECIFICATION FairSpec
CONSTANTS
    Node <- MCNode
    None = None
    Port <- MCPort
    FlakyProbe = FALSE
    MaxStarts = 2
    MaxCrashes = 1
INVARIANTS TypeOK
CHECK_DEADLOCK FALSE
PROPERTIES LockOutlivesClaim NoChangeForgotten MasterReplaced SurvivorTakesOver
