SPECIFICATION FairSpec
CONSTANTS
    n1 = n1
    n2 = n2
    t1 = t1
    t2 = t2
    t3 = t3
    Node <- MCNode
    Task = {t3}
    HostAt <- MCHostAt
    None = None
    Edits = FALSE
    MaxCrashes = 0
    MaxPolling = 1
PROPERTIES
    EveryJobStaysDealt
CHECK_DEADLOCK FALSE
