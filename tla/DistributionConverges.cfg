SPECIFICATION FairSpec
CONSTANTS
    n1 = n1
    n2 = n2
    t1 = t1
    t2 = t2
    t3 = t3
    Node <- MCNode
    Task = {t3}
    HostAt <- MCHostAt
    None = None
    Deletions = TRUE
    MaxCrashes = 1
    MaxDealing = 1
    MaxPolling = 2
    MaxHits = 1
PROPERTIES
    Converges
CHECK_DEADLOCK FALSE
