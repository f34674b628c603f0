SPECIFICATION Spec
CONSTANTS
    n1 = n1
    n2 = n2
    t1 = t1
    t2 = t2
    t3 = t3
    Node <- MCNode
    Task <- MCTask
    HostAt <- MCHostAt
    None = None
    Edits = TRUE
    MaxCrashes = 1
    MaxPolling = 1
SYMMETRY Symmetry
CONSTRAINT Scope
INVARIANTS
    TypeOK
PROPERTIES
    
    StoppedForGood
CHECK_DEADLOCK FALSE
