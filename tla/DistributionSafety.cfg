SPECIFICATION Spec
CONSTANTS
    n1 = n1
    n2 = n2
    t1 = t1
    t2 = t2
    t3 = t3
    Node <- MCNode
    Task <- MCTask
    HostAt <- MCHostAt
    None = None
    Deletions = TRUE
    MaxCrashes = 1
    MaxDealing = 2
    MaxPolling = 1
    MaxHits = 1
SYMMETRY Symmetry
CONSTRAINT Scope
INVARIANTS
    TypeOK
    OneHostPerTask
PROPERTIES
    ImplementsAssignment
    SecondHostByOverlap
CHECK_DEADLOCK FALSE
