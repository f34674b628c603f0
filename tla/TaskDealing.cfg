SPECIFICATION FairSpec
CONSTANTS
    Node = {1, 2, 3}
    Task = {t1, t2, t3}
    HostAt <- MCHostAt
    NoHost = NoHost
INVARIANTS
    TypeOK
    OneHostPerTask
    DealtWithinGroup
PROPERTIES
    RotationSpreads
    ThirdHostIdle
    EveryJobDealt
