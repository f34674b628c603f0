SPECIFICATION FairSpec
CONSTANTS
    Node <- MCNode
    IdleTime = 2
    UdpCheck = TRUE
    MaxTime = 2
    MaxCrashes = 1
    MaxInbox = 1
    None = None
INVARIANTS TypeOK ProbesGoUnanswered
PROPERTIES SomebodyHearsItself
