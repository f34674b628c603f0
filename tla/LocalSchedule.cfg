SPECIFICATION FairSpec
CONSTANTS
    Task = {1, 2}
    Crons = {"often", "rarely", "never", "quartzOnly", "invalid"}
    Absent = Absent
INVARIANTS
    TypeOK
    ScheduledOnce
PROPERTIES
    FollowsAssignment
    PoisonIsForGood
    EveryRunInterrupts
