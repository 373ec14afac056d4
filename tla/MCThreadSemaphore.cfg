CONSTANTS
    Threads = {0, 1, 2, 3}
    Main = 0
    MaxRounds = 5
SPECIFICATION FairSpec
CHECK_DEADLOCK FALSE
INVARIANTS
    NoLostGo
    RunsOnceWithOwnWork
PROPERTIES
    ReleaseOnlyWhenAllArrived
    ImplementsLaunch
    CallsReturn
