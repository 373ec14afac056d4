CONSTANTS
    Main = 0
    Holder = 1
    Waiters = {2, 3}
    ITERATIONS = 2
    STALL_SWIS = 2
    NoThread = NoThread
SPECIFICATION FairSpec
INVARIANTS
    CounterExact
    InterruptsCounted
    StalledNotInterrupted
PROPERTIES
    TestsEnd
