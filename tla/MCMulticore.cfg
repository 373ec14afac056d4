CONSTANTS
    core_count = 3
    HwThreads = {0, 1}
SPECIFICATION FairSpec
INVARIANTS
    ChecksPass
    SumComplete
    FilterExact
PROPERTIES
    TestPasses
CHECK_DEADLOCK FALSE
