CONSTANTS
    Waiters = {1, 2}
    Ints = {0, 1}
    MaxTeardown = 2
    NoThread = NoThread
SPECIFICATION FairSpec
PROPERTIES
    WakeupsSeen
CHECK_DEADLOCK FALSE
