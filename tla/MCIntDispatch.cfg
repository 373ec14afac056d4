CONSTANTS
    Threads = {0, 1, 2}
    Ints = {0, 2}
    Runtime = "arch"
    UsrInt <- MCUsrInt
    IMask <- MCIMask
    OtherCauses = {96}
    MaxSwi = 3
SPECIFICATION FairSpec
INVARIANTS
    NoConcurrentService
    IadExact
PROPERTIES
    Redelivered
CHECK_DEADLOCK FALSE
