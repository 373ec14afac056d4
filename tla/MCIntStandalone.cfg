CONSTANTS
    Threads = {0, 1}
    Ints = {0, 2}
    Runtime = "standalone"
    UsrInt <- MCUsrInt
    IMask <- MCIMask
    OtherCauses = {96}
    MaxSwi = 3
SPECIFICATION FairSpec
INVARIANT
    CiadUsesIntnum
CHECK_DEADLOCK FALSE
