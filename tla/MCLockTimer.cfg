CONSTANTS
    Workers = {1, 2}
    Ints = {0, 1}
    TARGET = 3
    MaxSwi = 2
    NoThread = NoThread
    NoInt = NoInt
    NoRecord = NoRecord
SPECIFICATION FairSpec
INVARIANTS
    AccountsAgree
    RecordsExact
PROPERTIES
    TestsEnd
