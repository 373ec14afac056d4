CONSTANTS
    Threads = {0, 1, 2, 3}
    Main = 0
    MaxRounds = 3
    NoThread = NoThread
SPECIFICATION StartSpec
INVARIANTS
    NoTestFailure
    AllThreadsTested
PROPERTIES
    ProgramEnds
