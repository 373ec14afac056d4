CONSTANTS
    t0 = t0
    t1 = t1
    b = b
    p = p
    q = q
    g = g
    Threads = {t0, t1}
    Main = t0
    Pages = {b, p, q}
    BootPage = b
    NoPage = NoPage
    Frames = {b, p, q, g}
    Remaps <- MCRemaps
    TLB_FIXED_ENTRIES = 2
    NumTLBEntries = 3
    NoThread = NoThread
SPECIFICATION FairSpec
INVARIANTS
    NoDuplicates
    NeverDead
PROPERTIES
    FixedOnlyRemapped
    RefillProgress
