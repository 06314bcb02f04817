CONSTANTS
    a = a
    b = b
    t1 = t1
    t2 = t2
    Mems <- TwoMems
    PageCount = 2
    Threads <- TwoThreads
    Cached <- OneCached
    AsMems <- OnlyB
    Targets <- NoMems
    SyncBack = FALSE
    Quiet = FALSE
    RangeLists <- SomeRanges
    MaxStores = 3
    MaxDev = 1
    NoThread = NoThread
    NoMem = NoMem
SPECIFICATION Spec
SYMMETRY ThreadsAlike
INVARIANTS TypeOK NoWriteLost JobSeesWrites ReplayAgrees UnmapSaves
