CONSTANTS
    a = a
    b = b
    t1 = t1
    t2 = t2
    Mems <- OnlyB
    PageCount = 2
    Threads <- TwoThreads
    Cached <- OnlyB
    AsMems <- NoMems
    Targets <- OnlyB
    SyncBack = TRUE
    Quiet = TRUE
    RangeLists <- RangesOfB
    MaxStores = 3
    MaxDev = 1
    NoThread = NoThread
    NoMem = NoMem
SPECIFICATION FairSpec
INVARIANTS ReadsDeviceData
PROPERTIES DeviceDataKept StoresStay FaultReturns
