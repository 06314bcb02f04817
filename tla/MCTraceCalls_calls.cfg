CONSTANTS
    h1 = h1
    h2 = h2
    t1 = t1
    t2 = t2
    Handles <- TwoHandles
    Threads <- TwoThreads
    FirstCapacity = 2
    MaxCalls = 4
    AwaitsEvent = FALSE
    NoThread = NoThread
    NoHandle = NoHandle
SPECIFICATION FairSpec
CHECK_DEADLOCK FALSE
INVARIANTS TypeOK ReplayIsLegal FoundIsOwn
PROPERTIES IndexOrder ExecOrder CallsReturn
