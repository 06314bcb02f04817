CONSTANTS
    Clients = {c1, c2, c3}
    NoProgram = NoProgram
    Programs = {NoProgram, c1}
    Children = FALSE
    Slots = 2
    Room = 1
    OneAtATime = TRUE
    Early = TRUE
    MaySignal = TRUE
    MaxThreads = 4
    MaxPackets = 2
    NoThread = NoThread
    NoClient = NoClient
SPECIFICATION FairSpec
CHECK_DEADLOCK FALSE
INVARIANTS
    TypeOK
    TraceComplete
    JoinsAll
PROPERTIES
    ClientsServed
