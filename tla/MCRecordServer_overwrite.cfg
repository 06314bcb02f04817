CONSTANTS
    Clients = {c1, c2, c3}
    NoProgram = NoProgram
    Programs = {c1}
    Children = TRUE
    Slots = 2
    Room = 1
    OneAtATime = TRUE
    Early = FALSE
    MaySignal = FALSE
    MaxThreads = 4
    MaxPackets = 2
    NoThread = NoThread
    NoClient = NoClient
SPECIFICATION Spec
CHECK_DEADLOCK FALSE
INVARIANTS
    TraceComplete
