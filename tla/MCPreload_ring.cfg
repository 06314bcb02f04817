CONSTANTS
    ChunkCount = 3
    ChunkSize = 3
    Inputs <- RingInputs
    WaitWindow = TRUE
    SpuriousWakeups = TRUE
    StatusReread = FALSE
    LoaderMayLag = TRUE
    MayQuit = TRUE
SPECIFICATION Spec
CHECK_DEADLOCK FALSE
INVARIANTS
    TypeOK
    LockDiscipline
    AssertReady
    InOrder
