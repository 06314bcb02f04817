CONSTANTS
    ChunkCount = 3
    ChunkSize = 3
    Inputs <- SmallInputs
    WaitWindow = FALSE
    SpuriousWakeups = FALSE
    StatusReread = TRUE
    LoaderMayLag = FALSE
    MayQuit = TRUE
SPECIFICATION FairSpec
PROPERTIES
    ReadsLikeSequencer
    Ends
    StartsWhenFull
