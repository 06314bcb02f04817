CONSTANTS
    ChainCount = 1
    ImageCount <- ThreeImages
    CountModulus = 16
    OneThread = TRUE
    SpuriousWakeups = FALSE
    MayFail = FALSE
SPECIFICATION FairSpec

INVARIANTS
    TypeOK
    AcquireFindsFree
PROPERTIES
    ShowsInOrder
    TeardownEnds
