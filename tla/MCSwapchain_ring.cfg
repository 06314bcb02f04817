CONSTANTS
    ChainCount = 1
    ImageCount <- ThreeImages
    CountModulus = 5
    OneThread = TRUE
    SpuriousWakeups = TRUE
    MayFail = TRUE
SPECIFICATION Spec
CHECK_DEADLOCK FALSE

INVARIANTS
    RingAgrees
