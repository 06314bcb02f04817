CONSTANTS
    ChainCount = 2
    ImageCount <- TwoThenOne
    CountModulus = 16
    OneThread = TRUE
    SpuriousWakeups = FALSE
    MayFail = TRUE
SPECIFICATION Spec
CHECK_DEADLOCK FALSE

INVARIANTS
    CountNeverWraps
    AncestorAlive
