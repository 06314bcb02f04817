CONSTANTS
    m1 = m1
    b1 = b1
    p1 = p1
    c1 = c1
    c2 = c2
    Mem <- OneMem
    Buf <- OneBuf
    Pool <- OnePool
    Cb <- TwoCbs
    Primary <- OnePrimary
    Nothing = Nothing
    Options <- BothWays
    MaxCmds = 1
    MaxCalls = 3
    CountModulus = 4
SPECIFICATION Spec
INVARIANTS
    TypeOK
    TraceIsLegal
    StateAgrees
    TrackerAgrees
    NothingLeft
CHECK_DEADLOCK FALSE
