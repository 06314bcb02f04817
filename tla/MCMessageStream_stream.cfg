SPECIFICATION FairSpec
CONSTANTS
    Senders = {s1, s2}
    Sizes <- Lengths
    SizeUnits = 2
    Room = 3
    GiveUp = 3
    Wrap = 5
    MayBeCut = TRUE
    MaxPackets = 2
    NoSender = NoSender
    NoPacket = NoPacket
CHECK_DEADLOCK FALSE
INVARIANTS
    TypeOK
PROPERTIES
    QueueKept
