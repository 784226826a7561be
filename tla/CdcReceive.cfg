SPECIFICATION FairSpec
CONSTANTS
    RxSize = 3
    OutPacketSize = 2
    HostBytes = 4
    MaxOther = 1
    MaxLostAcks = 1
    MaxSessions = 2
INVARIANTS
    TypeOK
    WaitingPacketFits
    AckedBytesKept
    ReceivedOnceInOrder
PROPERTIES
    ImplementsChannel
    PacketsAccepted
    AckedBytesRead
