SPECIFICATION FairSpec
CONSTANTS
    TxSize = 1
    InPacketSize = 2
    HostTimeout = 1
    MaxBytes = 5
    MaxRequests = 0
    MaxRestarts = 1
    MaxFailed = 1
    MaxSessions = 0
INVARIANTS
    ReceivedOnceInOrder
    LossBounded
PROPERTIES
    CallsReturn
    WrittenArrives
    TransfersEnd
