SPECIFICATION Spec
CONSTANTS
    TxSize = 1
    InPacketSize = 2
    HostTimeout = 1
    MaxBytes = 4
    MaxRequests = 1
    MaxRestarts = 1
    MaxFailed = 1
    MaxSessions = 2
INVARIANTS
    TypeOK
    FlushMeansTaken
    DropsBounded
PROPERTIES
    ImplementsChannel
    OfferStays
    StalledOnlyAfterTimeout
