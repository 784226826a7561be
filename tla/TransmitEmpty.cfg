SPECIFICATION Spec
CONSTANTS
    TxSize = 3
    InPacketSize = 2
    HostTimeout = 1
    MaxBytes = 4
    MaxRequests = 1
    MaxRestarts = 0
    MaxFailed = 0
    MaxSessions = 0
PROPERTIES
    EmptyOnlyAfterFull
