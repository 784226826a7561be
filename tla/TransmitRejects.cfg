SPECIFICATION Spec
CONSTANTS
    TxSize = 3
    InPacketSize = 2
    HostTimeout = 1
    MaxBytes = 9
    MaxRequests = 0
    MaxRestarts = 0
    MaxFailed = 0
    MaxSessions = 0
INVARIANTS
    RejectsOnlyWhenFull
