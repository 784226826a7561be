SPECIFICATION FairSpec
CONSTANTS
    OutPacketSize = 8
    InPacketSize = 2
    Rates = {57600, 115200}
    Refused = {115200}
    Addresses = {1}
    Descriptors = {"config", "device", "qualifier"}
    Lengths = {9, 258}
    MaxSetups = 2
    MaxResets = 1
    MaxLost = 1
INVARIANTS
    TypeOK
    ReadsInside
    ReplyRight
    PacketSizesAgree
    AddressFollowsHost
    NotificationWhole
    DroppedBounded
PROPERTIES
    LineCodingSet
    RequestsEnd
    NotificationArrives
