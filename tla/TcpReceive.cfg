SPECIFICATION FairSpec
CONSTANTS
    Streams <- AllStreams
    HeaderSize = 2
    MaxPacket = 4
    BufferSize = 4
    BufferCount = 3
CHECK_DEADLOCK FALSE
INVARIANTS
    StreamIntegrity
    RoomForPacket
PROPERTIES
    StreamIsDelivered
