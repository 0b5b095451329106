SPECIFICATION Spec
CONSTANTS
    Streams <- Bursts
    HeaderSize = 2
    MaxPacket = 4
    BufferSize = 4
    BufferCount = 3
CHECK_DEADLOCK FALSE
INVARIANT
    FullBufferIsPulled
