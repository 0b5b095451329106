SPECIFICATION Spec
CONSTANTS
    game = game
    handler = handler
    p1 = p1
    p2 = p2
    p3 = p3
    p4 = p4
    p5 = p5
    Senders <- TwoSenders
    Packets <- FivePackets
    NoPacket = NoPacket
    SeqMod = 18
    Window = 3
    AckBits = 2
    StaleSeqs <- ChunkMemory
SYMMETRY Symmetry
INVARIANTS
    AckedWasReceived
    ReceivedIsAcknowledged
    SentIsPending
    AcksRunOut
