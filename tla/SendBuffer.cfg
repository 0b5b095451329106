SPECIFICATION Spec
CONSTANTS
    t1 = t1
    t2 = t2
    c1 = c1
    c2 = c2
    c3 = c3
    Threads <- TwoThreads
    Chunks <- ThreeChunks
    NoChunk = NoChunk
    ChunkSize = 3
    Sizes <- PacketSizes
SYMMETRY Symmetry
CHECK_DEADLOCK FALSE
INVARIANTS
    BuffersDisjoint
    ChunksAccountedFor
    OnlyOversizeFails
