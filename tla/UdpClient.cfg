SPECIFICATION FairSpec
CONSTANTS
    server = server
    other = other
    Endpoints <- TwoEndpoints
    Server <- server
    Nowhere = Nowhere
    MaxSessions = 3
    MaxInputs = 1
    SeqMod = 3
    MaxPackets = 3
    BufferSize = 2
    BufferCount = 3
    Damages <- IllFormedAndShort
    Misread = 1
CHECK_DEADLOCK FALSE
INVARIANTS
    SequencesDistinct
    AckMeansReceived
    DatagramsStandAlone
PROPERTIES
    ReceiverRearms
