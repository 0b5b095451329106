SPECIFICATION FairSpec
CONSTANTS
    g1 = g1
    g2 = g2
    w1 = w1
    w2 = w2
    w3 = w3
    login = login
    b1 = b1
    b2 = b2
    e1 = e1
    Senders <- OneSender
    Writes <- ThreeWrites
    Buffers <- ThreeBuffers
    Empty <- NoneEmpty
    Login = login
    Nobody = Nobody
CHECK_DEADLOCK FALSE
PROPERTIES
    FailedSendIsRetried
