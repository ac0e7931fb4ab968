SPECIFICATION FairSpec
CONSTANTS
    f1 = f1
    f2 = f2
    f3 = f3
    b1 = b1
    b2 = b2
    c1 = c1
    c2 = c2
    NULL = NULL
    Requests <- TwoRequests
    Buffers <- TwoBuffers
    Clients <- TwoClients
    Wire <- ShortDatagram
    Answers <- YesOrNo
    WORKBUFSIZE = 96
    MAX_WORKBUFFER_COUNT = 1
    MaxReceiving = 1
    PoolFails = TRUE
INVARIANT BuffersAccounted
PROPERTY FragmentsFreed
PROPERTY AssemblesDatagrams
