SPECIFICATION Spec
CONSTANTS
    f1 = f1
    f2 = f2
    f3 = f3
    b1 = b1
    b2 = b2
    c1 = c1
    c2 = c2
    NULL = NULL
    Requests <- ThreeRequests
    Buffers <- TwoBuffers
    Clients <- OneClient
    Wire <- AllSorts
    Answers <- YesOrNo
    WORKBUFSIZE = 96
    MAX_WORKBUFFER_COUNT = 0
    MaxReceiving = 1
    PoolFails = TRUE
SYMMETRY Symmetry
INVARIANT AssembledComplete
INVARIANT CompleteDelivered
INVARIANT FragmentsAccounted
