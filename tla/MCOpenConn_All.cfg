SPECIFICATION FairSpec

CONSTANTS
    a1 = a1
    i1 = i1
    k1 = k1
    o1 = o1
    o2 = o2
    o3 = o3
    NULL = NULL
    Addresses <- OneAddress
    IpFiles <- OneIpFile
    Conns <- OneConn
    Objs <- ThreeObjects

INVARIANT ObjectsAccounted
INVARIANT ClosedForgotten
INVARIANT LinksMutual
PROPERTY WithheldAnswered
