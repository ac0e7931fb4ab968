SPECIFICATION Spec
CONSTANTS
    i1 = i1
    i2 = i2
    r1 = r1
    r2 = r2
    c1 = c1
    c2 = c2
    FwThread = FwThread
    NULL = NULL
    Irps <- TwoIrps
    Requests <- TwoRequests
    Clients <- OneClient
    Answers <- AnyAnswer
SYMMETRY Symmetry
CONSTRAINT NoRivals
INVARIANT TouchesOwnIrpsOnly
