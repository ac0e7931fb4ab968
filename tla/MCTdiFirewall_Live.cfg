SPECIFICATION FairSpec
CONSTANTS
    i1 = i1
    i2 = i2
    r1 = r1
    r2 = r2
    c1 = c1
    c2 = c2
    FwThread = FwThread
    NULL = NULL
    Irps <- OneIrp
    Requests <- OneRequest
    Clients <- TwoClients
    Answers <- AnyAnswer
CONSTRAINT NoRivals
INVARIANT PassedOnlyIfApproved
INVARIANT RefsExact
PROPERTY AnswersOnce
PROPERTY RequestsRecycled
