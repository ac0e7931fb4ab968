SPECIFICATION FairSpec
CONSTANTS
    a1 = a1
    c1 = c1
    c2 = c2
    t1 = t1
    p1 = p1
    Adapters <- OneAdapter
    Clients <- TwoClients
    Threads <- OneThread
    Packets <- OnePacket
    MaxNB = 1
    NULL = NULL
INVARIANT RefsExact
INVARIANT NoDangling
INVARIANT SentOnlyIfApproved
INVARIANT SingleFlight
INVARIANT NoClosedAdapter
PROPERTY HandlersReturn
PROPERTY PacketsReclaimed
