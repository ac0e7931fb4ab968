SPECIFICATION Spec

CONSTANTS
    NULL = NULL
    p1 = p1
    p2 = p2
    r1 = r1
    r2 = r2
    f1 = f1
    f2 = f2
    Processes <- TwoProcesses
    Remotes <- TwoRemotes
    Flows <- TwoFlows
    Conns = {conn1, conn2}
    c1 = c1
    c2 = c2
    Clients <- TwoClients
    Answers <- AnyAnswer
    Layers = 2
    MaxStarts = 2

SYMMETRY Symmetry

CONSTRAINT OneAtATime

INVARIANT NothingLeft
INVARIANT FiltersBacked
INVARIANT StartRemembered
INVARIANT ClonesOwned
INVARIANT ContextLive
INVARIANT ProcessFound
