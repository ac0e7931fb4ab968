SPECIFICATION FairSpec
CONSTANTS
    Packets = {1, 2}
    Threads = {"t1","t2"}
    Client = "client"
    NULL = NULL
INVARIANT PacketsAccounted
INVARIANT FreedAdapterUnused
PROPERTY PacketsReturn
