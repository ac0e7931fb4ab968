SPECIFICATION FairSpec
CONSTANTS
    n1 = n1
    c1 = c1
    Assembler = Assembler
    Clock = Clock
    NULL = NULL
    Receivers <- OneReceiver
    Clients <- OneClient
    Calls <- Everything
PROPERTY CallsReturn
CHECK_DEADLOCK FALSE
