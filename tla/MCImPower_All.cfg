SPECIFICATION FairSpec
CONSTANTS
    NULL = NULL
INVARIANT FlagsExact
INVARIANT SleepsQuietly
INVARIANT NotStuck
PROPERTY RequestsAnswered
