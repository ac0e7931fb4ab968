SPECIFICATION FairSpec
CONSTANTS
    Adapters = {1, 2}
INVARIANT ReleasedOnce
INVARIANT NamedAdaptersLive
INVARIANT DeviceExact
PROPERTY UnbindReturns
