SPECIFICATION FairSpec
CONSTANTS
    l1 = l1
    l2 = l2
    Locals <- MCLocals
    MaxStreams = 1
    MaxConns = 2
    MaxRedials = 1
INVARIANTS
    RedialsCountReconnects
    EstablishedIsHeld
PROPERTIES
    RetryIsFresh
    EveryLocalAnswered
    WatchedLossIsNoticed
