SPECIFICATION FairSpec
CONSTANTS
    c1 = c1
    c2 = c2
    Locals = {c1, c2}
    MaxBytes = 2
    MaxQueue = 2
CHECK_DEADLOCK FALSE
INVARIANTS
    TypeOK
    ViewFollowsRegistry
    NeverOverstated
PROPERTIES
    TotalsOnlyGrow
    ScreenIsRestored
