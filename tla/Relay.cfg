SPECIFICATION FairSpec
CONSTANTS
    Bytes <- MCBytes
    TcpWindow = 1
    QuicWindow = 3
    PayloadLen = 1
    IdleTimeout = TRUE
CHECK_DEADLOCK FALSE
INVARIANTS
    TypeOK
    CountersAreBetween
PROPERTIES
    KeepsPipe
    HalfCloseArrives
    RelaysReturn
