\* One client that connects twice, over two streams of its first connection,
\* while the only name is paired, removed and paired again for either node.
CONSTANTS
    c1 = c1
    d1 = d1
    Names = {n1}
    Nodes = {d1, d2}
    Targets = {t1, t2}
    WellFormed = {t1}
    MaxPeers = 1
    MaxRules = 1
    Conns = {c1, c2}
    Streams = {s1, s2}
    NodeOf <- Redial
    ConnOf <- SameConn
    MaxDelay = 1
SPECIFICATION FairSpec
INVARIANTS
    ServedAsGranted
    LatestIsListed
    LiveIsExact
PROPERTIES
    KnownIsAdmitted
    EndedIsUnlisted
