\* Two clients at one invite, one after the other.
CONSTANTS
    a1 = a1
    c1 = c1
    c2 = c2
    n1 = n1
    d1 = d1
    d2 = d2
    d3 = d3
    Names = {n1}
    Nodes = {d1, d2, d3}
    Targets = {}
    MaxPeers = 2
    MaxRules = 0
    Invites = {a1}
    Conns = {c1, c2}
    NameOf <- OneName
    DialsTo <- OneInvite
    NodeOf <- OwnNode
    MaxPending = 1
    MaxDelay = 1
    PersistMayFail = FALSE
SPECIFICATION Spec
CHECK_DEADLOCK FALSE
INVARIANTS
    ConfirmedWasApproved
