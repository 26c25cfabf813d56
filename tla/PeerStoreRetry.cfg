\* One peer, one rule: the smallest instance on which a retried request is
\* acknowledged without being written.
CONSTANTS
    Names = {n1}
    Nodes = {d1}
    Targets = {t1}
    MaxPeers = 2
    MaxRules = 2
SPECIFICATION Spec
INVARIANTS
    AckedIsDurable
