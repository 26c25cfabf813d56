\* Three names against a cap of two peers, two targets against a cap of two
\* rules: both caps are reached with a request still to come.
CONSTANTS
    Names = {n1, n2, n3}
    Nodes = {d1, d2}
    Targets = {t1, t2}
    MaxPeers = 2
    MaxRules = 2
SPECIFICATION Spec
SYMMETRY Symmetry
INVARIANTS
    TablesConsistent
    AckedUnlessWriteFailed
PROPERTIES
    RulesOnlyLeaveOnRequest
