SPECIFICATION Spec
CONSTANTS
    p1 = p1
    p2 = p2
    q1 = q1
    s1 = s1
    s2 = s2
    n1 = n1
    n2 = n2
    f1 = f1
    Servers = {s1, s2}
    Names = {n1, n2}
    Forwards = {f1}
    Pairs = {p1, p2}
    Saves = {q1}
    MaxTries = 2
    ReadTimeout = 1
    PromptTimeout = 4
CHECK_DEADLOCK FALSE
INVARIANT WaitsForTheAdmin
