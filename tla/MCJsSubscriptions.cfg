CONSTANTS
    p1 = p1
    q1 = q1
    c1 = c1
    h1 = h1
    User = {c1, h1}
    Component = {h1}
    Pattern = {p1, q1}
    Uses <- UsedPatterns
    Granted = {p1}
    Nobody = Nobody
    MaxRequests = 3
    MaxConnects = 3
    MaxLosses = 2
SPECIFICATION Spec
INVARIANTS
    HandlersServed
    IdleNotServed
    NoneForgotten
    ResolvedIsConfirmed
CHECK_DEADLOCK FALSE
