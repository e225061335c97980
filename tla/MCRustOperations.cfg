CONSTANTS
    k1 = k1
    k2 = k2
    p1 = p1
    Callers = {k1, k2}
    Task = Task
    Nobody = Nobody
    Gone = Gone
    Pattern = {p1}
    Channel = {ch1, ch2}
    Does <- Roles
    Uses <- SharedPattern
    Covers <- RepliesApart
    Granted = {p1, ch1}
    Capacity = 3
    MaxCalls = 3
    MaxFaults = 1
SPECIFICATION Spec
INVARIANTS
    TypeOK
    OkIsConfirmed
    HandlersServed
CHECK_DEADLOCK FALSE
