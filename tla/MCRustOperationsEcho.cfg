CONSTANTS
    k1 = k1
    k2 = k2
    p1 = p1
    Callers = {k1, k2}
    Task = Task
    Nobody = Nobody
    Gone = Gone
    Pattern = {p1}
    Channel = {ch1, ch2}
    Does <- Roles
    Uses <- SharedPattern
    Covers <- RepliesOnRequests
    Granted = {p1, ch1}
    Capacity = 3
    MaxCalls = 1
    MaxFaults = 1
SPECIFICATION Spec
INVARIANTS
    AnsweredByReply
CHECK_DEADLOCK FALSE
