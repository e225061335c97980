CONSTANTS
    p = p
    Role = {r1}
    Pattern = {p}
    CommandLine <- Lines
    Command = {k1, k2}
    Client = {i1}
    Secret = {x, y}
    AdminKey = {a}
    None = None
    Blank = Blank
SPECIFICATION Spec
INVARIANTS
    ReportsHold
    SessionsEntitled
CHECK_DEADLOCK FALSE
