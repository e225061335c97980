SPECIFICATION Spec
CONSTANTS
    Attempts <- MCAttempts
    Loops <- MCLoops
    Callers = {k1}
    NoRunner = NoRunner
    MaxCalls = 1
    MaxFaults = 1
INVARIANTS
    ConnectedIsReady
CHECK_DEADLOCK FALSE
