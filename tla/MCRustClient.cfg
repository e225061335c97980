SPECIFICATION FairSpec
CONSTANTS
    Attempts <- MCAttempts
    Loops <- MCLoops
    Callers = {k1}
    NoRunner = NoRunner
    MaxCalls = 2
    MaxFaults = 2
INVARIANTS
    TypeOK
    SenderLive
    RetryArmed
PROPERTIES
    ManualDisconnectHolds
    ConnectAnswers
    OneConnectionRemains
CHECK_DEADLOCK FALSE
