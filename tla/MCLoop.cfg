SPECIFICATION MCSpec
CONSTANTS
    ClientIdle = 3
    TxTimeout = 2
    QueryWait = 4
    MaxAge = 5
    Plans <- MCPlans
    c1 = c1
    c2 = c2
    Clients = {c1, c2}
    MaxSent <- MCSent
    MaxFailures = 1
    NoClient = NoClient
INVARIANTS
    
    TimerNotAhead
    FramesInv
    WireInv
    OrderlyParked
PROPERTIES
    AllPassed
    Transparent
    ResetEnds
    Answered
CHECK_DEADLOCK FALSE
