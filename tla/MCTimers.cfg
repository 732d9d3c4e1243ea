SPECIFICATION Spec
CONSTANTS
    ClientIdle = 3
    TxTimeout = 2
    QueryWait = 1
    MaxAge = 5
    Plans = {}
INVARIANT TransactionBounded
CHECK_DEADLOCK FALSE
