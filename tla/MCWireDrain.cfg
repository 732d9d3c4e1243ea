SPECIFICATION Spec
CONSTANTS
    c1 = c1
    c2 = c2
    Clients = {c1, c2}
    MaxSent <- MCPrepares
    MaxFailures = 0
    NoClient = NoClient
INVARIANTS
    ParkedIsQuiet
CHECK_DEADLOCK FALSE
