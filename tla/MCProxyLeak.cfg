SPECIFICATION ProxySpec
CONSTANTS
    c1 = c1
    c2 = c2
    w1 = w1
    app = app
    db = db
    Clients = {c1, c2}
    Warmers = {w1}
    Tasks <- MCTasks
    Keys <- MCKeys
    PoolKey <- AppKey
    GlobalLimits <- MCLimits
    DatabaseLimits <- MCDatabase
    UserLimits <- MCUser
    Strategy = "lifo"
    IdleTimeout = 1
    ServerLifetime = 1
    Streams = {"ready", "used", "torn", "mute", "failed", "dead"}
    FreshStream = "ready"
    MaxTime = 0
    NoTask = NoTask
    NoKey = NoKey
    NoConn = NoConn
    Modes = {"session", "transaction"}
    MaxFailures = 1
INVARIANTS
    SlotConservation
CHECK_DEADLOCK FALSE
