SPECIFICATION EagerSpec
CONSTANTS
    t1 = t1
    t2 = t2
    t3 = t3
    app = app
    batch = batch
    db = db
    Tasks = {t1, t2}
    Keys <- MCOneKey
    GlobalLimits <- MCTight
    DatabaseLimits <- MCDatabase
    UserLimits <- MCUser
    Strategy = "fifo"
    IdleTimeout = 1
    ServerLifetime = 2
    Streams = {"fresh"}
    FreshStream = "fresh"
    MaxTime = 1
    NoTask = NoTask
    NoKey = NoKey
    NoConn = NoConn
PROPERTIES
    WaitersAreServed
