SPECIFICATION FairStatsSpec
CONSTANTS
    t1 = t1
    t2 = t2
    r1 = r1
    app = app
    db = db
    db2 = db2
    Tasks = {t1, t2}
    Readers = {r1}
    NoReader = NoReader
    Keys <- MCKeys
    GlobalLimits <- MCGlobal
    DatabaseLimits <- MCDatabase
    UserLimits <- MCUser
    Strategy = "lifo"
    IdleTimeout = 1
    ServerLifetime = 1
    Streams = {"fresh"}
    FreshStream = "fresh"
    MaxTime = 1
    NoTask = NoTask
    NoKey = NoKey
    NoConn = NoConn
PROPERTIES
    GlobalExact
    EveryoneGetsThrough
