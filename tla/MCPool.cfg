SPECIFICATION Spec
CONSTANTS
    t1 = t1
    t2 = t2
    t3 = t3
    app = app
    batch = batch
    db = db
    Tasks = {t1, t2, t3}
    Keys <- MCKeys
    GlobalLimits <- MCGlobal
    DatabaseLimits <- MCDatabase
    UserLimits <- MCUser
    Strategy = "lifo"
    IdleTimeout = 1
    ServerLifetime = 2
    Streams = {"fresh"}
    FreshStream = "fresh"
    MaxTime = 3
    NoTask = NoTask
    NoKey = NoKey
    NoConn = NoConn
SYMMETRY Interchangeable
INVARIANTS
    TypeOK
    SlotConservation
    QueuedOnlyWhenFull
    ReserveIsNotParked
PROPERTIES
    HandsOutFresh
    LedgerSpec
