SPECIFICATION MCSpec
CONSTANTS
    NoText = NoText
    ConnectTimeout = 2
    DefaultTimeout = 1
    MaxAge = 3
    Fresh = Fresh
    Stale = Stale
    Styles = {"final", "continue", "terse", "padded"}
    Exchanges = {x1, x2}
    Passwords = {right, wrong}
    Right = right
    g1 = g1
    g2 = g2
    Getters = {g1, g2}
    Refresher = Refresher
    Ttl = 6
    CheckEvery = 3
    Validity = 9
    MaxDelay = 1
    MaxFailures = 1
    MaxTime = 12
    NoTask = NoTask
    NoToken = NoToken
INVARIANTS
    LoginInv
    TokenKept
    OnlyTheRight
    VerifiedMeansAccepted
    TokenInv
PROPERTIES
    AttemptEnds
    GetReturns
CHECK_DEADLOCK FALSE
