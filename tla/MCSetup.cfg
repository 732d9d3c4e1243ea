SPECIFICATION MCSpec
CONSTANTS
    Interval = 2
    CheckTimeout = 1
    MaxAge = 4
    inside = inside
    outside = outside
    right = right
    wrong = wrong
    Configs <- MCConfigs
    Users <- MCUsers
    Databases = {"app"}
    Addrs <- MCAddrs
    Passwords = {right, wrong}
    Lookups <- MCLookups
    NoPassword = NoPassword
    Word = 64
    Nul = Nul
    User = User
    Database = Database
    Letters = {x}
    MaxBytes = 7
    MaxLen = 31
INVARIANTS
    TypeOK
    OutageTold
    RoundTrip
    PanicsOnlyMalformed
    LoginInv
    FirstMatchDecides
    RefusalIsTold
PROPERTIES
    ProxyComesUp
CHECK_DEADLOCK FALSE
