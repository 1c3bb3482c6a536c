SPECIFICATION Spec
CHECK_DEADLOCK FALSE
CONSTANTS
    MaxTime = 5
    Clients = {1, 2, 3}
    Minute = 3
    Idle = 3
    MaxTracked = 2
    Rates = {0, 1, 2}
    Addresses = {"i"}
    Accounts = {"a", "b"}
    Window = 2
    MaxTries = 3
    Limits <- MCLimits
    Order <- MCOrder
    Serves <- MCServes
    NoUrl = {}
    AliasMaps <- MCAliasMaps
    NoProvider = NoProvider
    MaxRestarts = 2
    MaxEdits = 1
    Windows <- MCWindows
    HistorySize = 2
    MeLimit = 1
    TokenCounts = {1}
    MaxWall = 5
    MaxSetBacks = 1
    MaxBegun = 2
    MaxRows = 1
INVARIANTS
    BucketsAreExact
    RetryAfterIsExact
    ThrottleIsExact
    RoutesFollowConfig
    SwitchesInForce
    UsageAddsUp
