SPECIFICATION Spec
CHECK_DEADLOCK FALSE
CONSTANTS
    MaxTime = 1
    Clients = {1, 2, 3}
    Minute = 3
    Idle = 3
    MaxTracked = 2
    Rates = {0, 1, 2}
    Addresses = {"i"}
    Accounts = {"a", "b"}
    Window = 2
    MaxTries = 1
    Limits <- MCLimits
    Order <- MCOrder
    Serves <- MCServes
    NoUrl = {}
    AliasMaps <- MCAliasMaps
    NoProvider = NoProvider
    MaxRestarts = 2
    MaxEdits = 1
    Windows <- MCWindows
    HistorySize = 2
    MeLimit = 1
    TokenCounts = {1}
    MaxWall = 1
    MaxSetBacks = 1
    MaxBegun = 1
    MaxRows = 1
INVARIANT
    ExactIdWins
