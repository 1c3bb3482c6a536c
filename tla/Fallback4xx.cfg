SPECIFICATION Spec
CHECK_DEADLOCK FALSE
CONSTANTS
    Calls = {c1}
    Users = {u}
    Operator = op
    MaxRetries = 1
    Usages = {2}
    Rates = {0, 1}
    Balances <- MCBalances
    Deltas = {1}
    Amounts = {0, 2}
    MaxMoves = 1
PROPERTIES
    FallsBackOnHardErrors
