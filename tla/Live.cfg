SPECIFICATION LiveSpec
CHECK_DEADLOCK FALSE
CONSTANTS
    Calls = {c1}
    Users = {u}
    Operator = op
    MaxRetries = 2
    Usages = {2}
    Rates = {0, 1}
    Balances <- MCBalances
    Deltas = {1}
    Amounts = {0, 2}
    MaxMoves = 1
    Rows = {x1, x2}
    Providers = {p}
    TokenCounts = {1}
    HistorySize = 2
    MaxRestarts = 1
PROPERTIES
    EveryCallReturns
    RowsAreClosed
