SPECIFICATION SafeSpec
SYMMETRY Symmetry
CHECK_DEADLOCK FALSE
CONSTANTS
    Calls = {c1, c2}
    Users = {u}
    Operator = op
    MaxRetries = 1
    Usages = {2}
    Rates = {0, 1}
    Balances <- MCBalances
    Deltas = {1}
    Amounts = {0, 2}
    MaxMoves = 2
INVARIANTS
    TypeOK
    RowsHaveOwners
    RowsTellResult
    SpentIsPaid
PROPERTIES
    StreamFallsBackOnHardErrors
    MeteredCalls
