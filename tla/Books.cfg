SPECIFICATION BooksSpec
CHECK_DEADLOCK FALSE
SYMMETRY Symmetry
CONSTANTS
    Rows = {x1, x2, x3}
    Providers = {p, q}
    TokenCounts = {0, 1}
    HistorySize = 2
    MaxRestarts = 1
    Users = {u1, u2}
    MaxMoves = 5
    Balances <- MCBalances
    Deltas <- MCDeltas
    Amounts = {0, 1, 3}
INVARIANTS
    TypeOK
    ActiveAccounting
    TotalsConserved
    HistoryAgrees
    SavedTracksMemory
    PointsTypeOK
    LedgerExplainsBalance
    SpentCoversLedger
PROPERTIES
    PersistedOnlyGrows
    ForgivenOnlyAtZero
