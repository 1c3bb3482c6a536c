SPECIFICATION Spec
CHECK_DEADLOCK FALSE
SYMMETRY Symmetry
CONSTANTS
    Users = {u1, u2}
    Keys = {k1}
    Tokens = {t1, t2}
    Passwords = {p1, p2}
    Requests = {r1, r2}
    NoPassword = NoPassword
    Fresh = Fresh
    Gone = Gone
    Idle = Idle
    CleanUpMayFail = TRUE
INVARIANTS
    RowsHaveApprovedUsers
    SessionsFollowAccounts
    RefusedStaysRefused
PROPERTIES
    RevocationIsFinal
    PortalActsForItsUser
