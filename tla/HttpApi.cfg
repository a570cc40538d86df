SPECIFICATION ApiFairSpec
CONSTANTS
    Clients = {k1, k2}
    Window = 1
    Limit = 2
    MaxTime = 2
    MaxRequests = 5
    MaxCount = 4
    NoEntry = NoEntry
    Logins = {l1, l2}
    Pages = {p1, p2}
    Allowed = {p1}
    Bare = {p1}
    Default = Default
    NoTarget = NoTarget
    NoRow = NoRow
CHECK_DEADLOCK FALSE
INVARIANTS
    ApiTypeOK
    TwoWindowsAtMost
    RefusedOnlyWhenSpent
    TurnedAwayKeepsLogin
    LandsWhereAsked
PROPERTIES
    EntriesPurged
