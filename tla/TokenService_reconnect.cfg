SPECIFICATION Spec
CONSTANTS
    Users = {u1}
    Emails = {e1, e2}
    Gens = {g1}
    Reqs = {r1, r2}
    Life = 1
    Skew = 0
    Timeout = 0
    MaxTime = 0
    NoRow = NoRow
    NoToken = NoToken
    NoEmail = NoEmail
    NoUser = NoUser
CHECK_DEADLOCK FALSE
INVARIANTS
    ReconnectReplaces
