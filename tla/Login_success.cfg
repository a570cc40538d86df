SPECIFICATION Spec
CONSTANTS
    Users = {u1}
    States = {s1, s2}
    Emails = {e1, e2}
    Gens = {g1}
    Logins = {c1, c2}
    Others = {r1}
    TTL = 0
    Life = 0
    Skew = 0
    Timeout = 0
    MaxTime = 0
    Forged = forged
    NoTxn = NoTxn
    Nobody = nobody
    NoRow = NoRow
    NoToken = NoToken
    NoEmail = NoEmail
    NoUser = NoUser
CHECK_DEADLOCK FALSE
INVARIANTS
    SuccessIsStored
