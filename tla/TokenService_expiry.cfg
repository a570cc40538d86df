SPECIFICATION Spec
CONSTANTS
    Users = {u1}
    Emails = {e1}
    Gens = {g1}
    Reqs = {r1, r2}
    Life = 3
    Skew = 2
    Timeout = 1
    MaxTime = 3
    NoRow = NoRow
    NoToken = NoToken
    NoEmail = NoEmail
    NoUser = NoUser
CHECK_DEADLOCK FALSE
INVARIANTS
    ExpiryTracksToken
PROPERTIES
    ServedFresh
