SPECIFICATION FairSpec
CONSTANTS
    States = {s1, s2}
    Users = {u1, u2}
    Callbacks = {c1, c2}
    TTL = 1
    MaxTime = 3
    Forged = forged
    NoTxn = NoTxn
    Nobody = nobody
CHECK_DEADLOCK FALSE
INVARIANTS
    TypeOK
    AcceptedOnce
    AcceptedAsIssued
    UnknownOnlyIfExpired
    ReplayHasACause
PROPERTIES
    SingleUseSpec
    EveryCallbackAnswered
    ExpiredRowsPurged
