SPECIFICATION StartupSpec
CONSTANTS
    Procs = {p1, p2}
    Keys = {k1, k2, k3}
    Users = {u1, u2}
    Absent = Absent
    Empty = Empty
    NoKey = NoKey
    Last = 3
    Repeatable = {1}
    NoProc = NoProc
SYMMETRY MCSymmetry
CHECK_DEADLOCK FALSE
INVARIANTS
    StartupTypeOK
    KeyOnFileOpensAll
    ServesWithKeyOnFile
    RefusedOnlyInRace
    ServesMigrated
PROPERTIES
    ErrorHasACause
    UpgradeSpec
