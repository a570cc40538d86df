SPECIFICATION Spec
CONSTANTS
    Procs = {p1}
    Keys = {k1, k2}
    Users = {u1}
    Absent = Absent
    Empty = Empty
    NoKey = NoKey
CHECK_DEADLOCK FALSE
INVARIANTS
    ServesWithAKey
