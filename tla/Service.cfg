SPECIFICATION FairSpec
CONSTANTS
    Reqs = {r1}
    Grace = 2
    Configs = {c1, c2}
    None = None
    MaxCommands = 3
CHECK_DEADLOCK FALSE
INVARIANTS
    TypeOK
    StopWaits
    InstalledIsInForce
    RemovedIsGone
PROPERTIES
    StopEnds
    LosingPortIsRetried
