CONSTANTS
    Requests = {r1, r2, r3}
    ClientIds = {c1}
    NoClient = NoClient
    MaxSeq = 4
    Faults = FALSE
SPECIFICATION FairSpec
PROPERTIES
    TurnSettles
    LockReleased
CHECK_DEADLOCK FALSE
