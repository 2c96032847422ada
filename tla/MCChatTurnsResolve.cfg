CONSTANTS
    Requests = {r1, r2}
    ClientIds = {c1}
    NoClient = NoClient
    MaxSeq = 2
    Faults = FALSE
SPECIFICATION FairSpec
PROPERTIES
    PendingTurnResolves
CHECK_DEADLOCK FALSE
