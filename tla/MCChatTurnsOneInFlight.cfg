CONSTANTS
    Requests = {r1, r2}
    ClientIds = {c1, c2}
    NoClient = NoClient
    MaxSeq = 4
    Faults = FALSE
SPECIFICATION Spec
INVARIANTS
    OneInFlightTurn
CHECK_DEADLOCK FALSE
