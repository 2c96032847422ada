CONSTANTS
    Requests = {r1, r2}
    Ttl = 2
    MaxRuns = 2
    MaxTime = 3
    Faults = FALSE
SPECIFICATION Spec
INVARIANT PayloadUntilExpiry
CHECK_DEADLOCK FALSE
