CONSTANTS
    Requests = {r1, r2}
    Ttl = 1
    MaxRuns = 2
    MaxTime = 2
    Faults = FALSE
SPECIFICATION FairSpec
PROPERTIES
    ExecutionSettles
CHECK_DEADLOCK FALSE
