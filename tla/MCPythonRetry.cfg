CONSTANTS
    Requests = {r1, r2}
    Ttl = 2
    MaxRuns = 2
    MaxTime = 2
    Faults = FALSE
SPECIFICATION Spec
INVARIANT RetryIsAdmitted
CHECK_DEADLOCK FALSE
