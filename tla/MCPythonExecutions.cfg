CONSTANTS
    Requests = {r1, r2}
    Ttl = 2
    MaxRuns = 2
    MaxTime = 3
    Faults = TRUE
SPECIFICATION Spec
SYMMETRY Symmetry
INVARIANTS
    TypeOK
    AtMostOneRun
    KeptTogether
PROPERTIES
    OutcomeIsFinal
CHECK_DEADLOCK FALSE
