CONSTANTS
    Requests = {r1, r2, r3}
    ClientIds = {c1, c2, c3}
    NoClient = NoClient
    MaxSeq = 6
    Faults = TRUE
SPECIFICATION Spec
SYMMETRY Symmetry
INVARIANTS
    TypeOK
    OneWriterPerTurn
    LogIsWellFormed
    PromptIsOwnUserMessage
    FirstAttemptsNeverOverlap
PROPERTIES
    HistoryIsFinal
    DeletedIsClosed
    ImplementsLedger
CHECK_DEADLOCK FALSE
