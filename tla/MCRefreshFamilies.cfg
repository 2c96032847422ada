CONSTANTS
    Users = {u1}
    Keys = {k1, k2}
    Requests = {h1, h2}
    IdleTtl = 2
    AbsoluteTtl = 2
    MaxTokens = 3
    MaxTime = 2
SPECIFICATION Spec
SYMMETRY Symmetry
INVARIANTS
    TypeOK
    FamiliesAreChains
    ExpiryNested
PROPERTIES
    RevokedIsFinal
    RotationIsEarned
CHECK_DEADLOCK FALSE
