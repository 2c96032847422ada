CONSTANTS
    Pages = {p1}
    Users = {u1}
    Jobs = {j1}
    NoUser = NoUser
    NoPage = NoPage
    Key = k1
    MaxCalls = 2
    MaxTokens = 3
    MaxFaults = 1
SPECIFICATION Spec
INVARIANTS
    ReturnsToLogin
CHECK_DEADLOCK FALSE
