CONSTANTS
    Procs = {p1, p2}
    None = None
    NotUsed = NotUsed
    Convs = {c1, c2, c3}
    Existing = {c1, c2}
    PageSize = 1
    MaxPrompts = 2
    MaxAsks = 3
    MaxTyped = 3
    MaxSent = 4
    MaxLost = 2
    Writers = {p1, p2}
    MaxChanges = 2
    MaxFailures = 1
    MaxKeys = 3
    MaxLosses = 1
    MaxReloads = 2
    Pages = {s1}
    Users = {u1}
    Jobs = {j1}
    DeviceKey = d1
    MaxCalls = 2
    MaxTokens = 3
    Emails = {"ann", "bob"}
    Subjects = {c1, c2}
    DemoUser = "ann"
    DemoAdmin = "bob"
    Databases <- Populations
    MaxFlows = 2
    MaxCommands = 3
    MaxFaults = 1
SPECIFICATION Spec
SYMMETRY Symmetry
INVARIANTS
    TypeOK
    TypedOnce
    ShownAsStored
    PageIsCurrent
    SettingsAreStored
    SessionIsUsable
    AccountsHold
    ReplayIsExcused
PROPERTIES
    SignOutEndsCookie
CHECK_DEADLOCK FALSE
