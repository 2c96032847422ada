CONSTANTS
    Procs = {p1, p2}
    NotUsed = NotUsed
    None = None
    Missing = Missing
    Torn = Torn
    Mine = Mine
    Phases = {1, 2}
    KeepRecent = 1
    FirstRoadmap <- SomeRoadmap
    FirstDirs <- SomeDirs
    MaxPlans = 1
    MaxCommands = 2
    MaxFaults = 1
    StreamNames = {"a", "b"}
    MainStream = "a"
    MaxFailures = 1
    Agents = {"a", "b"}
    Manifest <- SomeManifest
    MaxDrafts = 1
    MaxCleanups = 2
    MaxSlips = 1
    EditedParts = {"hooks"}
    Roadmaps <- OldRoadmaps
    MaxMishaps = 2
    Projects <- Ailing
    MaxEdits = 2
    MaxRuns = 2
    Products <- SomeProducts
    MaxChanges = 2
    Digests = {"a", "b"}
    Documents <- SomeDocuments
    MaxCalls = 3
    MaxSettings = 2
    MaxCrashes = 1
    GraphCommits <- Graphs
    Budgets = {0, 5}
    MaxBuilds = 2
    MaxWrites = 2
    MaxQueries = 2
    Legacy <- Gsd2
    MaxImports = 3
    MapFiles <- SourceFiles
    Threshold = 2
    MaxCommits = 3
    MaxMaps = 2
    MaxUpsets = 1
SPECIFICATION Spec
INVARIANTS
    TypeOK
    StateIsKept
    PlanIsWhole
    FilesSurvive
    WorkSurvives
    MigrationIsWhole
    SettingsHold
    UpgradeIsWhole
    HealthRepairs
    SurfaceHolds
    
CHECK_DEADLOCK FALSE
SYMMETRY Symmetry
