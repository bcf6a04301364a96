SPECIFICATION Spec
CONSTANTS
    MaxReqs = 1
    MaxPlans = 1
    MaxContracts = 1
    MaxTasks = 4
    MaxRuns = 3
    MaxOverrides = 3
    MaxConflicts = 1
    MaxFaults = 0
    MaxSnapshots = 0
    Owners = {alice, bob}
    Scopes = {"TASK", "API"}
    BlockBudget = 0
    Store = "file"
    SaveCanFail = TRUE
    SandboxCanFail = TRUE
    RuntimeCanFail = TRUE
    CanCrash = TRUE
SYMMETRY OwnerSymmetry
CONSTRAINT OneTaskOrNoOverrides
INVARIANTS
    TypeOK
    RunsAndTasksAgree
    DependenciesDone
    LiveAgentOwnsRun
    OverrideLeaseExclusive
    PausedHasRequest
PROPERTIES
    DiskIsBoard
