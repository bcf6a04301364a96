SPECIFICATION FairSpec
CONSTANTS
    MaxReqs = 1
    MaxPlans = 1
    MaxContracts = 1
    MaxTasks = 5
    MaxRuns = 2
    MaxOverrides = 1
    MaxConflicts = 0
    MaxFaults = 1
    MaxSnapshots = 0
    Owners = {alice}
    Scopes = {"TASK"}
    BlockBudget = 0
    Store = "file"
    SaveCanFail = FALSE
    SandboxCanFail = FALSE
    RuntimeCanFail = TRUE
    CanCrash = FALSE
INVARIANT
    MemoryIsBacked
PROPERTY
    RunsTerminate
