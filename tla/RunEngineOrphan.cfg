SPECIFICATION FairSpec
CONSTANTS
    MaxReqs = 1
    MaxPlans = 1
    MaxContracts = 1
    MaxTasks = 4
    MaxRuns = 1
    MaxOverrides = 0
    MaxConflicts = 0
    MaxFaults = 0
    MaxSnapshots = 0
    Owners = {alice}
    Scopes = {"TASK"}
    BlockBudget = 0
    Store = "file"
    SaveCanFail = FALSE
    SandboxCanFail = TRUE
    RuntimeCanFail = FALSE
    CanCrash = FALSE
PROPERTIES
    RunsTerminate
