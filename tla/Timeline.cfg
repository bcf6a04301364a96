SPECIFICATION TimelineSpec
CONSTANTS
    MaxReqs = 1
    MaxPlans = 2
    MaxContracts = 1
    MaxTasks = 4
    MaxRuns = 3
    MaxOverrides = 0
    MaxConflicts = 0
    MaxFaults = 0
    MaxSnapshots = 3
    Owners = {alice}
    Scopes = {"TASK"}
    BlockBudget = 0
    Store = "file"
    SaveCanFail = FALSE
    SandboxCanFail = FALSE
    RuntimeCanFail = TRUE
    CanCrash = TRUE
    MaxShared = 3
    GitWorkspace = TRUE
    SnapshotCanFail = TRUE
CONSTRAINT Regions
INVARIANTS
    RunsAndTasksAgree
    OvertakenAgentFindsNoOutcome
    RollbackBranchesDistinct
    SnapshotsAgree
