SPECIFICATION FairSpec
CONSTANTS
    MaxReqs = 1
    MaxPlans = 1
    MaxContracts = 1
    MaxTasks = 4
    MaxRuns = 2
    MaxOverrides = 1
    MaxConflicts = 0
    MaxFaults = 1
    MaxSnapshots = 0
    Owners = {"ann"}
    Scopes = {"file"}
    BlockBudget = 0
    Environments <- MCEnvironments
CONSTRAINT
    Regions
INVARIANTS
    RestartFindsAgreement
    MapsAreStored
    LiveAgentOwnsRow
PROPERTIES
    RowsAreBoard
    StoredTasksSurvive
    StoredRunsTerminate
CHECK_DEADLOCK FALSE
