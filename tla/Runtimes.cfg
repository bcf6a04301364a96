SPECIFICATION FairSpec
CONSTANTS
    Run = {"r1", "r2"}
    Environment <- MCEnvironment
    Updates <- MCUpdates
    Replies <- MCReplies
    Timeout = 4
    BaseDelay = 1
    Estimate <- MCEstimate
    MaxClock = 1
    MaxFaults = 1
INVARIANTS
    RunsUseSelectedRuntime
    OverspendBounded
PROPERTIES
    RetriesAreExact
    RunsEnd
CHECK_DEADLOCK FALSE
