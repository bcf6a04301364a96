SPECIFICATION FairSpec
CONSTANTS
    Instance = {"i1", "i2"}
    Operator = {"p", "q"}
    Setups <- MCSetups
    Embedded = {1, 2, 3, 4}
    Files = {1, 2, 3, 4, 5}
    MaxFaults = 2
INVARIANT
    LedgerIsTrue
PROPERTIES
    EveryInstanceMigrates
    EveryMigrationRecorded
