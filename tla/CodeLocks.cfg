SPECIFICATION Spec
CONSTANTS
    Human = {ann, ben}
    Task = {"t1"}
    Inputs <- MCInputs
    Generated <- MCGenerated
    ScopeOrder <- MCScopeOrder
    Cleaned <- MCCleaned
    Cut <- MCCut
    LastElement <- MCLastElement
    PackageName <- MCPackageName
    MaxClock = 2
    MaxLocks = 3
    MaxFaults = 2
CONSTRAINT Regions
SYMMETRY Symmetry
INVARIANTS
    LeasesHold
    BundleHonoursLocks
    BundleFilesWellFormed
CHECK_DEADLOCK FALSE
