SPECIFICATION Spec
CONSTANTS
  MaxSandboxes = 4
  MaxSnapshots = 3
  MaxUpstream = 2
  MaxRebases = 2
  MaxFaults = 1
  PushEnabled = TRUE
  CleanupEnabled = TRUE
  DeleteBranches = TRUE
CONSTRAINT Regions
INVARIANTS
    WorkIsReachable
    MetadataIsCurrent
    SnapshotsBuildUp
PROPERTY
    NothingTakenAway
