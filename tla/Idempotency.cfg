SPECIFICATION RequestsFairSpec
CONSTANTS
  Client = {"x", "y"}
  MaxAttempts = 2
INVARIANTS
    AppliedAtMostOnce
    SettledMeansApplied
PROPERTY
    EveryOperationApplied
CHECK_DEADLOCK FALSE
