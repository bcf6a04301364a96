SPECIFICATION FairSpec
CONSTANTS
  Proc = {"a", "b"}
  Writers <- MCWriters
  Readers <- MCReaders
  LockId = {5, 7}
  HalfWidth = 2
INVARIANT
    LockHeldExactly
PROPERTY
    EveryHandlerEnds
