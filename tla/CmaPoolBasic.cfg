SPECIFICATION Spec
CONSTANTS
  BufId = {b1, b2, b3, b4}
  Sizes = {1, 2}
  PoolSize = 3
  Compact = FALSE
  DriverLog = FALSE
  None = None
SYMMETRY Ids
INVARIANTS TypeOK ListsAgree OverflowExact PurgeFirst GivesUpOnlyWhenPinned
PROPERTIES PinnedStay EvictsLru
CHECK_DEADLOCK FALSE
