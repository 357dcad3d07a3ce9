SPECIFICATION Spec
CONSTANTS
  BufId = {b1, b2, b3}
  Sizes = {0, 1, 3}
  PoolSize = 4
  Compact = TRUE
  DriverLog = TRUE
  None = None
SYMMETRY Ids
INVARIANTS LayoutOK InUseInPool
PROPERTIES CompactsSnugly ImplementsBufferPool
CHECK_DEADLOCK FALSE
