SPECIFICATION FairSpec
CONSTANTS
  BufId = {b1, b2, b3}
  Sizes = {1, 2}
  PoolSize = 3
  Compact = TRUE
  DriverLog = FALSE
  None = None
PROPERTIES CommandEnds
CHECK_DEADLOCK FALSE
