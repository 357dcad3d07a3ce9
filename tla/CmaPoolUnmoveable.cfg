SPECIFICATION Spec
CONSTANTS
  BufId = {b1, b2, b3}
  Sizes = {1, 2}
  PoolSize = 3
  Compact = TRUE
  DriverLog = TRUE
  None = None
PROPERTIES UnmoveableStill
CHECK_DEADLOCK FALSE
