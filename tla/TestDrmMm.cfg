SPECIFICATION Spec
CONSTANTS
  Node = {b1, b2, b3, b4}
  HeadNode = head
  PoolSize = 4
  U64Max = 15
  Sizes = {1, 2}
  PageSize = 1
  None = None
SYMMETRY Names
INVARIANTS PagedInAgrees ScanStopsInTime CallsAreLegal EvictionMakesRoom CleanAtTakedown
PROPERTIES ImplementsBufferPool
CHECK_DEADLOCK FALSE
