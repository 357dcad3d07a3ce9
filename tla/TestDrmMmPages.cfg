SPECIFICATION FairSpec
CONSTANTS
  Node = {b1, b2, b3}
  HeadNode = head
  PoolSize = 5
  U64Max = 7
  Sizes = {0, 1, 5, 6}
  PageSize = 2
  None = None
INVARIANTS OverflowExact AbortsOnlyOnBadSize
PROPERTIES CommandEnds
CHECK_DEADLOCK FALSE
