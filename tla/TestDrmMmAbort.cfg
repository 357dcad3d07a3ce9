SPECIFICATION Spec
CONSTANTS
  Node = {b1, b2}
  HeadNode = head
  PoolSize = 3
  U64Max = 7
  Sizes = {0, 1, 4}
  PageSize = 1
  None = None
INVARIANTS NeverAborts
CHECK_DEADLOCK FALSE
