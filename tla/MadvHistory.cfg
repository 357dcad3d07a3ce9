SPECIFICATION HistorySpec
CONSTANTS
  Node = {b1, b2, b3}
  HeadNode = head
  PoolSize = 3
  U64Max = 7
  Sizes = {1, 2}
  PageSize = 1
  None = None
INVARIANTS PurgesBeforePagingOut
CHECK_DEADLOCK FALSE
