SPECIFICATION Spec
CONSTANTS
  Node = {n1, n2, n3, n4}
  HeadNode = head
  PoolSize = 6
  U64Max = 7
  Sizes = {1, 2, 3}
  Alignments = {0, 2, 3}
  Ranges <- MCRanges
SYMMETRY Nodes
INVARIANTS NoOverlap ListInOrder HolesExact SearchIsRight ReserveIsRight EvictionSuffices
PROPERTIES FreedBlockOnTop ImplementsRangeAllocator
