SPECIFICATION Spec
CONSTANTS
  Node = {1, 2, 3, 4, 5, 6, 7, 8, 9, 10, 11}
  Nil = Nil
  START <- MCStart
  LAST <- MCLast
  Augmented = TRUE
INVARIANTS LinksAgree RedBlack AugmentExact IterFirstIsRight
