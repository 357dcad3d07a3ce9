SPECIFICATION HoleSpec
CONSTANTS
  Node = {0, 1, 2, 3, 4, 5, 6, 7, 8}
  Nil = Nil
  LAST <- MCLast
  Augmented = FALSE
  HoleSize <- MCSizes
  HoleStart <- MCPlaces
INVARIANTS SearchesEndRight
PROPERTIES ImplementsSortedHoles
