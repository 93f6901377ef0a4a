SPECIFICATION Spec
CONSTANTS
  RBElements = {1, 2, 3, 4, 5, 6, 7}
  SplayElements = {1, 2, 3, 4, 5, 6}
  RBKey <- MCRBKey
  SplayKey <- MCSplayKey
  NULL = NULL
  node = node
INVARIANTS
  SearchTree
  Colours
  PartsApart
PROPERTIES
  ImplementsSet
  Returns
