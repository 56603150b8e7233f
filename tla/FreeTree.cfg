SPECIFICATION Spec
CONSTANTS
  Node <- MCNode
  Size <- Sizes
  NULL = NULL
INVARIANTS
  TreeHoldsInactive
  TreeBalanced
  BestFitIsSmallest
