SPECIFICATION Spec
CONSTANTS
  Capacity = 4
  Socket = {m, a, b, c}
  Master = m
  NULL = NULL
  MaxBacklog = 1
SYMMETRY ClientSymmetry
INVARIANT
  DetailsKnowTheirHandle
CHECK_DEADLOCK FALSE
