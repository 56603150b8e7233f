SPECIFICATION Spec
CONSTANTS
  Capacity = 4
  Socket = {m, a, b, c, d}
  Master = m
  NULL = NULL
SYMMETRY ClientSymmetry
INVARIANTS
  TypeOK
  CorrespondenceUnlessDesynced
PROPERTY
  ImplementsTable
CHECK_DEADLOCK FALSE
