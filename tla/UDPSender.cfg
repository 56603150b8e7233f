SPECIFICATION Spec
CONSTANTS
  Capacity = 5
  Socket = {m, junk, a, b}
  Master = m
  Junk = junk
  NULL = NULL
  MaxQueue = 2
PROPERTY
  SenderFound
CHECK_DEADLOCK FALSE
