SPECIFICATION FairSpec
CONSTANTS
  Capacity = 3
  Socket = {m, a, b}
  Master = m
  NULL = NULL
  MaxBacklog = 1
PROPERTY
  EndedClientClosed
CHECK_DEADLOCK FALSE
