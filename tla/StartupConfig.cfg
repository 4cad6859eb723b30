\* One power cut, after which the module is on another board.
CONSTANTS
  NULL = NULL
  Boards = {b1, b2}
  QosTries = 2
  UuidTries = 2
  MaxFaults = 1
  MaxPresses = 0
  MaxAsked = 1
  ListCap = 2
  QueueCap = 2
  HeapFails = FALSE
  Reused = FALSE
SPECIFICATION Spec
INVARIANTS EntersConfig
CHECK_DEADLOCK FALSE
