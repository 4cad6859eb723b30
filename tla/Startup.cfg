\* Two faults: power cuts, resets and lost writes; two boards; queues that are full early.
CONSTANTS
  NULL = NULL
  Boards = {b1, b2}
  QosTries = 2
  UuidTries = 2
  MaxFaults = 2
  MaxPresses = 1
  MaxAsked = 1
  ListCap = 2
  QueueCap = 1
  HeapFails = TRUE
  Reused = TRUE
SPECIFICATION FairSpec
INVARIANTS TypeOK OwnId
PROPERTIES Settles 
CHECK_DEADLOCK FALSE
