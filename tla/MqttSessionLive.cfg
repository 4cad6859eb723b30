\* A session on a link where answers come in time, until it breaks.
CONSTANTS
  NULL = NULL
  QueueCap = 2
  MaxRouterUps = 1
  MaxUdpFails = 0
  ListCap = 1
  MaxPackets = 1
  MaxMessages = 1
  MaxIn = 3
  LinkBreaksToo = TRUE
  Timely = TRUE
SPECIFICATION FairSpec
INVARIANTS HealthyLinkKept AcknowledgedDelivered
  
CHECK_DEADLOCK FALSE
