\* Sessions one after the other, with links that break and answers that come late.
CONSTANTS
  NULL = NULL
  QueueCap = 2
  MaxRouterUps = 2
  MaxUdpFails = 1
  ListCap = 1
  MaxPackets = 0
  MaxMessages = 0
  MaxIn = 2
  LinkBreaksToo = TRUE
  Timely = FALSE
SPECIFICATION Spec
INVARIANTS TypeOK OnlyStraysOverlap 
PROPERTIES RebootAtEighth
CHECK_DEADLOCK FALSE
