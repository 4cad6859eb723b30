\* From power-on: the QoS level, 0, 1 or 2, is read, or given up, while packets are sent.
\* No data ID is used twice.  The processor may stop at the access through NULL.
CONSTANTS
  NULL = NULL
  MaxWifi = 2
  MaxCloud = 1
  MaxRequests = 0
  IdMod = 3
  ListCap = 2
  LineCap = 2
  DeviceLevels = {0, 1, 2}
  KnownQos = FALSE
  HeapFails = TRUE
  TimerFails = TRUE
  NullFaults = TRUE
  Timely = FALSE
SPECIFICATION Spec
INVARIANTS TypeOK NothingLost 
CHECK_DEADLOCK FALSE
