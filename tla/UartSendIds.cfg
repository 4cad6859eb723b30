\* QoS level 1 in force: three packets of the module and two of the cloud under two data IDs, so that
\* an ID comes back while acknowledgements of its first use are still about.
CONSTANTS
  NULL = NULL
  MaxWifi = 3
  MaxCloud = 2
  MaxRequests = 0
  IdMod = 2
  ListCap = 2
  LineCap = 2
  DeviceLevels = {1}
  KnownQos = TRUE
  HeapFails = FALSE
  TimerFails = FALSE
  NullFaults = FALSE
  Timely = FALSE
SPECIFICATION Spec
INVARIANTS InOrder
