\* Two packets of each channel under QoS level 1 and one of the device, timers longer than a round trip.
CONSTANTS
  NULL = NULL
  MaxWifi = 2
  MaxCloud = 2
  MaxRequests = 1
  IdMod = 2
  ListCap = 2
  LineCap = 2
  DeviceLevels = {1}
  KnownQos = TRUE
  HeapFails = TRUE
  TimerFails = FALSE
  NullFaults = FALSE
  Timely = TRUE
SPECIFICATION FairSpec
PROPERTIES Delivered
