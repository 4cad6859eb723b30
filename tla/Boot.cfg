\* A module that was never started, two power cuts anywhere, one write that
\* fails, and three things stored while it runs.
CONSTANTS
  ABSENT = ABSENT
  GARBAGE = GARBAGE
  EfuseMac = TRUE
  Networks = {"home", "office"}
  WepKeyed = {"office"}
  MaxCuts = 2
  Requests = 3
  Fragile = {"OpMode", "Ssid", "EncrypType", "WpaPsk", "IpMode", "masterServerAddr", "masterServerPort", "hardwareVersion", "publishWeek"}
SPECIFICATION Spec
INVARIANTS ProfileRead Paired VersionWhole ServerKnown
\* Nothing more is asked of the module.
CHECK_DEADLOCK FALSE
