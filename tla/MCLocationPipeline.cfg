SPECIFICATION Spec
CHECK_DEADLOCK FALSE
CONSTANTS
  EventLoop = loop
  Feeds = {loop, rf, is}
  p25 = p25
  aprs = aprs
  Radios = {aprs, aprs2}
  Heard <- MCHeardAprs
  Places = {here, there}
  Servers = {}
  NoServer = none
  MinInterval = 1
  HeartbeatS = 2
  MaxClock = 2
  MaxReports = 3
SYMMETRY SymmetricAprs
INVARIANTS
  MinIntervalKeptAlone
  HeartbeatKept
PROPERTY
  SuppressionIsCovered
