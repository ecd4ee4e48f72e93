SPECIFICATION Spec
CHECK_DEADLOCK FALSE
CONSTANTS
  EventLoop = loop
  Feeds = {loop, rf, is}
  p25 = p25
  aprs = aprs
  Radios = {p25, aprs}
  Heard <- MCHeard
  Places = {here, there}
  Servers = {s1}
  NoServer = none
  MinInterval = 2
  HeartbeatS = 3
  MaxClock = 2
  MaxReports = 2
SYMMETRY Symmetric
INVARIANT
  MinIntervalKept
