SPECIFICATION Spec
CHECK_DEADLOCK FALSE
CONSTANTS
  EventLoop = loop
  Feeds = {loop, rf, is}
  p25 = p25
  aprs = aprs
  Radios = {p25, aprs}
  Heard <- MCHeard
  Places = {here}
  Servers = {s1, s2}
  NoServer = none
  MinInterval = 0
  HeartbeatS = 0
  MaxClock = 0
  MaxReports = 2
SYMMETRY Symmetric
INVARIANT
  AprsEnqueuedOnce
