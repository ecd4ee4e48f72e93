SPECIFICATION ConsoleSpec
CONSTANTS
  Requests = {r1, r2}
  Materials = {m1, m2, m3}
  NoFile = NoFile
  Blank = Blank
  NoRow = NoRow
  NoManager = NoManager
  Pages = {p1, p2}
  Threads = {t1}
  Limit = 1
  MaxPublished = 3
  MaxLeaked = 1
  Worlds <- MCWorlds
  s1 = s1
  AckTtl = 1
  MaxAcked = 2
  Browsers = {b1, b2}
  Keys = {k0, k1, k2}
  OldKey = k0
  Passwords = {pw1}
  Torn = Torn
  MaxFrames = 2
  MaxBytes = 2
  MaxConns = 2
  QueueMax = 1
  MaxPackets = 2
  Radios = {radio}
  Algids <- MCAlgids
  Kids = {10}
  Dedupe = 1
  Retention = 2
  MaxTime = 3
  MaxRows = 2
  None = None
CHECK_DEADLOCK FALSE
INVARIANT
  UnknownStaysNamed
