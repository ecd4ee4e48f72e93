SPECIFICATION FairSpec
CONSTANTS
  Producers = {p1, p2}
  QueueSize = 2
  MaxLines = 3
  MaxSockets = 2
INVARIANTS
  OneConnection
PROPERTIES
  PeerLossNoticed
  IsLossyFifo
CHECK_DEADLOCK FALSE
