SPECIFICATION Spec
CONSTANTS
  EventLoop = loop
  Producers = {loop, rf, is}
  QueueMax = 2
  ReconnectMin = 2
  ReconnectMax = 6
  MaxItems = 5
  MaxStops = 2
SYMMETRY Workers
INVARIANTS
  Accounting
  SentInOrder
  ConnectedIsLive
PROPERTY
  IsLossyFifo
