SPECIFICATION FairSpec
CONSTANTS
  EventLoop = loop
  Producers = {loop, rf}
  QueueMax = 2
  ReconnectMin = 2
  ReconnectMax = 3
  MaxItems = 3
  MaxStops = 1
PROPERTIES
  StopEnds
  KeepsTrying
  QueueMoves
