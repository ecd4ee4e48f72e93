SPECIFICATION Spec
CONSTANTS
  Order <- MCOrder
  Keys = {k1}
  k1 = k1
  NoRow = NoRow
  NoFile = NoFile
  Factory = Factory
  MaxSticks = 2
  MaxBroken = 1
CHECK_DEADLOCK FALSE
PROPERTY
  RestartOnListening
