SPECIFICATION FairSpec
CONSTANTS
  MaxVersion = 2
  MaxFaults = 2
INVARIANTS
  OneJob
  BusyIsAlive
  DoneIsNew
PROPERTIES
  UpdateEnds
  DecoderFollows
