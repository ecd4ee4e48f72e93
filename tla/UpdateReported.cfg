SPECIFICATION Spec
CONSTANTS
  MaxVersion = 2
  MaxFaults = 0
INVARIANT
  RestartReportedDone
