SPECIFICATION Spec
CONSTANTS
  Requests = {r1, r2}
  Presence = TRUE
  MaxManagers = 3
INVARIANTS
  NoOrphan
  DeletedStops
  SessionIsOnline
CHECK_DEADLOCK FALSE
