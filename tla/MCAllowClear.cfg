SPECIFICATION Spec
CONSTANTS
  Loop = loop
  Workers = {rf}
  OtherSystems = {}
  MaxRows = 2
  MaxCalls = 2
PROPERTY
  ApprovedKept
