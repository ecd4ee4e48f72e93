SPECIFICATION Spec
CONSTANTS
  Loop = loop
  Workers = {rf, is}
  OtherSystems = {}
  MaxRows = 2
  MaxCalls = 3
SYMMETRY Symmetric
INVARIANTS
  HardBlock
  AutoApproveInTime
  OnlyOperatorApproves
