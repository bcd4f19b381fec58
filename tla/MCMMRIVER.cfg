SPECIFICATION RiverSpec
CONSTANTS
  None = None
  Panic = Panic
  OverflowChecks = FALSE
  Data = {a}
  MaxSize = 12
INVARIANTS
  RiverTreeShape
  RiverNodesMerged
  RiverFindsChildren
  RiverIInv
PROPERTIES
  CallsReturn
  IsNodeLog
