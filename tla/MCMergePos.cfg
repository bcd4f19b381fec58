SPECIFICATION RiverSpec
CONSTANTS
  None = None
  Panic = Panic
  OverflowChecks = FALSE
  Data = {a}
  MaxSize = 2
INVARIANT MergedAtPosition
