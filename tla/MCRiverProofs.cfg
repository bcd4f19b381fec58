SPECIFICATION RiverGrowthSpec
CONSTANTS
  None = None
  Panic = Panic
  OverflowChecks = FALSE
  Data = {d1, d2, d3, d4, d5, d6, d7, d8, d9, d10, d11, d12, d13, d14, d15, d16}
  MaxSize = 27
INVARIANTS
  RiverRootCorrect
  InclusionVerifies
  InclusionBinds
  ConsistencyVerifies
  ConsistencyBindsSizes
