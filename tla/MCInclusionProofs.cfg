SPECIFICATION ProofSpec
CONSTANTS
  None = None
  Panic = Panic
  Data = {d1, d2, d3, d4, d5, d6, d7, d8}
  MaxSize = 12
INVARIANTS
  ProofVerifies
  ProofBindsLeaves
  IncrementalVerifies
  NewLeafRootFromLast
