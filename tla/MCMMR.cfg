SPECIFICATION Spec
CONSTANTS
  None = None
  Data = {a, b}
  MaxSize = 4
SYMMETRY DataSymmetry
INVARIANTS
  TypeOK
  ReadYourWrites
  SameLookup
  DurablePrefix
  PushFindsSiblings
  TreeShape
  NodesMerged
  RootCorrect
  RecoveredRootCorrect
  IInv
PROPERTY IsNodeLog
