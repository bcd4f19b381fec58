SPECIFICATION FairSpec
CONSTANTS
  None = None
  Data = {a}
  MaxSize = 12
INVARIANTS
  PushFindsSiblings
  TreeShape
  RootCorrect
PROPERTY CallsReturn
