SPECIFICATION Spec
CONSTANTS
  None = None
  Data = {a}
  MaxSize = 1
INVARIANT CommitOkPersists
