SPECIFICATION SharedSpec
CONSTANTS
  None = None
  Data = {a}
  MaxSize = 3
  Reader = {r}
INVARIANT CommitUnderOneLock
