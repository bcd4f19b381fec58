SPECIFICATION OpenedSpec
CONSTANTS
  None = None
  Data = {a, b}
  MaxSize = 8
  Reader = {r}
  FirstLeaves <- TwoAndOne
INVARIANTS
  SnapshotReads
  ReaderRootCorrect
PROPERTIES
  IsSnapshots
  ReadsReturn
