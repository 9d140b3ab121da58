SPECIFICATION Spec
CONSTANTS
  Rows = {0, 1, 5}
  Values <- Letters
  ChunkRows = 4
  Width = 4
  Digit = 2
  Kinds <- InPlaceKinds
  MaxOps = 3
  MaxTxns = 2
CHECK_DEADLOCK FALSE
INVARIANTS TypeOK RangeYieldsWrites UpdatesInOrder ComputedFollows RecordsRestore
