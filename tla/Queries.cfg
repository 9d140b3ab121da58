SPECIFICATION Spec
CONSTANTS
  Writer = {w1, w2}
  Rows = {0, 1, 2}
  ChunkRows = 2
  Width = 2
  Column = "value"
  Rule <- Rules
  Written <- OneTwo
  Calls <- SomeCalls
  Predicate <- Small
  Workloads <- SomeWorkloads
  None = None
SYMMETRY WriterSymmetry
CHECK_DEADLOCK FALSE
INVARIANTS TypeOK ValuesBelongToRows SelectionIsExact AggregatesAreExact
