SPECIFICATION Spec
CONSTANTS
  Row = {0, 1, 2}
  Val = {a, b, c}
  Rule = {a}
  Zero = c
  Workloads <- SomeWorkloads
  None = None
INVARIANTS BitmapIsExact SortedFollowsColumn
