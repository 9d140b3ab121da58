SPECIFICATION Spec
CONSTANTS
  Client = {c1, c2}
  Rows = {0, 1}
  ChunkRows = 1
  Start = 2
  MaxTime = 4
  TTLs = {1}
  Workloads <- SomeWorkloads
CHECK_DEADLOCK FALSE
INVARIANTS TypeOK DeadlinesArePromises
PROPERTIES OnlyExpiredRowsAreVacuumed ExpiredRowsLeave
