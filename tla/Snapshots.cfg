SPECIFICATION SSpec
CONSTANTS
  Txn = {t1, t2}
  Reader = {}
  Snapper = {s1, s2}
  Chunks = 2
  Shards = 2
  Programs <- MeetingPrograms
  LogCap = 1
  None = None
  WritesFail = TRUE
SYMMETRY Interchangeable
CHECK_DEADLOCK FALSE
INVARIANT SnapshotIsPointInTime
PROPERTY RefusedOnlyWhenBusy
