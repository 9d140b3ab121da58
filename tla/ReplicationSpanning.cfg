SPECIFICATION RSpec
CONSTANTS
  Txn = {t1, t2}
  Reader = {}
  Snapper = {}
  Chunks = 2
  Shards = 2
  Programs <- SpanningPrograms
  LogCap = 2
  None = None
CHECK_DEADLOCK FALSE
INVARIANT ReplicaConverges
