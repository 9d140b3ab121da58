SPECIFICATION RSpec
CONSTANTS
  Txn = {t1, t2}
  Reader = {r1}
  Snapper = {}
  Chunks = 3
  Shards = 2
  Programs <- MixedPrograms
  LogCap = 1
  None = None
INVARIANTS RTypeOK ReadersSeeWholeCommits ReplicaFollows
PROPERTIES ImplementsAtomicCommit CommitEnds ReplicaCatchesUp
