SPECIFICATION Spec
CONSTANTS
  Txn = {t1, t2, t3}
  WordBits = 2
  ChunkRows = 2
  MaxRows = 4
  Workloads <- AllWorkloads
SYMMETRY TxnSymmetry
INVARIANTS TypeOK CountIsPopulation ChunksHaveIDs OneOwner CommittedStays
PROPERTIES FreshRow OnlyRollbacksAbandon
