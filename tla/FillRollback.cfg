SPECIFICATION Spec
CONSTANTS
  Txn = {t1, t2}
  WordBits = 2
  ChunkRows = 2
  MaxRows = 4
  Workloads <- FewInserts
SYMMETRY TxnSymmetry
PROPERTY RollbackLeavesNothing
