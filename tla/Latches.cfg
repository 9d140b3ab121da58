SPECIFICATION Spec
CONSTANTS
  Thread = {t1, t2, t3}
  Chunks = 2
  Shards = 2
  Operations <- AllOperations
  None = None
SYMMETRY ThreadSymmetry
INVARIANTS LocksAreOrdered NobodyWaitsInACircle NoDataRace
