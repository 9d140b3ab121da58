SPECIFICATION Spec
CONSTANTS
  Txn = {t1, t2}
  Key = {k1, k2, k3}
  MaxRows = 4
  Workloads <- AllWorkloads
  None = None
SYMMETRY KeySymmetry
CHECK_DEADLOCK FALSE
INVARIANTS TypeOK LookupFindsItsKey KeysAreReachable
PROPERTY ActsOnItsKey
