SPECIFICATION Spec
CONSTANTS
  a1 = a1
  a2 = a2
  price = price
  title = title
  rich = rich
  poor = poor
  Admin = {a1, a2}
  Names = {price, title}
  Indexes = {rich, poor}
  Room = 2
  ChunkRows = 2
  Capacity = 1
  Workloads <- SomeWorkloads
  None = None
SYMMETRY Interchangeable
CHECK_DEADLOCK FALSE
INVARIANTS TypeOK RegistryIsCatalog ColumnsReachRows
