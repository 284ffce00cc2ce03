SPECIFICATION Spec
CONSTANTS
  Requests = {r1, r2}
  GzipWriters = {w1, w2}
  Codes <- MCCodes
  HeaderTags <- MCTags
  MinUnits = 2
  MaxUnits = 3
  MaxCalls = 4
  NoWriter = NoWriter
  NoHeader = NoHeader
SYMMETRY Symmetry
INVARIANTS Transparent PanicNeverMixes FlushDelivers PoolSafe
CHECK_DEADLOCK FALSE
