SPECIFICATION LogSpec
CONSTANTS
  k1 = k1
  Keys = {k1}
  HoldIDs = {h1, h2}
  MaxQty = 1
  Capacities = {1}
  DefaultCapacity = 1
  WALBuffer = 2
  MaxSeq = 4
  ShardOf <- OneShard
  NoRecord = NoRecord
  AppendMayFail = TRUE
  MaxRestarts = 1
INVARIANT NeverOversold
CHECK_DEADLOCK FALSE
