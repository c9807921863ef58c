SPECIFICATION FairTrackSpec
CONSTANTS
  k1 = k1
  Keys = {k1}
  HoldIDs = {h1}
  Callers = {w1, w2}
  Nil = Nil
  MaxQty = 1
  Capacities = {2}
  DefaultCapacity = 1
  WALBuffer = 1
  MaxSeq = 4
  ShardOf <- OneShard
  NoRecord = NoRecord
  MaxRestarts = 0
  SnapshotOps = 1
  AppendMayFail = FALSE
  RedisMayFail = FALSE
INVARIANTS
  ServiceTypeOK
  HoldsAreTracked
PROPERTIES
  HoldsEnd
  AcceptedIsDurable
CHECK_DEADLOCK FALSE
