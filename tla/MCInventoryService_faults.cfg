SPECIFICATION ServiceSpec
CONSTANTS
  k1 = k1
  Keys = {k1}
  HoldIDs = {h1}
  Callers = {w1, w2}
  Nil = Nil
  MaxQty = 1
  Capacities = {2}
  DefaultCapacity = 1
  WALBuffer = 1
  MaxSeq = 3
  ShardOf <- OneShard
  NoRecord = NoRecord
  MaxRestarts = 2
  SnapshotOps = 1
  AppendMayFail = TRUE
  RedisMayFail = TRUE
SYMMETRY SymmetricIDs
INVARIANTS
  SeatsBalance
  NumbersAreFresh
  MemoryIsReplayable
  PublishedIsDurable
PROPERTIES
  SnapshotsAdvance
  RestartLosesOnlyInFlight
CHECK_DEADLOCK FALSE
