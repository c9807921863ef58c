SPECIFICATION Spec
CONSTANTS
  Keys = {k1, k2}
  HoldIDs = {h1, h2}
  MaxQty = 2
  Capacities = {0, 2}
  DefaultCapacity = 3
  WALBuffer = 2
  MaxSeq = 4
SYMMETRY SymmetricIDs
INVARIANTS
  TypeOK
  SeatsConserved
PROPERTIES
  ChangesAreRecorded
  LedgerSpec
CHECK_DEADLOCK FALSE
