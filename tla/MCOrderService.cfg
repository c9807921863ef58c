SPECIFICATION OrderSpec
CONSTANTS
  p1 = p1
  Orders = {o1, o2}
  Holds = {o1, o2}
  PartitionOf <- OnePartition
  Requests = {r1, r2}
  Txns = {t1, t2}
  Kinds = {"reserve", "pay", "cancel"}
  Seats = 2
  Nil = Nil
  MaxLate = 1
  Faults = {"call", "commit", "crash", "expiry", "restart"}
SYMMETRY SymmetricIDs
INVARIANTS
  OrderTypeOK
  OutboxTellsStatus
  PaymentsMatchOrders
  UntroubledPaidHasSeat
PROPERTY LifecycleSpec
CHECK_DEADLOCK FALSE
