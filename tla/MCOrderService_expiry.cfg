SPECIFICATION OrderSpec
CONSTANTS
  p1 = p1
  Orders = {o1}
  Holds = {o1}
  PartitionOf <- OnePartition
  Requests = {r1}
  Txns = {t1}
  Kinds = {"reserve", "pay"}
  Seats = 1
  Nil = Nil
  MaxLate = 0
  Faults = {"expiry"}
INVARIANT PaidHasSeat
CHECK_DEADLOCK FALSE
