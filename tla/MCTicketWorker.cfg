SPECIFICATION WorkerSpec
CONSTANTS
  Orders = {o1, o2}
  w1 = w1
  w2 = w2
  Workers = {w1, w2}
  Nil = Nil
  Trip <- TwoTrips
  SeatCount = 2
  SegmentCount = 2
  MaxTopic = 3
  MaxLives = 2
  Faults = {"call", "tx"}
SYMMETRY SymmetricIDs
INVARIANTS
  WorkerTypeOK
  TicketsMatchOrders
  SeatsAreExclusive
PROPERTY TicketsAreFinal
CHECK_DEADLOCK FALSE
