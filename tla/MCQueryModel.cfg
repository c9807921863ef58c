SPECIFICATION QuerySpec
CONSTANTS
  Orders = {o1}
  Nil = Nil
  MaxRows = 3
  MaxSent = 3
  MaxAnnounced = 1
  MaxFaults = 3
  Faults = {"publish", "mark", "handle", "cache", "commit", "restart"}
INVARIANTS
  QueryTypeOK
  ViewIsNeverAhead
  CommittedIsConsumed
  ViewSettles
PROPERTY SeatStaysKnown
CHECK_DEADLOCK FALSE
