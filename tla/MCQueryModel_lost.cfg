SPECIFICATION QuerySpec
CONSTANTS
  Orders = {o1}
  Nil = Nil
  MaxRows = 2
  MaxSent = 2
  MaxAnnounced = 1
  MaxFaults = 1
  Faults = {"handle"}
INVARIANT CommitFollowsTransaction
CHECK_DEADLOCK FALSE
