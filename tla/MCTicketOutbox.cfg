SPECIFICATION FairOutboxSpec
CONSTANTS
  Orders = {o1, o2}
  Workers = {w1, w2}
  MaxRestarts = 2
INVARIANTS
  OutboxTypeOK
  PublishedIsAnnounced
PROPERTY TicketsAreAnnounced
CHECK_DEADLOCK FALSE
