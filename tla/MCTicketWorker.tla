--------------------------- MODULE MCTicketWorker ----------------------------
EXTENDS TicketWorker, TLC

CONSTANTS w1, w2

TwoTrips == w1 :> [from |-> 0, to |-> 2] @@ w2 :> [from |-> 1, to |-> 2]

SymmetricIDs == Permutations(Orders)
=============================================================================
