--------------------------- MODULE MCOrderService ---------------------------
EXTENDS OrderService, TLC

CONSTANT p1

OnePartition == [h \in Holds |-> p1]

SymmetricIDs == Permutations(Orders) \cup Permutations(Requests) \cup Permutations(Txns)

=============================================================================
