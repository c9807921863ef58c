------------------------- MODULE MCInventoryService -------------------------
EXTENDS InventoryService, TLC

CONSTANT k1

OneShard == k1 :> 0

SymmetricIDs == Permutations(HoldIDs) \cup Permutations(Callers)

=============================================================================
