--------------------------- MODULE MCInventoryLog ---------------------------
EXTENDS InventoryLog, TLC

CONSTANT k1

OneShard == k1 :> 0

=============================================================================
