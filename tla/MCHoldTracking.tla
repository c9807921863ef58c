--------------------------- MODULE MCHoldTracking ---------------------------
EXTENDS HoldTracking, TLC

CONSTANT k1

OneShard == k1 :> 0

=============================================================================
