------------------------- MODULE MCPartitionManager -------------------------
(***************************************************************************)
(* The partition manager on two partitions of different sizes.  The        *)
(* identifiers are interchangeable, so safety runs use their symmetry.     *)
(***************************************************************************)
EXTENDS PartitionManager, TLC

SymmetricIDs == Permutations(Keys) \cup Permutations(HoldIDs)

=============================================================================
