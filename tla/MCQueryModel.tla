---------------------------- MODULE MCQueryModel -----------------------------
EXTENDS QueryModel, TLC

SymmetricIDs == Permutations(Orders)

=============================================================================
