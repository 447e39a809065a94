--------------------------- MODULE MCBsAccounting ---------------------------
EXTENDS BsAccounting, TLC

Symmetry == Permutations(Nodes)
=============================================================================
