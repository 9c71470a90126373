--------------------------- MODULE MCApiInstances ---------------------------
EXTENDS ApiInstances
Symmetry == Permutations(Branches) \cup Permutations(RngIds)
=============================================================================
