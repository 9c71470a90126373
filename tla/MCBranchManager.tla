--------------------------- MODULE MCBranchManager ---------------------------
EXTENDS BranchManager
CONSTANTS w1, w2
WorkerSymmetry == Permutations(Workers)
==============================================================================
