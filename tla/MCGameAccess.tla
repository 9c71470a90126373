---------------------------- MODULE MCGameAccess ----------------------------
(* GameAccess with two sessions and a bounded number of guard operations.  *)
EXTENDS GameAccess

CONSTANT MaxGeneration  \* guard operations explored

GenerationBound == generation <= MaxGeneration
=============================================================================
