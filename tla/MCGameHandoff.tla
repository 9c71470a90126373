---------------------------- MODULE MCGameHandoff ----------------------------
(* GameHandoff with two whole runs and a standalone combat.                *)
EXTENDS GameHandoff

CONSTANT MaxGeneration  \* GameAccess operations explored

GenerationBound == generation <= MaxGeneration
=============================================================================
