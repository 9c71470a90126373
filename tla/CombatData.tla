----------------------------- MODULE CombatData -----------------------------
(* What produces data about combats, side by side: the reconstruction of     *)
(* combat states from recorded runs, free clients of sessions and emulators  *)
(* on the live game, the trajectory batch, and the evaluation scripts.  A    *)
(* process is one of them for its whole life.                                *)
EXTENDS TrajectoryBatch, OnlineEval, FloorReconstruction

gameVars == <<engine, owner, session, committed, ep, batch, disk, eval>>
floorVars == <<run, floors>>
dataVars == <<mode, gameVars, floorVars>>

Init ==
  /\ mode \in {"reconstruct", "clients", "batch", "eval"}
  /\ LiveInit
  /\ ep = NoEpisode
  /\ BatchInit
  /\ eval \in IF mode = "eval" THEN Evaluations ELSE {NoEval}
  /\ run = IF mode = "reconstruct" THEN NewRun ELSE NoRun
  /\ floors = NoFloors

Next ==
  \/ mode = "reconstruct" /\ ReconstructionStep /\ UNCHANGED <<mode, gameVars>>
  \/ mode = "clients" /\ ClientStep /\ UNCHANGED <<mode, ep, batch, disk, eval, floorVars>>
  \/ mode \in {"batch", "eval"} /\ EpisodeStep /\ UNCHANGED <<mode, batch, disk, eval, floorVars>>
  \/ mode = "batch" /\ BatchStep /\ UNCHANGED <<mode, eval, floorVars>>
  \/ mode = "eval" /\ EvalStep /\ UNCHANGED <<mode, batch, disk, floorVars>>

Spec == Init /\ [][Next]_dataVars
=============================================================================
