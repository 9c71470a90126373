--------------------------- MODULE DecisionLoops ---------------------------
(* The program's two decision loops: the Main loop inside a combat         *)
(* (CombatMainLoop) and the drivers that walk a run from room to room      *)
(* (RoomProgression).  A behaviour runs one of them; they share no state.  *)
EXTENDS CombatMainLoop, RoomProgression

VARIABLE level

loopsVars == <<level, vars, roomVars>>

(* The loop that is not run stays in one of its initial states.            *)
LoopsInit ==
    /\ level \in {"combat", "run"} /\ Init /\ RoomInit
    /\ level = "combat" => mode = "drive" /\ seed = CHOOSE m \in Maps : TRUE
    /\ level = "run" => loop.start = None /\ game = CHOOSE g \in Openings : TRUE

LoopsNext ==
    \/ level = "combat" /\ Next /\ UNCHANGED <<level, roomVars>>
    \/ level = "run" /\ RoomNext /\ UNCHANGED <<level, vars>>

LoopsSpec == LoopsInit /\ [][LoopsNext]_loopsVars
=============================================================================
