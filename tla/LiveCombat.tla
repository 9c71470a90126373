----------------------------- MODULE LiveCombat -----------------------------
(* One process and its one live GameInstance, shared by LiveCombatSessions   *)
(* (Combat/live_combat_session.py) and by BattleEmulators                    *)
(* (Combat/battle_emulator.py).  A session commits the decisions of its      *)
(* episode on the live game; a BattleEmulator restores the same game for its *)
(* hypothetical branches, and takes no lease to do so.  A session finds out  *)
(* from the (combat_session_id, step_index) the game reports that somebody   *)
(* else restored it, and re-establishes its own retained state first.        *)
(*                                                                           *)
(* A board is what ResetFromScenario can rebuild (the hit points left to the *)
(* enemies) and the prompt that is open.  Code outside the repository (the   *)
(* C# GameInstance) is the group of definitions marked external.             *)
EXTENDS Integers, FiniteSets

CONSTANTS Scenarios,        \* scenario specs
          Opening,          \* the enemies' hit points each spec starts with
          Snapshots,        \* the CombatStateSnapshots clients hold
          MaxContinuation,  \* MAX_CONTINUATION_STEPS
          MaxStep           \* bound on the step index clients drive a combat to

ASSUME OpeningAssumption == Opening \in [Scenarios -> Nat \ {0}]
ASSUME BoundsAssumption == MaxContinuation \in Nat \ {0} /\ MaxStep \in Nat

Boards == [hp : Nat, prompt : {"none", "choice", "target"}]
ASSUME SnapshotsAssumption == Snapshots \subseteq [board : Boards, step : Nat]

VARIABLES mode,       \* who runs in this process: free clients, the batch, the evaluation
          engine,     \* the live GameInstance
          owner,      \* the session whose COMBAT lease is current, 0 for none
          session,    \* the LiveCombatSessions of the process
          committed   \* history: the decision the last step committed, if it did

liveVars == <<mode, engine, owner, session, committed>>

SessionIds == 1..2
NoFrame == [sid |-> 0, step |-> 0]
NoBoard == [hp |-> 0, prompt |-> "none"]
NoState == [frame |-> NoFrame, board |-> NoBoard, turn |-> 0]
NoCommit == [before |-> NoBoard, action |-> "none", after |-> NoBoard, resynced |-> FALSE]

-----------------------------------------------------------------------------
(* The game. *)

\* "card" is a card that asks for its target, "draw" a card whose effect asks
\* the player to choose (an ActionContinuation), "end" is End Turn.
LegalActions(b) ==
  IF b.hp = 0 THEN {}
  ELSE CASE b.prompt = "none" -> {"card", "draw", "end"}
         [] b.prompt = "choice" -> {"choose"}
         [] b.prompt = "target" -> {"target"}

Effects(b, a) ==
  CASE a = "card" -> {[b EXCEPT !.prompt = "target"]}
    [] a = "target" -> {[hp |-> b.hp - 1, prompt |-> "none"]}
    [] a = "draw" -> {[b EXCEPT !.prompt = "choice"]}
    [] a = "choose" -> {b, [b EXCEPT !.prompt = "none"]}
    [] a = "end" -> {b}

\* An action id is a position in the list of the board it was read from: on
\* another board it is refused, or it names another action.
Played(b, a) == IF a \in LegalActions(b) THEN {a} ELSE LegalActions(b)

Outcome(how, e) == [how |-> how, engine |-> e]

\* Nothing of a faulted combat can be read until the next successful reset.
Faulted(e) == [sid |-> e.sid, step |-> 0, board |-> NoBoard, faulted |-> TRUE]

\* GameInstance.Step: it may fault the combat (ActionFaultedException) or
\* stop between two quiescent boundaries.
EngineStep(e, a) ==
  IF e.faulted THEN {Outcome("faulted", e)}
  ELSE LET After == {[e EXCEPT !.board = b, !.step = @ + 1] :
                       b \in UNION {Effects(e.board, p) : p \in Played(e.board, a)}}
       IN {Outcome("ok", f) : f \in After} \cup {Outcome("quiescent", f) : f \in After}
            \cup {Outcome("fault", Faulted(e))}
            \cup (IF a \in LegalActions(e.board) THEN {} ELSE {Outcome("error", e)})

HeldIds == {session[k].state.frame.sid : k \in SessionIds}

\* Every ResetFromScenario mints a combatSessionId nobody holds.
FreshId(e, held) == CHOOSE i \in 1..(Cardinality(held) + 2) :
                      /\ i \notin held \cup {e.sid}
                      /\ \A j \in 1..(i - 1) : j \in held \cup {e.sid}

Resets(e, held, b, step) ==
  LET f == [sid |-> FreshId(e, held), step |-> step, board |-> b, faulted |-> FALSE]
  IN {Outcome("ok", f), Outcome("quiescent", f), Outcome("error", e)}

-----------------------------------------------------------------------------
(* BattleEmulator. *)

\* _wrap: the BattleState of what the game shows.
Wrap(e, turn) == [frame |-> [sid |-> e.sid, step |-> e.step], board |-> e.board, turn |-> turn]

IsTerminal(st) == st.board.hp = 0
IsActionContinuation(b) == b.prompt = "choice"

\* battle_state_key: the turn is part of it, the identity of the combat is not.
BattleStateKey(st) == <<st.turn, st.board>>

\* build_scenario_from_state: an open ActionContinuation or target prompt has
\* no field of CombatScenario to travel in.  Nor have two write-only fields of
\* single enemies (hasBeetleCharged, currentPressureGunDamage): what a rebuilt
\* FrogKnight or WaterfallGiant then does is inside the board here.
ScenarioOf(st) == [st.board EXCEPT !.prompt = "none"]

\* _restore, which raises on a state without living enemies.
Restore(e, held, st) ==
  IF IsTerminal(st) THEN {Outcome("error", e)} ELSE Resets(e, held, ScenarioOf(st), st.frame.step)

Initialize(e, held, c) == Resets(e, held, [hp |-> Opening[c], prompt |-> "none"], 0)

\* enumerate_legal_actions: the cached list of a continuation is consumed on
\* the game that opened it, every other state is restored first.
EnumerateRestoringAlways(e, held, st) ==
  IF IsTerminal(st) THEN {Outcome("ok", e)} ELSE Restore(e, held, st)

EnumerateLegalActions(e, held, st) ==
  IF IsTerminal(st) \/ IsActionContinuation(st.board)
  THEN {Outcome("ok", e)} ELSE Restore(e, held, st)

\* step_live_action: a target prompt is answered by a second Step; a
\* target_enemy_index nobody offers raises in between.
StepLiveAction(e, a) ==
  UNION {IF r.how = "ok" /\ r.engine.board.prompt = "target"
         THEN EngineStep(r.engine, "target") \cup {Outcome("error", r.engine)}
         ELSE {r} : r \in EngineStep(e, a)}

NextTurn(st, a) == IF a = "end" THEN st.turn + 1 ELSE st.turn

\* One round of the continuation loop.
Continue(held, r) ==
  IF r.how # "ok" \/ ~IsActionContinuation(r.engine.board) THEN {r}
  ELSE UNION {IF q.how = "ok" THEN StepLiveAction(q.engine, "choose") ELSE {q} :
                q \in EnumerateLegalActions(r.engine, held, Wrap(r.engine, 0))}

\* The loop itself, which raises when the choice is still open at its limit.
ResolveContinuation(held, rs) ==
  LET round[n \in 0..MaxContinuation] ==
        IF n = 0 THEN rs ELSE UNION {Continue(held, r) : r \in round[n - 1]}
  IN {IF r.how = "ok" /\ IsActionContinuation(r.engine.board) THEN Outcome("error", r.engine) ELSE r :
        r \in round[MaxContinuation]}

\* apply_action on a restored game.
ApplyAction(e, held, st, a) ==
  IF IsTerminal(st) \/ IsActionContinuation(st.board) THEN {Outcome("error", e)}
  ELSE UNION {IF r.how # "ok" THEN {r}
              ELSE ResolveContinuation(held, StepLiveAction(r.engine, a)) : r \in Restore(e, held, st)}

-----------------------------------------------------------------------------
(* LiveCombatSession. *)

\* _current_frame is always the frame of the BattleState last handed out.
NewSession == [leased |-> FALSE, faulted |-> FALSE, state |-> NoState]
Frame(k) == session[k].state.frame

\* _mutating_game: a session without a lease claims one, which supersedes the
\* current one; a superseded lease raises.
MayMutate(k) == session[k].leased => owner = k
Claimed(s) == [s EXCEPT !.leased = TRUE]

\* The common end of start_combat, resume_from and a restore that succeeded.
Established(st) == [leased |-> TRUE, faulted |-> FALSE, state |-> st]

Establish(k, outcomes, turn) ==
  /\ MayMutate(k)
  /\ owner' = k
  /\ committed' = NoCommit
  /\ \E r \in outcomes :
       /\ engine' = r.engine
       /\ session' = [session EXCEPT ![k] =
            IF r.how = "ok" THEN Established(Wrap(r.engine, turn))
            ELSE [Claimed(session[k]) EXCEPT !.faulted = @ \/ r.how = "failed"]]

StartCombat(k, c) == Establish(k, Initialize(engine, HeldIds, c), 1)

ResumeFrom(k, st) == st # NoState /\ Establish(k, Restore(engine, HeldIds, st), st.turn)

\* restore_snapshot and restore_snapshot_json: a rejection touches nothing, a
\* failure comes after the teardown of the combat that was live.
SnapshotRestores(snap) ==
  IF snap.board.prompt # "none" THEN {Outcome("rejected", engine)}
  ELSE {r \in Resets(engine, HeldIds, snap.board, snap.step) : r.how # "error"}
         \cup {Outcome("failed", Faulted(engine))}

RestoreSnapshot(k, snap) == Establish(k, SnapshotRestores(snap), 1)

\* Observes the live combat without reset, restore or claim.
AdoptCurrentCombat(k) ==
  /\ ~engine.faulted /\ engine.sid # 0
  /\ LET st == Wrap(engine, 1)
     IN session' = [session EXCEPT ![k].state = st]
  /\ committed' = NoCommit
  /\ UNCHANGED <<engine, owner>>

Close(k) ==
  /\ session[k].leased
  /\ session' = [session EXCEPT ![k].leased = FALSE]
  /\ owner' = IF owner = k THEN 0 ELSE owner
  /\ committed' = NoCommit
  /\ UNCHANGED engine

IsStillCurrentByStep(k) == engine.step = Frame(k).step

\* _is_still_current
IsStillCurrent(k) == [sid |-> engine.sid, step |-> engine.step] = Frame(k)

\* step, from the lease check on: resynchronize, Step, continuation loop.  A
\* game that a candidate evaluation left faulted raises before the try.
StepOutcomes(k, a, stopAtPending) ==
  IF engine.faulted THEN {Outcome("raw", engine)}
  ELSE LET st == session[k].state
           ready == IF IsStillCurrent(k) THEN {Outcome("ok", engine)} ELSE Restore(engine, HeldIds, st)
       IN UNION {IF r.how # "ok" THEN {r}
                 ELSE IF stopAtPending THEN StepLiveAction(r.engine, a)
                 ELSE ResolveContinuation(HeldIds, StepLiveAction(r.engine, a)) : r \in ready}

\* The whole of step for one outcome: only a step that returned moves the
\* session to the new frame, only a fault marks it.
Stepped(k, a, r) ==
  /\ owner' = k
  /\ engine' = r.engine
  /\ LET st == Wrap(r.engine, NextTurn(session[k].state, a))
     IN IF r.how = "ok"
        THEN /\ session' = [session EXCEPT ![k] = Established(st)]
             /\ committed' = [before |-> session[k].state.board, action |-> a,
                              after |-> st.board, resynced |-> ~IsStillCurrent(k)]
        ELSE /\ session' = [session EXCEPT ![k] =
                  [Claimed(session[k]) EXCEPT !.faulted = @ \/ r.how \in {"fault", "faulted"}]]
             /\ committed' = NoCommit

\* The early returns of step, in front of the lease check.
StepAccepted(k) == Frame(k) # NoFrame /\ ~session[k].faulted /\ MayMutate(k)

Step(k, a, stopAtPending) ==
  /\ StepAccepted(k)
  /\ a \in LegalActions(session[k].state.board)
  /\ Frame(k).step < MaxStep
  /\ \E r \in StepOutcomes(k, a, stopAtPending) : Stepped(k, a, r)

-----------------------------------------------------------------------------
(* Free clients: the session owners, and the emulators nobody leases. *)

EmulatorInitializes(c) ==
  /\ \E r \in Initialize(engine, HeldIds, c) : engine' = r.engine
  /\ committed' = NoCommit
  /\ UNCHANGED <<owner, session>>

EmulatorEnumerates(k) ==
  /\ session[k].state # NoState
  /\ \E r \in EnumerateLegalActions(engine, HeldIds, session[k].state) : engine' = r.engine
  /\ committed' = NoCommit
  /\ UNCHANGED <<owner, session>>

EmulatorApplies(k, a) ==
  /\ session[k].state # NoState
  /\ a \in LegalActions(session[k].state.board)
  /\ Frame(k).step < MaxStep
  /\ \E r \in ApplyAction(engine, HeldIds, session[k].state, a) : engine' = r.engine
  /\ committed' = NoCommit
  /\ UNCHANGED <<owner, session>>

Actions == {"card", "draw", "choose", "end"}

\* The client of session 1 does all a client can; the second session takes
\* the game and gives it up, which is all that session 1 can notice of it.
ClientStep ==
  \/ \E k \in SessionIds, c \in Scenarios : StartCombat(k, c)
  \/ \E k \in SessionIds : Close(k)
  \/ \E k \in SessionIds : ResumeFrom(1, session[k].state)
  \/ \E snap \in Snapshots : RestoreSnapshot(1, snap)
  \/ AdoptCurrentCombat(1)
  \/ \E a \in Actions, stop \in BOOLEAN : Step(1, a, stop)
  \/ \E c \in Scenarios : EmulatorInitializes(c)
  \/ EmulatorEnumerates(1)
  \/ \E a \in Actions : EmulatorApplies(1, a)

LiveInit ==
  /\ engine = [sid |-> 0, step |-> 0, board |-> NoBoard, faulted |-> FALSE]
  /\ owner = 0
  /\ session = [k \in SessionIds |-> NewSession]
  /\ committed = NoCommit

-----------------------------------------------------------------------------

\* What playing an action on a board comes to once its prompts are answered.
PlayedOut(b, a) ==
  CASE a = "card" -> {[b EXCEPT !.hp = @ - 1]}
    [] a = "draw" -> {b, [b EXCEPT !.prompt = "choice"]}
    [] a = "choose" -> {b, [b EXCEPT !.prompt = "none"]}
    [] a = "end" -> {b}

\* A decision that LiveCombatSession.step commits is played on the board of
\* the BattleState it was chosen for, whatever restored the shared game in
\* between: candidate evaluations, another session, a resume or a failed step.
\* The one exception is a resynchronization of a state whose ActionContinuation
\* is open, because a CombatScenario cannot carry it.
CommittedStepIsTheDecision ==
  \/ committed = NoCommit
  \/ committed.after \in PlayedOut(committed.before, committed.action)
  \/ committed.resynced /\ IsActionContinuation(committed.before)
=============================================================================
