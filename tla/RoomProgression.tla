--------------------------- MODULE RoomProgression --------------------------
(* The single-threaded drivers of a Whole Run (Run/): drive_rooms, which     *)
(* walks from map fork to map fork and routes around rooms without a legal   *)
(* action by reloading; the Branch attempts of choice_branch_runner, which   *)
(* bring one choice about in a holder, a sibling and a replay; and the       *)
(* external_control calls of execution_mode, made by callers that decide on  *)
(* what they captured earlier.  All WholeRunSessions of a process share one  *)
(* game, so a new session only continues on it (GameHandoff has the leases). *)
(*                                                                           *)
(* What a run's state is, is told by its path: the rooms and actions taken   *)
(* since StartRun.  The engine is a function of the path.                    *)
EXTENDS Integers, SequencesExt

CONSTANTS Maps,       \* maps: per floor, the kinds of the rooms on offer
          Callers,    \* external_control callers
          Drives,     \* drive_rooms calls of one batch
          MaxSteps    \* max_steps of drive_rooms

Kinds == {"event", "combat", "treasure", "stuck", "trap"}

ASSUME MapsAssumption == Maps \subseteq Seq(Seq(Kinds))
ASSUME RoomBounds == Drives \in Nat \ {0} /\ MaxSteps \in Nat

VARIABLES mode,     \* the program that runs: drive, attempt or external
          seed,     \* the seed of StartRun, which is the map it makes
          run,     \* the run on the process's GameInstance
          drive,    \* drive_rooms, call after call
          attempt,  \* search_for_room_type and attempt_branch
          captured      \* the decision each external caller captured

roomVars == <<mode, seed, run, drive, attempt, captured>>

-----------------------------------------------------------------------------
(* The game. *)

\* The boundaries a room takes the run through.  A "stuck" room offers no
\* action, a "trap" one and then none; a treasure is claimed and left inside
\* ChooseRoom.
Script == [event |-> <<"event">>, combat |-> <<"combat", "potion", "cards">>,
           treasure |-> <<>>, stuck |-> <<"stuck">>, trap |-> <<"event", "stuck">>]

\* An element of the path: a room that was entered or an action that was taken.
Went(r) == [room |-> r, action |-> "enter"]
Did(a) == [room |-> 0, action |-> a]

\* StartRun puts the run in front of an event, before the first fork.
NewRun == [path |-> <<>>, floor |-> 0, room |-> "event", at |-> 1]

Moved(g) == IF g.at <= Len(Script[g.room]) THEN g
            ELSE [g EXCEPT !.floor = @ + 1, !.room = "map", !.at = 1]

\* Two turns that end without a card are fatal.
Dead(g) == Len(g.path) >= 2 /\ \A i \in {Len(g.path) - 1, Len(g.path)} : g.path[i] = Did("end")

Stage(g) == IF g.room = "map" THEN "map" ELSE Script[g.room][g.at]

RunBoundary(g) ==
  IF Dead(g) \/ g.floor > Len(seed) THEN "run_terminal"
  ELSE CASE Stage(g) = "map" -> "map_select"
         [] Stage(g) = "event" -> "event_choice"
         [] Stage(g) \in {"potion", "cards"} -> "reward_select"
         [] OTHER -> "stable"

GetMapRooms(g) == seed[g.floor]

\* In the order the Emulator lists them: End Turn comes first.
GetLegalActions(g) ==
  IF RunBoundary(g) = "run_terminal" THEN <<>>
  ELSE CASE Stage(g) = "event" -> <<"option", "other_option">>
         [] Stage(g) = "combat" -> <<"end", "card">>
         [] Stage(g) = "potion" -> <<"take", "skip">>
         [] Stage(g) = "cards" -> <<"skip", "pick_card">>
         [] OTHER -> <<>>

ChooseRoom(g, r) ==
  Moved([g EXCEPT !.path = Append(@, Went(r)), !.room = GetMapRooms(g)[r], !.at = 1])

StepGame(g, a) ==
  Moved([g EXCEPT !.path = Append(@, Did(a)), !.at = IF a = "end" THEN @ ELSE @ + 1])

-----------------------------------------------------------------------------
(* Pickers. *)

PreferenceOrder == <<"card", "end", "skip", "option", "other_option", "pick_card", "take">>

PickDefaultAction(legal) ==
  PreferenceOrder[Min({i \in DOMAIN PreferenceOrder : PreferenceOrder[i] \in Range(legal)})]

ZeroIndexAction(legal) == legal[1]

Untried(rooms, tried) == DOMAIN rooms \ tried

\* pick_room prefers what is no treasure.
PickRoom(rooms, tried) ==
  LET pool == Untried(rooms, tried)
      others == {i \in pool : rooms[i] # "treasure"}
  IN IF others # {} THEN Min(others) ELSE IF pool # {} THEN Min(pool) ELSE 0

ZeroIndexRoomPicker(rooms, tried) ==
  LET pool == Untried(rooms, tried) IN IF pool # {} THEN Min(pool) ELSE 0

PickedAction(picker, legal) == IF picker = "zero_index" THEN ZeroIndexAction(legal) ELSE PickDefaultAction(legal)
PickedRoom(picker, rooms, tried) ==
  IF picker = "zero_index" THEN ZeroIndexRoomPicker(rooms, tried) ELSE PickRoom(rooms, tried)

-----------------------------------------------------------------------------
(* drive_rooms.  An action is one iteration of its loop. *)

NoSnapshot == [NewRun EXCEPT !.at = 0]

FreshDrive(calls, picker) ==
  [pc |-> "loop", calls |-> calls, picker |-> picker, entered |-> 0, steps |-> 0,
   snap |-> NoSnapshot, tried |-> {}, visited |-> {}, again |-> FALSE]

IdleDrive == [FreshDrive(0, "default") EXCEPT !.pc = "idle"]

\* run_batch and determinism_check: the next call starts the run over, on the
\* game as the last call left it.
BeginDrive ==
  /\ drive.pc \in {"idle", "ended"} /\ drive.calls < Drives
  /\ \E picker \in {"default", "zero_index"} :
       /\ drive.calls > 0 => picker = drive.picker
       /\ drive' = FreshDrive(drive.calls + 1, picker)
  /\ run' = NewRun
  /\ UNCHANGED <<attempt, captured>>

Looping == drive.pc = "loop" /\ drive.steps < MaxSteps

\* A break out of the loop, or the end of its condition.
Returned(d) == [d EXCEPT !.pc = "ended"]

DriveEnds ==
  /\ \/ drive.pc = "loop" /\ drive.steps >= MaxSteps
     \/ Looping /\ RunBoundary(run) = "run_terminal"
     \/ Looping /\ RunBoundary(run) = "map_select" /\ GetMapRooms(run) = <<>>
  /\ drive' = Returned(drive)
  /\ UNCHANGED <<run, attempt, captured>>

\* The snapshot of a fork is taken once, before its first candidate.
AtFork(d, g) ==
  IF d.snap = NoSnapshot \/ d.tried = {} THEN [d EXCEPT !.snap = g, !.tried = {}] ELSE d

\* A room that was entered counts; whether it leaves the fork is not yet known.
Entered(d, r) ==
  [d EXCEPT !.tried = @ \cup {r}, !.entered = @ + 1, !.steps = @ + 1,
            !.visited = @ \cup {<<run.path, r>>}, !.again = @ \/ <<run.path, r>> \in d.visited]

Resolved(d) == [d EXCEPT !.snap = NoSnapshot, !.tried = {}]

\* A treasure is behind the run already: keep nothing of the old fork.
AfterRoomKeepingFork(d, g) == d
AfterRoom(d, g) == IF RunBoundary(g) = "map_select" THEN Resolved(d) ELSE d

DriveMap ==
  /\ Looping /\ RunBoundary(run) = "map_select" /\ GetMapRooms(run) # <<>>
  /\ LET d == AtFork(drive, run)
         r == PickedRoom(d.picker, GetMapRooms(run), d.tried)
     IN IF r = 0
        THEN drive' = Returned(d) /\ UNCHANGED run
        ELSE \/ /\ run' = ChooseRoom(run, r)
                /\ drive' = AfterRoom(Entered(d, r), run')
             \/ \* ChooseRoom raises
                drive' = Returned([d EXCEPT !.tried = @ \cup {r}]) /\ UNCHANGED run
  /\ UNCHANGED <<attempt, captured>>

AtRoom == Looping /\ RunBoundary(run) \notin {"run_terminal", "map_select"}

ReloadedForgetting(d) == [d EXCEPT !.tried = {}]
Reloaded(d) == d

\* A room without a legal action: back to the fork it was entered from.
DriveUnsupported ==
  /\ AtRoom /\ GetLegalActions(run) = <<>>
  /\ IF drive.snap # NoSnapshot
     THEN run' = drive.snap /\ drive' = Reloaded(drive)
     ELSE drive' = Returned(drive) /\ UNCHANGED run
  /\ UNCHANGED <<attempt, captured>>

DriveStep ==
  /\ AtRoom /\ GetLegalActions(run) # <<>>
  /\ LET a == PickedAction(drive.picker, GetLegalActions(run))
     IN \/ /\ run' = StepGame(run, a)
           /\ drive' = [Resolved(drive) EXCEPT !.steps = @ + 1]
        \/ drive' = Returned(drive) /\ UNCHANGED run
  /\ UNCHANGED <<attempt, captured>>

DriverStep == BeginDrive \/ DriveEnds \/ DriveMap \/ DriveUnsupported \/ DriveStep

-----------------------------------------------------------------------------
(* choice_branch_runner. *)

\* drain_trivial_reward_frontier: [game, ids] once nothing trivial is left.
Drain(g) ==
  IF RunBoundary(g) = "reward_select" /\ "take" \in Range(GetLegalActions(g))
  THEN [game |-> StepGame(g, "take"), ids |-> <<"take">>]
  ELSE [game |-> g, ids |-> <<>>]

\* One default action and the drain that follows; the prefix takes both.
DrivenForgettingDrain(t) ==
  LET a == PickDefaultAction(GetLegalActions(t.game))
      d == Drain(StepGame(t.game, a))
  IN [game |-> d.game, ids |-> Append(t.ids, a)]

Driven(t) ==
  LET a == PickDefaultAction(GetLegalActions(t.game))
      d == Drain(StepGame(t.game, a))
  IN [game |-> d.game, ids |-> t.ids \o <<a>> \o d.ids]

\* The two autoplay loops: default actions until a boundary of `stops`, no
\* legal action, or the bound on the steps.
DriveUntil(t, stops) ==
  LET after[n \in 0..MaxSteps] ==
        IF n = 0 THEN t
        ELSE LET u == after[n - 1]
             IN IF RunBoundary(u.game) \in stops \/ GetLegalActions(u.game) = <<>> THEN u ELSE Driven(u)
  IN after[MaxSteps]

DriveToMapOrTerminal(g) == DriveUntil(Drain(g), {"map_select", "run_terminal"}).game

ReachChoiceBoundary(g, r, target) ==
  DriveUntil(Drain(ChooseRoom(g, r)), {target, "run_terminal"})

\* The sibling and the replay take the recorded ids literally, with no drain.
ReplayTo(g, r, ids) ==
  LET after[n \in 0..Len(ids)] == IF n = 0 THEN ChooseRoom(g, r) ELSE StepGame(after[n - 1], ids[n])
  IN after[Len(ids)]

NoAttempt == [pc |-> "idle", kind |-> "none", target |-> "none", snap |-> NoSnapshot, room |-> 0,
              probe |-> 1, ids |-> <<>>, a |-> "none", holder |-> <<>>, before |-> <<>>,
              sibling |-> <<>>, siblingBefore |-> <<>>, replay |-> <<>>]

\* What a Branch is attempted on: an event (shop and rest are alike), the
\* reward of a combat, a fork of the map.
ChoiceTypes == {[kind |-> "event", target |-> "event_choice"], [kind |-> "combat", target |-> "reward_select"],
                [kind |-> "map", target |-> "map_select"]}

Fails(how) == attempt' = [attempt EXCEPT !.pc = how] /\ UNCHANGED run

\* search_for_room_type, up to its first fork.
SearchStart ==
  /\ attempt.pc = "idle"
  /\ \E c \in ChoiceTypes :
       LET g == DriveToMapOrTerminal(NewRun)
       IN /\ run' = g
          /\ attempt' = [NoAttempt EXCEPT !.kind = c.kind, !.target = c.target, !.snap = g,
               !.pc = IF RunBoundary(g) # "map_select" THEN "not_found" ELSE IF c.kind = "map" THEN "map" ELSE "probe"]

\* probe_room_type: a session that is thrown away enters the candidate.
SearchProbe ==
  /\ attempt.pc = "probe" /\ attempt.probe <= Len(GetMapRooms(attempt.snap))
  /\ LET r == attempt.probe
         kind == GetMapRooms(attempt.snap)[r]
     IN IF kind = "treasure" /\ attempt.kind # "treasure"
        THEN run' = attempt.snap /\ attempt' = [attempt EXCEPT !.probe = @ + 1]
        ELSE /\ run' = ChooseRoom(attempt.snap, r)
             /\ attempt' = IF kind = attempt.kind THEN [attempt EXCEPT !.pc = "holder", !.room = r]
                           ELSE [attempt EXCEPT !.probe = @ + 1]

\* No candidate matched: play one of them and look at the next fork.
SearchAdvance ==
  /\ attempt.pc = "probe" /\ attempt.probe > Len(GetMapRooms(attempt.snap))
  /\ LET r == PickRoom(GetMapRooms(attempt.snap), {})
         g == DriveToMapOrTerminal(ChooseRoom(attempt.snap, r))
     IN IF r = 0 THEN Fails("not_found")
        ELSE /\ run' = g
             /\ attempt' = IF RunBoundary(g) # "map_select" THEN [attempt EXCEPT !.pc = "not_found"]
                           ELSE [attempt EXCEPT !.snap = g, !.probe = 1]

\* The holder is driven, read and stepped before the sibling exists.
Holder ==
  /\ attempt.pc = "holder"
  /\ LET t == ReachChoiceBoundary(attempt.snap, attempt.room, attempt.target)
         legal == GetLegalActions(t.game)
     IN IF RunBoundary(t.game) # attempt.target \/ Len(legal) < 2
        THEN run' = t.game /\ attempt' = [attempt EXCEPT !.pc = "holder_failed"]
        ELSE /\ run' = StepGame(t.game, legal[1])
             /\ attempt' = [attempt EXCEPT !.pc = "sibling", !.ids = t.ids, !.a = legal[1],
                                           !.before = t.game.path, !.holder = run'.path]

Sibling ==
  /\ attempt.pc = "sibling"
  /\ LET g == ReplayTo(attempt.snap, attempt.room, attempt.ids)
         legal == GetLegalActions(g)
         others == {i \in DOMAIN legal : legal[i] # attempt.a}
     IN IF RunBoundary(g) # attempt.target \/ others = {}
        THEN run' = g /\ attempt' = [attempt EXCEPT !.pc = "not_reproduced"]
        ELSE /\ run' = StepGame(g, legal[Min(others)])
             /\ attempt' = [attempt EXCEPT !.pc = "replay", !.siblingBefore = g.path, !.sibling = run'.path]

ReplayHolder ==
  /\ attempt.pc = "replay"
  /\ LET g == ReplayTo(attempt.snap, attempt.room, attempt.ids)
     IN IF RunBoundary(g) # attempt.target THEN run' = g /\ attempt' = [attempt EXCEPT !.pc = "not_reproduced"]
        ELSE /\ run' = StepGame(g, attempt.a)
             /\ attempt' = [attempt EXCEPT !.pc = "done", !.replay = run'.path]

\* _attempt_map_branch: the choice is the room itself.
MapBranch ==
  /\ attempt.pc = "map"
  /\ IF Len(GetMapRooms(attempt.snap)) < 2 THEN Fails("holder_failed")
     ELSE LET entered(r) == ChooseRoom(attempt.snap, r)
          IN /\ run' = entered(1)
             /\ attempt' = [attempt EXCEPT !.pc = "done", !.before = attempt.snap.path,
                  !.siblingBefore = attempt.snap.path, !.holder = entered(1).path,
                  !.sibling = entered(2).path, !.replay = entered(1).path]

\* An exception of the game ends the attempt wherever it is.
AttemptRaises == attempt.pc \in {"probe", "holder", "sibling", "replay", "map"} /\ Fails("raised")

AttemptStep ==
  /\ SearchStart \/ SearchProbe \/ SearchAdvance \/ Holder \/ Sibling \/ ReplayHolder \/ MapBranch \/ AttemptRaises
  /\ UNCHANGED <<drive, captured>>

-----------------------------------------------------------------------------
(* execution_mode: external_control. *)

\* The engine's step_index counts the calls that moved the run.  The run only
\* moves forward here: nothing in src/ loads a state between a capture and the
\* call that answers it, and what LoadState does to step_index is not known
\* from src/.
DecisionIdOfBoundary(g) == <<0, RunBoundary(g)>>
DecisionId(g) == <<Len(g.path), RunBoundary(g)>>

NothingHeld == [id |-> <<0, "none">>, path |-> <<>>, took |-> "none", onto |-> <<>>]

Capture(k) ==
  /\ Len(run.path) < MaxSteps
  /\ captured' = [captured EXCEPT ![k] = [id |-> DecisionId(run), path |-> run.path, took |-> "none", onto |-> <<>>]]
  /\ UNCHANGED run

\* Both calls check the decision before they touch the game.
ApplyExternal(k, x) ==
  /\ captured[k].id = DecisionId(run)
  /\ captured' = [captured EXCEPT ![k].took = "applied", ![k].onto = run.path]
  /\ IF RunBoundary(run) = "map_select" THEN x \in DOMAIN GetMapRooms(run) /\ run' = ChooseRoom(run, x)
     ELSE x \in DOMAIN GetLegalActions(run) /\ run' = StepGame(run, GetLegalActions(run)[x])

ExternalStep ==
  /\ \E k \in Callers : Capture(k) \/ \E x \in 1..2 : ApplyExternal(k, x)
  /\ UNCHANGED <<drive, attempt>>

-----------------------------------------------------------------------------

RoomInit ==
  /\ mode \in {"drive", "attempt", "external"}
  /\ seed \in Maps
  /\ run = NewRun
  /\ drive = IdleDrive
  /\ attempt = NoAttempt
  /\ captured = [k \in Callers |-> NothingHeld]

RoomNext ==
  \/ mode = "drive" /\ DriverStep /\ UNCHANGED <<mode, seed>>
  \/ mode = "attempt" /\ AttemptStep /\ UNCHANGED <<mode, seed>>
  \/ mode = "external" /\ ExternalStep /\ UNCHANGED <<mode, seed>>

RoomSpec == RoomInit /\ [][RoomNext]_roomVars

-----------------------------------------------------------------------------

\* The reload that routes drive_rooms around a room without legal actions
\* takes back that room and nothing else: no step that succeeded, no treasure
\* that was claimed and left inside choose_room, no room of an earlier fork.
ReloadUndoesOnlyTheRoom ==
  [][drive.calls = drive'.calls /\ Len(run'.path) < Len(run.path) => run'.path = Front(run.path)]_roomVars

\* drive_rooms never enters the same room of the same fork twice: what it
\* reloaded for stays excluded until the fork is left for good.
NoRoomEnteredTwice == ~drive.again

\* attempt_branch: the prefix the holder recorded, actions the reward drain
\* took on its own included, brings the sibling and the replay to the very
\* choice the holder had; the replay then ends where the holder did and the
\* sibling elsewhere.
SiblingReproducesTheHolder ==
  /\ attempt.pc # "not_reproduced"
  /\ attempt.pc = "replay" => attempt.siblingBefore = attempt.before
  /\ attempt.pc = "done" => attempt.replay = attempt.holder /\ attempt.sibling # attempt.holder

\* apply_external_action and apply_external_room_choice never play a decision
\* on a run that moved on since the caller captured it (execution_mode.py
\* decision_id; a run taken back by a load in between is not claimed).
StaleDecisionsAreRefused == \A k \in Callers : captured[k].took = "applied" => captured[k].onto = captured[k].path
=============================================================================
