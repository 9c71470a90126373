------------------------ MODULE DecisionLoopsProofs ------------------------
(***************************************************************************)
(* Proofs about the two decision loops.  First RoomProgression: its        *)
(* invariant RoomInv ties the run to the fork it was saved at, the         *)
(* recorded prefix of an attempt to the choice the holder had, and a       *)
(* captured decision to the run it was taken of.  Then CombatMainLoop: its *)
(* invariant MainInv says of Main, of every Decision Context and of every  *)
(* plan what a replay makes of it.  The recursive functions of both (the   *)
(* autoplay loops, the draws, Replay, Places) are shown to exist and are   *)
(* reasoned about by induction over a least counterexample (LeastOf).      *)
(***************************************************************************)
EXTENDS DecisionLoops, NaturalsInduction, WellFoundedInduction, TLAPS

(***************************************************************************)
(* What the run, the drive, an attempt and a captured decision are.        *)
(***************************************************************************)
Names == {"option", "other_option", "end", "card", "take", "skip", "pick_card"}
PathStep == [room : Nat, action : Names \cup {"enter"}]

(* A room whose script has ended is left for the map by the same call.     *)
RunRec ==
    {g \in [path : Seq(PathStep), floor : Nat, room : Kinds \cup {"map"}, at : Nat \ {0}] :
       IF g.room = "map" THEN g.floor # 0 ELSE g.at <= Len(Script[g.room])}

DriveRec ==
    [pc : {"idle", "loop", "ended"}, calls : Nat, picker : {"default", "zero_index"},
     entered : Nat, steps : Nat, snap : RunRec \cup {NoSnapshot}, tried : SUBSET Nat,
     visited : SUBSET (Seq(PathStep) \X Nat), again : BOOLEAN]

BoundaryNames == {"none", "run_terminal", "map_select", "event_choice", "reward_select", "stable"}

AttemptRec ==
    [pc : {"idle", "not_found", "map", "probe", "holder", "holder_failed", "sibling",
           "replay", "done", "not_reproduced", "raised"},
     kind : {"none", "event", "combat", "map"}, target : BoundaryNames, snap : RunRec \cup {NoSnapshot}, room : Nat, probe : Nat,
     ids : Seq(Names), a : Names \cup {"none"}, holder : Seq(PathStep), before : Seq(PathStep),
     sibling : Seq(PathStep), siblingBefore : Seq(PathStep), replay : Seq(PathStep)]

CaptureRec ==
    [id : Nat \X BoundaryNames, path : Seq(PathStep), took : {"none", "applied"}, onto : Seq(PathStep)]

RoomTypes ==
    /\ mode \in {"drive", "attempt", "external"}
    /\ seed \in Maps
    /\ run \in RunRec
    /\ drive \in DriveRec
    /\ attempt \in AttemptRec
    /\ captured \in [Callers -> CaptureRec]

(***************************************************************************)
(* drive_rooms.  While it keeps a snapshot, the run stands at the fork of  *)
(* the snapshot or one room behind it, and the rooms entered were entered  *)
(* at earlier forks or are among the tried ones of this fork.              *)
(***************************************************************************)
OneRoomOn(g, fork) == Len(g.path) = Len(fork.path) + 1 /\ Front(g.path) = fork.path

ForkInv ==
    drive.pc = "loop" =>
      IF drive.snap = NoSnapshot
      THEN \A v \in drive.visited : Len(v[1]) < Len(run.path)
      ELSE /\ run = drive.snap \/ (OneRoomOn(run, drive.snap) /\ RunBoundary(run) # "map_select")
           /\ \A v \in drive.visited :
                Len(v[1]) < Len(drive.snap.path) \/ (v[1] = drive.snap.path /\ v[2] \in drive.tried)

DriveInv == ForkInv /\ ~drive.again

(***************************************************************************)
(* attempt_branch.  What the recorded prefix leads to is the choice the    *)
(* holder had, and the run is never further back than the fork.            *)
(***************************************************************************)
(* The games f[0], f[1], ... that the ids lead through, one at a time.      *)
Follows(f, start, ids) ==
    f = [n \in 0..Len(ids) |-> IF n = 0 THEN start ELSE StepGame(f[n - 1], ids[n])]

(* t.game is what the recorded t.ids make of start, and not behind it.     *)
Trail(start, t) ==
    /\ t \in [game : RunRec, ids : Seq(Names)]
    /\ \E f : Follows(f, start, t.ids) /\ f[Len(t.ids)] = t.game
    /\ Len(t.game.path) >= Len(start.path)

AtItsFork == attempt.snap \in RunRec /\ RunBoundary(attempt.snap) = "map_select"

LeadsTo(g) == Trail(ChooseRoom(attempt.snap, attempt.room), [game |-> g, ids |-> attempt.ids])

HadChoice(g) ==
    /\ RunBoundary(g) = attempt.target
    /\ GetLegalActions(g) # <<>> /\ attempt.a = GetLegalActions(g)[1]
    /\ attempt.before = g.path
    /\ attempt.holder = Append(g.path, Did(attempt.a))
    /\ Len(run.path) = Len(g.path) + 1

PrefixInv == AtItsFork /\ \E g \in RunRec : LeadsTo(g) /\ HadChoice(g)

AttemptInv ==
    /\ attempt.pc = "idle" => run = NewRun
    /\ attempt.pc = "map" => AtItsFork /\ run = attempt.snap
    /\ attempt.pc = "probe" =>
         AtItsFork /\ attempt.probe # 0 /\ (run = attempt.snap \/ OneRoomOn(run, attempt.snap))
    /\ attempt.pc = "holder" =>
         AtItsFork /\ attempt.room \in DOMAIN GetMapRooms(attempt.snap) /\ OneRoomOn(run, attempt.snap)
    /\ attempt.pc = "sibling" => PrefixInv
    /\ attempt.pc = "replay" =>
         /\ PrefixInv /\ attempt.siblingBefore = attempt.before
         /\ \E b \in Names \ {attempt.a} : attempt.sibling = Append(attempt.before, Did(b))
    /\ attempt.pc = "done" => attempt.replay = attempt.holder /\ attempt.sibling # attempt.holder
    /\ attempt.pc # "not_reproduced"

(***************************************************************************)
(* external_control.  A run only grows there, so a captured path is a      *)
(* prefix of the run's, and its length, which the decision id counts,      *)
(* tells whether it is the whole.                                          *)
(***************************************************************************)
CaptureInv ==
    \A k \in Callers :
      \/ captured[k].id = <<0, "none">> /\ captured[k].took = "none"
      \/ /\ captured[k].id[1] = Len(captured[k].path)
         /\ Len(captured[k].path) <= Len(run.path)
         /\ \A i \in 1..Len(captured[k].path) : captured[k].path[i] = run.path[i]
         /\ captured[k].took = "applied" => captured[k].onto = captured[k].path

RoomInv ==
    /\ RoomTypes
    /\ IF mode = "drive" THEN DriveInv ELSE drive = IdleDrive
    /\ IF mode = "attempt" THEN AttemptInv ELSE attempt = NoAttempt
    /\ IF mode = "external" THEN CaptureInv ELSE captured = [k \in Callers |-> NothingHeld]

-----------------------------------------------------------------------------
(***************************************************************************)
(* The game.                                                               *)
(***************************************************************************)

LEMMA ScriptFacts == \A k \in Kinds : Len(Script[k]) \in Nat
BY DEF Kinds, Script

LEMMA LegalCases ==
    ASSUME NEW g
    PROVE  /\ GetLegalActions(g) \in {<<>>, <<"option", "other_option">>, <<"end", "card">>,
                                      <<"take", "skip">>, <<"skip", "pick_card">>}
           /\ GetLegalActions(g) # <<>> => RunBoundary(g) # "run_terminal" /\ g.room # "map"
BY DEF GetLegalActions, Stage

LEMMA LegalNames ==
    ASSUME NEW g
    PROVE  /\ \A x \in DOMAIN GetLegalActions(g) : GetLegalActions(g)[x] \in Names
           /\ GetLegalActions(g) # <<>> =>
                /\ DOMAIN GetLegalActions(g) = {1, 2} /\ Len(GetLegalActions(g)) = 2
                /\ GetLegalActions(g)[1] # GetLegalActions(g)[2]
           /\ Len(GetLegalActions(g)) \in Nat
           /\ Len(GetLegalActions(g)) > 0 => GetLegalActions(g) # <<>>
<1> DEFINE legal == GetLegalActions(g)
<1>1. legal \in {<<>>, <<"option", "other_option">>, <<"end", "card">>,
                 <<"take", "skip">>, <<"skip", "pick_card">>}
  BY LegalCases
<1> HIDE DEF legal
<1>2. /\ \A x \in DOMAIN legal : legal[x] \in Names
      /\ legal # <<>> => DOMAIN legal = {1, 2} /\ Len(legal) = 2 /\ legal[1] # legal[2]
      /\ Len(legal) \in Nat /\ (Len(legal) > 0 => legal # <<>>)
  BY <1>1 DEF Names
<1> QED
  BY <1>2 DEF legal

LEMMA Boundaries ==
    ASSUME NEW g
    PROVE  /\ RunBoundary(g) \in {"run_terminal", "map_select", "event_choice", "reward_select", "stable"}
           /\ RunBoundary(g) = "map_select" => Stage(g) = "map" /\ ~(g.floor > Len(seed))
BY DEF RunBoundary

LEMMA StagesAreNoMap ==
    ASSUME NEW g \in RunRec, Stage(g) = "map"
    PROVE  g.room = "map"
<1> SUFFICES ASSUME g.room \in Kinds PROVE FALSE
  BY DEF RunRec
<1>1. g.room # "map" /\ g.at \in Nat \ {0} /\ g.at <= Len(Script[g.room])
  BY DEF RunRec, Kinds
<1>2. Script[g.room][g.at] = "map"
  BY <1>1 DEF Stage
<1>3. \A k \in Kinds : \A i \in Nat \ {0} : i <= Len(Script[k]) => Script[k][i] # "map"
  BY DEF Kinds, Script
<1> QED
  BY <1>1, <1>2, <1>3

LEMMA MovedFacts ==
    ASSUME NEW g \in [path : Seq(PathStep), floor : Nat, room : Kinds, at : Nat \ {0}]
    PROVE  Moved(g) \in RunRec /\ Moved(g).path = g.path
<1>1. Len(Script[g.room]) \in Nat /\ g.room # "map"
  BY ScriptFacts DEF Kinds
<1>2. CASE g.at <= Len(Script[g.room])
  BY <1>1, <1>2 DEF Moved, RunRec
<1>3. CASE ~(g.at <= Len(Script[g.room]))
  <2>1. Moved(g) = [g EXCEPT !.floor = @ + 1, !.room = "map", !.at = 1]
    BY <1>3 DEF Moved
  <2>2. g.floor + 1 \in Nat /\ g.floor + 1 # 0 /\ 1 \in Nat \ {0}
    OBVIOUS
  <2>3. /\ Moved(g) \in [path : Seq(PathStep), floor : Nat, room : Kinds \cup {"map"}, at : Nat \ {0}]
        /\ Moved(g).path = g.path /\ Moved(g).room = "map" /\ Moved(g).floor = g.floor + 1
    BY <2>1, <2>2
  <2> QED
    BY <2>2, <2>3 DEF RunRec
<1> QED
  BY <1>2, <1>3

LEMMA StepFacts ==
    ASSUME NEW g \in RunRec, NEW a \in Names, g.room # "map"
    PROVE  /\ StepGame(g, a) \in RunRec
           /\ StepGame(g, a).path = Append(g.path, Did(a)) /\ Did(a) \in PathStep
<1> DEFINE h == [g EXCEPT !.path = Append(@, Did(a)), !.at = IF a = "end" THEN @ ELSE @ + 1]
<1>1. Did(a) \in PathStep
  BY DEF Did, PathStep
<1>2. g \in [path : Seq(PathStep), floor : Nat, room : Kinds, at : Nat \ {0}]
  BY DEF RunRec
<1>3. h \in [path : Seq(PathStep), floor : Nat, room : Kinds, at : Nat \ {0}] /\ h.path = Append(g.path, Did(a))
  <2>1. g.path \in Seq(PathStep) /\ g.at \in Nat \ {0}
    BY <1>2
  <2>2. Append(g.path, Did(a)) \in Seq(PathStep) /\ g.at + 1 \in Nat \ {0}
    BY <1>1, <2>1
  <2> QED
    BY <1>2, <2>1, <2>2
<1>4. StepGame(g, a) = Moved(h)
  BY DEF StepGame
<1> HIDE DEF h
<1> QED
  BY <1>1, <1>3, <1>4, MovedFacts

LEMMA RoomFacts ==
    ASSUME seed \in Maps, NEW g \in RunRec, RunBoundary(g) = "map_select"
    PROVE  /\ g.room = "map" /\ GetMapRooms(g) \in Seq(Kinds)
           /\ \A r \in DOMAIN GetMapRooms(g) :
                /\ r \in Nat \ {0} /\ ChooseRoom(g, r) \in RunRec
                /\ ChooseRoom(g, r).path = Append(g.path, Went(r)) /\ Went(r) \in PathStep
<1>1. g.room = "map" /\ ~(g.floor > Len(seed))
  BY Boundaries, StagesAreNoMap
<1>2. seed \in Seq(Seq(Kinds))
  BY MapsAssumption
<1>3. g.floor \in 1..Len(seed)
  BY <1>1, <1>2 DEF RunRec
<1>4. GetMapRooms(g) \in Seq(Kinds)
  BY <1>2, <1>3 DEF GetMapRooms
<1>5. ASSUME NEW r \in DOMAIN GetMapRooms(g)
      PROVE  /\ r \in Nat \ {0} /\ ChooseRoom(g, r) \in RunRec
             /\ ChooseRoom(g, r).path = Append(g.path, Went(r)) /\ Went(r) \in PathStep
  <2> DEFINE kind == GetMapRooms(g)[r]
             h == [g EXCEPT !.path = Append(@, Went(r)), !.room = kind, !.at = 1]
  <2>1. r \in Nat \ {0} /\ kind \in Kinds
    BY <1>4
  <2>2. Went(r) \in PathStep
    BY <2>1 DEF Went, PathStep
  <2>3. ChooseRoom(g, r) = Moved(h)
    BY DEF ChooseRoom
  <2> HIDE DEF kind
  <2>4. h \in [path : Seq(PathStep), floor : Nat, room : Kinds, at : Nat \ {0}] /\ h.path = Append(g.path, Went(r))
    <3>1. g \in [path : Seq(PathStep), floor : Nat, room : Kinds \cup {"map"}, at : Nat \ {0}]
      BY DEF RunRec
    <3>2. Append(g.path, Went(r)) \in Seq(PathStep) /\ 1 \in Nat \ {0}
      BY <2>2, <3>1
    <3> QED
      BY <2>1, <3>1, <3>2
  <2> HIDE DEF h
  <2> QED
    BY <2>1, <2>2, <2>3, <2>4, MovedFacts
<1> QED
  BY <1>1, <1>4, <1>5

LEMMA NewRunFacts ==
    /\ NewRun \in RunRec /\ NewRun.path = <<>> /\ Len(NewRun.path) = 0
    /\ \A g \in RunRec : g # NoSnapshot
<1>1. <<>> \in Seq(PathStep)
  OBVIOUS
<1>2. NewRun \in [path : Seq(PathStep), floor : Nat, room : Kinds \cup {"map"}, at : Nat \ {0}]
  BY <1>1 DEF NewRun, Kinds
<1>3. NewRun.room = "event" /\ NewRun.at = 1 /\ Len(Script["event"]) = 1 /\ NewRun.path = <<>>
  BY DEF NewRun, Script
<1>4. NewRun \in RunRec
  BY <1>2, <1>3 DEF RunRec
<1>5. NoSnapshot.at = 0
  BY DEF NoSnapshot, NewRun
<1>6. \A g \in RunRec : g.at # 0
  BY DEF RunRec
<1> QED
  BY <1>3, <1>4, <1>5, <1>6

LEMMA Grown ==
    ASSUME NEW s \in Seq(PathStep), NEW e \in PathStep
    PROVE  /\ Append(s, e) \in Seq(PathStep) /\ Len(Append(s, e)) = Len(s) + 1 /\ Len(s) \in Nat
           /\ Front(Append(s, e)) = s
           /\ \A i \in 1..Len(s) : Append(s, e)[i] = s[i]
<1>1. Append(s, e) \in Seq(PathStep) /\ Len(Append(s, e)) = Len(s) + 1 /\ Len(s) \in Nat
  OBVIOUS
<1>2. Front(Append(s, e)) = s
  BY <1>1 DEF Front
<1> QED
  BY <1>1, <1>2

-----------------------------------------------------------------------------
(***************************************************************************)
(* Induction over the naturals by least counterexample, and the pickers.   *)
(***************************************************************************)

LEMMA LeastOf ==
    ASSUME NEW T, T \subseteq Nat, T # {}
    PROVE  \E m \in T : \A k \in T : m <= k
<1> DEFINE R == OpToRel(<, Nat)
<1>1. IsWellFoundedOn(R, Nat)
  BY NatLessThanWellFounded
<1>2. \A x, y \in Nat : y < x => <<y, x>> \in R
  BY DEF OpToRel
<1> HIDE DEF R
<1>3. PICK x \in T : \A y \in T : ~(<<y, x>> \in R)
  BY <1>1, WFMin
<1>4. \A y \in T : ~(y < x)
  BY <1>2, <1>3
<1>5. \A y \in T : x <= y
  BY <1>4
<1> QED
  BY <1>5

LEMMA SetInduction ==
    ASSUME NEW S, 0 \in S, \A n \in Nat : n \in S => n + 1 \in S
    PROVE  \A n \in Nat : n \in S
<1> SUFFICES ASSUME NEW n \in Nat, n \notin S PROVE FALSE
  OBVIOUS
<1> DEFINE T == Nat \ S
<1>1. PICK m \in T : \A k \in T : m <= k
  BY LeastOf
<1>2. m # 0 /\ m - 1 \in Nat /\ m - 1 \notin T
  BY <1>1
<1>3. (m - 1) + 1 \in S /\ (m - 1) + 1 = m
  BY <1>2
<1> QED
  BY <1>3

LEMMA MinFacts ==
    ASSUME NEW S, S \subseteq Nat, S # {}
    PROVE  Min(S) \in S
BY LeastOf DEF Min

LEMMA PickedRoomFacts ==
    ASSUME NEW picker, NEW rooms \in Seq(Kinds), NEW tried
    PROVE  PickedRoom(picker, rooms, tried) = 0 \/ PickedRoom(picker, rooms, tried) \in DOMAIN rooms \ tried
<1> DEFINE pool == DOMAIN rooms \ tried
           others == {i \in pool : rooms[i] # "treasure"}
<1>1. pool \subseteq Nat /\ others \subseteq Nat /\ others \subseteq pool
  OBVIOUS
<1>2. ZeroIndexRoomPicker(rooms, tried) = IF pool # {} THEN Min(pool) ELSE 0
  BY DEF ZeroIndexRoomPicker, Untried
<1>3. PickRoom(rooms, tried) = IF others # {} THEN Min(others) ELSE IF pool # {} THEN Min(pool) ELSE 0
  BY DEF PickRoom, Untried
<1> HIDE DEF pool, others
<1>4. (pool # {} => Min(pool) \in pool) /\ (others # {} => Min(others) \in pool)
  BY <1>1, MinFacts
<1>5. PickedRoom(picker, rooms, tried) = 0 \/ PickedRoom(picker, rooms, tried) \in pool
  BY <1>2, <1>3, <1>4 DEF PickedRoom
<1> QED
  BY <1>5 DEF pool

LEMMA PickedActionFacts ==
    ASSUME NEW g, GetLegalActions(g) # <<>>
    PROVE  /\ PickDefaultAction(GetLegalActions(g)) \in Names
           /\ \A picker : PickedAction(picker, GetLegalActions(g)) \in Names
<1> DEFINE legal == GetLegalActions(g)
           places == {i \in DOMAIN PreferenceOrder : PreferenceOrder[i] \in Range(legal)}
<1>1. legal[1] \in Names /\ legal[1] \in Range(legal)
  BY LegalNames DEF Range
<1> HIDE DEF legal
<1>2. DOMAIN PreferenceOrder = 1..7 /\ \A i \in 1..7 : PreferenceOrder[i] \in Names
  BY DEF PreferenceOrder, Names
<1>3. \E i \in 1..7 : PreferenceOrder[i] = legal[1]
  BY <1>1 DEF PreferenceOrder, Names
<1>4. places \subseteq Nat /\ places # {} /\ places \subseteq 1..7
  BY <1>1, <1>2, <1>3
<1>5. PickDefaultAction(legal) = PreferenceOrder[Min(places)]
  BY DEF PickDefaultAction
<1> HIDE DEF places
<1>6. Min(places) \in 1..7
  BY <1>4, MinFacts
<1>7. PickDefaultAction(legal) \in Names
  BY <1>2, <1>5, <1>6
<1> QED
  BY <1>1, <1>7 DEF legal, PickedAction, ZeroIndexAction

-----------------------------------------------------------------------------
(***************************************************************************)
(* The initial state.                                                      *)
(***************************************************************************)

LEMMA RoomInitInv == RoomInit => RoomInv
<1> SUFFICES ASSUME RoomInit PROVE RoomInv
  OBVIOUS
<1>1. run \in RunRec /\ <<>> \in Seq(PathStep) /\ <<>> \in Seq(Names)
  BY NewRunFacts DEF RoomInit
<1>2. drive \in DriveRec /\ drive.pc = "idle" /\ ~drive.again
  BY DEF RoomInit, IdleDrive, FreshDrive, DriveRec
<1>3. attempt \in AttemptRec /\ attempt.pc = "idle"
  BY <1>1 DEF RoomInit, NoAttempt, AttemptRec, BoundaryNames
<1>4. /\ captured = [k \in Callers |-> NothingHeld] /\ NothingHeld \in CaptureRec
      /\ NothingHeld.id = <<0, "none">> /\ NothingHeld.took = "none"
  BY <1>1 DEF RoomInit, NothingHeld, CaptureRec, BoundaryNames
<1>5. RoomTypes
  BY <1>1, <1>2, <1>3, <1>4 DEF RoomInit, RoomTypes
<1>6. CaptureInv
  BY <1>4 DEF CaptureInv
<1>7. DriveInv /\ AttemptInv
  BY <1>2, <1>3 DEF DriveInv, ForkInv, AttemptInv, RoomInit
<1>8. drive = IdleDrive /\ attempt = NoAttempt
  BY DEF RoomInit
<1> QED
  BY <1>4, <1>5, <1>6, <1>7, <1>8 DEF RoomInv

(* What the reload may do, as one step.                                    *)
OnlyTheRoom == drive.calls = drive'.calls /\ Len(run'.path) < Len(run.path) => run'.path = Front(run.path)

-----------------------------------------------------------------------------
(***************************************************************************)
(* external_control.                                                       *)
(***************************************************************************)

LEMMA ExternalKeeps ==
    ASSUME RoomInv, mode = "external", ExternalStep, UNCHANGED <<mode, seed>>
    PROVE  RoomInv' /\ OnlyTheRoom
<1>1. PICK k \in Callers : Capture(k) \/ \E x \in 1..2 : ApplyExternal(k, x)
  BY DEF ExternalStep
<1>2. run \in RunRec /\ run.path \in Seq(PathStep) /\ captured \in [Callers -> CaptureRec] /\ seed \in Maps
  BY DEF RoomInv, RoomTypes, RunRec
<1>3. CaptureInv
  BY DEF RoomInv
<1>4. CASE Capture(k)
  <2> DEFINE c == [id |-> DecisionId(run), path |-> run.path, took |-> "none", onto |-> <<>>]
  <2>1. run' = run /\ captured' = [captured EXCEPT ![k] = c]
    BY <1>4 DEF Capture
  <2>2. Len(run.path) \in Nat /\ RunBoundary(run) \in BoundaryNames /\ <<>> \in Seq(PathStep)
    BY <1>2, Boundaries DEF BoundaryNames
  <2>3. c \in CaptureRec /\ c.id[1] = Len(c.path) /\ c.path = run.path /\ c.took = "none"
    BY <1>2, <2>2 DEF CaptureRec, DecisionId
  <2> HIDE DEF c
  <2>4. captured' \in [Callers -> CaptureRec]
    BY <1>2, <2>1, <2>3
  <2>5. captured'[k] = c /\ \A j \in Callers \ {k} : captured'[j] = captured[j]
    BY <1>2, <2>1
  <2>6. CaptureInv'
    <3> SUFFICES ASSUME NEW j \in Callers
                 PROVE  \/ captured'[j].id = <<0, "none">> /\ captured'[j].took = "none"
                        \/ /\ captured'[j].id[1] = Len(captured'[j].path)
                           /\ Len(captured'[j].path) <= Len(run'.path)
                           /\ \A i \in 1..Len(captured'[j].path) : captured'[j].path[i] = run'.path[i]
                           /\ captured'[j].took = "applied" => captured'[j].onto = captured'[j].path
      BY DEF CaptureInv
    <3>1. CASE j = k
      BY <2>1, <2>2, <2>3, <2>5, <3>1
    <3>2. CASE j # k
      BY <1>3, <2>1, <2>5, <3>2 DEF CaptureInv
    <3> QED
      BY <3>1, <3>2
  <2> QED
    BY <1>2, <2>1, <2>2, <2>4, <2>6 DEF RoomInv, RoomTypes, ExternalStep, OnlyTheRoom
<1>5. ASSUME NEW x \in 1..2, ApplyExternal(k, x)
      PROVE  RoomInv' /\ OnlyTheRoom
  <2>1. captured[k].id = DecisionId(run) /\ captured' = [captured EXCEPT ![k].took = "applied", ![k].onto = run.path]
    BY <1>5 DEF ApplyExternal
  <2>2. run' \in RunRec /\ \E e \in PathStep : run'.path = Append(run.path, e)
    <3>1. CASE RunBoundary(run) = "map_select"
      BY <1>2, <1>5, <3>1, RoomFacts DEF ApplyExternal
    <3>2. CASE RunBoundary(run) # "map_select"
      <4>1. x \in DOMAIN GetLegalActions(run) /\ run' = StepGame(run, GetLegalActions(run)[x])
        BY <1>5, <3>2 DEF ApplyExternal
      <4>2. GetLegalActions(run) # <<>> /\ GetLegalActions(run)[x] \in Names
        BY <4>1, LegalNames
      <4> QED
        BY <1>2, <4>1, <4>2, LegalCases, StepFacts
    <3> QED
      BY <3>1, <3>2
  <2>3. PICK e \in PathStep : run'.path = Append(run.path, e)
    BY <2>2
  <2>4. /\ Len(run'.path) = Len(run.path) + 1 /\ Len(run.path) \in Nat
        /\ \A i \in 1..Len(run.path) : run'.path[i] = run.path[i]
    BY <1>2, <2>3, Grown
  <2>5. captured[k].path = run.path
    <3>1. DecisionId(run)[1] = Len(run.path) /\ DecisionId(run)[2] # "none"
      BY Boundaries DEF DecisionId
    <3>2. captured[k].id[2] # "none"
      BY <2>1, <3>1
    <3>3. /\ captured[k].id[1] = Len(captured[k].path)
          /\ \A i \in 1..Len(captured[k].path) : captured[k].path[i] = run.path[i]
      BY <1>3, <3>2 DEF CaptureInv
    <3>4. captured[k].path \in Seq(PathStep)
      BY <1>2 DEF CaptureRec
    <3>5. Len(captured[k].path) = Len(run.path)
      BY <2>1, <3>1, <3>3
    <3> QED
      BY <1>2, <3>3, <3>4, <3>5
  <2>6. /\ captured' \in [Callers -> CaptureRec]
        /\ captured'[k].id = captured[k].id /\ captured'[k].path = captured[k].path
        /\ captured'[k].took = "applied" /\ captured'[k].onto = run.path
        /\ \A j \in Callers \ {k} : captured'[j] = captured[j]
    BY <1>2, <2>1 DEF CaptureRec
  <2>7. CaptureInv'
    <3> SUFFICES ASSUME NEW j \in Callers
                 PROVE  \/ captured'[j].id = <<0, "none">> /\ captured'[j].took = "none"
                        \/ /\ captured'[j].id[1] = Len(captured'[j].path)
                           /\ Len(captured'[j].path) <= Len(run'.path)
                           /\ \A i \in 1..Len(captured'[j].path) : captured'[j].path[i] = run'.path[i]
                           /\ captured'[j].took = "applied" => captured'[j].onto = captured'[j].path
      BY DEF CaptureInv
    <3>1. CASE j = k
      <4>1. captured[k].id[1] = Len(run.path)
        BY <2>1 DEF DecisionId
      <4> QED
        BY <2>4, <2>5, <2>6, <3>1, <4>1
    <3>2. CASE j # k
      <4>1. captured'[j] = captured[j] /\ captured[j].path \in Seq(PathStep)
        BY <1>2, <2>6, <3>2 DEF CaptureRec
      <4>2. Len(captured[j].path) \in Nat
        BY <4>1
      <4> QED
        BY <1>3, <2>4, <4>1, <4>2 DEF CaptureInv
    <3> QED
      BY <3>1, <3>2
  <2> QED
    BY <1>2, <2>2, <2>4, <2>6, <2>7 DEF RoomInv, RoomTypes, ExternalStep, OnlyTheRoom
<1> QED
  BY <1>1, <1>4, <1>5

-----------------------------------------------------------------------------
(***************************************************************************)
(* drive_rooms.                                                            *)
(***************************************************************************)

LEMMA RunFields ==
    ASSUME NEW g \in RunRec
    PROVE  g.path \in Seq(PathStep) /\ Len(g.path) \in Nat
BY DEF RunRec

LEMMA SameBoundary ==
    ASSUME seed' = seed
    PROVE  RunBoundary(run)' = RunBoundary(run')
BY DEF RunBoundary, Dead, Stage

(* What DriveInv and the types of the drive say of a step of the driver.   *)
LEMMA DriveKeeps ==
    ASSUME RoomInv, mode = "drive", UNCHANGED <<mode, seed, attempt, captured>>,
           run' \in RunRec, drive' \in DriveRec, DriveInv'
    PROVE  RoomInv'
BY DEF RoomInv, RoomTypes

LEMMA BeginDriveKeeps ==
    ASSUME RoomInv, mode = "drive", BeginDrive, UNCHANGED <<mode, seed>>
    PROVE  RoomInv' /\ OnlyTheRoom
<1>1. drive \in DriveRec
  BY DEF RoomInv, RoomTypes
<1>2. PICK picker \in {"default", "zero_index"} : drive' = FreshDrive(drive.calls + 1, picker)
  BY DEF BeginDrive
<1>3. drive.calls \in Nat /\ drive.calls + 1 \in Nat /\ drive.calls + 1 # drive.calls
  BY <1>1 DEF DriveRec
<1>4. /\ drive' \in DriveRec /\ drive'.calls = drive.calls + 1 /\ drive'.visited = {}
      /\ drive'.snap = NoSnapshot /\ ~drive'.again
  BY <1>2, <1>3 DEF FreshDrive, DriveRec
<1>5. run' \in RunRec
  BY NewRunFacts DEF BeginDrive
<1>6. DriveInv'
  BY <1>4 DEF DriveInv, ForkInv
<1>7. RoomInv'
  BY <1>4, <1>5, <1>6, DriveKeeps DEF BeginDrive
<1> QED
  BY <1>3, <1>4, <1>7 DEF OnlyTheRoom

LEMMA DriveEndsKeeps ==
    ASSUME RoomInv, mode = "drive", DriveEnds, UNCHANGED <<mode, seed>>
    PROVE  RoomInv' /\ OnlyTheRoom
<1>1. drive \in DriveRec /\ run \in RunRec /\ ~drive.again
  BY DEF RoomInv, RoomTypes, DriveInv
<1>2. drive' = [drive EXCEPT !.pc = "ended"] /\ run' = run
  BY DEF DriveEnds, Returned
<1>3. drive' \in DriveRec /\ drive'.pc = "ended" /\ ~drive'.again
  BY <1>1, <1>2 DEF DriveRec
<1>4. DriveInv'
  BY <1>3 DEF DriveInv, ForkInv
<1>5. RoomInv'
  BY <1>1, <1>2, <1>3, <1>4, DriveKeeps DEF DriveEnds
<1> QED
  BY <1>1, <1>2, <1>5, RunFields DEF OnlyTheRoom

LEMMA DriveUnsupportedKeeps ==
    ASSUME RoomInv, mode = "drive", DriveUnsupported, UNCHANGED <<mode, seed>>
    PROVE  RoomInv' /\ OnlyTheRoom
<1>1. drive \in DriveRec /\ run \in RunRec /\ ~drive.again /\ ForkInv
  BY DEF RoomInv, RoomTypes, DriveInv
<1>2. drive.pc = "loop" /\ UNCHANGED <<attempt, captured>>
  BY DEF DriveUnsupported, AtRoom, Looping
<1>3. CASE drive.snap # NoSnapshot
  <2>1. run' = drive.snap /\ drive' = drive
    BY <1>3 DEF DriveUnsupported, Reloaded
  <2>2. drive.snap \in RunRec
    BY <1>1, <1>3 DEF DriveRec
  <2>3. run = drive.snap \/ OneRoomOn(run, drive.snap)
    BY <1>1, <1>2, <1>3 DEF ForkInv
  <2>4. DriveInv'
    BY <1>1, <1>2, <1>3, <2>1 DEF DriveInv, ForkInv
  <2>5. RoomInv'
    BY <1>1, <1>2, <2>1, <2>2, <2>4, DriveKeeps
  <2>6. OnlyTheRoom
    BY <1>1, <2>1, <2>3, RunFields DEF OnlyTheRoom, OneRoomOn
  <2> QED
    BY <2>5, <2>6
<1>4. CASE drive.snap = NoSnapshot
  <2>1. drive' = [drive EXCEPT !.pc = "ended"] /\ run' = run
    BY <1>4 DEF DriveUnsupported, Returned
  <2>2. drive' \in DriveRec /\ drive'.pc = "ended" /\ ~drive'.again
    BY <1>1, <2>1 DEF DriveRec
  <2>3. DriveInv'
    BY <2>2 DEF DriveInv, ForkInv
  <2>4. RoomInv'
    BY <1>1, <1>2, <2>1, <2>2, <2>3, DriveKeeps
  <2> QED
    BY <1>1, <2>1, <2>4, RunFields DEF OnlyTheRoom
<1> QED
  BY <1>3, <1>4

LEMMA DriveStepKeeps ==
    ASSUME RoomInv, mode = "drive", DriveStep, UNCHANGED <<mode, seed>>
    PROVE  RoomInv' /\ OnlyTheRoom
<1>1. drive \in DriveRec /\ run \in RunRec /\ ~drive.again /\ ForkInv
  BY DEF RoomInv, RoomTypes, DriveInv
<1>2. drive.pc = "loop" /\ UNCHANGED <<attempt, captured>>
  BY DEF DriveStep, AtRoom, Looping
<1> DEFINE a == PickedAction(drive.picker, GetLegalActions(run))
<1>3. GetLegalActions(run) # <<>> /\ a \in Names /\ run.room # "map"
  BY LegalCases, PickedActionFacts DEF DriveStep
<1>4. \/ run' = StepGame(run, a) /\ drive' = [Resolved(drive) EXCEPT !.steps = @ + 1]
      \/ drive' = Returned(drive) /\ UNCHANGED run
  BY DEF DriveStep
<1> HIDE DEF a
<1>5. CASE run' = StepGame(run, a) /\ drive' = [Resolved(drive) EXCEPT !.steps = @ + 1]
  <2>1. run' \in RunRec /\ Len(run'.path) = Len(run.path) + 1
    BY <1>1, <1>3, <1>5, StepFacts, RunFields, Grown
  <2>2. /\ drive' \in DriveRec /\ drive'.snap = NoSnapshot /\ drive'.visited = drive.visited
        /\ ~drive'.again
    <3>1. Resolved(drive) \in DriveRec
      BY <1>1 DEF Resolved, DriveRec
    <3>2. /\ Resolved(drive).snap = NoSnapshot /\ Resolved(drive).visited = drive.visited
          /\ Resolved(drive).again = drive.again
      BY <1>1 DEF Resolved, DriveRec
    <3> HIDE DEF DriveRec
    <3>3. Resolved(drive).steps + 1 \in Nat
      BY <3>1 DEF DriveRec
    <3> QED
      BY <1>1, <1>5, <3>1, <3>2, <3>3 DEF DriveRec
  <2>3. ASSUME NEW v \in drive.visited PROVE Len(v[1]) < Len(run'.path)
    <3>1. Len(v[1]) \in Nat /\ Len(run.path) \in Nat
      BY <1>1, RunFields DEF DriveRec
    <3>2. CASE drive.snap = NoSnapshot
      BY <1>1, <1>2, <2>1, <3>1, <3>2 DEF ForkInv
    <3>3. CASE drive.snap # NoSnapshot
      <4>1. Len(drive.snap.path) \in Nat
        BY <1>1, <3>3, RunFields DEF DriveRec
      <4>2. Len(drive.snap.path) <= Len(run.path)
        BY <1>1, <1>2, <3>1, <3>3, <4>1 DEF ForkInv, OneRoomOn
      <4>3. Len(v[1]) <= Len(drive.snap.path)
        BY <1>1, <1>2, <3>1, <3>3, <4>1 DEF ForkInv
      <4> QED
        BY <2>1, <3>1, <4>1, <4>2, <4>3
    <3> QED
      BY <3>2, <3>3
  <2>4. DriveInv'
    BY <2>2, <2>3 DEF DriveInv, ForkInv
  <2>5. RoomInv'
    BY <1>2, <2>1, <2>2, <2>4, DriveKeeps
  <2> QED
    BY <1>1, <2>1, <2>5, RunFields DEF OnlyTheRoom
<1>6. CASE drive' = Returned(drive) /\ UNCHANGED run
  <2>1. drive' \in DriveRec /\ drive'.pc = "ended" /\ ~drive'.again
    BY <1>1, <1>6 DEF DriveRec, Returned
  <2>2. DriveInv'
    BY <2>1 DEF DriveInv, ForkInv
  <2>3. RoomInv'
    BY <1>1, <1>2, <1>6, <2>1, <2>2, DriveKeeps
  <2> QED
    BY <1>1, <1>6, <2>3, RunFields DEF OnlyTheRoom
<1> QED
  BY <1>4, <1>5, <1>6

(* At a fork the snapshot is the run itself, and a room that was not tried *)
(* there was not entered from it.                                          *)
LEMMA AtForkFacts ==
    ASSUME drive \in DriveRec, run \in RunRec, ForkInv, drive.pc = "loop", RunBoundary(run) = "map_select"
    PROVE  /\ AtFork(drive, run) \in DriveRec
           /\ AtFork(drive, run).snap = run /\ AtFork(drive, run).visited = drive.visited
           /\ AtFork(drive, run).again = drive.again /\ AtFork(drive, run).calls = drive.calls
           /\ \A v \in drive.visited :
                \/ Len(v[1]) < Len(run.path)
                \/ v[1] = run.path /\ v[2] \in AtFork(drive, run).tried
<1>1. CASE drive.snap = NoSnapshot \/ drive.tried = {}
  <2>1. AtFork(drive, run) = [drive EXCEPT !.snap = run, !.tried = {}]
    BY <1>1 DEF AtFork
  <2>2. \A v \in drive.visited : Len(v[1]) < Len(run.path)
    BY <1>1 DEF ForkInv
  <2> QED
    BY <2>1, <2>2 DEF DriveRec
<1>2. CASE ~(drive.snap = NoSnapshot \/ drive.tried = {})
  <2>1. AtFork(drive, run) = drive
    BY <1>2 DEF AtFork
  <2>2. /\ run = drive.snap
        /\ \A v \in drive.visited :
             Len(v[1]) < Len(drive.snap.path) \/ (v[1] = drive.snap.path /\ v[2] \in drive.tried)
    BY <1>2 DEF ForkInv
  <2> QED
    BY <2>1, <2>2
<1> QED
  BY <1>1, <1>2

LEMMA DriveMapKeeps ==
    ASSUME RoomInv, mode = "drive", DriveMap, UNCHANGED <<mode, seed>>
    PROVE  RoomInv' /\ OnlyTheRoom
<1>1. drive \in DriveRec /\ run \in RunRec /\ ~drive.again /\ ForkInv /\ seed \in Maps
  BY DEF RoomInv, RoomTypes, DriveInv
<1>2. drive.pc = "loop" /\ UNCHANGED <<attempt, captured>> /\ RunBoundary(run) = "map_select"
  BY DEF DriveMap, Looping
<1> DEFINE d == AtFork(drive, run)
           r == PickedRoom(d.picker, GetMapRooms(run), d.tried)
           e == Entered(d, r)
<1>3. /\ d \in DriveRec /\ d.snap = run /\ d.visited = drive.visited /\ ~d.again /\ d.calls = drive.calls
      /\ \A v \in drive.visited : Len(v[1]) < Len(run.path) \/ (v[1] = run.path /\ v[2] \in d.tried)
  BY <1>1, <1>2, AtForkFacts
<1>4. r = 0 \/ r \in DOMAIN GetMapRooms(run) \ d.tried
  BY <1>1, <1>2, RoomFacts, PickedRoomFacts
<1>5. \/ drive' = Returned(d) /\ UNCHANGED run
      \/ r # 0 /\ run' = ChooseRoom(run, r) /\ drive' = AfterRoom(e, run')
      \/ r # 0 /\ drive' = Returned([d EXCEPT !.tried = @ \cup {r}]) /\ UNCHANGED run
  BY DEF DriveMap
<1>6. e = [d EXCEPT !.tried = @ \cup {r}, !.entered = @ + 1, !.steps = @ + 1,
                    !.visited = @ \cup {<<run.path, r>>}, !.again = @ \/ <<run.path, r>> \in d.visited]
  BY DEF Entered
<1> HIDE DEF d, r, e
<1>7. CASE r # 0 /\ run' = ChooseRoom(run, r) /\ drive' = AfterRoom(e, run')
  <2>1. r \in Nat \ {0} /\ r \notin d.tried
    BY <1>1, <1>2, <1>4, <1>7, RoomFacts
  <2>2. run' \in RunRec /\ run'.path = Append(run.path, Went(r)) /\ Went(r) \in PathStep
    BY <1>1, <1>2, <1>4, <1>7, RoomFacts
  <2>3. run.path \in Seq(PathStep) /\ Len(run.path) \in Nat
    BY <1>1, RunFields
  <2>4. Len(run'.path) = Len(run.path) + 1 /\ Front(run'.path) = run.path
    BY <2>2, <2>3, Grown
  <2>5. <<run.path, r>> \notin d.visited
    <3> SUFFICES ASSUME <<run.path, r>> \in drive.visited PROVE FALSE
      BY <1>3
    <3> DEFINE v == <<run.path, r>>
    <3>1. Len(v[1]) < Len(run.path) \/ (v[1] = run.path /\ v[2] \in d.tried)
      BY <1>3
    <3> QED
      BY <2>1, <2>3, <3>1
  <2>6. /\ e \in DriveRec /\ e.snap = run /\ e.tried = d.tried \cup {r}
        /\ e.visited = drive.visited \cup {<<run.path, r>>} /\ ~e.again /\ e.calls = drive.calls
    <3>1. /\ d.entered + 1 \in Nat /\ d.steps + 1 \in Nat /\ d.tried \cup {r} \in SUBSET Nat
          /\ d.visited \cup {<<run.path, r>>} \in SUBSET (Seq(PathStep) \X Nat)
          /\ (d.again \/ <<run.path, r>> \in d.visited) = FALSE
      BY <1>3, <2>1, <2>3, <2>5 DEF DriveRec
    <3> QED
      BY <1>3, <1>6, <3>1 DEF DriveRec
  <2>7. \A v \in e.visited : Len(v[1]) < Len(run.path) \/ (v[1] = run.path /\ v[2] \in e.tried)
    BY <1>3, <2>6
  <2>8. CASE RunBoundary(run') = "map_select"
    <3>1. drive' = [e EXCEPT !.snap = NoSnapshot, !.tried = {}]
      BY <1>7, <2>8 DEF AfterRoom, Resolved
    <3>2. drive' \in DriveRec /\ drive'.snap = NoSnapshot /\ drive'.visited = e.visited /\ ~drive'.again
      BY <2>6, <3>1 DEF DriveRec
    <3>3. ASSUME NEW v \in e.visited PROVE Len(v[1]) < Len(run'.path)
      <4>1. Len(v[1]) \in Nat
        BY <2>6 DEF DriveRec
      <4> QED
        BY <2>3, <2>4, <2>7, <4>1
    <3>4. DriveInv'
      BY <3>2, <3>3 DEF DriveInv, ForkInv
    <3> QED
      BY <1>2, <2>2, <2>3, <2>4, <3>2, <3>4, DriveKeeps DEF OnlyTheRoom
  <2>9. CASE RunBoundary(run') # "map_select"
    <3>1. drive' = e
      BY <1>7, <2>9 DEF AfterRoom
    <3>2. RunBoundary(run)' # "map_select"
      BY <2>9, SameBoundary
    <3>3. OneRoomOn(run, drive.snap)'
      BY <2>4, <2>6, <3>1 DEF OneRoomOn
    <3>4. drive'.snap # NoSnapshot
      BY <1>1, <2>6, <3>1, NewRunFacts
    <3>5. DriveInv'
      BY <2>6, <2>7, <3>1, <3>2, <3>3, <3>4 DEF DriveInv, ForkInv
    <3> QED
      BY <1>2, <2>2, <2>3, <2>4, <2>6, <3>1, <3>5, DriveKeeps DEF OnlyTheRoom
  <2> QED
    BY <2>8, <2>9
<1>8. CASE \/ drive' = Returned(d) /\ UNCHANGED run
           \/ r # 0 /\ drive' = Returned([d EXCEPT !.tried = @ \cup {r}]) /\ UNCHANGED run
  <2>1. drive' \in DriveRec /\ drive'.pc = "ended" /\ ~drive'.again
    <3>1. CASE drive' = Returned(d)
      BY <1>3, <3>1 DEF DriveRec, Returned
    <3>2. CASE r # 0 /\ drive' = Returned([d EXCEPT !.tried = @ \cup {r}])
      <4> DEFINE t == [d EXCEPT !.tried = @ \cup {r}]
      <4>1. d.tried \cup {r} \in SUBSET Nat
        BY <1>1, <1>2, <1>3, <1>4, <3>2, RoomFacts DEF DriveRec
      <4>2. t \in DriveRec /\ ~t.again
        BY <1>3, <4>1 DEF DriveRec
      <4> HIDE DEF t
      <4>3. Returned(t) \in DriveRec /\ Returned(t).pc = "ended" /\ ~Returned(t).again
        BY <4>2 DEF DriveRec, Returned
      <4> QED
        BY <3>2, <4>3 DEF t
    <3> QED
      BY <1>8, <3>1, <3>2
  <2>2. DriveInv'
    BY <2>1 DEF DriveInv, ForkInv
  <2>3. RoomInv'
    BY <1>1, <1>2, <1>8, <2>1, <2>2, DriveKeeps
  <2> QED
    BY <1>1, <1>8, <2>3, RunFields DEF OnlyTheRoom
<1> QED
  BY <1>5, <1>7, <1>8

LEMMA DriverKeeps ==
    ASSUME RoomInv, mode = "drive", DriverStep, UNCHANGED <<mode, seed>>
    PROVE  RoomInv' /\ OnlyTheRoom
BY BeginDriveKeeps, DriveEndsKeeps, DriveMapKeeps, DriveUnsupportedKeeps, DriveStepKeeps DEF DriverStep

-----------------------------------------------------------------------------
(***************************************************************************)
(* choice_branch_runner: where a recorded prefix leads.                    *)
(***************************************************************************)

LEMMA FollowsPointwise ==
    ASSUME NEW f, NEW start, NEW ids \in Seq(Names), Follows(f, start, ids)
    PROVE  /\ f[0] = start
           /\ \A n \in Nat : n + 1 <= Len(ids) => f[n + 1] = StepGame(f[n], ids[n + 1])
<1>1. Len(ids) \in Nat
  OBVIOUS
<1>2. \A i \in 0..Len(ids) : f[i] = IF i = 0 THEN start ELSE StepGame(f[i - 1], ids[i])
  BY DEF Follows
<1>3. f[0] = start
  <2>1. 0 \in 0..Len(ids)
    BY <1>1
  <2> QED
    BY <1>2, <2>1
<1>4. ASSUME NEW n \in Nat, n + 1 <= Len(ids)
      PROVE  f[n + 1] = StepGame(f[n], ids[n + 1])
  <2> DEFINE i == n + 1
  <2>1. i \in 0..Len(ids) /\ i # 0 /\ i - 1 = n
    BY <1>1, <1>4
  <2> HIDE DEF i
  <2>2. f[i] = StepGame(f[i - 1], ids[i])
    BY <1>2, <2>1
  <2> QED
    BY <2>1, <2>2 DEF i
<1> QED
  BY <1>3, <1>4

(* Two replays of the same ids go through the same games.                  *)
LEMMA FollowsUnique ==
    ASSUME NEW f, NEW h, NEW start, NEW ids \in Seq(Names), Follows(f, start, ids), Follows(h, start, ids)
    PROVE  f[Len(ids)] = h[Len(ids)]
<1>1. /\ f[0] = start /\ h[0] = start
      /\ \A n \in Nat : n + 1 <= Len(ids) =>
           f[n + 1] = StepGame(f[n], ids[n + 1]) /\ h[n + 1] = StepGame(h[n], ids[n + 1])
  BY FollowsPointwise
<1> DEFINE Same == {n \in Nat : n <= Len(ids) => f[n] = h[n]}
<1>2. 0 \in Same
  BY <1>1
<1>3. ASSUME NEW n \in Nat, n \in Same PROVE n + 1 \in Same
  <2> SUFFICES ASSUME n + 1 <= Len(ids) PROVE f[n + 1] = h[n + 1]
    OBVIOUS
  <2>1. Len(ids) \in Nat
    OBVIOUS
  <2>2. n <= Len(ids)
    BY <2>1
  <2>3. f[n] = h[n]
    BY <1>3, <2>2
  <2> QED
    BY <1>1, <2>3
<1> HIDE DEF Same
<1>4. \A n \in Nat : n \in Same
  BY <1>2, <1>3, SetInduction
<1> QED
  BY <1>4 DEF Same

LEMMA ReplayFollows ==
    ASSUME NEW g, NEW r, NEW t, Trail(ChooseRoom(g, r), t)
    PROVE  ReplayTo(g, r, t.ids) = t.game
<1> DEFINE ids == t.ids
           start == ChooseRoom(g, r)
           h == CHOOSE f : f = [n \in 0..Len(ids) |-> IF n = 0 THEN start ELSE StepGame(f[n - 1], ids[n])]
<1>1. ids \in Seq(Names)
  BY DEF Trail
<1>2. PICK f : Follows(f, start, ids) /\ f[Len(ids)] = t.game
  BY DEF Trail
<1>3. Follows(h, start, ids)
  BY <1>2 DEF Follows
<1>4. ReplayTo(g, r, ids) = h[Len(ids)]
  BY DEF ReplayTo
<1> HIDE DEF ids, start, h
<1>5. h[Len(ids)] = f[Len(ids)]
  BY <1>1, <1>2, <1>3, FollowsUnique
<1> QED
  BY <1>2, <1>4, <1>5 DEF ids

(* One more recorded action.                                               *)
LEMMA TrailStep ==
    ASSUME NEW start, NEW t, Trail(start, t), Len(start.path) \in Nat, NEW a \in Names, t.game.room # "map"
    PROVE  Trail(start, [game |-> StepGame(t.game, a), ids |-> Append(t.ids, a)])
<1> DEFINE ids == t.ids
           more == Append(ids, a)
           u == [game |-> StepGame(t.game, a), ids |-> more]
<1>1. ids \in Seq(Names) /\ t.game \in RunRec /\ Len(ids) \in Nat
  BY DEF Trail
<1>2. PICK f : Follows(f, start, ids) /\ f[Len(ids)] = t.game
  BY DEF Trail
<1>3. /\ more \in Seq(Names) /\ Len(more) = Len(ids) + 1 /\ more[Len(ids) + 1] = a
      /\ \A i \in 1..Len(ids) : more[i] = ids[i]
  BY <1>1
<1> HIDE DEF ids, more
<1>4. u \in [game : RunRec, ids : Seq(Names)] /\ Len(u.game.path) >= Len(start.path)
  <2>1. StepGame(t.game, a) \in RunRec /\ StepGame(t.game, a).path = Append(t.game.path, Did(a)) /\ Did(a) \in PathStep
    BY <1>1, StepFacts
  <2>2. t.game.path \in Seq(PathStep) /\ Len(t.game.path) \in Nat
    BY <1>1, RunFields
  <2>3. Len(StepGame(t.game, a).path) = Len(t.game.path) + 1
    BY <2>1, <2>2, Grown
  <2>4. Len(t.game.path) >= Len(start.path)
    BY DEF Trail
  <2> QED
    BY <1>3, <2>1, <2>2, <2>3, <2>4
<1>5. \E h : Follows(h, start, more) /\ h[Len(more)] = StepGame(t.game, a)
  <2> DEFINE last == StepGame(t.game, a)
             h == [n \in 0..Len(more) |-> IF n = Len(more) THEN last ELSE f[n]]
             Then(k, n) == IF n = 0 THEN start ELSE StepGame(k[n - 1], more[n])
  <2>1. ASSUME NEW n \in 0..Len(more) PROVE h[n] = Then(h, n)
    <3>1. CASE n = Len(more)
      <4>1. n # 0 /\ n - 1 = Len(ids) /\ n - 1 \in 0..Len(more) /\ n - 1 # Len(more) /\ more[n] = a
        BY <1>1, <1>3, <3>1
      <4>2. h[n] = last /\ h[n - 1] = f[Len(ids)]
        <5> HIDE DEF last
        <5> QED
          BY <3>1, <4>1
      <4> QED
        BY <1>2, <4>1, <4>2
    <3>2. CASE n # Len(more)
      <4>1. n \in 0..Len(ids) /\ n <= Len(ids)
        BY <1>1, <1>3, <3>2
      <4>2. h[n] = f[n] /\ (n # 0 => n - 1 \in 0..Len(more) /\ n - 1 # Len(more) /\ h[n - 1] = f[n - 1] /\ more[n] = ids[n])
        <5> HIDE DEF last
        <5> QED
          BY <1>1, <1>3, <3>2, <4>1
      <4>3. f[n] = IF n = 0 THEN start ELSE StepGame(f[n - 1], ids[n])
        BY <1>2, <4>1 DEF Follows
      <4> QED
        BY <4>2, <4>3
    <3> QED
      BY <3>1, <3>2
  <2>2. h[Len(more)] = last
    BY <1>1, <1>3
  <2>3. h = [n \in 0..Len(more) |-> Then(h, n)]
    <3> HIDE DEF Then, last
    <3>1. \A n \in 0..Len(more) : h[n] = [k \in 0..Len(more) |-> Then(h, k)][n]
      BY <2>1
    <3> QED
      BY <3>1
  <2> HIDE DEF h
  <2>4. Follows(h, start, more)
    BY <2>3 DEF Follows
  <2> QED
    BY <2>2, <2>4
<1> QED
  BY <1>4, <1>5 DEF Trail, more, ids

LEMMA TrailStart ==
    ASSUME NEW g \in RunRec
    PROVE  Trail(g, [game |-> g, ids |-> <<>>])
<1> DEFINE f == [n \in 0..0 |-> g]
<1>1. <<>> \in Seq(Names) /\ Len(<<>>) = 0 /\ f[0] = g
  OBVIOUS
<1>2. f = [n \in 0..0 |-> IF n = 0 THEN g ELSE StepGame(f[n - 1], <<>>[n])]
  OBVIOUS
<1> HIDE DEF f
<1>3. Follows(f, g, <<>>)
  BY <1>1, <1>2 DEF Follows
<1>4. Len(g.path) >= Len(g.path)
  BY RunFields
<1> QED
  BY <1>1, <1>3, <1>4 DEF Trail

(* What the drain takes on its own is recorded like any other action.      *)
LEMMA TrailDrain ==
    ASSUME NEW start, NEW t, Trail(start, t), Len(start.path) \in Nat
    PROVE  Trail(start, [game |-> Drain(t.game).game, ids |-> t.ids \o Drain(t.game).ids])
<1>1. t.ids \in Seq(Names) /\ t = [game |-> t.game, ids |-> t.ids]
  BY DEF Trail
<1>2. CASE RunBoundary(t.game) = "reward_select" /\ "take" \in Range(GetLegalActions(t.game))
  <2>1. Drain(t.game).game = StepGame(t.game, "take") /\ Drain(t.game).ids = <<"take">>
    BY <1>2 DEF Drain
  <2>2. GetLegalActions(t.game) # <<>> /\ "take" \in Names
    BY <1>2 DEF Range, Names
  <2>3. t.game.room # "map"
    BY <2>2, LegalCases
  <2>4. t.ids \o <<"take">> = Append(t.ids, "take")
    BY <1>1, <2>2
  <2> QED
    BY <2>1, <2>2, <2>3, <2>4, TrailStep
<1>3. CASE ~(RunBoundary(t.game) = "reward_select" /\ "take" \in Range(GetLegalActions(t.game)))
  <2>1. Drain(t.game).game = t.game /\ Drain(t.game).ids = <<>>
    BY <1>3 DEF Drain
  <2>2. t.ids \o <<>> = t.ids
    BY <1>1
  <2> QED
    BY <1>1, <2>1, <2>2
<1> QED
  BY <1>2, <1>3

LEMMA DrainIsATrail ==
    ASSUME NEW g \in RunRec
    PROVE  Trail(g, Drain(g))
<1> DEFINE t == [game |-> g, ids |-> <<>>]
<1>1. Trail(g, t) /\ Len(g.path) \in Nat
  BY TrailStart, RunFields
<1>2. Trail(g, [game |-> Drain(t.game).game, ids |-> t.ids \o Drain(t.game).ids])
  BY <1>1, TrailDrain
<1>3. t.game = g /\ t.ids = <<>>
  OBVIOUS
<1>4. Drain(g).ids \in {<<>>, <<"take">>} /\ Drain(g) = [game |-> Drain(g).game, ids |-> Drain(g).ids]
  BY DEF Drain
<1>5. <<>> \o Drain(g).ids = Drain(g).ids
  <2>1. <<"take">> \in Seq(Names) /\ <<>> \in Seq(Names)
    BY DEF Names
  <2> QED
    BY <1>4, <2>1
<1> QED
  BY <1>2, <1>3, <1>4, <1>5

LEMMA TrailDriven ==
    ASSUME NEW start, NEW t, Trail(start, t), Len(start.path) \in Nat, GetLegalActions(t.game) # <<>>
    PROVE  Trail(start, Driven(t))
<1> DEFINE a == PickDefaultAction(GetLegalActions(t.game))
           u == [game |-> StepGame(t.game, a), ids |-> Append(t.ids, a)]
           d == Drain(u.game)
<1>1. a \in Names /\ t.game.room # "map" /\ t.ids \in Seq(Names)
  BY PickedActionFacts, LegalCases DEF Trail
<1>2. Trail(start, u)
  BY <1>1, TrailStep
<1>3. Trail(start, [game |-> d.game, ids |-> u.ids \o d.ids])
  BY <1>2, TrailDrain
<1>4. Driven(t) = [game |-> d.game, ids |-> (t.ids \o <<a>>) \o d.ids]
  BY DEF Driven
<1>5. t.ids \o <<a>> = Append(t.ids, a) /\ u.ids = Append(t.ids, a)
  BY <1>1
<1> QED
  BY <1>3, <1>4, <1>5

-----------------------------------------------------------------------------
(***************************************************************************)
(* The autoplay loops, by induction over their iterations.                 *)
(***************************************************************************)

Autoplayed(t, stops) ==
    IF RunBoundary(t.game) \in stops \/ GetLegalActions(t.game) = <<>> THEN t ELSE Driven(t)

AutoplayIs(f, t, stops, N) == f = [i \in 0..N |-> IF i = 0 THEN t ELSE Autoplayed(f[i - 1], stops)]

LEMMA AutoplayExists ==
    ASSUME NEW t, NEW stops, NEW N \in Nat
    PROVE  \E f : AutoplayIs(f, t, stops, N)
<1> DEFINE Then(f, i) == IF i = 0 THEN t ELSE Autoplayed(f[i - 1], stops)
           Good == {n \in Nat : \E f : f = [i \in 0..n |-> Then(f, i)]}
<1>1. 0 \in Good
  <2> DEFINE f == [i \in 0..0 |-> t]
  <2>1. f = [i \in 0..0 |-> Then(f, i)]
    OBVIOUS
  <2> QED
    BY <2>1
<1>2. ASSUME NEW n \in Nat, n \in Good PROVE n + 1 \in Good
  <2>1. PICK f : f = [i \in 0..n |-> Then(f, i)]
    BY <1>2
  <2> DEFINE last == Autoplayed(f[n], stops)
             h == [i \in 0..(n + 1) |-> IF i = n + 1 THEN last ELSE f[i]]
  <2>2. ASSUME NEW i \in 0..(n + 1) PROVE h[i] = Then(h, i)
    <3>1. CASE i = n + 1
      <4>1. h[i] = last /\ h[i - 1] = f[n] /\ i # 0
        <5> HIDE DEF last
        <5> QED
          BY <3>1
      <4> QED
        BY <4>1
    <3>2. CASE i \in 0..n
      <4>1. h[i] = f[i] /\ (i # 0 => h[i - 1] = f[i - 1])
        <5> HIDE DEF last
        <5> QED
          BY <3>2
      <4>2. f[i] = Then(f, i)
        BY <2>1, <3>2
      <4> QED
        BY <4>1, <4>2
    <3> QED
      BY <3>1, <3>2
  <2>3. h = [i \in 0..(n + 1) |-> Then(h, i)]
    <3> HIDE DEF Then, last
    <3>1. \A i \in 0..(n + 1) : h[i] = [j \in 0..(n + 1) |-> Then(h, j)][i]
      BY <2>2
    <3> QED
      BY <3>1
  <2> HIDE DEF h
  <2> QED
    BY <2>3
<1> HIDE DEF Good
<1>3. N \in Good
  BY <1>1, <1>2, SetInduction
<1> QED
  BY <1>3 DEF Good, AutoplayIs

LEMMA AutoplayTrail ==
    ASSUME NEW start, NEW t, NEW stops, Trail(start, t), Len(start.path) \in Nat
    PROVE  Trail(start, DriveUntil(t, stops))
<1> DEFINE after == CHOOSE f : f = [n \in 0..MaxSteps |-> IF n = 0 THEN t ELSE Autoplayed(f[n - 1], stops)]
<1>1. MaxSteps \in Nat
  BY RoomBounds
<1>2. after = [n \in 0..MaxSteps |-> IF n = 0 THEN t ELSE Autoplayed(after[n - 1], stops)]
  <2>1. \E f : AutoplayIs(f, t, stops, MaxSteps)
    BY <1>1, AutoplayExists
  <2> QED
    BY <2>1 DEF AutoplayIs
<1>3. DriveUntil(t, stops) = after[MaxSteps]
  BY DEF DriveUntil, Autoplayed
<1> HIDE DEF after
<1>4. after[0] = t /\ \A n \in Nat : n + 1 <= MaxSteps => after[n + 1] = Autoplayed(after[n], stops)
  <2>1. \A i \in 0..MaxSteps : after[i] = IF i = 0 THEN t ELSE Autoplayed(after[i - 1], stops)
    BY <1>2
  <2>2. after[0] = t
    <3>1. 0 \in 0..MaxSteps
      BY <1>1
    <3> QED
      BY <2>1, <3>1
  <2>3. ASSUME NEW n \in Nat, n + 1 <= MaxSteps
        PROVE  after[n + 1] = Autoplayed(after[n], stops)
    <3> DEFINE i == n + 1
    <3>1. i \in 0..MaxSteps /\ i # 0 /\ i - 1 = n
      BY <1>1, <2>3
    <3> HIDE DEF i
    <3>2. after[i] = Autoplayed(after[i - 1], stops)
      BY <2>1, <3>1
    <3> QED
      BY <3>1, <3>2 DEF i
  <2> QED
    BY <2>2, <2>3
<1> DEFINE Kept == {n \in Nat : n <= MaxSteps => Trail(start, after[n])}
<1>5. 0 \in Kept
  BY <1>4
<1>6. ASSUME NEW n \in Nat, n \in Kept PROVE n + 1 \in Kept
  <2> SUFFICES ASSUME n + 1 <= MaxSteps PROVE Trail(start, after[n + 1])
    OBVIOUS
  <2>1. Trail(start, after[n])
    BY <1>1, <1>6
  <2>2. after[n + 1] = Autoplayed(after[n], stops)
    BY <1>4
  <2> QED
    BY <2>1, <2>2, TrailDriven DEF Autoplayed
<1> HIDE DEF Kept
<1>7. MaxSteps \in Kept
  BY <1>1, <1>5, <1>6, SetInduction
<1> QED
  BY <1>1, <1>3, <1>7 DEF Kept

LEMMA DrivenFurther ==
    ASSUME NEW g \in RunRec
    PROVE  DriveToMapOrTerminal(g) \in RunRec /\ Len(DriveToMapOrTerminal(g).path) >= Len(g.path)
<1> DEFINE t == DriveUntil(Drain(g), {"map_select", "run_terminal"})
<1>1. Trail(g, t)
  BY DrainIsATrail, AutoplayTrail, RunFields
<1>2. DriveToMapOrTerminal(g) = t.game
  BY DEF DriveToMapOrTerminal
<1> HIDE DEF t
<1> QED
  BY <1>1, <1>2 DEF Trail

(* The prefix the holder records brings a replay to the holder's choice.   *)
LEMMA PrefixReproduces ==
    ASSUME NEW g, NEW r, NEW target, ChooseRoom(g, r) \in RunRec
    PROVE  LET t == ReachChoiceBoundary(g, r, target)
           IN /\ t.game \in RunRec /\ t.ids \in Seq(Names)
              /\ Len(t.game.path) >= Len(ChooseRoom(g, r).path)
              /\ Trail(ChooseRoom(g, r), t)
<1> DEFINE t == ReachChoiceBoundary(g, r, target)
<1>1. t = DriveUntil(Drain(ChooseRoom(g, r)), {target, "run_terminal"})
  BY DEF ReachChoiceBoundary
<1>2. Trail(ChooseRoom(g, r), t)
  BY <1>1, DrainIsATrail, AutoplayTrail, RunFields
<1> HIDE DEF t
<1>3. t.game \in RunRec /\ t.ids \in Seq(Names) /\ Len(t.game.path) >= Len(ChooseRoom(g, r).path)
  BY <1>2 DEF Trail
<1> QED
  BY <1>2, <1>3 DEF t

-----------------------------------------------------------------------------
(***************************************************************************)
(* The attempts.                                                           *)
(***************************************************************************)

(* The map does not change under a run.                                    *)
LEMMA SameFork ==
    ASSUME seed' = seed
    PROVE  /\ RunBoundary(attempt.snap)' = RunBoundary(attempt'.snap)
           /\ GetMapRooms(attempt.snap)' = GetMapRooms(attempt'.snap)
           /\ ChooseRoom(attempt.snap, attempt.room)' = ChooseRoom(attempt'.snap, attempt'.room)
BY DEF RunBoundary, Dead, Stage, GetMapRooms, ChooseRoom

LEMMA SameGame ==
    ASSUME seed' = seed, NEW g
    PROVE  RunBoundary(g)' = RunBoundary(g) /\ GetLegalActions(g)' = GetLegalActions(g)
<1>1. RunBoundary(g)' = RunBoundary(g)
  BY DEF RunBoundary
<1> QED
  BY <1>1 DEF GetLegalActions

LEMMA AttemptKeeps ==
    ASSUME RoomInv, mode = "attempt", UNCHANGED <<mode, seed, drive, captured>>,
           run' \in RunRec, attempt' \in AttemptRec, AttemptInv'
    PROVE  RoomInv'
BY DEF RoomInv, RoomTypes

LEMMA AttemptFields ==
    ASSUME RoomInv, mode = "attempt"
    PROVE  /\ attempt \in AttemptRec /\ run \in RunRec /\ seed \in Maps /\ AttemptInv
           /\ run.path \in Seq(PathStep) /\ Len(run.path) \in Nat
BY RunFields DEF RoomInv, RoomTypes

LEMMA FailsKeeps ==
    ASSUME RoomInv, mode = "attempt", UNCHANGED <<mode, seed, drive, captured>>,
           NEW how \in {"not_found", "holder_failed", "raised"}, Fails(how)
    PROVE  RoomInv' /\ OnlyTheRoom
<1>1. attempt' = [attempt EXCEPT !.pc = how] /\ run' = run
  BY DEF Fails
<1>2. attempt' \in AttemptRec /\ attempt'.pc = how
  BY <1>1, AttemptFields DEF AttemptRec
<1>3. AttemptInv'
  BY <1>2 DEF AttemptInv
<1> QED
  BY <1>1, <1>2, <1>3, AttemptKeeps, AttemptFields DEF OnlyTheRoom

LEMMA SearchStartKeeps ==
    ASSUME RoomInv, mode = "attempt", UNCHANGED <<mode, seed, drive, captured>>, SearchStart
    PROVE  RoomInv' /\ OnlyTheRoom
<1> DEFINE g == DriveToMapOrTerminal(NewRun)
<1>1. PICK c \in ChoiceTypes :
        /\ run' = g
        /\ attempt' = [NoAttempt EXCEPT !.kind = c.kind, !.target = c.target, !.snap = g,
             !.pc = IF RunBoundary(g) # "map_select" THEN "not_found" ELSE IF c.kind = "map" THEN "map" ELSE "probe"]
  BY DEF SearchStart
<1>2. g \in RunRec /\ Len(g.path) \in Nat
  BY NewRunFacts, DrivenFurther, RunFields
<1> HIDE DEF g
<1>3. c.kind \in {"event", "combat", "map"} /\ c.target \in BoundaryNames
  BY DEF ChoiceTypes, BoundaryNames
<1>4. NoAttempt \in AttemptRec /\ NoAttempt.probe = 1
  <2>1. <<>> \in Seq(PathStep) /\ <<>> \in Seq(Names)
    OBVIOUS
  <2> QED
    BY <2>1 DEF NoAttempt, AttemptRec, BoundaryNames
<1>5. /\ attempt' \in AttemptRec /\ attempt'.snap = g /\ attempt'.probe = 1
      /\ attempt'.pc \in {"not_found", "map", "probe"}
      /\ attempt'.pc # "not_found" => RunBoundary(g) = "map_select"
  <2> HIDE DEF NoAttempt
  <2>1. (IF RunBoundary(g) # "map_select" THEN "not_found" ELSE IF c.kind = "map" THEN "map" ELSE "probe")
          \in {"not_found", "map", "probe"}
    OBVIOUS
  <2> QED
    BY <1>1, <1>2, <1>3, <1>4, <2>1 DEF AttemptRec
<1>6. attempt'.pc # "not_found" => AtItsFork'
  BY <1>2, <1>5, SameFork DEF AtItsFork
<1>7. AttemptInv'
  BY <1>1, <1>5, <1>6 DEF AttemptInv
<1>8. run = NewRun
  BY AttemptFields DEF AttemptInv, SearchStart
<1> QED
  BY <1>1, <1>2, <1>5, <1>7, <1>8, AttemptKeeps, NewRunFacts DEF OnlyTheRoom

(* Entering a room of the fork.                                            *)
LEMMA EntersARoom ==
    ASSUME seed \in Maps, NEW g \in RunRec, RunBoundary(g) = "map_select",
           NEW r, r \in DOMAIN GetMapRooms(g)
    PROVE  /\ ChooseRoom(g, r) \in RunRec /\ r \in Nat \ {0} /\ Len(g.path) \in Nat
           /\ Len(ChooseRoom(g, r).path) = Len(g.path) + 1 /\ Front(ChooseRoom(g, r).path) = g.path
           /\ ChooseRoom(g, r).path = Append(g.path, Went(r)) /\ Went(r) \in PathStep
<1>1. /\ ChooseRoom(g, r) \in RunRec /\ r \in Nat \ {0}
      /\ ChooseRoom(g, r).path = Append(g.path, Went(r)) /\ Went(r) \in PathStep
  BY RoomFacts
<1>2. g.path \in Seq(PathStep) /\ Len(g.path) \in Nat
  BY RunFields
<1> QED
  BY <1>1, <1>2, Grown

LEMMA SearchProbeKeeps ==
    ASSUME RoomInv, mode = "attempt", UNCHANGED <<mode, seed, drive, captured>>, SearchProbe
    PROVE  RoomInv' /\ OnlyTheRoom
<1>1. attempt \in AttemptRec /\ run \in RunRec /\ seed \in Maps /\ Len(run.path) \in Nat
  BY AttemptFields
<1>2. attempt.pc = "probe" /\ attempt.probe <= Len(GetMapRooms(attempt.snap))
  BY DEF SearchProbe
<1>3. AtItsFork /\ attempt.probe # 0 /\ (run = attempt.snap \/ OneRoomOn(run, attempt.snap))
  BY <1>2, AttemptFields DEF AttemptInv
<1>4. attempt.snap \in RunRec /\ RunBoundary(attempt.snap) = "map_select" /\ attempt.probe \in Nat
  BY <1>1, <1>3 DEF AtItsFork, AttemptRec
<1>5. attempt.probe \in DOMAIN GetMapRooms(attempt.snap)
  BY <1>1, <1>2, <1>3, <1>4, RoomFacts
<1> DEFINE r == attempt.probe
<1>6. /\ ChooseRoom(attempt.snap, r) \in RunRec /\ Len(attempt.snap.path) \in Nat
      /\ Len(ChooseRoom(attempt.snap, r).path) = Len(attempt.snap.path) + 1
      /\ Front(ChooseRoom(attempt.snap, r).path) = attempt.snap.path
  BY <1>1, <1>4, <1>5, EntersARoom
<1>7. \/ run' = attempt.snap /\ attempt' = [attempt EXCEPT !.probe = @ + 1]
      \/ run' = ChooseRoom(attempt.snap, r) /\ attempt' = [attempt EXCEPT !.pc = "holder", !.room = r]
      \/ run' = ChooseRoom(attempt.snap, r) /\ attempt' = [attempt EXCEPT !.probe = @ + 1]
  BY DEF SearchProbe
<1>8. attempt.probe + 1 \in Nat /\ attempt.probe + 1 # 0
  BY <1>4
<1>9. CASE attempt' = [attempt EXCEPT !.probe = @ + 1]
  <2>1. /\ attempt' \in AttemptRec /\ attempt'.pc = "probe" /\ attempt'.snap = attempt.snap
        /\ attempt'.probe # 0
    BY <1>1, <1>2, <1>8, <1>9 DEF AttemptRec
  <2>2. AtItsFork'
    BY <1>4, <2>1, SameFork DEF AtItsFork
  <2>3. run' = attempt.snap \/ run' = ChooseRoom(attempt.snap, r)
    BY <1>7
  <2>4. run' \in RunRec /\ (run' = attempt'.snap \/ OneRoomOn(run, attempt.snap)')
    BY <1>4, <1>6, <2>1, <2>3 DEF OneRoomOn
  <2>5. AttemptInv'
    BY <2>1, <2>2, <2>4 DEF AttemptInv
  <2>6. OnlyTheRoom
    BY <1>1, <1>3, <1>6, <2>3 DEF OnlyTheRoom, OneRoomOn
  <2> QED
    BY <2>1, <2>4, <2>5, <2>6, AttemptKeeps
<1>10. CASE run' = ChooseRoom(attempt.snap, r) /\ attempt' = [attempt EXCEPT !.pc = "holder", !.room = r]
  <2>1. /\ attempt' \in AttemptRec /\ attempt'.pc = "holder" /\ attempt'.snap = attempt.snap
        /\ attempt'.room = r
    BY <1>1, <1>4, <1>10 DEF AttemptRec
  <2>2. AtItsFork'
    BY <1>4, <2>1, SameFork DEF AtItsFork
  <2>3. (attempt.room \in DOMAIN GetMapRooms(attempt.snap))'
    BY <1>5, <2>1, SameFork
  <2>4. OneRoomOn(run, attempt.snap)'
    BY <1>6, <1>10, <2>1 DEF OneRoomOn
  <2>5. AttemptInv'
    BY <2>1, <2>2, <2>3, <2>4 DEF AttemptInv
  <2>6. OnlyTheRoom
    BY <1>1, <1>3, <1>6, <1>10 DEF OnlyTheRoom, OneRoomOn
  <2> QED
    BY <1>6, <1>10, <2>1, <2>5, <2>6, AttemptKeeps
<1> QED
  BY <1>7, <1>9, <1>10

LEMMA SearchAdvanceKeeps ==
    ASSUME RoomInv, mode = "attempt", UNCHANGED <<mode, seed, drive, captured>>, SearchAdvance
    PROVE  RoomInv' /\ OnlyTheRoom
<1>1. attempt \in AttemptRec /\ run \in RunRec /\ seed \in Maps /\ Len(run.path) \in Nat
  BY AttemptFields
<1>2. attempt.pc = "probe"
  BY DEF SearchAdvance
<1>3. AtItsFork /\ (run = attempt.snap \/ OneRoomOn(run, attempt.snap))
  BY <1>2, AttemptFields DEF AttemptInv
<1>4. attempt.snap \in RunRec /\ RunBoundary(attempt.snap) = "map_select"
  BY <1>3 DEF AtItsFork
<1> DEFINE r == PickRoom(GetMapRooms(attempt.snap), {})
           g == DriveToMapOrTerminal(ChooseRoom(attempt.snap, r))
<1>5. r = 0 \/ r \in DOMAIN GetMapRooms(attempt.snap)
  <2>1. r = PickedRoom("default", GetMapRooms(attempt.snap), {})
    BY DEF PickedRoom
  <2> QED
    BY <1>1, <1>4, <2>1, RoomFacts, PickedRoomFacts
<1>6. \/ r = 0 /\ Fails("not_found")
      \/ /\ r # 0 /\ run' = g
         /\ attempt' = IF RunBoundary(g) # "map_select" THEN [attempt EXCEPT !.pc = "not_found"]
                       ELSE [attempt EXCEPT !.snap = g, !.probe = 1]
  BY DEF SearchAdvance
<1> HIDE DEF r
<1>7. CASE r # 0 /\ run' = g
  <2>1. /\ ChooseRoom(attempt.snap, r) \in RunRec /\ Len(attempt.snap.path) \in Nat
        /\ Len(ChooseRoom(attempt.snap, r).path) = Len(attempt.snap.path) + 1
    BY <1>1, <1>4, <1>5, <1>7, EntersARoom
  <2>2. g \in RunRec /\ Len(g.path) >= Len(attempt.snap.path) + 1 /\ Len(g.path) \in Nat
    BY <2>1, DrivenFurther, RunFields
  <2> HIDE DEF g
  <2>3. OnlyTheRoom
    BY <1>1, <1>3, <1>7, <2>1, <2>2 DEF OnlyTheRoom, OneRoomOn
  <2>4. CASE RunBoundary(g) # "map_select"
    <3>1. attempt' = [attempt EXCEPT !.pc = "not_found"]
      BY <1>6, <1>7, <2>4
    <3>2. attempt' \in AttemptRec /\ attempt'.pc = "not_found"
      BY <1>1, <3>1 DEF AttemptRec
    <3>3. AttemptInv'
      BY <3>2 DEF AttemptInv
    <3> QED
      BY <1>7, <2>2, <2>3, <3>2, <3>3, AttemptKeeps
  <2>5. CASE RunBoundary(g) = "map_select"
    <3>1. attempt' = [attempt EXCEPT !.snap = g, !.probe = 1]
      BY <1>6, <1>7, <2>5
    <3>2. attempt' \in AttemptRec /\ attempt'.pc = "probe" /\ attempt'.snap = g /\ attempt'.probe = 1
      BY <1>1, <1>2, <2>2, <3>1 DEF AttemptRec
    <3>3. AtItsFork'
      BY <2>2, <2>5, <3>2, SameFork DEF AtItsFork
    <3>4. AttemptInv'
      BY <1>7, <3>2, <3>3 DEF AttemptInv
    <3> QED
      BY <1>7, <2>2, <2>3, <3>2, <3>4, AttemptKeeps
  <2> QED
    BY <2>4, <2>5
<1> QED
  BY <1>6, <1>7, FailsKeeps

LEMMA HolderKeeps ==
    ASSUME RoomInv, mode = "attempt", UNCHANGED <<mode, seed, drive, captured>>, Holder
    PROVE  RoomInv' /\ OnlyTheRoom
<1>1. attempt \in AttemptRec /\ run \in RunRec /\ seed \in Maps /\ Len(run.path) \in Nat
  BY AttemptFields
<1>2. attempt.pc = "holder"
  BY DEF Holder
<1>3. AtItsFork /\ attempt.room \in DOMAIN GetMapRooms(attempt.snap) /\ OneRoomOn(run, attempt.snap)
  BY <1>2, AttemptFields DEF AttemptInv
<1>4. attempt.snap \in RunRec /\ RunBoundary(attempt.snap) = "map_select"
  BY <1>3 DEF AtItsFork
<1> DEFINE entered == ChooseRoom(attempt.snap, attempt.room)
           t == ReachChoiceBoundary(attempt.snap, attempt.room, attempt.target)
<1>5. /\ entered \in RunRec /\ Len(attempt.snap.path) \in Nat
      /\ Len(entered.path) = Len(attempt.snap.path) + 1
  BY <1>1, <1>3, <1>4, EntersARoom
<1>6. PICK g \in RunRec, ids \in Seq(Names) :
        /\ g = t.game /\ ids = t.ids /\ Len(g.path) >= Len(entered.path)
        /\ Trail(entered, [game |-> g, ids |-> ids])
  <2>1. Len(t.game.path) >= Len(entered.path) /\ Trail(entered, t)
    BY <1>5, PrefixReproduces
  <2>2. t \in [game : RunRec, ids : Seq(Names)]
    BY <2>1 DEF Trail
  <2> HIDE DEF t, entered
  <2>3. t = [game |-> t.game, ids |-> t.ids] /\ t.game \in RunRec /\ t.ids \in Seq(Names)
    BY <2>2
  <2> QED
    BY <2>1, <2>3
<1> DEFINE legal == GetLegalActions(g)
           a == legal[1]
<1>7. Len(run.path) = Len(attempt.snap.path) + 1
  BY <1>3 DEF OneRoomOn
<1>8. \/ run' = g /\ attempt' = [attempt EXCEPT !.pc = "holder_failed"]
      \/ /\ RunBoundary(g) = attempt.target /\ ~(Len(legal) < 2)
         /\ run' = StepGame(g, a)
         /\ attempt' = [attempt EXCEPT !.pc = "sibling", !.ids = ids, !.a = a,
                                       !.before = g.path, !.holder = run'.path]
  BY <1>6 DEF Holder
<1>9. g.path \in Seq(PathStep) /\ Len(g.path) \in Nat
  BY <1>6, RunFields
<1> HIDE DEF t
<1>10. CASE run' = g /\ attempt' = [attempt EXCEPT !.pc = "holder_failed"]
  <2>1. attempt' \in AttemptRec /\ attempt'.pc = "holder_failed"
    BY <1>1, <1>10 DEF AttemptRec
  <2>2. AttemptInv'
    BY <2>1 DEF AttemptInv
  <2>3. OnlyTheRoom
    BY <1>1, <1>5, <1>6, <1>7, <1>9, <1>10 DEF OnlyTheRoom
  <2> QED
    BY <1>6, <1>10, <2>1, <2>2, <2>3, AttemptKeeps
<1>11. CASE /\ RunBoundary(g) = attempt.target /\ ~(Len(legal) < 2)
            /\ run' = StepGame(g, a)
            /\ attempt' = [attempt EXCEPT !.pc = "sibling", !.ids = ids, !.a = a,
                                          !.before = g.path, !.holder = run'.path]
  <2>1. legal # <<>> /\ a \in Names /\ g.room # "map"
    <3>1. Len(legal) > 0 /\ Len(legal) \in Nat
      BY <1>11, LegalNames
    <3>2. legal # <<>>
      BY <3>1, LegalNames
    <3> QED
      BY <3>2, LegalNames, LegalCases
  <2>2. run' \in RunRec /\ run'.path = Append(g.path, Did(a)) /\ Did(a) \in PathStep
    BY <1>6, <1>11, <2>1, StepFacts
  <2>3. run'.path \in Seq(PathStep) /\ Len(run'.path) = Len(g.path) + 1
    BY <1>9, <2>2, Grown
  <2>4. OnlyTheRoom
    BY <1>1, <1>5, <1>6, <1>7, <1>9, <2>3 DEF OnlyTheRoom
  <2> HIDE DEF legal, a
  <2>5. /\ attempt' \in AttemptRec /\ attempt'.pc = "sibling" /\ attempt'.snap = attempt.snap
        /\ attempt'.room = attempt.room /\ attempt'.target = attempt.target
        /\ attempt'.ids = ids /\ attempt'.a = a /\ attempt'.before = g.path /\ attempt'.holder = run'.path
    BY <1>1, <1>6, <1>9, <1>11, <2>1, <2>3 DEF AttemptRec
  <2>6. AtItsFork'
    BY <1>4, <2>5, SameFork DEF AtItsFork
  <2>7. LeadsTo(g)'
    <3>1. ChooseRoom(attempt.snap, attempt.room)' = entered
      BY <2>5, SameFork
    <3>2. Trail(entered, [game |-> g, ids |-> attempt'.ids])
      BY <1>6, <2>5
    <3> HIDE DEF entered
    <3> QED
      BY <3>1, <3>2 DEF LeadsTo
  <2>8. HadChoice(g)'
    <3>1. RunBoundary(g)' = attempt'.target /\ GetLegalActions(g)' = legal
      BY <1>11, <2>5, SameGame DEF legal
    <3> QED
      BY <2>1, <2>2, <2>3, <2>5, <3>1 DEF HadChoice, a
  <2>9. PrefixInv'
    BY <2>6, <2>7, <2>8 DEF PrefixInv
  <2>10. AttemptInv'
    BY <2>5, <2>9 DEF AttemptInv
  <2> QED
    BY <2>2, <2>4, <2>5, <2>10, AttemptKeeps
<1> QED
  BY <1>8, <1>10, <1>11

(* The prefix still leads to the choice when the attempt only goes on.     *)
LEMMA PrefixKept ==
    ASSUME seed' = seed, NEW g, LeadsTo(g), HadChoice(g), AtItsFork,
           attempt'.snap = attempt.snap, attempt'.room = attempt.room, attempt'.ids = attempt.ids,
           attempt'.target = attempt.target, attempt'.a = attempt.a, attempt'.before = attempt.before,
           attempt'.holder = attempt.holder, Len(run'.path) = Len(run.path)
    PROVE  LeadsTo(g)' /\ HadChoice(g)' /\ AtItsFork'
<1>1. AtItsFork'
  BY SameFork DEF AtItsFork
<1>2. LeadsTo(g)'
  <2>1. ChooseRoom(attempt.snap, attempt.room)' = ChooseRoom(attempt.snap, attempt.room)
    BY SameFork
  <2> QED
    BY <2>1 DEF LeadsTo
<1>3. HadChoice(g)'
  BY SameGame DEF HadChoice
<1> QED
  BY <1>1, <1>2, <1>3

LEMMA SiblingKeeps ==
    ASSUME RoomInv, mode = "attempt", UNCHANGED <<mode, seed, drive, captured>>, Sibling
    PROVE  RoomInv' /\ OnlyTheRoom
<1>1. attempt \in AttemptRec /\ run \in RunRec /\ seed \in Maps /\ Len(run.path) \in Nat
  BY AttemptFields
<1>2. attempt.pc = "sibling"
  BY DEF Sibling
<1>3. PrefixInv
  BY <1>2, AttemptFields DEF AttemptInv
<1>4. PICK g \in RunRec : LeadsTo(g) /\ HadChoice(g)
  BY <1>3 DEF PrefixInv
<1>5. ReplayTo(attempt.snap, attempt.room, attempt.ids) = g
  <2> DEFINE t == [game |-> g, ids |-> attempt.ids]
  <2>1. Trail(ChooseRoom(attempt.snap, attempt.room), t)
    BY <1>4 DEF LeadsTo
  <2>2. t.game = g /\ t.ids = attempt.ids
    OBVIOUS
  <2> HIDE DEF t
  <2> QED
    BY <2>1, <2>2, ReplayFollows
<1> DEFINE legal == GetLegalActions(g)
           others == {i \in DOMAIN legal : legal[i] # attempt.a}
           b == legal[Min(others)]
<1>6. /\ RunBoundary(g) = attempt.target /\ legal # <<>> /\ attempt.a = legal[1]
      /\ attempt.before = g.path /\ Len(run.path) = Len(g.path) + 1
  BY <1>4 DEF HadChoice
<1>7. DOMAIN legal = {1, 2} /\ legal[1] # legal[2]
  BY <1>6, LegalNames
<1>8. others # {} /\ others \subseteq Nat
  <2> HIDE DEF legal
  <2> QED
    BY <1>6, <1>7
<1>9. run' = StepGame(g, b) /\ attempt' = [attempt EXCEPT !.pc = "replay", !.siblingBefore = g.path, !.sibling = run'.path]
  BY <1>5, <1>6, <1>8 DEF Sibling
<1>10. b \in Names \ {attempt.a}
  <2>1. Min(others) \in others
    BY <1>8, MinFacts
  <2> QED
    BY <2>1, LegalNames
<1>11. g.room # "map"
  BY <1>6, LegalCases
<1> HIDE DEF b
<1>12. /\ run' \in RunRec /\ run'.path = Append(g.path, Did(b)) /\ Did(b) \in PathStep
       /\ g.path \in Seq(PathStep)
  BY <1>9, <1>10, <1>11, StepFacts, RunFields
<1>13. run'.path \in Seq(PathStep) /\ Len(run'.path) = Len(run.path)
  BY <1>6, <1>12, Grown
<1>14. /\ attempt' \in AttemptRec /\ attempt'.pc = "replay"
       /\ attempt'.snap = attempt.snap /\ attempt'.room = attempt.room /\ attempt'.ids = attempt.ids
       /\ attempt'.target = attempt.target /\ attempt'.a = attempt.a /\ attempt'.before = attempt.before
       /\ attempt'.holder = attempt.holder /\ attempt'.siblingBefore = g.path /\ attempt'.sibling = run'.path
  BY <1>1, <1>9, <1>12, <1>13 DEF AttemptRec
<1>15. PrefixInv'
  <2>1. LeadsTo(g)' /\ HadChoice(g)' /\ AtItsFork'
    BY <1>3, <1>4, <1>13, <1>14, PrefixKept DEF PrefixInv
  <2> QED
    BY <2>1 DEF PrefixInv
<1>16. AttemptInv'
  <2>1. attempt'.siblingBefore = attempt'.before /\ b \in Names \ {attempt'.a}
        /\ attempt'.sibling = Append(attempt'.before, Did(b))
    BY <1>6, <1>10, <1>12, <1>14
  <2>2. \E c \in Names \ {attempt'.a} : attempt'.sibling = Append(attempt'.before, Did(c))
    BY <2>1
  <2> QED
    BY <1>14, <1>15, <2>1, <2>2 DEF AttemptInv, Did
<1>17. OnlyTheRoom
  BY <1>1, <1>13 DEF OnlyTheRoom
<1> QED
  BY <1>12, <1>14, <1>16, <1>17, AttemptKeeps

LEMMA DifferentEnds ==
    ASSUME NEW s \in Seq(PathStep), NEW e \in PathStep, NEW d \in PathStep, e # d
    PROVE  Append(s, e) # Append(s, d)
<1>1. Append(s, e)[Len(s) + 1] = e /\ Append(s, d)[Len(s) + 1] = d
  OBVIOUS
<1> QED
  BY <1>1

LEMMA ReplayHolderKeeps ==
    ASSUME RoomInv, mode = "attempt", UNCHANGED <<mode, seed, drive, captured>>, ReplayHolder
    PROVE  RoomInv' /\ OnlyTheRoom
<1>1. attempt \in AttemptRec /\ run \in RunRec /\ seed \in Maps /\ Len(run.path) \in Nat
  BY AttemptFields
<1>2. attempt.pc = "replay"
  BY DEF ReplayHolder
<1>3. PrefixInv /\ \E b \in Names \ {attempt.a} : attempt.sibling = Append(attempt.before, Did(b))
  BY <1>2, AttemptFields DEF AttemptInv
<1>4. PICK g \in RunRec : LeadsTo(g) /\ HadChoice(g)
  BY <1>3 DEF PrefixInv
<1>5. ReplayTo(attempt.snap, attempt.room, attempt.ids) = g
  <2> DEFINE t == [game |-> g, ids |-> attempt.ids]
  <2>1. Trail(ChooseRoom(attempt.snap, attempt.room), t)
    BY <1>4 DEF LeadsTo
  <2>2. t.game = g /\ t.ids = attempt.ids
    OBVIOUS
  <2> HIDE DEF t
  <2> QED
    BY <2>1, <2>2, ReplayFollows
<1>6. /\ RunBoundary(g) = attempt.target /\ attempt.a = GetLegalActions(g)[1]
      /\ attempt.before = g.path /\ Len(run.path) = Len(g.path) + 1
      /\ attempt.holder = Append(g.path, Did(attempt.a))
      /\ attempt.a \in Names /\ g.room # "map"
  <2>1. GetLegalActions(g) # <<>>
    BY <1>4 DEF HadChoice
  <2> QED
    BY <1>4, <2>1, LegalNames, LegalCases DEF HadChoice
<1>7. run' = StepGame(g, attempt.a) /\ attempt' = [attempt EXCEPT !.pc = "done", !.replay = run'.path]
  BY <1>5, <1>6 DEF ReplayHolder
<1>8. /\ run' \in RunRec /\ run'.path = Append(g.path, Did(attempt.a)) /\ Did(attempt.a) \in PathStep
      /\ g.path \in Seq(PathStep)
  BY <1>6, <1>7, StepFacts, RunFields
<1>9. run'.path \in Seq(PathStep) /\ Len(run'.path) = Len(run.path)
  BY <1>6, <1>8, Grown
<1>10. /\ attempt' \in AttemptRec /\ attempt'.pc = "done" /\ attempt'.replay = run'.path
       /\ attempt'.holder = attempt.holder /\ attempt'.sibling = attempt.sibling
  BY <1>1, <1>7, <1>9 DEF AttemptRec
<1>11. attempt.sibling # attempt.holder
  <2>1. PICK b \in Names \ {attempt.a} : attempt.sibling = Append(attempt.before, Did(b))
    BY <1>3
  <2>2. Did(b) \in PathStep /\ Did(b) # Did(attempt.a)
    BY DEF Did, PathStep
  <2> QED
    BY <1>6, <1>8, <2>1, <2>2, DifferentEnds
<1>12. AttemptInv'
  BY <1>6, <1>8, <1>10, <1>11 DEF AttemptInv
<1>13. OnlyTheRoom
  BY <1>1, <1>9 DEF OnlyTheRoom
<1> QED
  BY <1>8, <1>10, <1>12, <1>13, AttemptKeeps

LEMMA MapBranchKeeps ==
    ASSUME RoomInv, mode = "attempt", UNCHANGED <<mode, seed, drive, captured>>, MapBranch
    PROVE  RoomInv' /\ OnlyTheRoom
<1>1. attempt \in AttemptRec /\ run \in RunRec /\ seed \in Maps /\ Len(run.path) \in Nat
  BY AttemptFields
<1>2. attempt.pc = "map"
  BY DEF MapBranch
<1>3. AtItsFork /\ run = attempt.snap
  BY <1>2, AttemptFields DEF AttemptInv
<1>4. attempt.snap \in RunRec /\ RunBoundary(attempt.snap) = "map_select"
  BY <1>3 DEF AtItsFork
<1>5. CASE Len(GetMapRooms(attempt.snap)) < 2
  <2>1. Fails("holder_failed")
    BY <1>5 DEF MapBranch
  <2> QED
    BY <2>1, FailsKeeps
<1>6. CASE ~(Len(GetMapRooms(attempt.snap)) < 2)
  <2> DEFINE one == ChooseRoom(attempt.snap, 1)
             two == ChooseRoom(attempt.snap, 2)
             path == attempt.snap.path
  <2>1. run' = one /\ attempt' = [attempt EXCEPT !.pc = "done", !.before = path, !.siblingBefore = path,
                                    !.holder = one.path, !.sibling = two.path, !.replay = one.path]
    BY <1>6 DEF MapBranch
  <2>2. 1 \in DOMAIN GetMapRooms(attempt.snap) /\ 2 \in DOMAIN GetMapRooms(attempt.snap)
    BY <1>1, <1>4, <1>6, RoomFacts
  <2>3. /\ one \in RunRec /\ two \in RunRec /\ one.path = Append(path, Went(1)) /\ two.path = Append(path, Went(2))
        /\ Went(1) \in PathStep /\ Went(2) \in PathStep /\ Len(one.path) = Len(path) + 1
    BY <1>1, <1>4, <2>2, EntersARoom
  <2>4. path \in Seq(PathStep) /\ one.path \in Seq(PathStep) /\ two.path \in Seq(PathStep) /\ Len(path) \in Nat
    BY <1>4, <2>3, RunFields
  <2>5. one.path # two.path
    <3>1. Went(1) # Went(2)
      BY DEF Went
    <3> QED
      BY <2>3, <2>4, <3>1, DifferentEnds
  <2> HIDE DEF one, two
  <2>6. /\ attempt' \in AttemptRec /\ attempt'.pc = "done" /\ attempt'.replay = one.path
        /\ attempt'.holder = one.path /\ attempt'.sibling = two.path
    BY <1>1, <2>1, <2>4 DEF AttemptRec
  <2>7. AttemptInv'
    BY <2>5, <2>6 DEF AttemptInv
  <2>8. OnlyTheRoom
    BY <1>3, <2>1, <2>3, <2>4 DEF OnlyTheRoom
  <2> QED
    BY <2>1, <2>3, <2>6, <2>7, <2>8, AttemptKeeps
<1> QED
  BY <1>5, <1>6

LEMMA AttemptStepKeeps ==
    ASSUME RoomInv, mode = "attempt", AttemptStep, UNCHANGED <<mode, seed>>
    PROVE  RoomInv' /\ OnlyTheRoom
<1>1. UNCHANGED <<mode, seed, drive, captured>>
  BY DEF AttemptStep
<1>2. CASE AttemptRaises
  <2>1. Fails("raised")
    BY <1>2 DEF AttemptRaises
  <2> QED
    BY <1>1, <2>1, FailsKeeps
<1> QED
  BY <1>1, <1>2, SearchStartKeeps, SearchProbeKeeps, SearchAdvanceKeeps, HolderKeeps, SiblingKeeps,
     ReplayHolderKeeps, MapBranchKeeps DEF AttemptStep

-----------------------------------------------------------------------------
(***************************************************************************)
(* The drivers of a run.                                                   *)
(***************************************************************************)

LEMMA RoomStepKeeps ==
    ASSUME RoomInv, [RoomNext]_roomVars
    PROVE  RoomInv' /\ [OnlyTheRoom]_roomVars
<1>1. CASE RoomNext
  <2>1. RoomInv' /\ OnlyTheRoom
    BY <1>1, DriverKeeps, AttemptStepKeeps, ExternalKeeps DEF RoomNext
  <2> QED
    BY <2>1
<1>2. CASE UNCHANGED roomVars
  <2>1. UNCHANGED <<mode, seed, run, drive, attempt, captured>>
    BY <1>2 DEF roomVars
  <2>2. RoomTypes'
    BY <2>1 DEF RoomInv, RoomTypes
  <2>3. DriveInv => DriveInv'
    BY <2>1, SameBoundary DEF DriveInv, ForkInv, OneRoomOn
  <2>4. AttemptInv => AttemptInv'
    <3> SUFFICES ASSUME AttemptInv PROVE AttemptInv'
      OBVIOUS
    <3>1. AtItsFork => AtItsFork'
      BY <2>1, SameFork DEF AtItsFork
    <3>2. PrefixInv => PrefixInv'
      <4> SUFFICES ASSUME PrefixInv PROVE PrefixInv'
        OBVIOUS
      <4>1. PICK g \in RunRec : LeadsTo(g) /\ HadChoice(g)
        BY DEF PrefixInv
      <4>2. LeadsTo(g)' /\ HadChoice(g)' /\ AtItsFork'
        BY <2>1, <4>1, PrefixKept DEF PrefixInv
      <4> QED
        BY <4>2 DEF PrefixInv
    <3>3. attempt.room \in DOMAIN GetMapRooms(attempt.snap) => (attempt.room \in DOMAIN GetMapRooms(attempt.snap))'
      BY <2>1, SameFork
    <3>4. OneRoomOn(run, attempt.snap) => OneRoomOn(run, attempt.snap)'
      BY <2>1 DEF OneRoomOn
    <3> QED
      BY <2>1, <3>1, <3>2, <3>3, <3>4 DEF AttemptInv, Did
  <2>5. CaptureInv => CaptureInv'
    BY <2>1 DEF CaptureInv
  <2> QED
    BY <1>2, <2>1, <2>2, <2>3, <2>4, <2>5 DEF RoomInv
<1> QED
  BY <1>1, <1>2

(* The drivers of a run keep their types, and what DriveInv, AttemptInv and *)
(* CaptureInv say of the fork, the recorded prefix and the captured         *)
(* decisions, for every map and any number of steps and callers             *)
(* (room_progression_driver.py, choice_branch_runner.py, execution_mode.py).*)
THEOREM RoomInvariance == RoomSpec => []RoomInv
<1>1. RoomInv /\ [RoomNext]_roomVars => RoomInv'
  BY RoomStepKeeps
<1> QED
  BY <1>1, RoomInitInv, PTL DEF RoomSpec

(* drive_rooms never enters the same room of the same fork twice.          *)
THEOREM RoomsEnteredOnce == RoomSpec => []NoRoomEnteredTwice
<1>1. RoomInv => NoRoomEnteredTwice
  BY DEF RoomInv, DriveInv, NoRoomEnteredTwice, IdleDrive, FreshDrive
<1> QED
  BY <1>1, RoomInvariance, PTL

(* A recorded prefix brings the sibling and the replay to the holder's      *)
(* choice (choice_branch_runner.py attempt_branch).                         *)
THEOREM PrefixesReproduce == RoomSpec => []SiblingReproducesTheHolder
<1>1. RoomInv => SiblingReproducesTheHolder
  <2> SUFFICES ASSUME RoomInv PROVE SiblingReproducesTheHolder
    OBVIOUS
  <2>1. CASE mode = "attempt"
    BY <2>1 DEF RoomInv, AttemptInv, SiblingReproducesTheHolder
  <2>2. CASE mode # "attempt"
    <3>1. attempt.pc = "idle"
      BY <2>2 DEF RoomInv, NoAttempt
    <3> QED
      BY <3>1 DEF SiblingReproducesTheHolder
  <2> QED
    BY <2>1, <2>2
<1> QED
  BY <1>1, RoomInvariance, PTL

(* A decision is applied only to the run it was captured on                 *)
(* (execution_mode.py apply_external_action, apply_external_room_choice).   *)
THEOREM StaleRefused == RoomSpec => []StaleDecisionsAreRefused
<1>1. RoomInv => StaleDecisionsAreRefused
  <2> SUFFICES ASSUME RoomInv, NEW k \in Callers, captured[k].took = "applied"
               PROVE  captured[k].onto = captured[k].path
    BY DEF StaleDecisionsAreRefused
  <2>1. mode = "external"
    BY DEF RoomInv, NothingHeld
  <2> QED
    BY <2>1 DEF RoomInv, CaptureInv
<1> QED
  BY <1>1, RoomInvariance, PTL

(* Whatever a drive, an attempt or a caller does, the run goes back at most *)
(* by the room it was last in (room_progression_driver.py drive_rooms).     *)
THEOREM ReloadsOnlyTheRoom == RoomSpec => ReloadUndoesOnlyTheRoom
<1>1. RoomInv /\ [RoomNext]_roomVars => [OnlyTheRoom]_roomVars
  BY RoomStepKeeps
<1>2. RoomSpec => [][OnlyTheRoom]_roomVars
  BY <1>1, RoomInvariance, PTL DEF RoomSpec
<1> QED
  BY <1>2 DEF ReloadUndoesOnlyTheRoom, OnlyTheRoom

(* In the composition of the two decision loops the drivers of a run behave *)
(* as specified, so what is proved of them holds there.                     *)
THEOREM LoopsKeepTheDrivers == LoopsSpec => RoomSpec
<1>1. LoopsInit => RoomInit
  BY DEF LoopsInit
<1>2. [LoopsNext]_loopsVars => [RoomNext]_roomVars
  BY DEF LoopsNext, loopsVars
<1> QED
  BY <1>1, <1>2, PTL DEF LoopsSpec, RoomSpec

-----------------------------------------------------------------------------
(***************************************************************************)
(* The combat emulator: a step keeps a combat a combat.                    *)
(***************************************************************************)

Fields(g) ==
    /\ g.hand \in Seq(Cards) /\ g.draw \in Seq(Cards) /\ g.discard \in Seq(Cards)
    /\ g.left \in Int /\ g.step \in Nat /\ g.choices \in Seq(ChoiceKinds)

LEMMA CombatFields == \A g \in CombatStates : Fields(g) /\ g # None
<1> SUFFICES ASSUME NEW g \in CombatStates PROVE Fields(g) /\ g # None
  OBVIOUS
<1>1. Fields(g)
  BY DEF CombatStates, Fields
<1>2. DOMAIN g = {"hand", "draw", "discard", "left", "step", "choices"}
  BY DEF CombatStates
<1>3. "none" \in DOMAIN None
  BY DEF None
<1> QED
  BY <1>1, <1>2, <1>3

LEMMA RemovedFacts ==
    ASSUME NEW s \in Seq(Cards), NEW card
    PROVE  Removed(s, card) \in Seq(Cards)
<1> DEFINE I == {i \in 1..Len(s) : s[i] = card}
           p == IF I # {} THEN Min(I) ELSE 0
<1>1. Removed(s, card) = SubSeq(s, 1, p - 1) \o SubSeq(s, p + 1, Len(s))
  BY DEF Removed, RemoveAt, SelectInSeq
<1>2. p \in 0..Len(s)
  <2>1. CASE I # {}
    <3>1. I \subseteq Nat
      OBVIOUS
    <3>2. Min(I) \in I
      BY <2>1, <3>1, MinFacts
    <3> QED
      BY <2>1, <3>2
  <2> QED
    BY <2>1
<1> HIDE DEF p
<1>3. SubSeq(s, 1, p - 1) \in Seq(Cards)
  BY <1>2
<1>4. SubSeq(s, p + 1, Len(s)) \in Seq(Cards)
  BY <1>2
<1> QED
  BY <1>1, <1>3, <1>4

LEMMA ReverseFacts ==
    ASSUME NEW s \in Seq(Cards)
    PROVE  Reverse(s) \in Seq(Cards)
<1>1. \A i \in 1..Len(s) : s[(Len(s) - i) + 1] \in Cards
  OBVIOUS
<1> QED
  BY <1>1 DEF Reverse

LEMMA DrawOneFacts ==
    ASSUME NEW g \in CombatStates
    PROVE  DrawOne(g) \in CombatStates /\ DrawOne(g).choices = g.choices
<1> DEFINE full == IF g.draw = <<>> /\ Reshuffles
                   THEN [g EXCEPT !.draw = Reverse(g.discard), !.discard = <<>>] ELSE g
<1>1. full \in CombatStates /\ full.choices = g.choices
  <2>1. Reverse(g.discard) \in Seq(Cards) /\ <<>> \in Seq(Cards)
    BY CombatFields, ReverseFacts DEF Fields
  <2> QED
    BY <2>1 DEF CombatStates
<1>2. DrawOne(g) = IF full.draw = <<>> THEN full
                   ELSE [full EXCEPT !.hand = Append(@, Head(full.draw)), !.draw = Tail(@)]
  BY DEF DrawOne
<1> HIDE DEF full
<1>3. CASE full.draw = <<>>
  BY <1>1, <1>2, <1>3
<1>4. CASE full.draw # <<>>
  <2>1. full.draw \in Seq(Cards) /\ full.hand \in Seq(Cards)
    BY <1>1 DEF CombatStates
  <2>2. Head(full.draw) \in Cards /\ Tail(full.draw) \in Seq(Cards)
    BY <1>4, <2>1
  <2>3. Append(full.hand, Head(full.draw)) \in Seq(Cards)
    BY <2>1, <2>2
  <2> QED
    BY <1>1, <1>2, <1>4, <2>2, <2>3 DEF CombatStates
<1> QED
  BY <1>3, <1>4

DrawsAre(f, g, N) == f = [i \in 0..N |-> IF i = 0 THEN g ELSE DrawOne(f[i - 1])]

LEMMA DrawsExist ==
    ASSUME NEW g, NEW N \in Nat
    PROVE  \E f : DrawsAre(f, g, N)
<1> DEFINE Then(f, i) == IF i = 0 THEN g ELSE DrawOne(f[i - 1])
           Good == {n \in Nat : \E f : f = [i \in 0..n |-> Then(f, i)]}
<1>1. 0 \in Good
  <2> DEFINE f == [i \in 0..0 |-> g]
  <2>1. f = [i \in 0..0 |-> Then(f, i)]
    OBVIOUS
  <2> QED
    BY <2>1
<1>2. ASSUME NEW n \in Nat, n \in Good PROVE n + 1 \in Good
  <2>1. PICK f : f = [i \in 0..n |-> Then(f, i)]
    BY <1>2
  <2> DEFINE last == DrawOne(f[n])
             h == [i \in 0..(n + 1) |-> IF i = n + 1 THEN last ELSE f[i]]
  <2>2. ASSUME NEW i \in 0..(n + 1) PROVE h[i] = Then(h, i)
    <3>1. CASE i = n + 1
      <4>1. h[i] = last /\ h[i - 1] = f[n] /\ i # 0
        <5> HIDE DEF last
        <5> QED
          BY <3>1
      <4> QED
        BY <4>1
    <3>2. CASE i \in 0..n
      <4>1. h[i] = f[i] /\ (i # 0 => h[i - 1] = f[i - 1])
        <5> HIDE DEF last
        <5> QED
          BY <3>2
      <4>2. f[i] = Then(f, i)
        BY <2>1, <3>2
      <4> QED
        BY <4>1, <4>2
    <3> QED
      BY <3>1, <3>2
  <2>3. h = [i \in 0..(n + 1) |-> Then(h, i)]
    <3> HIDE DEF Then, last
    <3>1. \A i \in 0..(n + 1) : h[i] = [j \in 0..(n + 1) |-> Then(h, j)][i]
      BY <2>2
    <3> QED
      BY <3>1
  <2> HIDE DEF h
  <2> QED
    BY <2>3
<1> HIDE DEF Good
<1>3. N \in Good
  BY <1>1, <1>2, SetInduction
<1> QED
  BY <1>3 DEF Good, DrawsAre

LEMMA DrawsFacts ==
    ASSUME NEW g \in CombatStates, NEW N \in Nat
    PROVE  Draws(g, N) \in CombatStates /\ Draws(g, N).choices = g.choices
<1> DEFINE after == CHOOSE f : f = [n \in 0..N |-> IF n = 0 THEN g ELSE DrawOne(f[n - 1])]
<1>2. after = [n \in 0..N |-> IF n = 0 THEN g ELSE DrawOne(after[n - 1])]
  <2>1. \E f : DrawsAre(f, g, N)
    BY DrawsExist
  <2> QED
    BY <2>1 DEF DrawsAre
<1>3. Draws(g, N) = after[N]
  BY DEF Draws
<1> HIDE DEF after
<1>4. \A i \in 0..N : after[i] = IF i = 0 THEN g ELSE DrawOne(after[i - 1])
  BY <1>2
<1> DEFINE Kept == {n \in Nat : n <= N => after[n] \in CombatStates /\ after[n].choices = g.choices}
<1>5. 0 \in Kept
  <2>1. 0 \in 0..N
    OBVIOUS
  <2>2. after[0] = g
    BY <1>4, <2>1
  <2> QED
    BY <2>2
<1>6. ASSUME NEW n \in Nat, n \in Kept PROVE n + 1 \in Kept
  <2> SUFFICES ASSUME n + 1 <= N
               PROVE  after[n + 1] \in CombatStates /\ after[n + 1].choices = g.choices
    OBVIOUS
  <2>1. after[n] \in CombatStates /\ after[n].choices = g.choices
    BY <1>6
  <2> DEFINE i == n + 1
  <2>2. i \in 0..N /\ i # 0 /\ i - 1 = n
    OBVIOUS
  <2> HIDE DEF i
  <2>3. after[i] = DrawOne(after[n])
    BY <1>4, <2>2
  <2> QED
    BY <2>1, <2>3, DrawOneFacts DEF i
<1> HIDE DEF Kept
<1>7. N \in Kept
  BY <1>5, <1>6, SetInduction
<1> QED
  BY <1>3, <1>7 DEF Kept

LEMMA DiscardedFacts ==
    ASSUME NEW g \in CombatStates, NEW card \in Cards
    PROVE  Discarded(g, card) \in CombatStates /\ Discarded(g, card).choices = g.choices
<1>1. Removed(g.hand, card) \in Seq(Cards) /\ Append(g.discard, card) \in Seq(Cards) /\ g.step + 1 \in Nat
  BY CombatFields, RemovedFacts DEF Fields
<1> QED
  BY <1>1 DEF Discarded, CombatStates

LEMMA LegalFacts ==
    ASSUME NEW g \in CombatStates
    PROVE  /\ \E S : Legal(g) \in Seq(S)
           /\ \A a \in ToSet(Legal(g)) :
                /\ g.left # 0
                /\ IF g.choices # NoChoice
                   THEN a \in {Confirm, Skip} \/ (\E i \in DOMAIN g.hand : a = Choose(g.hand[i]))
                   ELSE a = System \/ (\E i \in DOMAIN g.hand : a = Play(g.hand[i]))
<1>1. g.hand \in Seq(Cards)
  BY CombatFields DEF Fields
<1> DEFINE picks == [i \in DOMAIN g.hand |-> Choose(g.hand[i])]
           plays == [i \in DOMAIN g.hand |-> Play(g.hand[i])]
           Acts == {Choose(c) : c \in Cards} \cup {Play(c) : c \in Cards} \cup {Confirm, Skip, System}
<1>2. picks \in Seq(Acts) /\ plays \in Seq(Acts)
  BY <1>1
<1>3. CASE Boundary(g) = "terminal"
  <2>1. Legal(g) = <<>>
    BY <1>3 DEF Legal
  <2>2. ToSet(Legal(g)) = {}
    BY <2>1 DEF ToSet
  <2> QED
    BY <2>1, <2>2
<1>4. CASE Boundary(g) = "pending"
  <2>1. Legal(g) = picks \o <<Confirm, Skip>>
    BY <1>4 DEF Legal
  <2>2. g.left # 0 /\ g.choices # NoChoice
    BY <1>4 DEF Boundary
  <2> HIDE DEF Acts
  <2>3. <<Confirm, Skip>> \in Seq(Acts)
    BY DEF Acts
  <2>4. Legal(g) \in Seq(Acts)
    BY <1>2, <2>1, <2>3
  <2>5. ASSUME NEW a \in ToSet(Legal(g))
        PROVE a \in {Confirm, Skip} \/ (\E i \in DOMAIN g.hand : a = Choose(g.hand[i]))
    <3> HIDE DEF picks
    <3>1. PICK k \in DOMAIN Legal(g) : a = Legal(g)[k]
      BY DEF ToSet
    <3>2. a \in {Confirm, Skip} \/ (k \in DOMAIN picks /\ a = picks[k])
      BY <1>2, <2>1, <2>3, <3>1
    <3> QED
      BY <3>2 DEF picks
  <2> QED
    BY <2>2, <2>4, <2>5
<1>5. CASE Boundary(g) = "stable"
  <2>1. Legal(g) = plays \o <<System>>
    BY <1>5 DEF Legal
  <2>2. g.left # 0 /\ ~(g.choices # NoChoice)
    BY <1>5 DEF Boundary
  <2> HIDE DEF Acts
  <2>3. <<System>> \in Seq(Acts)
    BY DEF Acts
  <2>4. Legal(g) \in Seq(Acts)
    BY <1>2, <2>1, <2>3
  <2>5. ASSUME NEW a \in ToSet(Legal(g))
        PROVE a = System \/ (\E i \in DOMAIN g.hand : a = Play(g.hand[i]))
    <3> HIDE DEF plays
    <3>1. PICK k \in DOMAIN Legal(g) : a = Legal(g)[k]
      BY DEF ToSet
    <3>2. a = System \/ (k \in DOMAIN plays /\ a = plays[k])
      BY <1>2, <2>1, <2>3, <3>1
    <3> QED
      BY <3>2 DEF plays
  <2> QED
    BY <2>2, <2>4, <2>5
<1> QED
  BY <1>3, <1>4, <1>5 DEF Boundary

LEMMA GameStepFacts ==
    ASSUME NEW g \in CombatStates, NEW a, Resolves(g, a)
    PROVE  GameStep(g, a) \in CombatStates
<1>0. Fields(g)
  BY CombatFields
<1>1. CASE \E i \in DOMAIN g.hand : a = Play(g.hand[i])
  <2>1. PICK i \in DOMAIN g.hand : a = Play(g.hand[i])
    BY <1>1
  <2> DEFINE card == g.hand[i]
             drawn == Draws(Discarded(g, card), Effect[card].draws)
  <2>2. card \in Cards
    BY <1>0, <2>1 DEF Fields
  <2>3. Effect[card].draws \in Nat /\ Effect[card].choices \in Seq(ChoiceKinds)
    BY <2>2, EffectAssumption
  <2>4. drawn \in CombatStates
    BY <2>2, <2>3, DiscardedFacts, DrawsFacts
  <2>5. GameStep(g, a) = Played(g, card)
    BY <2>1 DEF GameStep, Play
  <2>6. Played(g, card) = IF Effect[card].choices = NoChoice THEN [drawn EXCEPT !.left = @ - 1]
                          ELSE [drawn EXCEPT !.choices = Effect[card].choices]
    BY DEF Played
  <2> HIDE DEF drawn, card
  <2>7. drawn.left - 1 \in Int
    BY <2>4 DEF CombatStates
  <2> QED
    BY <2>3, <2>4, <2>5, <2>6, <2>7 DEF CombatStates
<1>2. CASE g.choices # NoChoice /\ \E i \in DOMAIN g.hand : a = Choose(g.hand[i])
  <2>1. PICK i \in DOMAIN g.hand : a = Choose(g.hand[i])
    BY <1>2
  <2> DEFINE card == g.hand[i]
             drawn == Draws(Discarded(g, card), 1)
             put == [g EXCEPT !.hand = Removed(@, card), !.draw = <<card>> \o @, !.step = @ + 1]
             moved == IF Head(g.choices) = "cycle" THEN drawn ELSE put
  <2>2. card \in Cards
    BY <1>0, <2>1 DEF Fields
  <2>3. drawn \in CombatStates
    BY <2>2, DiscardedFacts, DrawsFacts
  <2>4. put \in CombatStates
    <3>1. Removed(g.hand, card) \in Seq(Cards)
      BY <1>0, RemovedFacts DEF Fields
    <3>2. <<card>> \o g.draw \in Seq(Cards)
      BY <1>0, <2>2 DEF Fields
    <3>3. g.step + 1 \in Nat
      BY <1>0 DEF Fields
    <3> QED
      BY <3>1, <3>2, <3>3 DEF CombatStates
  <2>5. GameStep(g, a) = [moved EXCEPT !.choices = Tail(@)]
    BY <2>1 DEF GameStep, Choose, Chosen, ChoiceSpent
  <2>6. moved.choices = g.choices
    <3>1. put.choices = g.choices
      BY DEF CombatStates
    <3>2. drawn.choices = g.choices
      BY <2>2, DiscardedFacts, DrawsFacts
    <3> QED
      BY <3>1, <3>2
  <2>7. moved \in CombatStates
    BY <2>3, <2>4
  <2> HIDE DEF moved
  <2>8. Tail(moved.choices) \in Seq(ChoiceKinds)
    BY <1>0, <1>2, <2>6 DEF Fields, NoChoice
  <2> QED
    BY <2>5, <2>7, <2>8 DEF CombatStates
<1>3. CASE a = System
  <2> DEFINE turned == [g EXCEPT !.discard = @ \o g.hand, !.hand = <<>>, !.left = @ - 1, !.step = @ + 1]
  <2>1. g.discard \o g.hand \in Seq(Cards) /\ <<>> \in Seq(Cards) /\ g.left - 1 \in Int /\ g.step + 1 \in Nat
    BY <1>0 DEF Fields
  <2>2. turned \in CombatStates
    BY <2>1 DEF CombatStates
  <2>3. GameStep(g, a) = Draws(turned, 1)
    BY <1>3 DEF GameStep, System, TurnEnds
  <2> HIDE DEF turned
  <2> QED
    BY <2>2, <2>3, DrawsFacts
<1>4. CASE g.choices # NoChoice /\ a = Confirm
  <2> DEFINE later == [g EXCEPT !.step = @ + 1]
  <2>1. later \in CombatStates /\ later.choices = g.choices
    <3>1. g.step + 1 \in Nat
      BY <1>0 DEF Fields
    <3> QED
      BY <3>1 DEF CombatStates
  <2>2. GameStep(g, a) = [later EXCEPT !.choices = Tail(@)]
    BY <1>4 DEF GameStep, Confirm, ChoiceSpent
  <2> HIDE DEF later
  <2>3. Tail(later.choices) \in Seq(ChoiceKinds)
    BY <1>0, <1>4, <2>1 DEF Fields, NoChoice
  <2> QED
    BY <2>1, <2>2, <2>3 DEF CombatStates
<1>5. CASE a = Skip
  <2>1. GameStep(g, a) = [g EXCEPT !.choices = NoChoice, !.step = @ + 1]
    BY <1>5 DEF GameStep, Skip
  <2>2. g.step + 1 \in Nat /\ NoChoice \in Seq(ChoiceKinds)
    BY <1>0 DEF Fields, NoChoice
  <2> QED
    BY <2>1, <2>2 DEF CombatStates
<1> QED
  BY <1>1, <1>2, <1>3, <1>4, <1>5, LegalFacts DEF Resolves

(***************************************************************************)
(* Replay, one entry at a time.                                            *)
(***************************************************************************)

ReplayIs(f, root, entries, N) ==
    f = [n \in 0..N |-> IF n = 0 THEN [state |-> root, mismatch |-> FALSE] ELSE ReplayOne(f[n - 1], entries[n])]

LEMMA ReplayExists ==
    ASSUME NEW root, NEW entries, NEW N \in Nat
    PROVE  \E f : ReplayIs(f, root, entries, N)
<1> DEFINE Then(f, i) == IF i = 0 THEN [state |-> root, mismatch |-> FALSE] ELSE ReplayOne(f[i - 1], entries[i])
           Good == {n \in Nat : \E f : f = [i \in 0..n |-> Then(f, i)]}
<1>1. 0 \in Good
  <2> DEFINE f == [i \in 0..0 |-> [state |-> root, mismatch |-> FALSE]]
  <2>1. f = [i \in 0..0 |-> Then(f, i)]
    OBVIOUS
  <2> QED
    BY <2>1
<1>2. ASSUME NEW n \in Nat, n \in Good PROVE n + 1 \in Good
  <2>1. PICK f : f = [i \in 0..n |-> Then(f, i)]
    BY <1>2
  <2> DEFINE last == ReplayOne(f[n], entries[n + 1])
             h == [i \in 0..(n + 1) |-> IF i = n + 1 THEN last ELSE f[i]]
  <2>2. ASSUME NEW i \in 0..(n + 1) PROVE h[i] = Then(h, i)
    <3>1. CASE i = n + 1
      <4>1. h[i] = last /\ h[i - 1] = f[n] /\ i # 0
        <5> HIDE DEF last
        <5> QED
          BY <3>1
      <4> QED
        BY <3>1, <4>1
    <3>2. CASE i \in 0..n
      <4>1. h[i] = f[i] /\ (i # 0 => h[i - 1] = f[i - 1])
        <5> HIDE DEF last
        <5> QED
          BY <3>2
      <4>2. f[i] = Then(f, i)
        BY <2>1, <3>2
      <4> QED
        BY <4>1, <4>2
    <3> QED
      BY <3>1, <3>2
  <2>3. h = [i \in 0..(n + 1) |-> Then(h, i)]
    <3> HIDE DEF Then, last
    <3>1. \A i \in 0..(n + 1) : h[i] = [j \in 0..(n + 1) |-> Then(h, j)][i]
      BY <2>2
    <3> QED
      BY <3>1
  <2> HIDE DEF h
  <2> QED
    BY <2>3
<1> HIDE DEF Good
<1>3. N \in Good
  BY <1>1, <1>2, SetInduction
<1> QED
  BY <1>3 DEF Good, ReplayIs

LEMMA ReplayPointwise ==
    ASSUME NEW root, NEW entries, NEW N \in Nat, NEW f, ReplayIs(f, root, entries, N)
    PROVE  /\ f[0] = [state |-> root, mismatch |-> FALSE]
           /\ \A n \in Nat : n + 1 <= N => f[n + 1] = ReplayOne(f[n], entries[n + 1])
<1>1. \A i \in 0..N : f[i] = IF i = 0 THEN [state |-> root, mismatch |-> FALSE] ELSE ReplayOne(f[i - 1], entries[i])
  BY DEF ReplayIs
<1>2. f[0] = [state |-> root, mismatch |-> FALSE]
  <2>1. 0 \in 0..N
    OBVIOUS
  <2> QED
    BY <1>1, <2>1
<1>3. ASSUME NEW n \in Nat, n + 1 <= N PROVE f[n + 1] = ReplayOne(f[n], entries[n + 1])
  <2> DEFINE i == n + 1
  <2>1. i \in 0..N /\ i # 0 /\ i - 1 = n
    BY <1>3
  <2> HIDE DEF i
  <2>2. f[i] = ReplayOne(f[n], entries[i])
    BY <1>1, <2>1
  <2> QED
    BY <2>2 DEF i
<1> QED
  BY <1>2, <1>3

LEMMA ReplayFunction ==
    ASSUME NEW root, NEW entries, Len(entries) \in Nat
    PROVE  \E f : ReplayIs(f, root, entries, Len(entries)) /\ Replay(root, entries) = f[Len(entries)]
<1> DEFINE N == Len(entries)
           after == CHOOSE f : f = [n \in 0..N |-> IF n = 0 THEN [state |-> root, mismatch |-> FALSE]
                                                   ELSE ReplayOne(f[n - 1], entries[n])]
<1>1. ReplayIs(after, root, entries, N)
  <2>1. \E f : ReplayIs(f, root, entries, N)
    BY ReplayExists
  <2> QED
    BY <2>1 DEF ReplayIs
<1>2. Replay(root, entries) = after[N]
  BY DEF Replay
<1> HIDE DEF after
<1> QED
  BY <1>1, <1>2

LEMMA ReplayNothing ==
    ASSUME NEW root
    PROVE  Replay(root, <<>>) = [state |-> root, mismatch |-> FALSE]
<1>1. Len(<<>>) = 0 /\ Len(<<>>) \in Nat
  OBVIOUS
<1>2. PICK f : ReplayIs(f, root, <<>>, Len(<<>>)) /\ Replay(root, <<>>) = f[Len(<<>>)]
  BY <1>1, ReplayFunction
<1>3. f[0] = [state |-> root, mismatch |-> FALSE]
  BY <1>1, <1>2, ReplayPointwise
<1> QED
  BY <1>1, <1>2, <1>3

LEMMA ReplayAppend ==
    ASSUME NEW root, NEW S, NEW entries \in Seq(S), NEW e
    PROVE  Replay(root, Append(entries, e)) = ReplayOne(Replay(root, entries), e)
<1> DEFINE N == Len(entries)
           more == Append(entries, e)
<1>1. N \in Nat /\ Len(more) = N + 1 /\ more[N + 1] = e /\ \A i \in 1..N : more[i] = entries[i]
  OBVIOUS
<1>2. PICK f : ReplayIs(f, root, entries, N) /\ Replay(root, entries) = f[N]
  BY <1>1, ReplayFunction
<1>3. PICK h : ReplayIs(h, root, more, N + 1) /\ Replay(root, more) = h[N + 1]
  <2>1. Len(more) \in Nat /\ Len(more) = N + 1
    BY <1>1
  <2> HIDE DEF more
  <2>2. \E k : ReplayIs(k, root, more, Len(more)) /\ Replay(root, more) = k[Len(more)]
    BY <2>1, ReplayFunction
  <2> QED
    BY <2>1, <2>2
<1> HIDE DEF more, N
<1>4. /\ f[0] = [state |-> root, mismatch |-> FALSE]
      /\ \A n \in Nat : n + 1 <= N => f[n + 1] = ReplayOne(f[n], entries[n + 1])
  BY <1>1, <1>2, ReplayPointwise
<1>5. /\ h[0] = [state |-> root, mismatch |-> FALSE]
      /\ \A n \in Nat : n + 1 <= N + 1 => h[n + 1] = ReplayOne(h[n], more[n + 1])
  <2>1. N + 1 \in Nat
    BY <1>1
  <2> DEFINE M == N + 1
  <2>2. M \in Nat /\ ReplayIs(h, root, more, M)
    BY <1>3, <2>1
  <2> HIDE DEF M
  <2>3. /\ h[0] = [state |-> root, mismatch |-> FALSE]
        /\ \A n \in Nat : n + 1 <= M => h[n + 1] = ReplayOne(h[n], more[n + 1])
    BY <2>2, ReplayPointwise
  <2> QED
    BY <2>3 DEF M
<1> DEFINE Same == {n \in Nat : n <= N => h[n] = f[n]}
<1>6. 0 \in Same
  BY <1>4, <1>5
<1>7. ASSUME NEW n \in Nat, n \in Same PROVE n + 1 \in Same
  <2> SUFFICES ASSUME n + 1 <= N PROVE h[n + 1] = f[n + 1]
    OBVIOUS
  <2>1. h[n] = f[n] /\ more[n + 1] = entries[n + 1] /\ n + 1 <= N + 1
    BY <1>1, <1>7
  <2> QED
    BY <1>4, <1>5, <2>1
<1> HIDE DEF Same
<1>8. N \in Same
  BY <1>1, <1>6, <1>7, SetInduction
<1>9. h[N] = f[N]
  BY <1>1, <1>8 DEF Same
<1>10. h[N + 1] = ReplayOne(h[N], e)
  BY <1>1, <1>5
<1> QED
  BY <1>2, <1>3, <1>9, <1>10 DEF more

(***************************************************************************)
(* The Main loop's invariant.  Whatever Main, a Decision Context or a plan *)
(* stands on is stated by what a replay makes of it: Here(g) is a replay   *)
(* that got to g with every signature matching.                            *)
(***************************************************************************)

Here(g) == [state |-> g, mismatch |-> FALSE]
IsSeq(s) == s \in Seq(ToSet(s))

(* The root and the prefix, and Main's game and the Plan Path, lead to the *)
(* same state.                                                             *)
GoodContext(g, ctx) ==
    LET end == ContextState(ctx) IN
    /\ IsSeq(ctx.prefix) /\ IsSeq(ctx.path)
    /\ end \in CombatStates
    /\ Replay(ctx.root, ctx.prefix) = Here(end)
    /\ Replay(g, ctx.path) = Here(end)

(* A step that resolves there and, if it carries a signature, meets it.    *)
GoodStep(g, entry) ==
    /\ Resolves(g, entry.action)
    /\ entry.expected # NoSignature => Signature(GameStep(g, entry.action), entry.action) = entry.expected

(* Every step but the last carries the signature it meets.                 *)
GoodPlan(g, path) ==
    /\ IsSeq(path)
    /\ path # <<>> =>
         LET end == Replay(g, Front(path)).state IN
         /\ Replay(g, Front(path)) = Here(end)
         /\ GoodStep(end, Last(path))

GoodExpansion(g, x) ==
    /\ GoodContext(g, x.ctx)
    /\ Resolves(ContextState(x.ctx), x.entry.action)
    /\ x.entry.expected = Signature(GameStep(ContextState(x.ctx), x.entry.action), x.entry.action)

(* Of a search that runs: every beam, expansion and completed path is good *)
(* from Main's own game, and a segment starts no path of its own.          *)
SearchFacts(g, s) ==
    /\ DOMAIN s = {"on", "strategy", "start", "active", "todo", "round", "expansions", "completed", "viable"}
    /\ s.todo \in Nat \ {0}
    /\ IsSeq(s.active) /\ \A i \in DOMAIN s.active : GoodContext(g, s.active[i].ctx)
    /\ s.strategy = "segment" => 1 \in DOMAIN s.active /\ s.active[1].ctx.path = <<>>
    /\ IsSeq(s.expansions)
    /\ \A i \in DOMAIN s.expansions : GoodExpansion(g, s.expansions[i])
    /\ \A x \in s.completed : GoodPlan(g, x.path)

MainTypes ==
    /\ game \in CombatStates
    /\ held = None \/ (held \in CombatStates /\ Boundary(held) = "stable")
    /\ IsSeq(prefix)
    /\ loop \in [pc : {"boundary", "route", "search", "exec", "ended"},
                 outcome : {"none", "terminal", "aborted", "fault", "raised"},
                 iterations : Nat, start : CombatStates \cup {None}, source : {"own", "injected"}]

ReplayInv == Root # None => Replay(Root, prefix) = Here(game)

BoundaryInv ==
    /\ At("boundary") => plan = <<>> \/ Boundary(game) = "terminal"
    /\ At("route") => plan = <<>> /\ loop.source = "own" /\ (Boundary(game) = "stable" => held = game)

SearchInv ==
    At("search") =>
      plan = <<>> /\ loop.source = "own" /\ SearchFacts(game, search)

PlanInv == At("exec") /\ loop.source = "own" => GoodPlan(game, plan)

MainInv == MainTypes /\ ReplayInv /\ BoundaryInv /\ SearchInv /\ PlanInv

(***************************************************************************)
(* Sequences: what is in them, places, and the candidates.                 *)
(***************************************************************************)

LEMMA IsSeqFacts ==
    ASSUME NEW S, NEW s \in Seq(S)
    PROVE  IsSeq(s)
<1>1. \A i \in 1..Len(s) : s[i] \in ToSet(s)
  BY DEF ToSet
<1> QED
  BY <1>1 DEF IsSeq

LEMMA EmptyIsSeq == IsSeq(<<>>)
<1>1. <<>> \in Seq({})
  OBVIOUS
<1> QED
  BY <1>1, IsSeqFacts

LEMMA AppendFacts ==
    ASSUME NEW s, IsSeq(s), NEW e
    PROVE  IsSeq(Append(s, e)) /\ Append(s, e) # <<>> /\ Front(Append(s, e)) = s /\ Last(Append(s, e)) = e
<1> DEFINE S == ToSet(s) \cup {e}
<1>1. s \in Seq(S)
  <2>1. s \in Seq(ToSet(s))
    BY DEF IsSeq
  <2> DEFINE T == ToSet(s)
  <2> HIDE DEF T
  <2> QED
    BY <2>1 DEF T
<1> HIDE DEF S
<1>2. e \in S
  BY DEF S
<1>3. Append(s, e) \in Seq(S)
  BY <1>1, <1>2
<1>4. Append(s, e) # <<>>
  <2>1. Len(Append(s, e)) = Len(s) + 1 /\ Len(s) \in Nat /\ Len(<<>>) = 0
    BY <1>1, <1>2
  <2> QED
    BY <2>1
<1>5. Front(Append(s, e)) = s
  BY <1>1, <1>2 DEF Front
<1>6. Last(Append(s, e)) = e
  BY <1>1, <1>2 DEF Last
<1> QED
  BY <1>3, <1>4, <1>5, <1>6, IsSeqFacts

Joins(s, t, u) ==
    IsSeq(u) /\ \A i \in DOMAIN u : (\E j \in DOMAIN s : u[i] = s[j]) \/ (\E j \in DOMAIN t : u[i] = t[j])

LEMMA JoinFacts ==
    ASSUME NEW s, IsSeq(s), NEW t, IsSeq(t)
    PROVE  Joins(s, t, s \o t)
<1> DEFINE S == ToSet(s) \cup ToSet(t)
<1>1. s \in Seq(S) /\ t \in Seq(S)
  <2>1. s \in Seq(ToSet(s)) /\ t \in Seq(ToSet(t))
    BY DEF IsSeq
  <2> DEFINE A == ToSet(s)
             B == ToSet(t)
  <2> HIDE DEF A, B
  <2> QED
    BY <2>1 DEF A, B
<1> HIDE DEF S
<1>2. s \o t \in Seq(S)
  BY <1>1
<1>3. ASSUME NEW i \in DOMAIN (s \o t)
      PROVE  (\E j \in DOMAIN s : (s \o t)[i] = s[j]) \/ (\E j \in DOMAIN t : (s \o t)[i] = t[j])
  <2>1. i \in 1..(Len(s) + Len(t)) /\ Len(s) \in Nat /\ Len(t) \in Nat
    BY <1>1, <1>2, <1>3
  <2>2. CASE i <= Len(s)
    BY <1>1, <2>1, <2>2
  <2>3. CASE i > Len(s)
    <3>1. i - Len(s) \in DOMAIN t /\ (s \o t)[i] = t[i - Len(s)]
      BY <1>1, <2>1, <2>3
    <3> QED
      BY <3>1
  <2> QED
    BY <2>1, <2>2, <2>3
<1> QED
  BY <1>2, <1>3, IsSeqFacts DEF Joins

PlacesAre(f, chosen, N) ==
    f = [i \in 0..N |-> IF i = 0 THEN <<>> ELSE IF i \in chosen THEN Append(f[i - 1], i) ELSE f[i - 1]]

LEMMA PlacesExist ==
    ASSUME NEW chosen, NEW N \in Nat
    PROVE  \E f : PlacesAre(f, chosen, N)
<1> DEFINE Then(f, i) == IF i = 0 THEN <<>> ELSE IF i \in chosen THEN Append(f[i - 1], i) ELSE f[i - 1]
           Good == {n \in Nat : \E f : f = [i \in 0..n |-> Then(f, i)]}
<1>1. 0 \in Good
  <2> DEFINE f == [i \in 0..0 |-> <<>>]
  <2>1. f = [i \in 0..0 |-> Then(f, i)]
    OBVIOUS
  <2> QED
    BY <2>1
<1>2. ASSUME NEW n \in Nat, n \in Good PROVE n + 1 \in Good
  <2>1. PICK f : f = [i \in 0..n |-> Then(f, i)]
    BY <1>2
  <2> DEFINE last == IF (n + 1) \in chosen THEN Append(f[n], n + 1) ELSE f[n]
             h == [i \in 0..(n + 1) |-> IF i = n + 1 THEN last ELSE f[i]]
  <2>2. ASSUME NEW i \in 0..(n + 1) PROVE h[i] = Then(h, i)
    <3>1. CASE i = n + 1
      <4>1. h[i] = last /\ h[i - 1] = f[n] /\ i # 0
        <5> HIDE DEF last
        <5> QED
          BY <3>1
      <4> HIDE DEF h
      <4> QED
        BY <3>1, <4>1
    <3>2. CASE i \in 0..n
      <4>1. h[i] = f[i] /\ (i # 0 => h[i - 1] = f[i - 1])
        <5> HIDE DEF last
        <5> QED
          BY <3>2
      <4>2. f[i] = Then(f, i)
        BY <2>1, <3>2
      <4> HIDE DEF h
      <4> QED
        BY <4>1, <4>2
    <3> QED
      BY <3>1, <3>2
  <2>3. h = [i \in 0..(n + 1) |-> Then(h, i)]
    <3> HIDE DEF Then, last
    <3>1. \A i \in 0..(n + 1) : h[i] = [j \in 0..(n + 1) |-> Then(h, j)][i]
      BY <2>2
    <3> QED
      BY <3>1
  <2> HIDE DEF h, Then
  <2> QED
    BY <2>3
<1> HIDE DEF Good
<1>3. N \in Good
  BY <1>1, <1>2, SetInduction
<1> QED
  BY <1>3 DEF Good, PlacesAre

LEMMA PlacesFacts ==
    ASSUME NEW chosen, NEW N \in Nat
    PROVE  Places(chosen, N) \in Seq(chosen \cap 1..N)
<1> DEFINE after == CHOOSE f : f = [i \in 0..N |-> IF i = 0 THEN <<>>
                                     ELSE IF i \in chosen THEN Append(f[i - 1], i) ELSE f[i - 1]]
           S == chosen \cap 1..N
<1>2. after = [i \in 0..N |-> IF i = 0 THEN <<>>
                              ELSE IF i \in chosen THEN Append(after[i - 1], i) ELSE after[i - 1]]
  <2>1. \E f : PlacesAre(f, chosen, N)
    BY PlacesExist
  <2> QED
    BY <2>1 DEF PlacesAre
<1>3. Places(chosen, N) = after[N]
  BY DEF Places
<1> HIDE DEF after
<1>4. \A i \in 0..N : after[i] = IF i = 0 THEN <<>>
                                 ELSE IF i \in chosen THEN Append(after[i - 1], i) ELSE after[i - 1]
  BY <1>2
<1> DEFINE Kept == {n \in Nat : n <= N => after[n] \in Seq(S)}
<1>5. 0 \in Kept
  <2>1. 0 \in 0..N
    OBVIOUS
  <2>2. after[0] = <<>>
    BY <1>4, <2>1
  <2> HIDE DEF S
  <2>3. <<>> \in Seq(S)
    OBVIOUS
  <2> QED
    BY <2>2, <2>3
<1>6. ASSUME NEW n \in Nat, n \in Kept PROVE n + 1 \in Kept
  <2> SUFFICES ASSUME n + 1 <= N PROVE after[n + 1] \in Seq(S)
    OBVIOUS
  <2>1. after[n] \in Seq(S)
    BY <1>6
  <2> DEFINE i == n + 1
  <2>2. i \in 0..N /\ i # 0 /\ i - 1 = n /\ i \in 1..N
    OBVIOUS
  <2> HIDE DEF i
  <2>3. after[i] = IF i \in chosen THEN Append(after[n], i) ELSE after[n]
    BY <1>4, <2>2
  <2>4. i \in chosen => i \in S
    BY <2>2
  <2> HIDE DEF S
  <2> QED
    BY <2>1, <2>3, <2>4 DEF i
<1> HIDE DEF Kept
<1>7. N \in Kept
  BY <1>5, <1>6, SetInduction
<1> QED
  BY <1>3, <1>7 DEF Kept

LEMMA OfTypeFacts ==
    ASSUME NEW S, NEW s \in Seq(S), NEW type
    PROVE  OfType(s, type) \in Seq(ToSet(s))
<1> DEFINE mine == {i \in DOMAIN s : s[i].type = type}
           p == Places(mine, Len(s))
<1>1. p \in Seq(mine \cap 1..Len(s))
  BY PlacesFacts
<1>2. OfType(s, type) = [k \in DOMAIN p |-> s[p[k]]]
  BY DEF OfType, AtPlaces
<1> HIDE DEF p
<1>3. DOMAIN p = 1..Len(p) /\ Len(p) \in Nat /\ \A k \in 1..Len(p) : p[k] \in DOMAIN s
  BY <1>1
<1>4. \A k \in 1..Len(p) : s[p[k]] \in ToSet(s)
  BY <1>3 DEF ToSet
<1> QED
  BY <1>2, <1>3, <1>4

LEMMA CandidatesFacts ==
    ASSUME NEW g \in CombatStates
    PROVE  Candidates(g) \in Seq(ToSet(Legal(g)))
<1> DEFINE T == ToSet(Legal(g))
           ranked == Ranked(Legal(g))
           k == Min({Width, Len(ranked)})
<1>1. PICK S : Legal(g) \in Seq(S)
  BY LegalFacts
<1>2. ranked \in Seq(T)
  <2>1. \A type : OfType(Legal(g), type) \in Seq(T)
    BY <1>1, OfTypeFacts
  <2>2. ranked = OfType(Legal(g), "card") \o OfType(Legal(g), "choice_card") \o OfType(Legal(g), "choice_confirm")
                 \o OfType(Legal(g), "system") \o OfType(Legal(g), "choice_skip")
    BY DEF Ranked
  <2> HIDE DEF ranked, T
  <2> QED
    BY <2>1, <2>2
<1>3. Candidates(g) = SubSeq(ranked, 1, k)
  BY DEF Candidates, ExtractCandidates, FirstN
<1> HIDE DEF ranked, T
<1>4. Len(ranked) \in Nat
  BY <1>2
<1>5. k \in Nat /\ k <= Len(ranked)
  <2> DEFINE U == {Width, Len(ranked)}
  <2>1. U \subseteq Nat /\ U # {}
    BY <1>4, WidthAssumption
  <2>2. Min(U) \in U /\ \A u \in U : Min(U) <= u
    <3> HIDE DEF U
    <3> QED
      BY <2>1, LeastOf DEF Min
  <2>3. Len(ranked) \in U
    OBVIOUS
  <2> HIDE DEF U
  <2>4. k = Min(U)
    BY DEF U
  <2> QED
    BY <2>1, <2>2, <2>3, <2>4
<1> HIDE DEF k
<1>6. SubSeq(ranked, 1, k) \in Seq(T)
  BY <1>2, <1>4, <1>5
<1> QED
  BY <1>3, <1>6 DEF T

LEMMA CandidatesResolve ==
    ASSUME NEW g \in CombatStates
    PROVE  /\ DOMAIN Candidates(g) = 1..Len(Candidates(g)) /\ Len(Candidates(g)) \in Nat
           /\ \A i \in DOMAIN Candidates(g) : Resolves(g, Candidates(g)[i])
           /\ \A a \in ToSet(Candidates(g)) : Resolves(g, a)
<1>1. Candidates(g) \in Seq(ToSet(Legal(g)))
  BY CandidatesFacts
<1> DEFINE T == ToSet(Legal(g))
           batch == Candidates(g)
<1> HIDE DEF T, batch
<1>2. batch \in Seq(T)
  BY <1>1 DEF T, batch
<1>3. DOMAIN batch = 1..Len(batch) /\ Len(batch) \in Nat /\ \A i \in DOMAIN batch : batch[i] \in T
  BY <1>2
<1>4. \A a \in ToSet(batch) : a \in T
  BY <1>3 DEF ToSet
<1> QED
  BY <1>3, <1>4 DEF T, batch, Resolves

(***************************************************************************)
(* Replays that match, from their first entry and from their last.         *)
(***************************************************************************)

Shape(r) == r \in [state : {r.state}, mismatch : BOOLEAN]

LEMMA ReplayOneShape ==
    ASSUME NEW r, Shape(r), NEW e
    PROVE  Shape(ReplayOne(r, e)) /\ (r.mismatch => ReplayOne(r, e).mismatch)
<1>1. CASE r.mismatch \/ ~Resolves(r.state, e.action)
  <2>1. ReplayOne(r, e) = [r EXCEPT !.mismatch = TRUE]
    BY <1>1 DEF ReplayOne
  <2>2. [r EXCEPT !.mismatch = TRUE] = [state |-> r.state, mismatch |-> TRUE]
    <3> DEFINE s == r.state
               x == [r EXCEPT !.mismatch = TRUE]
    <3>1. r \in [state : {s}, mismatch : BOOLEAN]
      BY DEF Shape
    <3> HIDE DEF s
    <3>2. x \in [state : {s}, mismatch : BOOLEAN] /\ x.mismatch = TRUE
      BY <3>1
    <3> HIDE DEF x
    <3>3. x = [state |-> s, mismatch |-> TRUE]
      BY <3>2
    <3> QED
      BY <3>3 DEF x, s
  <2> QED
    BY <2>1, <2>2 DEF Shape
<1>2. CASE ~(r.mismatch \/ ~Resolves(r.state, e.action))
  <2> DEFINE next == GameStep(r.state, e.action)
             differs == Signature(next, e.action) # e.expected
  <2>1. ReplayOne(r, e) = [state |-> next, mismatch |-> differs]
    BY <1>2 DEF ReplayOne
  <2>2. differs \in BOOLEAN
    OBVIOUS
  <2> HIDE DEF next, differs
  <2> QED
    BY <1>2, <2>1, <2>2 DEF Shape
<1> QED
  BY <1>1, <1>2

LEMMA HereShape == \A g : Shape(Here(g)) /\ Here(g).state = g /\ ~Here(g).mismatch
BY DEF Shape, Here

LEMMA ReplayShape ==
    ASSUME NEW root, NEW entries, NEW N \in Nat, NEW f, ReplayIs(f, root, entries, N)
    PROVE  \A n \in Nat : n <= N => Shape(f[n])
<1>1. /\ f[0] = [state |-> root, mismatch |-> FALSE]
      /\ \A n \in Nat : n + 1 <= N => f[n + 1] = ReplayOne(f[n], entries[n + 1])
  BY ReplayPointwise
<1> DEFINE Kept == {n \in Nat : n <= N => Shape(f[n])}
<1>2. 0 \in Kept
  <2>1. f[0] = Here(root)
    BY <1>1 DEF Here
  <2> QED
    BY <2>1, HereShape
<1>3. ASSUME NEW n \in Nat, n \in Kept PROVE n + 1 \in Kept
  <2> SUFFICES ASSUME n + 1 <= N PROVE Shape(f[n + 1])
    OBVIOUS
  <2>1. Shape(f[n]) /\ f[n + 1] = ReplayOne(f[n], entries[n + 1])
    BY <1>1, <1>3
  <2> QED
    BY <2>1, ReplayOneShape
<1> HIDE DEF Kept
<1>4. \A n \in Nat : n \in Kept
  BY <1>2, <1>3, SetInduction
<1> QED
  BY <1>4 DEF Kept

LEMMA ReplayHasShape ==
    ASSUME NEW root, NEW entries, IsSeq(entries)
    PROVE  Shape(Replay(root, entries)) /\ Len(entries) \in Nat
<1>1. Len(entries) \in Nat
  BY DEF IsSeq
<1>2. PICK f : ReplayIs(f, root, entries, Len(entries)) /\ Replay(root, entries) = f[Len(entries)]
  BY <1>1, ReplayFunction
<1>3. Shape(f[Len(entries)])
  <2> DEFINE N == Len(entries)
  <2>1. N \in Nat /\ N <= N /\ ReplayIs(f, root, entries, N)
    BY <1>1, <1>2
  <2> HIDE DEF N
  <2>2. Shape(f[N])
    BY <2>1, ReplayShape
  <2> QED
    BY <2>2 DEF N
<1> QED
  BY <1>1, <1>2, <1>3

LEMMA ReplayOneMatches ==
    ASSUME NEW g, NEW e, Resolves(g, e.action), e.expected = Signature(GameStep(g, e.action), e.action)
    PROVE  ReplayOne(Here(g), e) = Here(GameStep(g, e.action))
BY DEF ReplayOne, Here

LEMMA ReplayOneSaysSo ==
    ASSUME NEW g, NEW e, ~ReplayOne(Here(g), e).mismatch
    PROVE  /\ Resolves(g, e.action) /\ e.expected = Signature(GameStep(g, e.action), e.action)
           /\ ReplayOne(Here(g), e) = Here(GameStep(g, e.action))
<1> DEFINE next == GameStep(g, e.action)
           differs == Signature(next, e.action) # e.expected
<1>1. Here(g).state = g /\ ~Here(g).mismatch
  BY HereShape
<1>2. Resolves(g, e.action)
  <2> SUFFICES ASSUME ~Resolves(g, e.action) PROVE FALSE
    OBVIOUS
  <2>1. ReplayOne(Here(g), e) = [Here(g) EXCEPT !.mismatch = TRUE]
    BY <1>1 DEF ReplayOne
  <2> QED
    BY <2>1 DEF Here
<1>3. ReplayOne(Here(g), e) = [state |-> next, mismatch |-> differs]
  BY <1>1, <1>2 DEF ReplayOne
<1>4. ~differs
  <2> HIDE DEF differs, next
  <2> QED
    BY <1>3
<1> QED
  BY <1>2, <1>4, ReplayOneMatches

(* A replay that matches began with a step that matches, and its last      *)
(* entry was one.                                                          *)
LEMMA ReplayHead ==
    ASSUME NEW g, NEW p, IsSeq(p), p # <<>>, ~Replay(g, p).mismatch
    PROVE  LET e == Head(p) IN
           /\ Resolves(g, e.action) /\ e.expected = Signature(GameStep(g, e.action), e.action)
           /\ Replay(GameStep(g, e.action), Tail(p)) = Replay(g, p)
<1> DEFINE N == Len(p)
           e == Head(p)
           next == GameStep(g, e.action)
           rest == Tail(p)
<1>1. /\ N \in Nat /\ N >= 1 /\ e = p[1] /\ Len(rest) = N - 1
      /\ \A i \in 1..(N - 1) : rest[i] = p[i + 1]
  BY DEF IsSeq
<1>2. PICK f : ReplayIs(f, g, p, N) /\ Replay(g, p) = f[N]
  BY <1>1, ReplayFunction
<1> HIDE DEF N, e
<1>3. /\ f[0] = Here(g)
      /\ \A n \in Nat : n + 1 <= N => f[n + 1] = ReplayOne(f[n], p[n + 1])
  <2>1. /\ f[0] = [state |-> g, mismatch |-> FALSE]
        /\ \A n \in Nat : n + 1 <= N => f[n + 1] = ReplayOne(f[n], p[n + 1])
    BY <1>1, <1>2, ReplayPointwise
  <2> QED
    BY <2>1 DEF Here
<1>4. \A n \in Nat : n <= N => Shape(f[n])
  BY <1>1, <1>2, ReplayShape
<1>5. f[1] = ReplayOne(Here(g), e)
  <2>1. 0 \in Nat /\ 0 + 1 <= N /\ 0 + 1 = 1
    BY <1>1
  <2>2. f[0 + 1] = ReplayOne(f[0], p[0 + 1])
    BY <1>3, <2>1
  <2> QED
    BY <1>1, <1>3, <2>1, <2>2
<1>6. ~f[1].mismatch
  <2> SUFFICES ASSUME f[1].mismatch PROVE FALSE
    OBVIOUS
  <2> DEFINE Lost == {n \in Nat : n + 1 <= N => f[n + 1].mismatch}
  <2>1. 0 \in Lost
    OBVIOUS
  <2>2. ASSUME NEW n \in Nat, n \in Lost PROVE n + 1 \in Lost
    <3> SUFFICES ASSUME (n + 1) + 1 <= N PROVE f[(n + 1) + 1].mismatch
      OBVIOUS
    <3> DEFINE m == n + 1
    <3>1. m \in Nat /\ m <= N /\ m + 1 <= N /\ f[m].mismatch
      BY <1>1, <2>2
    <3> HIDE DEF m
    <3>2. f[m + 1] = ReplayOne(f[m], p[m + 1]) /\ Shape(f[m])
      BY <1>3, <1>4, <3>1
    <3>3. f[m + 1].mismatch
      BY <3>1, <3>2, ReplayOneShape
    <3> QED
      BY <3>3 DEF m
  <2> HIDE DEF Lost
  <2>3. N - 1 \in Lost
    <3>1. N - 1 \in Nat
      BY <1>1
    <3> QED
      BY <2>1, <2>2, <3>1, SetInduction
  <2>4. f[(N - 1) + 1].mismatch
    BY <1>1, <2>3 DEF Lost
  <2> QED
    BY <1>1, <1>2, <2>4
<1>7. Resolves(g, e.action) /\ e.expected = Signature(next, e.action) /\ f[1] = Here(next)
  BY <1>5, <1>6, ReplayOneSaysSo
<1>8. Replay(next, rest) = f[N]
  <2> DEFINE M == N - 1
  <2>1. M \in Nat /\ Len(rest) = M /\ N = M + 1
    BY <1>1
  <2> HIDE DEF next, rest, M
  <2>2. PICK h : ReplayIs(h, next, rest, M) /\ Replay(next, rest) = h[M]
    BY <2>1, ReplayFunction
  <2>3. /\ h[0] = [state |-> next, mismatch |-> FALSE]
        /\ \A n \in Nat : n + 1 <= M => h[n + 1] = ReplayOne(h[n], rest[n + 1])
    BY <2>1, <2>2, ReplayPointwise
  <2> DEFINE Same == {n \in Nat : n <= M => h[n] = f[n + 1]}
  <2>4. 0 \in Same
    BY <1>7, <2>3 DEF Here
  <2>5. ASSUME NEW n \in Nat, n \in Same PROVE n + 1 \in Same
    <3> SUFFICES ASSUME n + 1 <= M PROVE h[n + 1] = f[(n + 1) + 1]
      OBVIOUS
    <3> DEFINE m == n + 1
    <3>1. m \in Nat /\ m <= M /\ m + 1 <= N /\ h[n] = f[m]
      BY <2>1, <2>5
    <3>2. h[m] = ReplayOne(h[n], rest[m])
      BY <2>3, <3>1
    <3> HIDE DEF m
    <3>3. rest[m] = p[m + 1]
      <4>1. m \in 1..(N - 1)
        BY <2>1, <3>1 DEF m
      <4> QED
        BY <1>1, <4>1
    <3>4. f[m + 1] = ReplayOne(f[m], p[m + 1])
      BY <1>3, <3>1
    <3>5. h[m] = f[m + 1]
      BY <3>1, <3>2, <3>3, <3>4
    <3> QED
      BY <3>5 DEF m
  <2> HIDE DEF Same
  <2>6. M \in Same
    BY <2>1, <2>4, <2>5, SetInduction
  <2>7. h[M] = f[M + 1]
    BY <2>1, <2>6 DEF Same
  <2> QED
    BY <2>1, <2>2, <2>7
<1> QED
  BY <1>2, <1>7, <1>8 DEF e

LEMMA FrontLast ==
    ASSUME NEW p, IsSeq(p), p # <<>>
    PROVE  IsSeq(Front(p)) /\ p = Append(Front(p), Last(p))
<1> DEFINE T == ToSet(p)
<1>1. p \in Seq(T)
  BY DEF IsSeq
<1> HIDE DEF T
<1>2. Front(p) \in Seq(T) /\ Len(Front(p)) = Len(p) - 1 /\ \A i \in 1..(Len(p) - 1) : Front(p)[i] = p[i]
  <2>1. Front(p) = SubSeq(p, 1, Len(p) - 1) /\ Len(p) \in Nat /\ Len(p) >= 1
    BY <1>1 DEF Front
  <2>2. SubSeq(p, 1, Len(p) - 1) \in Seq(T)
    BY <1>1, <2>1
  <2>3. Len(SubSeq(p, 1, Len(p) - 1)) = Len(p) - 1
    <3> DEFINE n == Len(p) - 1
    <3>1. n \in Nat /\ n <= Len(p) /\ Len(p) \in Nat
      BY <2>1
    <3> HIDE DEF n
    <3>2. Len(SubSeq(p, 1, n)) = n
      <4>1. CASE n = 0
        BY <1>1, <3>1, <4>1
      <4>2. CASE n >= 1
        BY <1>1, <3>1, <4>2
      <4> QED
        BY <3>1, <4>1, <4>2
    <3> QED
      BY <3>2 DEF n
  <2>4. \A i \in 1..(Len(p) - 1) : SubSeq(p, 1, Len(p) - 1)[i] = p[i]
    BY <1>1, <2>1
  <2> QED
    BY <2>1, <2>2, <2>3, <2>4
<1>3. p = Append(Front(p), Last(p))
  <2>1. Last(p) = p[Len(p)] /\ Last(p) \in T
    BY <1>1 DEF Last
  <2> QED
    BY <1>1, <1>2, <2>1
<1> QED
  BY <1>2, <1>3, IsSeqFacts

LEMMA ReplayLast ==
    ASSUME NEW g, NEW p, IsSeq(p), p # <<>>, ~Replay(g, p).mismatch
    PROVE  LET end == Replay(g, Front(p)).state IN
           Replay(g, Front(p)) = Here(end) /\ GoodStep(end, Last(p))
<1> DEFINE q == Front(p)
           e == Last(p)
           r == Replay(g, q)
<1>1. IsSeq(q) /\ p = Append(q, e)
  BY FrontLast
<1> HIDE DEF q, e
<1>2. Replay(g, p) = ReplayOne(r, e)
  BY <1>1, ReplayAppend DEF IsSeq
<1>3. Shape(r)
  BY <1>1, ReplayHasShape
<1>4. ~r.mismatch
  BY <1>2, <1>3, ReplayOneShape
<1>5. r = Here(r.state)
  BY <1>3, <1>4 DEF Shape, Here
<1>6. Resolves(r.state, e.action) /\ Signature(GameStep(r.state, e.action), e.action) = e.expected
  <2> DEFINE end == r.state
  <2> HIDE DEF r
  <2>1. r = Here(end)
    BY <1>5
  <2> HIDE DEF end
  <2>2. ~ReplayOne(Here(end), e).mismatch
    BY <1>2, <2>1
  <2>3. Resolves(end, e.action) /\ e.expected = Signature(GameStep(end, e.action), e.action)
    BY <2>2, ReplayOneSaysSo
  <2> QED
    BY <2>3 DEF end
<1> QED
  BY <1>5, <1>6 DEF GoodStep, q, e

(***************************************************************************)
(* Contexts and plans.                                                     *)
(***************************************************************************)

LEMMA ContextOf ==
    ASSUME NEW g, NEW ctx, NEW end \in CombatStates, IsSeq(ctx.prefix), IsSeq(ctx.path),
           Replay(ctx.root, ctx.prefix) = Here(end), Replay(g, ctx.path) = Here(end)
    PROVE  GoodContext(g, ctx) /\ ContextState(ctx) = end
<1>1. ContextState(ctx) = end
  BY HereShape DEF ContextState
<1> QED
  BY <1>1 DEF GoodContext

LEMMA ChildIsGood ==
    ASSUME NEW g, NEW x, GoodExpansion(g, x)
    PROVE  GoodContext(g, ChildContext(x.ctx, x.entry))
<1> DEFINE ctx == x.ctx
           entry == x.entry
           end == ContextState(ctx)
           child == GameStep(end, entry.action)
           kept == [action |-> entry.action, expected |-> entry.expected, draws |-> <<>>, blocked |-> FALSE]
<1>1. /\ IsSeq(ctx.prefix) /\ IsSeq(ctx.path) /\ end \in CombatStates
      /\ Replay(ctx.root, ctx.prefix) = Here(end) /\ Replay(g, ctx.path) = Here(end)
      /\ Resolves(end, entry.action) /\ entry.expected = Signature(child, entry.action)
  BY DEF GoodExpansion, GoodContext
<1>2. child \in CombatStates
  BY <1>1, GameStepFacts
<1>3. ReplayOne(Here(end), entry) = Here(child)
  BY <1>1, ReplayOneMatches
<1>4. Replay(g, Append(ctx.path, entry)) = Here(child) /\ IsSeq(Append(ctx.path, entry))
  <2>1. Replay(g, Append(ctx.path, entry)) = ReplayOne(Replay(g, ctx.path), entry)
    BY <1>1, ReplayAppend DEF IsSeq
  <2> QED
    BY <1>1, <1>3, <2>1, AppendFacts
<1>5. CASE Boundary(child) = "stable"
  <2> DEFINE c == FromPrevChild(ctx, entry)
  <2>1. ChildContext(ctx, entry) = c
    BY <1>5 DEF ChildContext
  <2>2. c.root = child /\ c.prefix = <<>> /\ c.path = Append(ctx.path, entry)
    BY DEF FromPrevChild, DecisionContext
  <2>3. Replay(child, <<>>) = Here(child)
    BY ReplayNothing DEF Here
  <2> HIDE DEF c, child
  <2> QED
    BY <1>2, <1>4, <2>1, <2>2, <2>3, EmptyIsSeq, ContextOf
<1>6. CASE Boundary(child) # "stable"
  <2> DEFINE c == FromPending(ctx, entry)
  <2>1. ChildContext(ctx, entry) = c
    BY <1>6 DEF ChildContext
  <2>2. c.root = ctx.root /\ c.prefix = Append(ctx.prefix, kept) /\ c.path = Append(ctx.path, entry)
    BY DEF FromPending, DecisionContext
  <2>3. Replay(ctx.root, Append(ctx.prefix, kept)) = ReplayOne(Replay(ctx.root, ctx.prefix), kept)
    <3> HIDE DEF kept
    <3> QED
      BY <1>1, ReplayAppend DEF IsSeq
  <2>4. ReplayOne(Here(end), kept) = Here(child)
    <3>1. kept.action = entry.action /\ kept.expected = entry.expected
      OBVIOUS
    <3> HIDE DEF kept
    <3> QED
      BY <1>1, <3>1, ReplayOneMatches
  <2>5. IsSeq(Append(ctx.prefix, kept))
    <3> HIDE DEF kept
    <3> QED
      BY <1>1, AppendFacts
  <2> HIDE DEF c, child, kept
  <2> QED
    BY <1>1, <1>2, <1>4, <2>1, <2>2, <2>3, <2>4, <2>5, ContextOf
<1> QED
  BY <1>5, <1>6

(* The Plan Path of a context, alone or with one more step, is a plan that *)
(* comes true.                                                             *)
LEMMA PathIsGood ==
    ASSUME NEW g, NEW ctx, GoodContext(g, ctx)
    PROVE  GoodPlan(g, ctx.path)
<1>1. IsSeq(ctx.path) /\ ~Replay(g, ctx.path).mismatch
  BY HereShape DEF GoodContext
<1> QED
  BY <1>1, ReplayLast DEF GoodPlan

LEMMA PathAndStepIsGood ==
    ASSUME NEW g, NEW ctx, GoodContext(g, ctx), NEW entry, GoodStep(ContextState(ctx), entry)
    PROVE  GoodPlan(g, Append(ctx.path, entry))
<1> DEFINE p == Append(ctx.path, entry)
           end == ContextState(ctx)
<1>1. IsSeq(ctx.path) /\ Replay(g, ctx.path) = Here(end)
  BY DEF GoodContext
<1>2. IsSeq(p) /\ Front(p) = ctx.path /\ Last(p) = entry
  BY <1>1, AppendFacts
<1>3. Replay(g, Front(p)).state = end /\ Replay(g, Front(p)) = Here(end)
  BY <1>1, <1>2, HereShape
<1> HIDE DEF p, end
<1>4. GoodPlan(g, p)
  BY <1>2, <1>3 DEF GoodPlan, end
<1> QED
  BY <1>4 DEF p

LEMMA OneStepIsGood ==
    ASSUME NEW g, NEW entry, GoodStep(g, entry)
    PROVE  GoodPlan(g, <<entry>>)
<1>1. <<entry>> = Append(<<>>, entry)
  OBVIOUS
<1>2. IsSeq(<<entry>>) /\ Front(<<entry>>) = <<>> /\ Last(<<entry>>) = entry
  BY <1>1, AppendFacts, EmptyIsSeq
<1>3. Replay(g, <<>>) = Here(g) /\ Replay(g, <<>>).state = g
  BY ReplayNothing, HereShape DEF Here
<1> QED
  BY <1>2, <1>3 DEF GoodPlan

LEMMA NoPlanIsGood == \A g : GoodPlan(g, <<>>)
BY EmptyIsSeq DEF GoodPlan

(* A plan that comes true does so from its first step.                     *)
LEMMA PlanUnfolds ==
    ASSUME NEW g, NEW p, GoodPlan(g, p), p # <<>>
    PROVE  GoodStep(g, Head(p)) /\ GoodPlan(GameStep(g, Head(p).action), Tail(p))
<1> DEFINE q == Front(p)
           l == Last(p)
           e == Head(p)
           next == GameStep(g, e.action)
           T == ToSet(p)
<1>1. IsSeq(p) /\ Replay(g, q) = Here(Replay(g, q).state) /\ GoodStep(Replay(g, q).state, l)
  BY DEF GoodPlan
<1>2. IsSeq(q) /\ p = Append(q, l)
  BY <1>1, FrontLast
<1>3. p \in Seq(T)
  BY <1>1 DEF IsSeq
<1>4. CASE q = <<>>
  <2>1. p = <<l>>
    BY <1>2, <1>4
  <2> HIDE DEF l, q
  <2>2. Head(p) = l /\ Tail(p) = <<>>
    BY <2>1
  <2>3. Replay(g, q).state = g
    BY <1>4, ReplayNothing
  <2> QED
    BY <1>1, <2>2, <2>3, NoPlanIsGood
<1>5. CASE q # <<>>
  <2>0. l \in T /\ q \in Seq(T)
    <3>1. Last(p) \in T
      <4> HIDE DEF T
      <4> QED
        BY <1>3 DEF Last
    <3>2. Front(p) \in Seq(T)
      <4> HIDE DEF T
      <4>1. Front(p) = SubSeq(p, 1, Len(p) - 1) /\ Len(p) \in Nat /\ Len(p) >= 1
        BY <1>3 DEF Front
      <4> QED
        BY <1>3, <4>1
    <3> QED
      BY <3>1, <3>2
  <2>1. Head(q) = e /\ Tail(p) = Append(Tail(q), l) /\ IsSeq(Tail(q)) /\ Tail(q) \in Seq(T)
    <3> HIDE DEF q, l, T
    <3>1. Head(q) = e
      BY <1>2, <1>5, <2>0
    <3>2. Tail(q) \in Seq(T)
      BY <1>5, <2>0
    <3>3. Tail(p) = Append(Tail(q), l)
      BY <1>2, <1>5, <2>0
    <3> QED
      BY <3>1, <3>2, <3>3, IsSeqFacts
  <2>2. ~Replay(g, q).mismatch
    BY <1>1, HereShape
  <2> HIDE DEF q, l, e
  <2>3. Resolves(g, e.action) /\ e.expected = Signature(next, e.action) /\ Replay(next, Tail(q)) = Replay(g, q)
    BY <1>2, <1>5, <2>1, <2>2, ReplayHead
  <2>4. GoodStep(g, e)
    BY <2>3 DEF GoodStep
  <2>5. IsSeq(Tail(p)) /\ Front(Tail(p)) = Tail(q) /\ Last(Tail(p)) = l
    BY <2>1, AppendFacts
  <2> HIDE DEF next
  <2>6. GoodPlan(next, Tail(p))
    BY <1>1, <2>3, <2>5 DEF GoodPlan
  <2> QED
    BY <2>4, <2>6 DEF e, next
<1> QED
  BY <1>4, <1>5

(***************************************************************************)
(* Every step of the Main loop keeps its invariant.                        *)
(***************************************************************************)



LEMMA LoopMoves ==
    ASSUME MainTypes, NEW pc, NEW outcome, NEW source
    PROVE  /\ [loop EXCEPT !.pc = pc].pc = pc
           /\ [loop EXCEPT !.pc = pc].source = loop.source
           /\ [loop EXCEPT !.pc = pc].start = loop.start
           /\ [loop EXCEPT !.pc = pc, !.outcome = outcome].pc = pc
           /\ [loop EXCEPT !.pc = pc, !.outcome = outcome].source = loop.source
           /\ [loop EXCEPT !.pc = pc, !.outcome = outcome].start = loop.start
           /\ [loop EXCEPT !.pc = pc, !.source = source].pc = pc
           /\ [loop EXCEPT !.pc = pc, !.source = source].source = source
           /\ [loop EXCEPT !.pc = pc, !.source = source].start = loop.start
BY DEF MainTypes

LEMMA EndsKeeps ==
    ASSUME MainInv, game' = game, held' = held, prefix' = prefix,
           NEW o \in {"none", "terminal", "aborted", "fault", "raised"}, Ends(o)
    PROVE  MainInv'
<1>1. loop' = [loop EXCEPT !.pc = "ended", !.outcome = o]
  BY DEF Ends
<1>2. loop'.pc = "ended" /\ loop'.start = loop.start
  BY <1>1, LoopMoves DEF MainInv
<1>3. MainTypes'
  BY <1>1 DEF MainInv, MainTypes
<1>4. ReplayInv'
  BY <1>2 DEF MainInv, ReplayInv, Root
<1> QED
  BY <1>2, <1>3, <1>4 DEF MainInv, BoundaryInv, SearchInv, PlanInv, At

LEMMA PlannedKeeps ==
    ASSUME MainInv, game' = game, held' = held, prefix' = prefix,
           \/ loop' = [loop EXCEPT !.pc = "exec"] /\ GoodPlan(game, plan')
           \/ loop' = [loop EXCEPT !.pc = "exec", !.source = "injected"]
    PROVE  MainInv'
<1>1. /\ loop'.pc = "exec" /\ loop'.start = loop.start
      /\ loop'.source = "injected" \/ GoodPlan(game, plan')
  <2>0. MainTypes
    BY DEF MainInv
  <2>1. CASE loop' = [loop EXCEPT !.pc = "exec"] /\ GoodPlan(game, plan')
    BY <2>0, <2>1, LoopMoves
  <2>2. CASE loop' = [loop EXCEPT !.pc = "exec", !.source = "injected"]
    BY <2>0, <2>2, LoopMoves
  <2> QED
    BY <2>1, <2>2
<1>2. MainTypes'
  BY DEF MainInv, MainTypes
<1>3. ReplayInv'
  BY <1>1 DEF MainInv, ReplayInv, Root
<1>4. PlanInv'
  BY <1>1 DEF PlanInv
<1> QED
  BY <1>1, <1>2, <1>3, <1>4 DEF MainInv, BoundaryInv, SearchInv, At

LEMMA SearchingKeeps ==
    ASSUME MainInv, At("search"), UNCHANGED <<game, held, prefix, plan, loop>>, SearchFacts(game, search')
    PROVE  MainInv'
<1>1. MainTypes' /\ ReplayInv' /\ BoundaryInv' /\ PlanInv'
  BY DEF MainInv, MainTypes, ReplayInv, Root, BoundaryInv, PlanInv, At
<1>2. SearchInv'
  BY DEF MainInv, SearchInv, SearchFacts, At
<1> QED
  BY <1>1, <1>2 DEF MainInv

LEMMA MainInitInv == Init => MainInv
<1> SUFFICES ASSUME Init PROVE MainInv
  OBVIOUS
<1>1. game \in CombatStates
  BY OpeningsAssumption DEF Init
<1>2. PICK start \in {game, None} :
         loop = [pc |-> "boundary", outcome |-> "none", iterations |-> 0, start |-> start, source |-> "own"]
  BY DEF Init
<1>3. held = None /\ prefix = <<>> /\ plan = <<>>
  BY DEF Init
<1>4. MainTypes
  BY <1>1, <1>2, <1>3, EmptyIsSeq DEF MainTypes
<1>5. ReplayInv
  <2>1. Root = start
    BY <1>2, <1>3 DEF Root
  <2>2. Replay(game, <<>>) = Here(game)
    BY ReplayNothing DEF Here
  <2> QED
    BY <1>3, <2>1, <2>2 DEF ReplayInv
<1>6. loop.pc = "boundary"
  BY <1>2
<1> QED
  BY <1>3, <1>4, <1>5, <1>6 DEF MainInv, BoundaryInv, SearchInv, PlanInv, At

LEMMA DecidesKeeps == ASSUME MainInv, Decides PROVE MainInv'
<1> DEFINE pc == IF plan = <<>> THEN "route" ELSE "exec"
<1>1. /\ loop' = [loop EXCEPT !.pc = pc, !.iterations = @ + 1, !.source = "own"]
      /\ game' = game /\ plan' = plan
  BY DEF Decides
<1>2. plan = <<>> /\ Boundary(game) # "terminal"
  BY DEF Decides, MainInv, BoundaryInv
<1>3. loop'.pc = "route" /\ loop'.source = "own" /\ loop'.start = loop.start
  BY <1>1, <1>2 DEF MainInv, MainTypes
<1>4. game \in CombatStates /\ game # None
  BY CombatFields DEF MainInv, MainTypes
<1>5. loop' \in [pc : {"boundary", "route", "search", "exec", "ended"},
                 outcome : {"none", "terminal", "aborted", "fault", "raised"},
                 iterations : Nat, start : CombatStates \cup {None}, source : {"own", "injected"}]
  <2>1. loop.iterations + 1 \in Nat
    BY DEF MainInv, MainTypes
  <2> HIDE DEF pc
  <2>2. pc \in {"boundary", "route", "search", "exec", "ended"}
    BY DEF pc
  <2> QED
    BY <1>1, <2>1, <2>2 DEF MainInv, MainTypes
<1>6. CASE Boundary(game) = "stable"
  <2>1. held' = game /\ prefix' = <<>>
    BY <1>6 DEF Decides, CaptureStable
  <2>2. MainTypes'
    BY <1>1, <1>4, <1>5, <1>6, <2>1, EmptyIsSeq DEF MainTypes
  <2>3. ReplayInv'
    <3>1. Replay(game, <<>>) = Here(game)
      BY ReplayNothing DEF Here
    <3> QED
      BY <1>1, <1>4, <2>1, <3>1 DEF ReplayInv, Root
  <2> QED
    BY <1>1, <1>2, <1>3, <2>1, <2>2, <2>3 DEF MainInv, BoundaryInv, SearchInv, PlanInv, At
<1>7. CASE Boundary(game) # "stable"
  <2>1. held' = held /\ prefix' = prefix
    BY <1>7 DEF Decides
  <2>2. MainTypes'
    BY <1>1, <1>5, <2>1 DEF MainInv, MainTypes
  <2>3. ReplayInv'
    BY <1>1, <1>3, <2>1 DEF MainInv, ReplayInv, Root
  <2> QED
    BY <1>1, <1>2, <1>3, <1>7, <2>1, <2>2, <2>3 DEF MainInv, BoundaryInv, SearchInv, PlanInv, At
<1> QED
  BY <1>6, <1>7

LEMMA PlainStep ==
    ASSUME NEW g, NEW a, Resolves(g, a)
    PROVE  GoodPlan(g, <<PlannedStep(a, NoSignature)>>)
<1>1. GoodStep(g, PlannedStep(a, NoSignature))
  BY DEF GoodStep, PlannedStep
<1> QED
  BY <1>1, OneStepIsGood

LEMMA RouteKeeps ==
    ASSUME MainInv, RouteDirect \/ RoutePendingStatic \/ RouteInjected
    PROVE  MainInv'
<1>1. CASE RouteDirect
  <2>1. PICK a \in ToSet(Legal(game)) : Executes(<<PlannedStep(a, NoSignature)>>)
    BY <1>1 DEF RouteDirect
  <2>2. GoodPlan(game, <<PlannedStep(a, NoSignature)>>)
    BY PlainStep DEF Resolves
  <2>3. plan' = <<PlannedStep(a, NoSignature)>> /\ loop' = [loop EXCEPT !.pc = "exec"]
    BY <2>1 DEF Executes
  <2>4. UNCHANGED <<game, held, prefix>>
    BY <1>1 DEF RouteDirect
  <2> QED
    BY <2>2, <2>3, <2>4, PlannedKeeps
<1>2. CASE RoutePendingStatic
  <2> DEFINE resolving == {i \in DOMAIN Legal(game) : Legal(game)[i].type # "choice_skip"}
             a == Legal(game)[Min(resolving)]
  <2>1. plan' = <<PlannedStep(a, NoSignature)>> /\ loop' = [loop EXCEPT !.pc = "exec"] /\ UNCHANGED <<game, held, prefix>>
    BY <1>2 DEF RoutePendingStatic, Executes
  <2>2. game \in CombatStates /\ Boundary(game) = "pending"
    BY <1>2 DEF RoutePendingStatic, MainInv, MainTypes
  <2>3. Min(resolving) \in DOMAIN Legal(game)
    <3> DEFINE picks == [i \in DOMAIN game.hand |-> Choose(game.hand[i])]
               n == Len(game.hand)
    <3>1. Legal(game) = picks \o <<Confirm, Skip>>
      BY <2>2 DEF Legal
    <3>2. game.hand \in Seq(Cards)
      BY <2>2, CombatFields DEF Fields
    <3>3. picks \in Seq({Choose(c) : c \in Cards}) /\ Len(picks) = n /\ n \in Nat
      BY <3>2
    <3> HIDE DEF picks
    <3>4. n + 1 \in DOMAIN Legal(game) /\ Legal(game)[n + 1] = Confirm
      BY <3>1, <3>3
    <3>5. n + 1 \in resolving
      BY <3>4 DEF Confirm
    <3>6. resolving \subseteq Nat
      <4>1. PICK S : Legal(game) \in Seq(S)
        BY <2>2, LegalFacts
      <4> QED
        BY <4>1
    <3> HIDE DEF n
    <3>7. Min(resolving) \in resolving
      BY <3>5, <3>6, MinFacts
    <3> QED
      BY <3>7
  <2>4. Resolves(game, a)
    BY <2>3 DEF Resolves, ToSet
  <2> HIDE DEF a
  <2>5. GoodPlan(game, <<PlannedStep(a, NoSignature)>>)
    BY <2>4, PlainStep
  <2> QED
    BY <2>1, <2>5, PlannedKeeps
<1>3. CASE RouteInjected
  BY <1>3, PlannedKeeps DEF RouteInjected
<1> QED
  BY <1>1, <1>2, <1>3

LEMMA RouteSearchKeeps ==
    ASSUME MainInv, NEW strategy, RouteSearch(strategy)
    PROVE  MainInv'
<1> DEFINE ctx == SearchContext
<1>0. /\ At("route") /\ SearchAllowed /\ UNCHANGED <<game, held, prefix, plan>>
      /\ loop' = [loop EXCEPT !.pc = "search"]
      /\ search' = [on |-> TRUE, strategy |-> strategy, start |-> ctx, active |-> <<BeamEntry(ctx, 0)>>,
                    todo |-> 1, round |-> 1, expansions |-> <<>>, completed |-> {}, viable |-> FALSE]
  BY DEF RouteSearch
<1>1. GoodContext(game, ctx) /\ ctx.path = <<>>
  <2>1. Root # None /\ ctx.root = Root /\ ctx.prefix = prefix /\ ctx.path = <<>>
    <3>1. game # None
      BY CombatFields DEF MainInv, MainTypes
    <3>2. CASE Boundary(game) = "stable"
      <4>1. held = game
        BY <1>0, <3>2 DEF MainInv, BoundaryInv
      <4> QED
        BY <3>1, <3>2, <4>1 DEF SearchContext, MainContext, FromMainStableCapture, DecisionContext, Root
    <3>3. CASE Boundary(game) # "stable"
      <4>1. held = None /\ loop.start # None
        BY <1>0, <3>3 DEF SearchAllowed
      <4> QED
        BY <3>3, <4>1 DEF SearchContext, CombatStartContext, FromCombatStartPending, DecisionContext, Root
    <3> QED
      BY <3>2, <3>3
  <2>2. Replay(Root, prefix) = Here(game) /\ IsSeq(prefix) /\ game \in CombatStates
    BY <2>1 DEF MainInv, ReplayInv, MainTypes
  <2>3. Replay(game, <<>>) = Here(game)
    BY ReplayNothing DEF Here
  <2> HIDE DEF ctx
  <2> QED
    BY <2>1, <2>2, <2>3, EmptyIsSeq, ContextOf
<1> HIDE DEF ctx
<1>2. SearchFacts(game, search')
  <2> DEFINE active == <<BeamEntry(ctx, 0)>>
             s == search'
  <2>1. active \in Seq({BeamEntry(ctx, 0)}) /\ DOMAIN active = {1} /\ active[1].ctx = ctx
    BY DEF BeamEntry
  <2>2. IsSeq(active)
    BY <2>1, IsSeqFacts
  <2> HIDE DEF active
  <2>3. /\ DOMAIN s = {"on", "strategy", "start", "active", "todo", "round", "expansions", "completed", "viable"}
        /\ s.todo = 1 /\ s.active = active /\ s.expansions = <<>> /\ s.completed = {}
    BY <1>0 DEF active
  <2> HIDE DEF s
  <2>4. SearchFacts(game, s)
    BY <1>1, <2>1, <2>2, <2>3, EmptyIsSeq DEF SearchFacts
  <2> QED
    BY <2>4 DEF s
<1>3. loop'.pc = "search" /\ loop'.source = loop.source /\ loop'.start = loop.start
  BY <1>0, LoopMoves DEF MainInv
<1>4. plan = <<>> /\ loop.source = "own"
  BY <1>0 DEF MainInv, BoundaryInv
<1>5. MainTypes'
  BY <1>0 DEF MainInv, MainTypes
<1>6. ReplayInv'
  BY <1>0, <1>3 DEF MainInv, ReplayInv, Root
<1>7. SearchInv'
  BY <1>0, <1>2, <1>3, <1>4 DEF SearchInv, SearchFacts
<1> QED
  BY <1>3, <1>5, <1>6, <1>7 DEF MainInv, BoundaryInv, PlanInv, At

LEMMA SucceedsKeeps ==
    ASSUME MainInv, NEW steps, SearchSucceeds(steps), GoodPlan(game, steps), UNCHANGED <<game, held, prefix>>
    PROVE  MainInv'
<1>1. CASE MainUnmoved
  <2>1. plan' = steps /\ loop' = [loop EXCEPT !.pc = "exec"]
    BY <1>1 DEF SearchSucceeds
  <2> QED
    BY <2>1, PlannedKeeps
<1>2. CASE ~MainUnmoved
  <2>1. Ends("raised")
    BY <1>2 DEF SearchSucceeds
  <2> QED
    BY <2>1, EndsKeeps
<1> QED
  BY <1>1, <1>2

LEMMA FailsAreKept ==
    ASSUME MainInv, SearchFails, UNCHANGED <<game, held, prefix>>
    PROVE  MainInv'
BY EndsKeeps DEF SearchFails

LEMMA BestAreSampled ==
    ASSUME NEW batch, NEW ok \in SUBSET (ToSet(batch) \X Hypotheses)
    PROVE  \A a \in BestActions(ok) : a \in ToSet(batch)
<1> SUFFICES ASSUME NEW a \in BestActions(ok) PROVE a \in ToSet(batch)
  OBVIOUS
<1>1. a \in {s[1] : s \in ok}
  BY DEF BestActions, ViableActions
<1>2. PICK s \in ok : a = s[1]
  BY <1>1
<1>3. s \in ToSet(batch) \X Hypotheses
  OBVIOUS
<1> QED
  BY <1>2, <1>3

LEMMA SegmentKeeps ==
    ASSUME MainInv, PlainSegment \/ HypothesisSegment
    PROVE  MainInv'
<1> DEFINE g == ContextState(SegmentContext)
<1>0. At("search") /\ search.strategy = "segment" /\ UNCHANGED <<game, held, prefix>>
  BY DEF PlainSegment, HypothesisSegment
<1>1. g = game /\ game \in CombatStates
  <2>1. 1 \in DOMAIN search.active /\ search.active[1].ctx.path = <<>> /\ GoodContext(game, search.active[1].ctx)
    BY <1>0 DEF MainInv, SearchInv, SearchFacts
  <2>2. Replay(game, <<>>) = Here(g)
    BY <2>1 DEF GoodContext, SegmentContext
  <2>3. Replay(game, <<>>) = Here(game)
    BY ReplayNothing DEF Here
  <2> HIDE DEF g
  <2>4. g = game
    BY <2>2, <2>3, HereShape
  <2> QED
    BY <2>4 DEF MainInv, MainTypes
<1>2. /\ \A i \in DOMAIN SegmentBatch : Resolves(game, SegmentBatch[i])
      /\ \A a \in ToSet(SegmentBatch) : Resolves(game, a)
  BY <1>1, CandidatesResolve DEF SegmentBatch
<1>3. CASE PlainSegment
  <2>1. PICK ok \in SUBSET DOMAIN SegmentBatch :
         IF ok = {} THEN SearchFails
         ELSE \E a \in BestScored({SegmentBatch[i] : i \in ok}) :
                 SearchSucceeds(<<PlannedStep(a, Signature(GameStep(g, a), a))>>)
    BY <1>3 DEF PlainSegment
  <2>2. CASE ok = {}
    BY <1>0, <2>1, <2>2, FailsAreKept
  <2>3. CASE ok # {}
    <3>1. PICK a \in BestScored({SegmentBatch[i] : i \in ok}) :
                 SearchSucceeds(<<PlannedStep(a, Signature(GameStep(g, a), a))>>)
      BY <2>1, <2>3
    <3>2. Resolves(game, a)
      <4>1. a \in {SegmentBatch[i] : i \in ok}
        BY DEF BestScored
      <4>2. PICK i \in ok : a = SegmentBatch[i]
        BY <4>1
      <4> QED
        BY <1>2, <4>2
    <3> DEFINE step == PlannedStep(a, Signature(GameStep(game, a), a))
    <3>3. GoodStep(game, step)
      BY <3>2 DEF GoodStep, PlannedStep
    <3> HIDE DEF g
    <3>4. SearchSucceeds(<<step>>)
      BY <1>1, <3>1
    <3> HIDE DEF step
    <3>5. GoodPlan(game, <<step>>)
      BY <3>3, OneStepIsGood
    <3> QED
      BY <1>0, <3>4, <3>5, SucceedsKeeps
  <2> QED
    BY <2>2, <2>3
<1>4. CASE HypothesisSegment
  <2>1. PICK ok \in SUBSET (ToSet(SegmentBatch) \X Hypotheses) :
         IF ViableActions(ok) = {} THEN SearchFails
         ELSE \E a \in BestActions(ok) : SearchSucceeds(<<PlannedStep(a, NoSignature)>>)
    BY <1>4 DEF HypothesisSegment
  <2>2. CASE ViableActions(ok) = {}
    BY <1>0, <2>1, <2>2, FailsAreKept
  <2>3. CASE ViableActions(ok) # {}
    <3>1. PICK a \in BestActions(ok) : SearchSucceeds(<<PlannedStep(a, NoSignature)>>)
      BY <2>1, <2>3
    <3>2. Resolves(game, a)
      BY <1>2, BestAreSampled
    <3>3. GoodPlan(game, <<PlannedStep(a, NoSignature)>>)
      BY <3>2, PlainStep
    <3> QED
      BY <1>0, <3>1, <3>3, SucceedsKeeps
  <2> QED
    BY <2>2, <2>3
<1> QED
  BY <1>3, <1>4

LEMMA SearchFactsHold ==
    ASSUME MainInv, At("search")
    PROVE  SearchFacts(game, search) /\ game \in CombatStates
BY DEF MainInv, MainTypes, SearchInv, SearchFacts

LEMMA BeamFacts ==
    ASSUME MainInv, Expanding
    PROVE  /\ At("search") /\ GoodContext(game, Beam.ctx) /\ ContextState(Beam.ctx) \in CombatStates
           /\ DOMAIN BeamBatch = 1..Len(BeamBatch) /\ Len(BeamBatch) \in Nat
           /\ \A i \in DOMAIN BeamBatch : Resolves(ContextState(Beam.ctx), BeamBatch[i])
           /\ \A a \in ToSet(BeamBatch) : Resolves(ContextState(Beam.ctx), a)
<1>1. At("search") /\ search.todo <= Len(search.active)
  BY DEF Expanding
<1>2. SearchFacts(game, search)
  BY <1>1, SearchFactsHold
<1>3. search.todo \in DOMAIN search.active
  <2>1. search.todo \in Nat \ {0} /\ IsSeq(search.active)
    BY <1>2 DEF SearchFacts
  <2> QED
    BY <1>1, <2>1 DEF IsSeq
<1>4. GoodContext(game, Beam.ctx)
  BY <1>2, <1>3 DEF SearchFacts, Beam
<1>5. ContextState(Beam.ctx) \in CombatStates
  BY <1>4 DEF GoodContext
<1> QED
  BY <1>1, <1>4, <1>5, CandidatesResolve DEF BeamBatch

(* What NextBeam, and then a result, make of the search *)
LEMMA NextBeamFacts ==
    ASSUME NEW g, NEW s, SearchFacts(g, s), NEW t, DOMAIN t = DOMAIN s,
           t.strategy = s.strategy, t.active = s.active, t.todo = s.todo,
           IsSeq(t.expansions), \A i \in DOMAIN t.expansions : GoodExpansion(g, t.expansions[i]),
           \A x \in t.completed : GoodPlan(g, x.path)
    PROVE  SearchFacts(g, NextBeam(t))
<1> DEFINE n == NextBeam(t)
<1>1. /\ DOMAIN n = DOMAIN s /\ n.strategy = s.strategy /\ n.active = s.active /\ n.todo = s.todo + 1
      /\ n.expansions = t.expansions /\ n.completed = t.completed
  BY DEF NextBeam, SearchFacts
<1>2. n.todo \in Nat \ {0}
  BY <1>1 DEF SearchFacts
<1> HIDE DEF n
<1>3. SearchFacts(g, n)
  BY <1>1, <1>2 DEF SearchFacts
<1> QED
  BY <1>3 DEF n

LEMMA PlainRoundKeeps == ASSUME MainInv, PlainRound PROVE MainInv'
<1>0. Expanding /\ UNCHANGED <<game, held, prefix, plan, loop>>
  BY DEF PlainRound
<1>1. /\ At("search") /\ GoodContext(game, Beam.ctx)
      /\ DOMAIN BeamBatch = 1..Len(BeamBatch) /\ Len(BeamBatch) \in Nat
      /\ \A i \in DOMAIN BeamBatch : Resolves(ContextState(Beam.ctx), BeamBatch[i])
  BY <1>0, BeamFacts
<1>2. SearchFacts(game, search)
  BY <1>1, SearchFactsHold
<1>3. PICK ok \in SUBSET DOMAIN BeamBatch :
         search' = NextBeam(
            IF ok # {}
            THEN [search EXCEPT !.viable = TRUE, !.expansions = @ \o
                     [i \in DOMAIN Places(ok, Len(BeamBatch)) |->
                         Expansion(BeamBatch[Places(ok, Len(BeamBatch))[i]])]]
            ELSE IF search.round > 1
            THEN [search EXCEPT !.completed = @ \cup {Completed(Beam.ctx.path, Beam.score)}]
            ELSE search)
  BY DEF PlainRound
<1>4. CASE ok # {}
  <2> DEFINE p == Places(ok, Len(BeamBatch))
             more == [i \in DOMAIN p |-> Expansion(BeamBatch[p[i]])]
             t == [search EXCEPT !.viable = TRUE, !.expansions = @ \o more]
  <2>1. search' = NextBeam(t)
    BY <1>3, <1>4
  <2>2. p \in Seq(ok \cap 1..Len(BeamBatch))
    BY <1>1, PlacesFacts
  <2> HIDE DEF p
  <2>3. DOMAIN p = 1..Len(p) /\ Len(p) \in Nat /\ \A i \in DOMAIN p : p[i] \in DOMAIN BeamBatch
    BY <1>1, <2>2
  <2>4. ASSUME NEW a, Resolves(ContextState(Beam.ctx), a) PROVE GoodExpansion(game, Expansion(a))
    <3> DEFINE x == Expansion(a)
    <3>1. /\ x.ctx = Beam.ctx /\ x.entry.action = a
          /\ x.entry.expected = Signature(GameStep(ContextState(Beam.ctx), a), a)
      BY DEF Expansion, PlannedStep
    <3> HIDE DEF x
    <3>2. GoodExpansion(game, x)
      BY <1>1, <2>4, <3>1 DEF GoodExpansion
    <3> QED
      BY <3>2 DEF x
  <2>5. \A i \in DOMAIN p : GoodExpansion(game, Expansion(BeamBatch[p[i]]))
    BY <1>1, <2>3, <2>4
  <2>6. IsSeq(more) /\ DOMAIN more = DOMAIN p
    <3> DEFINE all == {Expansion(BeamBatch[p[i]]) : i \in DOMAIN p}
    <3>1. more \in Seq(all)
      BY <2>3
    <3> QED
      BY <3>1, IsSeqFacts
  <2>7. \A i \in DOMAIN more : GoodExpansion(game, more[i])
    BY <2>5, <2>6
  <2> HIDE DEF more
  <2>8. /\ DOMAIN t = DOMAIN search /\ t.strategy = search.strategy /\ t.active = search.active
        /\ t.todo = search.todo /\ t.completed = search.completed /\ t.expansions = search.expansions \o more
    BY <1>2 DEF SearchFacts
  <2>9. /\ IsSeq(search.expansions \o more)
        /\ \A i \in DOMAIN (search.expansions \o more) :
              \/ \E j \in DOMAIN search.expansions : (search.expansions \o more)[i] = search.expansions[j]
              \/ \E j \in DOMAIN more : (search.expansions \o more)[i] = more[j]
    <3> DEFINE old == search.expansions
    <3>1. IsSeq(old)
      BY <1>2 DEF SearchFacts
    <3> HIDE DEF old
    <3>2. Joins(old, more, old \o more)
      BY <2>6, <3>1, JoinFacts
    <3> QED
      BY <3>2 DEF old, Joins
  <2> HIDE DEF t
  <2>10. IsSeq(t.expansions) /\ \A i \in DOMAIN t.expansions : GoodExpansion(game, t.expansions[i])
    BY <1>2, <2>7, <2>8, <2>9 DEF SearchFacts
  <2>11. \A x \in t.completed : GoodPlan(game, x.path)
    BY <1>2, <2>8 DEF SearchFacts
  <2>12. SearchFacts(game, search')
    BY <1>2, <2>1, <2>8, <2>10, <2>11, NextBeamFacts
  <2> QED
    BY <1>0, <1>1, <2>12, SearchingKeeps
<1>5. CASE ok = {} /\ search.round > 1
  <2> DEFINE c == Completed(Beam.ctx.path, Beam.score)
             t == [search EXCEPT !.completed = @ \cup {c}]
  <2>1. search' = NextBeam(t)
    BY <1>3, <1>5
  <2>2. c.path = Beam.ctx.path
    BY DEF Completed
  <2>3. GoodPlan(game, c.path)
    BY <1>1, <2>2, PathIsGood
  <2> HIDE DEF c
  <2>4. /\ DOMAIN t = DOMAIN search /\ t.strategy = search.strategy /\ t.active = search.active
        /\ t.todo = search.todo /\ t.completed = search.completed \cup {c} /\ t.expansions = search.expansions
    BY <1>2 DEF SearchFacts
  <2> HIDE DEF t
  <2>5. \A x \in t.completed : GoodPlan(game, x.path)
    BY <1>2, <2>3, <2>4 DEF SearchFacts
  <2>6. IsSeq(t.expansions) /\ \A i \in DOMAIN t.expansions : GoodExpansion(game, t.expansions[i])
    BY <1>2, <2>4 DEF SearchFacts
  <2>7. SearchFacts(game, search')
    BY <1>2, <2>1, <2>4, <2>5, <2>6, NextBeamFacts
  <2> QED
    BY <1>0, <1>1, <2>7, SearchingKeeps
<1>6. CASE ok = {} /\ ~(search.round > 1)
  <2>1. search' = NextBeam(search)
    BY <1>3, <1>6
  <2>2. /\ IsSeq(search.expansions) /\ \A i \in DOMAIN search.expansions : GoodExpansion(game, search.expansions[i])
        /\ \A x \in search.completed : GoodPlan(game, x.path)
    BY <1>2 DEF SearchFacts
  <2>3. SearchFacts(game, search')
    BY <1>2, <2>1, <2>2, NextBeamFacts
  <2> QED
    BY <1>0, <1>1, <2>3, SearchingKeeps
<1> QED
  BY <1>4, <1>5, <1>6

LEMMA HypothesisRoundKeeps == ASSUME MainInv, HypothesisRound PROVE MainInv'
<1>0. Expanding /\ UNCHANGED <<game, held, prefix, plan, loop>>
  BY DEF HypothesisRound
<1>1. /\ At("search") /\ GoodContext(game, Beam.ctx)
      /\ \A a \in ToSet(BeamBatch) : Resolves(ContextState(Beam.ctx), a)
  BY <1>0, BeamFacts
<1>2. SearchFacts(game, search)
  BY <1>1, SearchFactsHold
<1>3. PICK ok \in SUBSET (ToSet(BeamBatch) \X Hypotheses) :
         \E done \in (IF ViableActions(ok) = {} THEN {Completed(Beam.ctx.path, Beam.score)}
                      ELSE {Completed(Append(Beam.ctx.path, PlannedStep(a, NoSignature)),
                                      Beam.score + (AggregateScore(ok, a) \div HypothesisCount)) :
                               a \in BestActions(ok)}) :
           search' = NextBeam([search EXCEPT !.viable = TRUE, !.completed = @ \cup {done}])
  BY DEF HypothesisRound
<1>4. PICK done \in (IF ViableActions(ok) = {} THEN {Completed(Beam.ctx.path, Beam.score)}
                     ELSE {Completed(Append(Beam.ctx.path, PlannedStep(a, NoSignature)),
                                     Beam.score + (AggregateScore(ok, a) \div HypothesisCount)) :
                              a \in BestActions(ok)}) :
           search' = NextBeam([search EXCEPT !.viable = TRUE, !.completed = @ \cup {done}])
  BY <1>3
<1>5. GoodPlan(game, done.path)
  <2>1. CASE ViableActions(ok) = {}
    <3>1. done.path = Beam.ctx.path
      BY <1>4, <2>1 DEF Completed
    <3> QED
      BY <1>1, <3>1, PathIsGood
  <2>2. CASE ViableActions(ok) # {}
    <3>1. PICK a \in BestActions(ok) : done.path = Append(Beam.ctx.path, PlannedStep(a, NoSignature))
      BY <1>4, <2>2 DEF Completed
    <3>2. Resolves(ContextState(Beam.ctx), a)
      BY <1>1, BestAreSampled
    <3>3. GoodStep(ContextState(Beam.ctx), PlannedStep(a, NoSignature))
      BY <3>2 DEF GoodStep, PlannedStep
    <3> QED
      BY <1>1, <3>1, <3>3, PathAndStepIsGood
  <2> QED
    BY <2>1, <2>2
<1> DEFINE t == [search EXCEPT !.viable = TRUE, !.completed = @ \cup {done}]
<1>6. /\ DOMAIN t = DOMAIN search /\ t.strategy = search.strategy /\ t.active = search.active
      /\ t.todo = search.todo /\ t.completed = search.completed \cup {done} /\ t.expansions = search.expansions
  BY <1>2 DEF SearchFacts
<1>7. search' = NextBeam(t)
  BY <1>4
<1> HIDE DEF t
<1>8. \A x \in t.completed : GoodPlan(game, x.path)
  BY <1>2, <1>5, <1>6 DEF SearchFacts
<1>9. IsSeq(t.expansions) /\ \A i \in DOMAIN t.expansions : GoodExpansion(game, t.expansions[i])
  BY <1>2, <1>6 DEF SearchFacts
<1>10. SearchFacts(game, search')
  BY <1>2, <1>6, <1>7, <1>8, <1>9, NextBeamFacts
<1> QED
  BY <1>0, <1>1, <1>10, SearchingKeeps

(* The survivors of a round are among its expansions. *)
LEMMA SurvivorFacts ==
    ASSUME MainInv, RoundOver, NEW kept \in SurvivorChoices
    PROVE  /\ kept \subseteq 1..Len(search.expansions) /\ Len(search.expansions) \in Nat
           /\ \A i \in kept : GoodExpansion(game, search.expansions[i])
           /\ \A x \in RoundCompleted(kept) : GoodPlan(game, x.path)
           /\ IsSeq(NextActive(kept)) /\ \A i \in DOMAIN NextActive(kept) : GoodContext(game, NextActive(kept)[i].ctx)
<1> DEFINE ex == search.expansions
           n == Len(ex)
<1>1. SearchFacts(game, search)
  BY SearchFactsHold DEF RoundOver
<1>2. IsSeq(ex) /\ \A i \in DOMAIN ex : GoodExpansion(game, ex[i])
  BY <1>1 DEF SearchFacts
<1>3. n \in Nat /\ DOMAIN ex = 1..n
  BY <1>2 DEF IsSeq
<1>4. kept \subseteq 1..n
  <2>1. kept \in kSubset(Min({BeamWidth, n}), 1..n)
    BY DEF SurvivorChoices
  <2> QED
    BY <2>1 DEF kSubset
<1>5. \A i \in kept : GoodExpansion(game, ex[i])
  BY <1>2, <1>3, <1>4
<1>6. ASSUME NEW x \in RoundCompleted(kept) PROVE GoodPlan(game, x.path)
  <2>1. PICK i \in kept : x = Completed(Append(ex[i].ctx.path, ex[i].entry), ex[i].score)
    BY DEF RoundCompleted
  <2>2. GoodExpansion(game, ex[i])
    BY <1>5
  <2>3. GoodContext(game, ex[i].ctx) /\ GoodStep(ContextState(ex[i].ctx), ex[i].entry)
    BY <2>2 DEF GoodExpansion, GoodStep
  <2>4. x.path = Append(ex[i].ctx.path, ex[i].entry)
    BY <2>1 DEF Completed
  <2> QED
    BY <2>3, <2>4, PathAndStepIsGood
<1> DEFINE going == {i \in kept : Continues(i)}
           next == Places(going, n)
<1>7. next \in Seq(going \cap 1..n)
  BY <1>3, PlacesFacts
<1>8. NextActive(kept) = [k \in DOMAIN next |-> BeamEntry(ChildContext(ex[next[k]].ctx, ex[next[k]].entry), ex[next[k]].score)]
  BY DEF NextActive
<1> HIDE DEF next
<1>9. DOMAIN next = 1..Len(next) /\ Len(next) \in Nat /\ \A k \in DOMAIN next : next[k] \in kept
  <2>1. \A i \in going \cap 1..n : i \in kept
    OBVIOUS
  <2> DEFINE S == going \cap 1..n
  <2> HIDE DEF S
  <2>2. next \in Seq(S) /\ \A i \in S : i \in kept
    BY <1>7, <2>1 DEF S
  <2> QED
    BY <2>2
<1> DEFINE Entry(k) == BeamEntry(ChildContext(ex[next[k]].ctx, ex[next[k]].entry), ex[next[k]].score)
           active == [k \in DOMAIN next |-> Entry(k)]
<1>10. \A k \in DOMAIN next : GoodContext(game, Entry(k).ctx)
  <2> SUFFICES ASSUME NEW k \in DOMAIN next PROVE GoodContext(game, Entry(k).ctx)
    OBVIOUS
  <2>1. GoodExpansion(game, ex[next[k]])
    BY <1>5, <1>9
  <2>2. GoodContext(game, ChildContext(ex[next[k]].ctx, ex[next[k]].entry))
    BY <2>1, ChildIsGood
  <2> QED
    BY <2>2 DEF BeamEntry
<1> HIDE DEF Entry
<1>11. IsSeq(active) /\ \A k \in DOMAIN active : GoodContext(game, active[k].ctx)
  <2> DEFINE all == {Entry(k) : k \in DOMAIN next}
  <2>1. active \in Seq(all)
    BY <1>9
  <2> QED
    BY <1>10, <2>1, IsSeqFacts
<1>12. NextActive(kept) = active
  BY <1>8 DEF Entry
<1> QED
  BY <1>3, <1>4, <1>5, <1>6, <1>11, <1>12

LEMMA RoundEndsKeeps == ASSUME MainInv, RoundEnds PROVE MainInv'
<1>0. RoundOver /\ At("search") /\ search.strategy = "beam" /\ UNCHANGED <<game, held, prefix, plan, loop>>
  BY DEF RoundEnds, RoundOver
<1>1. SearchFacts(game, search)
  BY <1>0, SearchFactsHold
<1>2. PICK kept \in SurvivorChoices :
         search' = [search EXCEPT !.active = NextActive(kept), !.todo = 1, !.round = @ + 1,
                          !.expansions = <<>>, !.completed = @ \cup RoundCompleted(kept)]
  BY DEF RoundEnds
<1>3. /\ \A x \in RoundCompleted(kept) : GoodPlan(game, x.path)
      /\ IsSeq(NextActive(kept)) /\ \A i \in DOMAIN NextActive(kept) : GoodContext(game, NextActive(kept)[i].ctx)
  BY <1>0, SurvivorFacts
<1> DEFINE s == search'
           active == NextActive(kept)
           over == RoundCompleted(kept)
<1> HIDE DEF active, over
<1>4. /\ DOMAIN s = DOMAIN search /\ s.strategy = "beam" /\ s.active = active /\ s.todo = 1
      /\ s.expansions = <<>> /\ s.completed = search.completed \cup over
  BY <1>0, <1>1, <1>2 DEF SearchFacts, active, over
<1> HIDE DEF s
<1>5. SearchFacts(game, s)
  BY <1>1, <1>3, <1>4, EmptyIsSeq DEF SearchFacts, active, over
<1> QED
  BY <1>0, <1>5, SearchingKeeps DEF s

LEMMA BeamEndsKeeps == ASSUME MainInv, BeamEnds PROVE MainInv'
<1>0. RoundOver /\ At("search") /\ UNCHANGED <<game, held, prefix>>
  BY DEF BeamEnds, RoundOver
<1>1. SearchFacts(game, search)
  BY <1>0, SearchFactsHold
<1>2. PICK kept \in SurvivorChoices :
         LET all == search.completed \cup ExhaustedActive \cup RoundCompleted(kept) IN
         IF ~search.viable \/ all = {} THEN SearchFails ELSE \E x \in BestCompleted(all) : SearchSucceeds(x.path)
  BY DEF BeamEnds
<1> DEFINE all == search.completed \cup ExhaustedActive \cup RoundCompleted(kept)
<1>3. CASE SearchFails
  BY <1>0, <1>3, FailsAreKept
<1>4. CASE \E x \in BestCompleted(all) : SearchSucceeds(x.path)
  <2>1. PICK x \in all : SearchSucceeds(x.path)
    BY <1>4 DEF BestCompleted
  <2>2. GoodPlan(game, x.path)
    <3>1. CASE x \in search.completed
      BY <1>1, <3>1 DEF SearchFacts
    <3>2. CASE x \in RoundCompleted(kept)
      BY <1>0, <3>2, SurvivorFacts
    <3>3. CASE x \in ExhaustedActive
      <4>1. PICK b \in ToSet(search.active) : x = Completed(b.ctx.path, b.score)
        BY <3>3 DEF ExhaustedActive
      <4>2. GoodContext(game, b.ctx)
        BY <1>1, <4>1 DEF SearchFacts, ToSet
      <4>3. x.path = b.ctx.path
        BY <4>1 DEF Completed
      <4> QED
        BY <4>2, <4>3, PathIsGood
    <3> QED
      BY <2>1, <3>1, <3>2, <3>3
  <2> QED
    BY <1>0, <2>1, <2>2, SucceedsKeeps
<1> QED
  BY <1>2, <1>3, <1>4

LEMMA BackToBoundary ==
    ASSUME MainInv, plan' = <<>>, loop' = [loop EXCEPT !.pc = "boundary"], UNCHANGED <<game, held, prefix>>
    PROVE  MainInv'
<1>1. loop'.pc = "boundary" /\ loop'.start = loop.start
  BY LoopMoves DEF MainInv
<1>2. MainTypes'
  BY DEF MainInv, MainTypes
<1>3. ReplayInv'
  BY <1>1 DEF MainInv, ReplayInv, Root
<1> QED
  BY <1>1, <1>2, <1>3 DEF MainInv, BoundaryInv, SearchInv, PlanInv, At

LEMMA StepsKeeps == ASSUME MainInv, Steps PROVE MainInv'
<1> DEFINE a == Step.action
           next == GameStep(game, a)
           goesOn == Matches(next) /\ Boundary(next) # "terminal"
           pc == IF goesOn THEN "exec" ELSE "boundary"
           entry == Transition(next)
<1>0. /\ At("exec") /\ plan # <<>> /\ Resolves(game, a) /\ game' = next
      /\ plan' = IF Matches(next) THEN Tail(plan) ELSE <<>>
      /\ IF goesOn /\ Boundary(next) = "stable" THEN CaptureStable(next)
         ELSE prefix' = Append(prefix, entry) /\ UNCHANGED held
      /\ loop' = [loop EXCEPT !.pc = pc]
  BY DEF Steps
<1>1. game \in CombatStates /\ next \in CombatStates /\ next # None /\ MainTypes
  <2>1. game \in CombatStates /\ MainTypes
    BY DEF MainInv, MainTypes
  <2>2. next \in CombatStates
    BY <1>0, <2>1, GameStepFacts
  <2> QED
    BY <2>1, <2>2, CombatFields
<1>2. loop'.pc = pc /\ loop'.start = loop.start /\ loop'.source = loop.source
  <2> HIDE DEF pc
  <2> QED
    BY <1>0, <1>1, LoopMoves
<1>3. entry.action = a /\ entry.expected = Signature(next, a)
  BY DEF Transition
<1>4. pc \in {"boundary", "exec"}
  OBVIOUS
<1>5. PlanInv'
  <2> SUFFICES ASSUME loop'.pc = "exec", loop'.source = "own" PROVE GoodPlan(next, plan')
    BY <1>0 DEF PlanInv, At
  <2>1. goesOn
    BY <1>2
  <2>2. GoodPlan(game, plan)
    BY <1>0, <1>2 DEF MainInv, PlanInv
  <2>3. GoodPlan(next, Tail(plan))
    BY <1>0, <2>2, PlanUnfolds DEF Step
  <2> QED
    BY <1>0, <2>1, <2>3
<1>6. BoundaryInv'
  <2>1. loop'.pc # "route"
    BY <1>2, <1>4
  <2>2. ASSUME loop'.pc = "boundary" PROVE plan' = <<>> \/ Boundary(next) = "terminal"
    <3>1. ~goesOn
      BY <1>2, <2>2
    <3> QED
      BY <1>0, <3>1
  <2> QED
    BY <1>0, <2>1, <2>2 DEF BoundaryInv, At
<1>7. SearchInv'
  BY <1>2, <1>4 DEF SearchInv, At
<1>8. loop' \in [pc : {"boundary", "route", "search", "exec", "ended"},
                 outcome : {"none", "terminal", "aborted", "fault", "raised"},
                 iterations : Nat, start : CombatStates \cup {None}, source : {"own", "injected"}]
  <2> HIDE DEF pc
  <2> QED
    BY <1>0, <1>1, <1>4 DEF MainTypes
<1>9. MainTypes' /\ ReplayInv'
  <2>1. CASE goesOn /\ Boundary(next) = "stable"
    <3>1. held' = next /\ prefix' = <<>>
      BY <1>0, <2>1 DEF CaptureStable
    <3>2. Replay(next, <<>>) = Here(next)
      BY ReplayNothing DEF Here
    <3> HIDE DEF next
    <3>3. MainTypes'
      BY <1>0, <1>1, <1>8, <2>1, <3>1, EmptyIsSeq DEF MainTypes
    <3>4. ReplayInv'
      BY <1>0, <1>1, <3>1, <3>2 DEF ReplayInv, Root
    <3> QED
      BY <3>3, <3>4
  <2>2. CASE ~(goesOn /\ Boundary(next) = "stable")
    <3>1. prefix' = Append(prefix, entry) /\ held' = held
      BY <1>0, <2>2
    <3>2. IsSeq(prefix)
      BY <1>1 DEF MainTypes
    <3> DEFINE root == Root
    <3>3. Root' = root
      BY <1>2, <3>1 DEF Root
    <3>4. ASSUME root # None PROVE Replay(root, Append(prefix, entry)) = Here(next)
      <4>1. Replay(root, prefix) = Here(game)
        BY <3>4 DEF MainInv, ReplayInv
      <4> HIDE DEF entry, root
      <4>2. Replay(root, Append(prefix, entry)) = ReplayOne(Here(game), entry)
        BY <3>2, <4>1, ReplayAppend DEF IsSeq
      <4>3. ReplayOne(Here(game), entry) = Here(next)
        BY <1>0, <1>3, ReplayOneMatches
      <4> QED
        BY <4>2, <4>3
    <3>5. IsSeq(Append(prefix, entry))
      <4> HIDE DEF entry
      <4> QED
        BY <3>2, AppendFacts
    <3> HIDE DEF next, entry, root
    <3>6. MainTypes'
      BY <1>0, <1>1, <1>8, <3>1, <3>5 DEF MainTypes
    <3>7. ReplayInv'
      BY <1>0, <3>1, <3>3, <3>4 DEF ReplayInv
    <3> QED
      BY <3>6, <3>7
  <2> QED
    BY <2>1, <2>2
<1> QED
  BY <1>5, <1>6, <1>7, <1>9 DEF MainInv

LEMMA MainStepKeeps == MainInv /\ [Next]_vars => MainInv'
<1> SUFFICES ASSUME MainInv, [Next]_vars PROVE MainInv'
  OBVIOUS
<1>1. CASE UNCHANGED vars
  BY <1>1 DEF vars, MainInv, MainTypes, ReplayInv, Root, BoundaryInv, SearchInv, PlanInv, At
<1>2. CASE ReachesTerminal \/ ExceedsIterations \/ RouteSearchRefused
  BY <1>2, EndsKeeps DEF ReachesTerminal, ExceedsIterations, RouteSearchRefused
<1>3. CASE Decides
  BY <1>3, DecidesKeeps
<1>4. CASE RouteDirect \/ RoutePendingStatic \/ RouteInjected
  BY <1>4, RouteKeeps
<1>5. CASE Searches
  <2>1. CASE \E strategy \in {"segment", "beam"} : RouteSearch(strategy)
    BY <2>1, RouteSearchKeeps
  <2>2. CASE PlainSegment \/ HypothesisSegment
    BY <2>2, SegmentKeeps
  <2> QED
    BY <1>5, <2>1, <2>2, PlainRoundKeeps, HypothesisRoundKeeps, RoundEndsKeeps, BeamEndsKeeps DEF Searches
<1>6. CASE Executing
  <2>1. CASE Discards
    BY <2>1, BackToBoundary DEF Discards
  <2>2. CASE StepRaises
    <3> DEFINE o == IF engine = "main" THEN "fault" ELSE "raised"
    <3>1. Ends(o) /\ UNCHANGED <<game, held, prefix>>
      BY <2>2 DEF StepRaises
    <3>2. o \in {"none", "terminal", "aborted", "fault", "raised"}
      OBVIOUS
    <3> HIDE DEF o
    <3> QED
      BY <3>1, <3>2, EndsKeeps
  <2>3. CASE Steps
    BY <2>3, StepsKeeps
  <2>4. CASE SequenceExhausted
    BY <2>4, BackToBoundary DEF SequenceExhausted
  <2> QED
    BY <1>6, <2>1, <2>2, <2>3, <2>4 DEF Executing
<1> QED
  BY <1>1, <1>2, <1>3, <1>4, <1>5, <1>6 DEF Next

(* The Main loop's invariant: its types, what a replay of the prefix gives, *)
(* and what every context, beam and plan in hand leads to                  *)
(* (main_loop.py run_until_terminal_or_fault with both search strategies). *)
THEOREM MainInvariance == Spec => []MainInv
<1> QED
  BY MainInitInv, MainStepKeeps, PTL DEF Spec

(* PrefixReplaysToMain for every deck, every combat and every width: the   *)
(* root may be restored, and replaying the prefix on it reaches Main's own *)
(* state with every signature matching (main_loop.py _capture_stable and   *)
(* APPEND_RECORD, decision_context.py replay_decision_context).            *)
THEOREM MainCanBeRestored == Spec => []PrefixReplaysToMain
<1>1. MainInv => PrefixReplaysToMain
  <2> SUFFICES ASSUME MainInv, Root # None
               PROVE  RestoreEligible(Root) /\ ~Replay(Root, prefix).mismatch /\ Replay(Root, prefix).state = game
    BY DEF PrefixReplaysToMain
  <2>1. Replay(Root, prefix) = Here(game)
    BY DEF MainInv, ReplayInv
  <2>2. RestoreEligible(Root)
    BY DEF MainInv, MainTypes, RestoreEligible, Root
  <2> QED
    BY <2>1, <2>2, HereShape
<1> QED
  BY <1>1, MainInvariance, PTL

(* PlansComeTrue for every deck, combat, width and number of rounds: a     *)
(* step of a plan that a strategy built still resolves when its turn comes *)
(* on Main, and meets the signature it carries (multi_round_search.py,     *)
(* search_coordinator.py, main_loop.py VERIFY_TRANSITION).                 *)
THEOREM PlansHold == Spec => []PlansComeTrue
<1>1. MainInv => PlansComeTrue
  <2> SUFFICES ASSUME MainInv, At("exec"), plan # <<>>, loop.source = "own"
               PROVE  Resolves(game, Step.action) /\ Matches(GameStep(game, Step.action))
    BY DEF PlansComeTrue
  <2>1. GoodPlan(game, plan)
    BY DEF MainInv, PlanInv
  <2>2. GoodStep(game, Step)
    BY <2>1, PlanUnfolds DEF Step
  <2> QED
    BY <2>2 DEF GoodStep, Matches
<1> QED
  BY <1>1, MainInvariance, PTL

(* DecisionLoops, which the run checks, never leaves CombatMainLoop        *)
(* either: the theorems of the Main loop hold for it.                      *)
THEOREM LoopsKeepTheMainLoop == LoopsSpec => Spec
<1>1. LoopsInit => Init
  BY DEF LoopsInit
<1>2. [LoopsNext]_loopsVars => [Next]_vars
  BY DEF LoopsNext, loopsVars, vars
<1> QED
  BY <1>1, <1>2, PTL DEF LoopsSpec, Spec
=============================================================================
