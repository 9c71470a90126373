-------------------------- MODULE CombatDataProofs --------------------------
(***************************************************************************)
(* Proofs about what produces combat data: LiveCombat, CombatEpisode,      *)
(* TrajectoryBatch and FloorReconstruction in the composition CombatData,  *)
(* for any scenarios, snapshots, manifests and numbers of decisions, kills *)
(* and resumes, and for runs of any length.                                *)
(*                                                                         *)
(* A committed step is the decision because a frame stands for one board:  *)
(* FrameInv says that a session whose frame the game reports retains the   *)
(* very board the game shows, and that no session is ahead of the game on  *)
(* one combat.  Whatever an emulator does to the game in between, it ends  *)
(* on a frame no session holds (Reaches), and the session restores.        *)
(* EpisodeInv carries the board of the session through an episode: it is   *)
(* where the last recorded decision ended.  BatchInv says how far the      *)
(* write loop got: which lines of the current scenario are on disk, and    *)
(* that a scenario of this invocation has a row exactly when the loop is   *)
(* past it.                                                                *)
(*                                                                         *)
(* FloorInv compares the replay of a run with the player it was recorded   *)
(* from.  While no warning says a card was not found, the player has what  *)
(* the replayed state has and the lists of the current point add, card by  *)
(* card id and potion by potion: a sum, which no order of the events and   *)
(* no choice among the copies of a card changes.  Upgrades and relics do   *)
(* depend on the order, and are carried by the second half of it, under    *)
(* SettledBy: no earlier point mixes two kinds of events, and no card id   *)
(* that was removed or transformed away comes from two floors.             *)
(***************************************************************************)
EXTENDS CombatData, FiniteSetTheorems, FunctionTheorems, WellFoundedInduction, TLAPS

FrameRec == [sid : Nat, step : Nat]
StateRec == [frame : FrameRec, board : Boards, turn : Nat]
SessionRec == [leased : BOOLEAN, faulted : BOOLEAN, state : StateRec]
EngineRec ==
    {e \in [sid : Nat, step : Nat, board : Boards, faulted : BOOLEAN] :
        e.sid = 0 => e.board = NoBoard /\ e.step = 0}
CommitRec ==
    [before : Boards, action : Actions \cup {"none"}, after : Boards, resynced : BOOLEAN]

Arms == {"batch", "policy", "heuristic_baseline", "choice_policy", "heuristic_choice"}
DecisionRec == [turn : Nat, before : Boards, action : Actions, after : Boards]
EpisodePhases ==
    {"idle", "preflight", "adopt", "loop", "decide", "commit", "done", "quarantined", "raised"}
Reasons ==
    {"none", "mismatch", "unsupported_pending_choice", "cycle_detected", "time_budget",
     "no_legal_actions", "heuristic_exception", "step_exception", "decider_exception",
     "illegal_action_selected", "no_progress"}
EpisodeRec ==
    [pc : EpisodePhases, scen : Scenarios \cup {"none"}, arm : Arms \cup {"none"}, base : StateRec,
     decisions : Seq(DecisionRec), chosen : Actions \cup {"none"}, reason : Reasons]

Statuses == {"ok", "quarantined"}
PayloadRec == [scen : Scenarios, status : Statuses, decisions : Nat, events : BOOLEAN]
RowRec == [scen : Scenarios, attempt : Nat, status : Statuses, decisions : Nat]
StageNames == {"record", "meta", "quality", "row", "events"}
BatchPhases == {"idle", "execute", "write", "rerun", "ended", "raised", "killed"}
BatchRec ==
    [pc : BatchPhases, attempt : Nat, pending : SUBSET Scenarios, payloads : SUBSET PayloadRec,
     at : Nat \ {0}, stage : StageNames, line : Nat, sample : SUBSET DOMAIN Manifest]
Tags == Scenarios \X Nat \X Nat
Results == {"whole", "open", "broken"}
DiskRec ==
    [lines : [Files -> SUBSET Tags], joined : [Files -> SUBSET Tags], torn : SUBSET Files,
     rows : Seq(RowRec), results : Results, summary : BOOLEAN]

LiveTypes ==
    /\ engine \in EngineRec
    /\ session \in [SessionIds -> SessionRec]
    /\ committed \in CommitRec

(* A frame stands for one board.                                           *)
FrameInv ==
    \A k \in SessionIds :
        ~engine.faulted /\ Frame(k).sid = engine.sid =>
            /\ Frame(k).step <= engine.step
            /\ Frame(k).step = engine.step => session[k].state.board = engine.board

LiveInv == LiveTypes /\ FrameInv /\ CommittedStepIsTheDecision

Opened(c) == [hp |-> Opening[c], prompt |-> "none"]
Reached(e) == IF e.decisions = <<>> THEN Opened(e.scen) ELSE Last(e.decisions).after
Playing == {"loop", "decide", "commit", "done"}

(* The decisions so far are one play.                                      *)
OnePlay(c, ds) ==
    \A i \in DOMAIN ds :
        /\ ds[i].before = IF i = 1 THEN Opened(c) ELSE ds[i - 1].after
        /\ ds[i].after \in PlayedOut(ds[i].before, ds[i].action)
        /\ ds[i].after.prompt = "none"
        /\ ds[i].action = "end" => (i < Len(ds) => ds[i + 1].turn = ds[i].turn + 1)

(* The session of an episode stands where its last decision ended.         *)
StandsAtTheEnd(e, st) ==
    /\ st.board = Reached(e) /\ st.board.prompt = "none"
    /\ e.decisions # <<>> /\ Last(e.decisions).action = "end" =>
          st.turn = Last(e.decisions).turn + 1

EpisodeInv ==
    /\ ep \in EpisodeRec
    /\ mode \in {"reconstruct", "clients"} => ep.pc = "idle"
    /\ ep.pc # "idle" => ep.scen \in Scenarios /\ ep.arm \in Arms
    /\ ep.pc \notin Playing => ep.decisions = <<>>
    /\ ep.pc \in Playing \cup {"adopt"} => ep.base.board = Opened(ep.scen)
    /\ ep.pc \in Playing => StandsAtTheEnd(ep, BattleStateOf(ep))
    /\ ep.pc = "commit" => ep.chosen \in LegalActions(BattleStateOf(ep).board)
    /\ OnePlay(ep.scen, ep.decisions)

(* The lines of the row r.                                                 *)
Tag(r, k) == <<r.scen, r.attempt, k>>
HasDecisions(r, n) == \A k \in 1..n : Tag(r, k) \in disk.lines["trajectories"]
HasRecord(r) ==
    IF r.status = "ok" THEN HasDecisions(r, r.decisions) ELSE Tag(r, 1) \in disk.lines["quarantine"]
HasMeta(r) == r.status = "ok" => Tag(r, 1) \in disk.lines["trajectory_meta"]
HasQuality(r) == Tag(r, 1) \in disk.lines["trajectory_quality"]
RowsAreBacked ==
    \A i \in DOMAIN disk.rows : HasRecord(disk.rows[i]) /\ HasMeta(disk.rows[i]) /\ HasQuality(disk.rows[i])
RowsAreSingle ==
    \A i, j \in DOMAIN disk.rows : disk.rows[i].scen = disk.rows[j].scen => i = j
HasRow(c) == RowOf(c) # {}

OnePayloadEach ==
    /\ \A p \in batch.payloads : p.scen \in batch.pending
    /\ \A p, q \in batch.payloads : p.scen = q.scen => p = q

(* Which lines of the current scenario were written.                       *)
LinesSoFar ==
    LET r == Row(Current) IN
    /\ batch.stage = "record" => HasDecisions(r, batch.line)
    /\ batch.stage # "record" => HasRecord(r)
    /\ batch.stage \notin {"record", "meta"} => HasMeta(r)
    /\ batch.stage \notin {"record", "meta", "quality"} => HasQuality(r)

Behind(i) == i < batch.at \/ (i = batch.at /\ batch.stage = "events")

Stopped == {"killed", "raised", "ended"}

BatchInv ==
    /\ batch \in BatchRec
    /\ disk \in DiskRec
    /\ RowsAreBacked
    /\ RowsAreSingle
    /\ disk.summary => \A c \in Scenarios : HasRow(c)
    /\ mode # "batch" => batch.pc = "idle"
    /\ batch.pc = "idle" => disk.rows = <<>>
    /\ batch.pc \in Stopped => ep.pc = "idle"
    /\ batch.pc \in {"execute", "write"} =>
         /\ OnePayloadEach
         /\ \A c \in Scenarios \ batch.pending : HasRow(c)
    /\ batch.pc = "execute" =>
         /\ batch.stage = "record" /\ batch.line = 0
         /\ \A c \in batch.pending : ~HasRow(c)
         /\ ep.pc # "idle" => ep.scen \in Unfinished
    /\ batch.pc = "write" =>
         /\ Unfinished = {}
         /\ \A i \in DOMAIN Manifest : Manifest[i] \in batch.pending => (HasRow(Manifest[i]) <=> Behind(i))
         /\ batch.at <= Len(Manifest) => Manifest[batch.at] \in batch.pending /\ LinesSoFar
    /\ batch.pc \in {"rerun", "ended"} => \A c \in Scenarios : HasRow(c)

(* A fragment was left by an earlier invocation, and what the one that     *)
(* runs joined to a fragment is one line.                                  *)
JoinInv ==
    /\ batch.pc = "idle" => disk.torn = {} /\ \A f \in Files : disk.joined[f] = {}
    /\ batch.pc # "idle" => batch.attempt >= 1
    /\ \A f \in Files : \A s \in disk.joined[f] : s[2] > 1 /\ s[2] <= batch.attempt
    /\ \A f \in Files : \A s, t \in disk.joined[f] : s[2] = t[2] => s = t
    /\ batch.pc # "killed" => \A f \in disk.torn :
         batch.attempt > 1 /\ \A s \in disk.joined[f] : s[2] < batch.attempt

EvalRec ==
    [pc : {"idle", "next", "first", "second", "write", "raised"}, at : Nat \ {0},
     pair : ArmPairs \cup {<<>>}, quarantined : BOOLEAN]

EvalInv ==
    /\ eval \in EvalRec
    /\ mode = "eval" => eval.pair \in ArmPairs
    /\ eval.pc \in {"first", "second"} => mode = "eval"

IInv == LiveInv /\ EpisodeInv /\ BatchInv /\ JoinInv /\ EvalInv

-----------------------------------------------------------------------------
(***************************************************************************)
(* Induction, from the well-foundedness of < on the natural numbers: a     *)
(* non-empty set has a least element, and a set that holds 0 and every     *)
(* successor holds all.  The recursive function of the continuation loop   *)
(* needs both.                                                             *)
(***************************************************************************)
LEMMA LeastOf ==
    ASSUME NEW T, T \subseteq Nat, T # {}
    PROVE  \E m \in T : \A k \in T : m <= k
<1> DEFINE R == OpToRel(<, Nat)
<1>1. IsWellFoundedOn(R, Nat)
  BY NatLessThanWellFounded
<1>2. \A x, y \in Nat : y < x => <<y, x>> \in R
  BY DEF OpToRel
<1> HIDE DEF R
<1>3. PICK x \in T : \A y \in T : ~(<<y, x>> \in R)
  BY <1>1, WFMin
<1>4. \A y \in T : ~(y < x)
  BY <1>2, <1>3
<1>5. \A y \in T : x <= y
  BY <1>4
<1> QED
  BY <1>5

LEMMA SetInduction ==
    ASSUME NEW S, 0 \in S, \A n \in Nat : n \in S => n + 1 \in S
    PROVE  \A n \in Nat : n \in S
<1> SUFFICES ASSUME NEW n \in Nat, n \notin S PROVE FALSE
  OBVIOUS
<1> DEFINE T == Nat \ S
<1>1. PICK m \in T : \A k \in T : m <= k
  BY LeastOf
<1>2. m # 0 /\ m - 1 \in Nat /\ m - 1 \notin T
  BY <1>1
<1>3. m - 1 \in S
  BY <1>2
<1>4. (m - 1) + 1 \in S /\ (m - 1) + 1 = m
  BY <1>2, <1>3
<1> QED
  BY <1>4

-----------------------------------------------------------------------------
(***************************************************************************)
(* The game: what an operation of the emulator can leave behind.           *)
(***************************************************************************)

(* The ids sessions hold are finitely many, so there is a fresh one.       *)
LEMMA FreshIdIsFresh ==
    ASSUME NEW held, IsFiniteSet(held), held \subseteq Nat, NEW e, e.sid \in Nat
    PROVE  /\ FreshId(e, held) \in Nat \ {0}
           /\ FreshId(e, held) \notin held \cup {e.sid}
<1> DEFINE used == held \cup {e.sid}
           T == (1..(Cardinality(held) + 2)) \ used
<1>0. Cardinality(held) \in Nat
  BY FS_CardinalityType
<1>1. IsFiniteSet(used) /\ Cardinality(used) <= Cardinality(held) + 1 /\ Cardinality(held) \in Nat
  <2> DEFINE x == e.sid
  <2> HIDE DEF x
  <2>1. /\ IsFiniteSet(held \cup {x})
        /\ Cardinality(held \cup {x}) = IF x \in held THEN Cardinality(held) ELSE Cardinality(held) + 1
    BY FS_AddElement
  <2>2. IsFiniteSet(held \cup {x}) /\ Cardinality(held \cup {x}) <= Cardinality(held) + 1
    BY <1>0, <2>1
  <2> QED
    BY <1>0, <2>2 DEF x
<1>2. IsFiniteSet(1..(Cardinality(held) + 2)) /\ Cardinality(1..(Cardinality(held) + 2)) = Cardinality(held) + 2
  <2> DEFINE n == Cardinality(held) + 2
  <2>1. n \in Nat /\ 1 \in Int /\ n \in Int /\ ~(1 > n) /\ n - 1 + 1 = n
    BY <1>0
  <2> HIDE DEF n
  <2>2. IsFiniteSet(1..n) /\ Cardinality(1..n) = IF 1 > n THEN 0 ELSE n - 1 + 1
    BY <2>1, FS_Interval
  <2>3. IsFiniteSet(1..n) /\ Cardinality(1..n) = n
    BY <2>1, <2>2
  <2> QED
    BY <2>3 DEF n
<1>3. T # {}
  <2>1. SUFFICES ASSUME T = {} PROVE FALSE
    OBVIOUS
  <2>2. 1..(Cardinality(held) + 2) \subseteq used
    BY <2>1
  <2>3. Cardinality(1..(Cardinality(held) + 2)) <= Cardinality(used)
    BY <1>1, <2>2, FS_Subset
  <2>4. Cardinality(used) \in Nat
    BY <1>1, FS_CardinalityType
  <2> QED
    BY <1>1, <1>2, <2>3, <2>4
<1>4. PICK m \in T : \A j \in T : m <= j
  <2>1. T \subseteq Nat
    BY <1>0
  <2> HIDE DEF T
  <2> QED
    BY <1>3, <2>1, LeastOf
<1>5. \A j \in 1..(m - 1) : j \in used
  BY <1>1, <1>4
<1>6. \E i \in 1..(Cardinality(held) + 2) : i \notin used /\ \A j \in 1..(i - 1) : j \in used
  BY <1>4, <1>5
<1>7. FreshId(e, held) \in 1..(Cardinality(held) + 2) /\ FreshId(e, held) \notin used
  BY <1>6 DEF FreshId
<1> QED
  BY <1>1, <1>7

(* What the engine may become while every session keeps its frame: nothing *)
(* of it, a fault, a combat nobody holds a frame of, or a later step of    *)
(* the same combat.                                                        *)
Reaches(held, e, f) ==
    /\ f \in EngineRec
    /\ \/ f = e
       \/ f.faulted
       \/ f.sid \notin held \cup {0}
       \/ ~e.faulted /\ f.sid = e.sid /\ f.step > e.step

Safe(held, e, outcomes) == \A r \in outcomes : Reaches(held, e, r.engine)

LEMMA ReachesTransitive ==
    ASSUME NEW held, NEW e \in EngineRec, NEW f, NEW g, Reaches(held, e, f), Reaches(held, f, g)
    PROVE  Reaches(held, e, g)
<1>1. f \in EngineRec /\ g \in EngineRec
  BY DEF Reaches
<1>2. e.step \in Nat /\ f.step \in Nat /\ g.step \in Nat
  BY <1>1 DEF EngineRec
<1> QED
  BY <1>1, <1>2 DEF Reaches

LEMMA ReachesSelf ==
    ASSUME NEW held, NEW e \in EngineRec
    PROVE  Reaches(held, e, e)
BY DEF Reaches

Held(held) == IsFiniteSet(held) /\ held \subseteq Nat

LEMMA HeldIdsHeld ==
    ASSUME session \in [SessionIds -> SessionRec]
    PROVE  Held(HeldIds)
<1>1. \A k \in SessionIds : session[k].state.frame.sid \in Nat
  BY DEF SessionRec, StateRec, FrameRec
<1>2. HeldIds = {session[1].state.frame.sid} \cup {session[2].state.frame.sid}
  BY DEF HeldIds, SessionIds
<1>3. IsFiniteSet(HeldIds)
  BY <1>2, FS_AddElement, FS_Singleton
<1> QED
  BY <1>1, <1>3 DEF Held, HeldIds

LEMMA ResetsEffects ==
    ASSUME NEW held, Held(held), NEW e \in EngineRec, NEW b \in Boards, NEW step \in Nat
    PROVE  /\ Safe(held, e, Resets(e, held, b, step))
           /\ \A r \in Resets(e, held, b, step) : r.how = "ok" =>
                /\ r.engine.board = b /\ r.engine.step = step /\ ~r.engine.faulted
                /\ r.engine.sid \notin held \cup {0}
<1> DEFINE i == FreshId(e, held)
           f == [sid |-> i, step |-> step, board |-> b, faulted |-> FALSE]
<1>1. i \in Nat \ {0} /\ i \notin held
  BY FreshIdIsFresh DEF Held, EngineRec
<1>2. Resets(e, held, b, step) = {Outcome("ok", f), Outcome("quiescent", f), Outcome("error", e)}
  BY DEF Resets
<1> HIDE DEF i
<1>3. f \in EngineRec
  BY <1>1 DEF EngineRec
<1>4. Reaches(held, e, f) /\ Reaches(held, e, e)
  BY <1>1, <1>3 DEF Reaches
<1>5. f.board = b /\ f.step = step /\ ~f.faulted /\ f.sid \notin held \cup {0}
  BY <1>1
<1> HIDE DEF f
<1> QED
  BY <1>2, <1>4, <1>5 DEF Safe, Outcome

LEMMA EffectsTyped ==
    ASSUME NEW b \in Boards, NEW p \in LegalActions(b), NEW c \in Effects(b, p)
    PROVE  c \in Boards
<1>1. b.hp \in Nat \ {0}
  BY DEF LegalActions, Boards
<1>2. b.prompt \in {"none", "choice", "target"}
  BY DEF Boards
<1> QED
  BY <1>1, <1>2 DEF LegalActions, Effects, Boards

LEMMA FaultedTyped ==
    ASSUME NEW e \in EngineRec
    PROVE  Faulted(e) \in EngineRec /\ Faulted(e).faulted
BY DEF Faulted, EngineRec, NoBoard, Boards

(* GameInstance.Step: an outcome that is ok played one legal action.       *)
LEMMA EngineStepEffects ==
    ASSUME NEW held, NEW e \in EngineRec, NEW a, NEW r \in EngineStep(e, a)
    PROVE  /\ Reaches(held, e, r.engine)
           /\ r.how = "ok" =>
                /\ ~e.faulted /\ ~r.engine.faulted /\ r.engine.sid = e.sid
                /\ \E p \in Played(e.board, a) : r.engine.board \in Effects(e.board, p)
<1>1. CASE e.faulted
  BY <1>1, ReachesSelf DEF EngineStep, Outcome
<1>2. CASE ~e.faulted
  <2> DEFINE After == {[e EXCEPT !.board = b, !.step = @ + 1] :
                         b \in UNION {Effects(e.board, p) : p \in Played(e.board, a)}}
  <2>1. r \in {Outcome("ok", f) : f \in After} \cup {Outcome("quiescent", f) : f \in After}
               \cup {Outcome("fault", Faulted(e))} \cup {Outcome("error", e)}
    BY <1>2 DEF EngineStep
  <2>2. ASSUME NEW f \in After
        PROVE  /\ Reaches(held, e, f) /\ ~f.faulted /\ f.sid = e.sid
               /\ \E p \in Played(e.board, a) : f.board \in Effects(e.board, p)
    <3>0. PICK c \in UNION {Effects(e.board, p) : p \in Played(e.board, a)} :
              f = [e EXCEPT !.board = c, !.step = @ + 1]
      BY <2>2
    <3>1. PICK p \in Played(e.board, a) :
              \E b \in Effects(e.board, p) : f = [e EXCEPT !.board = b, !.step = @ + 1]
      <4>1. PICK p \in Played(e.board, a) : c \in Effects(e.board, p)
        BY <3>0
      <4> QED
        BY <3>0, <4>1
    <3>2. PICK b \in Effects(e.board, p) : f = [e EXCEPT !.board = b, !.step = @ + 1]
      BY <3>1
    <3>3. e.board \in Boards /\ e.step \in Nat /\ e.sid \in Nat
      BY DEF EngineRec
    <3>4. p \in LegalActions(e.board)
      BY <3>1 DEF Played
    <3>5. b \in Boards
      BY <3>2, <3>3, <3>4, EffectsTyped
    <3>6. e.board.hp # 0
      BY <3>4 DEF LegalActions
    <3>7. e.sid # 0
      <4>1. NoBoard.hp = 0
        BY DEF NoBoard
      <4>2. e.sid = 0 => e.board = NoBoard
        BY DEF EngineRec
      <4> QED
        BY <3>6, <4>1, <4>2
    <3>8. f = [sid |-> e.sid, step |-> e.step + 1, board |-> b, faulted |-> FALSE]
      BY <1>2, <3>2 DEF EngineRec
    <3> DEFINE i == e.sid
               s == e.step
    <3>11. i \in Nat \ {0} /\ s \in Nat /\ f = [sid |-> i, step |-> s + 1, board |-> b, faulted |-> FALSE]
      BY <3>3, <3>7, <3>8
    <3> HIDE DEF i, s, After
    <3>13. f.sid = i /\ f.step = s + 1 /\ f.board = b /\ f.faulted = FALSE /\ s + 1 > s /\ s + 1 \in Nat
      BY <3>11
    <3>14. f \in [sid : Nat, step : Nat, board : Boards, faulted : BOOLEAN]
      BY <3>5, <3>11
    <3>12. /\ f.sid = i /\ f.step = s + 1 /\ f.board = b /\ f.faulted = FALSE
           /\ f \in [sid : Nat, step : Nat, board : Boards, faulted : BOOLEAN]
      BY <3>13, <3>14
    <3>9. f \in EngineRec
      BY <3>11, <3>12 DEF EngineRec
    <3>10. f.step > e.step /\ f.sid = e.sid /\ ~f.faulted /\ f.board = b
      BY <3>13 DEF i, s
    <3> QED
      BY <1>2, <3>1, <3>2, <3>9, <3>10 DEF Reaches
  <2>3. Reaches(held, e, Faulted(e)) /\ Reaches(held, e, e)
    BY FaultedTyped, ReachesSelf DEF Reaches
  <2> HIDE DEF After
  <2> QED
    BY <1>2, <2>1, <2>2, <2>3 DEF Outcome
<1> QED
  BY <1>1, <1>2

(* step_live_action: the prompt of a target is answered in the same call.  *)
LEMMA StepLiveActionEffects ==
    ASSUME NEW held, NEW e \in EngineRec, NEW a, NEW r \in StepLiveAction(e, a)
    PROVE  /\ Reaches(held, e, r.engine)
           /\ r.how = "ok" =>
                /\ ~e.faulted /\ ~r.engine.faulted
                /\ r.engine.board.prompt # "target"
                /\ a \in LegalActions(e.board) \cap Actions =>
                     r.engine.board \in PlayedOut(e.board, a)
<1>1. PICK q \in EngineStep(e, a) :
        r \in IF q.how = "ok" /\ q.engine.board.prompt = "target"
              THEN EngineStep(q.engine, "target") \cup {Outcome("error", q.engine)}
              ELSE {q}
  BY DEF StepLiveAction
<1> DEFINE f == q.engine
<1>2. /\ Reaches(held, e, f)
      /\ q.how = "ok" => ~e.faulted /\ ~f.faulted /\ \E p \in Played(e.board, a) : f.board \in Effects(e.board, p)
  BY <1>1, EngineStepEffects
<1>3. f \in EngineRec /\ e.board \in Boards /\ f.board \in Boards
  BY <1>2 DEF Reaches, EngineRec
<1>4. CASE r = q /\ ~(q.how = "ok" /\ f.board.prompt = "target")
  <2>1. SUFFICES ASSUME r.how = "ok"
                 PROVE  /\ ~e.faulted /\ ~r.engine.faulted
                        /\ r.engine.board.prompt # "target"
                        /\ a \in LegalActions(e.board) \cap Actions =>
                             r.engine.board \in PlayedOut(e.board, a)
    BY <1>2, <1>4
  <2>2. r.engine.board.prompt # "target"
    BY <1>4, <2>1
  <2>3. ASSUME a \in LegalActions(e.board) \cap Actions PROVE r.engine.board \in PlayedOut(e.board, a)
    <3>1. f.board \in Effects(e.board, a)
      BY <1>2, <1>4, <2>1, <2>3 DEF Played
    <3>2. a \in {"card", "draw", "choose", "end"}
      BY <2>3 DEF Actions
    <3>3. a # "card"
      BY <1>3, <1>4, <2>2, <3>1 DEF Effects, Boards
    <3> QED
      BY <1>4, <3>1, <3>2, <3>3 DEF Effects, PlayedOut
  <2> QED
    BY <1>2, <1>4, <2>1, <2>2, <2>3
<1>5. CASE q.how = "ok" /\ f.board.prompt = "target" /\ r = Outcome("error", f)
  BY <1>2, <1>5 DEF Outcome
<1>6. CASE q.how = "ok" /\ f.board.prompt = "target" /\ r \in EngineStep(f, "target")
  <2>1. /\ Reaches(held, f, r.engine)
        /\ r.how = "ok" => ~r.engine.faulted /\ \E p \in Played(f.board, "target") : r.engine.board \in Effects(f.board, p)
    BY <1>3, <1>6, EngineStepEffects
  <2>2. Reaches(held, e, r.engine)
    BY <1>2, <2>1, ReachesTransitive
  <2>3. ASSUME r.how = "ok"
        PROVE  r.engine.board = [hp |-> f.board.hp - 1, prompt |-> "none"]
    <3>1. PICK p \in Played(f.board, "target") : r.engine.board \in Effects(f.board, p)
      BY <2>1, <2>3
    <3>2. p \in LegalActions(f.board)
      BY DEF Played
    <3>3. p = "target"
      BY <1>6, <3>2 DEF LegalActions
    <3> QED
      BY <3>1, <3>3 DEF Effects
  <2>4. ASSUME r.how = "ok", a \in LegalActions(e.board) \cap Actions
        PROVE  r.engine.board \in PlayedOut(e.board, a)
    <3>1. f.board \in Effects(e.board, a)
      BY <1>2, <1>6, <2>4 DEF Played
    <3>2. a \in {"card", "draw", "choose", "end"}
      BY <2>4 DEF Actions
    <3>3. a = "card" /\ e.board.prompt = "none"
      <4>1. e.board.prompt # "target"
        BY <2>4, <3>2 DEF LegalActions
      <4>2. a \in {"card"}
        BY <1>3, <1>6, <3>1, <3>2, <4>1 DEF Effects, Boards
      <4>3. e.board.prompt \in {"none", "choice", "target"}
        BY <1>3 DEF Boards
      <4> QED
        BY <2>4, <4>1, <4>2, <4>3 DEF LegalActions
    <3>4. f.board.hp = e.board.hp
      BY <1>3, <3>1, <3>3 DEF Effects, Boards
    <3>5. r.engine.board = [hp |-> e.board.hp - 1, prompt |-> "none"]
      BY <2>3, <2>4, <3>4
    <3>6. [hp |-> e.board.hp - 1, prompt |-> "none"] = [e.board EXCEPT !.hp = @ - 1]
      BY <1>3, <3>3 DEF Boards
    <3> QED
      BY <3>3, <3>5, <3>6 DEF PlayedOut
  <2> QED
    BY <1>2, <1>6, <2>1, <2>2, <2>3, <2>4
<1> HIDE DEF f
<1> QED
  BY <1>1, <1>4, <1>5, <1>6 DEF f

(* A state a session or a decider works on.                                *)
LEMMA ScenarioOfTyped ==
    ASSUME NEW st \in StateRec
    PROVE  /\ ScenarioOf(st) \in Boards /\ st.frame.step \in Nat /\ st.board \in Boards
           /\ st.board.prompt = "none" => ScenarioOf(st) = st.board
<1>1. st.board \in Boards /\ st.frame \in FrameRec
  BY DEF StateRec
<1> QED
  BY <1>1 DEF ScenarioOf, Boards, FrameRec

LEMMA RestoreEffects ==
    ASSUME NEW held, Held(held), NEW e \in EngineRec, NEW st \in StateRec
    PROVE  /\ Safe(held, e, Restore(e, held, st))
           /\ \A r \in Restore(e, held, st) : r.how = "ok" =>
                /\ r.engine.board = ScenarioOf(st) /\ ~r.engine.faulted
                /\ r.engine.step = st.frame.step /\ r.engine.sid \notin held \cup {0}
<1>1. CASE IsTerminal(st)
  BY <1>1, ReachesSelf DEF Restore, Safe, Outcome
<1>2. CASE ~IsTerminal(st)
  BY <1>2, ScenarioOfTyped, ResetsEffects DEF Restore
<1> QED
  BY <1>1, <1>2

LEMMA EnumerateEffects ==
    ASSUME NEW held, Held(held), NEW e \in EngineRec, NEW st \in StateRec
    PROVE  Safe(held, e, EnumerateLegalActions(e, held, st))
BY RestoreEffects, ReachesSelf DEF EnumerateLegalActions, Safe, Outcome

LEMMA InitializeEffects ==
    ASSUME NEW held, Held(held), NEW e \in EngineRec, NEW c \in Scenarios
    PROVE  /\ Safe(held, e, Initialize(e, held, c))
           /\ \A r \in Initialize(e, held, c) : r.how = "ok" => r.engine.board = Opened(c)
<1>1. Opened(c) \in Boards /\ 0 \in Nat
  BY OpeningAssumption DEF Opened, Boards
<1>2. Initialize(e, held, c) = Resets(e, held, Opened(c), 0)
  BY DEF Initialize, Opened
<1> QED
  BY <1>1, <1>2, ResetsEffects

LEMMA WrapTyped ==
    ASSUME NEW e \in EngineRec, NEW turn \in Nat
    PROVE  /\ Wrap(e, turn) \in StateRec
           /\ Wrap(e, turn).board = e.board /\ Wrap(e, turn).turn = turn
           /\ Wrap(e, turn).frame.sid = e.sid /\ Wrap(e, turn).frame.step = e.step
<1>1. e.sid \in Nat /\ e.step \in Nat /\ e.board \in Boards
  BY DEF EngineRec
<1> QED
  BY <1>1 DEF Wrap, StateRec, FrameRec

(* What the outcomes of a committed action have in common: they are played *)
(* out on the board they were played on.                                   *)
Plays(b, a, outcomes) ==
    \A r \in outcomes : r.how = "ok" =>
        r.engine.board \in PlayedOut(b, a) /\ r.engine.board.prompt # "target"

LEMMA ContinueEffects ==
    ASSUME NEW held, Held(held), NEW e \in EngineRec, NEW r, Reaches(held, e, r.engine)
    PROVE  /\ Safe(held, e, Continue(held, r))
           /\ \A b \in Boards : \A a \in LegalActions(b) \cap Actions :
                Plays(b, a, {r}) => Plays(b, a, Continue(held, r))
<1>1. CASE r.how # "ok" \/ ~IsActionContinuation(r.engine.board)
  BY <1>1 DEF Continue, Safe
<1>2. CASE r.how = "ok" /\ IsActionContinuation(r.engine.board)
  <2> DEFINE f == r.engine
  <2>1. f \in EngineRec
    BY DEF Reaches
  <2>2. EnumerateLegalActions(f, held, Wrap(f, 0)) = {Outcome("ok", f)}
    <3>1. Wrap(f, 0).board = f.board
      BY <2>1, WrapTyped
    <3>2. IsActionContinuation(Wrap(f, 0).board)
      BY <1>2, <3>1
    <3> QED
      BY <3>2 DEF EnumerateLegalActions
  <2>3. Continue(held, r) = UNION {IF q.how = "ok" THEN StepLiveAction(q.engine, "choose") ELSE {q} :
                                     q \in {Outcome("ok", f)}}
    BY <1>2, <2>2 DEF Continue
  <2>4. Outcome("ok", f).how = "ok" /\ Outcome("ok", f).engine = f
    BY DEF Outcome
  <2>5. Continue(held, r) = StepLiveAction(f, "choose")
    BY <2>3, <2>4
  <2>6. ASSUME NEW q \in StepLiveAction(f, "choose")
        PROVE  /\ Reaches(held, e, q.engine)
               /\ q.how = "ok" => /\ q.engine.board.prompt # "target"
                                  /\ "choose" \in LegalActions(f.board) \cap Actions =>
                                       q.engine.board \in PlayedOut(f.board, "choose")
    <3> HIDE DEF f
    <3>1. /\ Reaches(held, f, q.engine)
          /\ q.how = "ok" => /\ q.engine.board.prompt # "target"
                             /\ "choose" \in LegalActions(f.board) \cap Actions =>
                                  q.engine.board \in PlayedOut(f.board, "choose")
      BY <2>1, <2>6, StepLiveActionEffects
    <3>2. Reaches(held, e, f)
      BY DEF f
    <3> QED
      BY <3>1, <3>2, ReachesTransitive
  <2>7. ASSUME NEW b \in Boards, NEW a \in LegalActions(b) \cap Actions, Plays(b, a, {r}),
               NEW q \in StepLiveAction(f, "choose"), q.how = "ok"
        PROVE  q.engine.board \in PlayedOut(b, a)
    <3>1. f.board \in PlayedOut(b, a) /\ f.board.prompt = "choice" /\ f.board \in Boards
      BY <1>2, <2>1, <2>7 DEF Plays, IsActionContinuation, EngineRec
    <3>2. a \in {"card", "draw", "choose", "end"} /\ b.hp \in Nat \ {0} /\ b.prompt \in {"none", "choice", "target"}
      BY DEF Actions, LegalActions, Boards
    <3>3. a \in {"draw", "choose"}
      <4>1. CASE a = "card"
        <5>1. b.prompt = "none"
          BY <3>2, <4>1 DEF LegalActions
        <5> QED
          BY <3>1, <4>1, <5>1 DEF PlayedOut, Boards
      <4>2. CASE a = "end"
        <5>1. b.prompt = "none"
          BY <3>2, <4>2 DEF LegalActions
        <5> QED
          BY <3>1, <4>2, <5>1 DEF PlayedOut, Boards
      <4> QED
        BY <3>2, <4>1, <4>2
    <3>4. f.board.hp = b.hp
      BY <3>1, <3>3 DEF PlayedOut, Boards
    <3>5. "choose" \in LegalActions(f.board) \cap Actions
      BY <3>1, <3>2, <3>4 DEF LegalActions, Actions
    <3>6. q.engine.board \in {f.board, [f.board EXCEPT !.prompt = "none"]}
      BY <2>6, <2>7, <3>5 DEF PlayedOut
    <3>7. f.board = [hp |-> b.hp, prompt |-> "choice"]
      BY <3>1, <3>4 DEF Boards
    <3>8. q.engine.board \in {f.board, [hp |-> b.hp, prompt |-> "none"]}
      BY <3>6, <3>7
    <3>9. CASE a = "draw"
      <4>1. b.prompt = "none"
        BY <3>2, <3>9 DEF LegalActions
      <4>2. b = [hp |-> b.hp, prompt |-> "none"]
        BY <4>1 DEF Boards
      <4> QED
        BY <3>1, <3>8, <3>9, <4>2
           DEF PlayedOut
    <3>10. CASE a = "choose"
      <4>1. b.prompt = "choice"
        BY <3>2, <3>10 DEF LegalActions
      <4>2. [b EXCEPT !.prompt = "none"] = [hp |-> b.hp, prompt |-> "none"]
        BY DEF Boards
      <4> QED
        BY <3>1, <3>8, <3>10, <4>2 DEF PlayedOut
    <3> QED
      BY <3>3, <3>9, <3>10
  <2> HIDE DEF f
  <2> QED
    BY <2>5, <2>6, <2>7 DEF Safe, Plays
<1> QED
  BY <1>1, <1>2

-----------------------------------------------------------------------------
(***************************************************************************)
(* The continuation loop: what one round keeps, every number of rounds     *)
(* keeps.                                                                  *)
(***************************************************************************)
RoundsFrom(held, rs, round, n) ==
    round = [i \in 0..n |-> IF i = 0 THEN rs ELSE UNION {Continue(held, r) : r \in round[i - 1]}]

LEMMA RoundsExist ==
    ASSUME NEW held, NEW rs, NEW N \in Nat
    PROVE  \E round : RoundsFrom(held, rs, round, N)
<1> DEFINE RoundAfter(f, i) == UNION {Continue(held, r) : r \in f[i - 1]}
           Good == {n \in Nat : \E f : f = [i \in 0..n |-> IF i = 0 THEN rs ELSE RoundAfter(f, i)]}
<1>1. 0 \in Good
  <2> DEFINE f == [i \in 0..0 |-> rs]
  <2>1. f = [i \in 0..0 |-> IF i = 0 THEN rs ELSE RoundAfter(f, i)]
    OBVIOUS
  <2> QED
    BY <2>1
<1>2. ASSUME NEW n \in Nat, n \in Good
      PROVE  n + 1 \in Good
  <2>1. PICK f : f = [i \in 0..n |-> IF i = 0 THEN rs ELSE RoundAfter(f, i)]
    BY <1>2
  <2> DEFINE last == UNION {Continue(held, r) : r \in f[n]}
             g == [i \in 0..(n + 1) |-> IF i = n + 1 THEN last ELSE f[i]]
  <2>2. ASSUME NEW i \in 0..(n + 1)
        PROVE  g[i] = IF i = 0 THEN rs ELSE RoundAfter(g, i)
    <3>1. CASE i = n + 1
      <4>1. g[i] = last /\ g[i - 1] = f[n] /\ i # 0
        <5> HIDE DEF last
        <5> QED
          BY <3>1
      <4> QED
        BY <4>1
    <3>2. CASE i \in 0..n
      <4>1. g[i] = f[i] /\ (i # 0 => g[i - 1] = f[i - 1])
        <5> HIDE DEF last
        <5> QED
          BY <3>2
      <4>2. f[i] = IF i = 0 THEN rs ELSE RoundAfter(f, i)
        BY <2>1, <3>2
      <4> QED
        BY <4>1, <4>2
    <3> QED
      BY <3>1, <3>2
  <2>3. g = [i \in 0..(n + 1) |-> IF i = 0 THEN rs ELSE RoundAfter(g, i)]
    <3> HIDE DEF RoundAfter, last
    <3>1. \A i \in 0..(n + 1) : g[i] = [j \in 0..(n + 1) |-> IF j = 0 THEN rs ELSE RoundAfter(g, j)][i]
      BY <2>2
    <3> QED
      BY <3>1
  <2> HIDE DEF g
  <2> QED
    BY <2>3
<1> HIDE DEF Good
<1>3. N \in Good
  BY <1>1, <1>2, SetInduction
<1> QED
  BY <1>3 DEF Good, RoundsFrom

(* The outcomes of the loop are those of its last round.                   *)
LEMMA ResolveIsTheLastRound ==
    ASSUME NEW held, NEW rs
    PROVE  \E round :
             /\ RoundsFrom(held, rs, round, MaxContinuation)
             /\ ResolveContinuation(held, rs) =
                  {IF r.how = "ok" /\ IsActionContinuation(r.engine.board) THEN Outcome("error", r.engine) ELSE r :
                     r \in round[MaxContinuation]}
<1> DEFINE round == CHOOSE f : f = [n \in 0..MaxContinuation |->
                      IF n = 0 THEN rs ELSE UNION {Continue(held, r) : r \in f[n - 1]}]
<1>1. RoundsFrom(held, rs, round, MaxContinuation)
  <2>1. \E f : RoundsFrom(held, rs, f, MaxContinuation)
    BY RoundsExist, BoundsAssumption
  <2> QED
    BY <2>1 DEF RoundsFrom
<1>2. ResolveContinuation(held, rs) =
        {IF r.how = "ok" /\ IsActionContinuation(r.engine.board) THEN Outcome("error", r.engine) ELSE r :
           r \in round[MaxContinuation]}
  BY DEF ResolveContinuation
<1> QED
  BY <1>1, <1>2

LEMMA ResolveEffects ==
    ASSUME NEW held, Held(held), NEW e \in EngineRec, NEW rs, Safe(held, e, rs)
    PROVE  /\ Safe(held, e, ResolveContinuation(held, rs))
           /\ \A r \in ResolveContinuation(held, rs) : r.how = "ok" => r.engine.board.prompt # "choice"
           /\ \A b \in Boards : \A a \in LegalActions(b) \cap Actions :
                Plays(b, a, rs) => Plays(b, a, ResolveContinuation(held, rs))
<1>1. PICK round :
        /\ RoundsFrom(held, rs, round, MaxContinuation)
        /\ ResolveContinuation(held, rs) =
             {IF r.how = "ok" /\ IsActionContinuation(r.engine.board) THEN Outcome("error", r.engine) ELSE r :
                r \in round[MaxContinuation]}
  BY ResolveIsTheLastRound
<1>2. MaxContinuation \in Nat
  BY BoundsAssumption
<1>3. /\ round[0] = rs
      /\ \A n \in Nat : n + 1 <= MaxContinuation => round[n + 1] = UNION {Continue(held, r) : r \in round[n]}
  <2>1. \A i \in 0..MaxContinuation :
          round[i] = IF i = 0 THEN rs ELSE UNION {Continue(held, r) : r \in round[i - 1]}
    BY <1>1 DEF RoundsFrom
  <2>2. round[0] = rs
    <3>1. 0 \in 0..MaxContinuation
      BY <1>2
    <3>2. round[0] = IF 0 = 0 THEN rs ELSE UNION {Continue(held, r) : r \in round[0 - 1]}
      BY <2>1, <3>1
    <3> QED
      BY <3>2
  <2>3. ASSUME NEW n \in Nat, n + 1 <= MaxContinuation
        PROVE  round[n + 1] = UNION {Continue(held, r) : r \in round[n]}
    <3> DEFINE i == n + 1
    <3>1. i \in 0..MaxContinuation /\ i # 0 /\ i - 1 = n
      BY <1>2, <2>3
    <3> HIDE DEF i
    <3>2. round[i] = UNION {Continue(held, r) : r \in round[i - 1]}
      BY <2>1, <3>1
    <3> QED
      BY <3>1, <3>2 DEF i
  <2> QED
    BY <2>2, <2>3
<1> DEFINE Kept(n) ==
      n <= MaxContinuation =>
        /\ Safe(held, e, round[n])
        /\ \A b \in Boards : \A a \in LegalActions(b) \cap Actions : Plays(b, a, rs) => Plays(b, a, round[n])
    KeptRounds == {n \in Nat : Kept(n)}
<1>4. 0 \in KeptRounds
  BY <1>3
<1>5. ASSUME NEW n \in Nat, n \in KeptRounds
      PROVE  n + 1 \in KeptRounds
  <2>1. SUFFICES ASSUME n + 1 <= MaxContinuation
                 PROVE  /\ Safe(held, e, round[n + 1])
                        /\ \A b \in Boards : \A a \in LegalActions(b) \cap Actions :
                             Plays(b, a, rs) => Plays(b, a, round[n + 1])
    OBVIOUS
  <2>2. round[n + 1] = UNION {Continue(held, r) : r \in round[n]}
    BY <1>3, <2>1
  <2>3. n <= MaxContinuation
    BY <1>2, <2>1
  <2>4. Kept(n)
    BY <1>5
  <2>5. /\ Safe(held, e, round[n])
        /\ \A b \in Boards : \A a \in LegalActions(b) \cap Actions : Plays(b, a, rs) => Plays(b, a, round[n])
    BY <2>3, <2>4
  <2>6. \A q \in round[n + 1] : \E r \in round[n] : q \in Continue(held, r)
    BY <2>2
  <2>7. Safe(held, e, round[n + 1])
    <3> SUFFICES ASSUME NEW q \in round[n + 1] PROVE Reaches(held, e, q.engine)
      BY DEF Safe
    <3>1. PICK r \in round[n] : q \in Continue(held, r)
      BY <2>6
    <3>2. Reaches(held, e, r.engine)
      BY <2>5 DEF Safe
    <3>3. Safe(held, e, Continue(held, r))
      BY <3>2, ContinueEffects
    <3> QED
      BY <3>1, <3>3 DEF Safe
  <2>8. ASSUME NEW b \in Boards, NEW a \in LegalActions(b) \cap Actions, Plays(b, a, rs)
        PROVE  Plays(b, a, round[n + 1])
    <3>1. Plays(b, a, round[n])
      BY <2>5, <2>8
    <3> SUFFICES ASSUME NEW q \in round[n + 1], q.how = "ok"
                 PROVE  q.engine.board \in PlayedOut(b, a) /\ q.engine.board.prompt # "target"
      BY DEF Plays
    <3>2. PICK r \in round[n] : q \in Continue(held, r)
      BY <2>6
    <3>3. Reaches(held, e, r.engine) /\ Plays(b, a, {r})
      BY <2>5, <3>1 DEF Safe, Plays
    <3>4. Plays(b, a, Continue(held, r))
      BY <3>3, ContinueEffects
    <3> QED
      BY <3>2, <3>4 DEF Plays
  <2> QED
    BY <2>7, <2>8
<1> HIDE DEF KeptRounds
<1>6. \A n \in Nat : n \in KeptRounds
  BY <1>4, <1>5, SetInduction
<1>7. /\ Safe(held, e, round[MaxContinuation])
      /\ \A b \in Boards : \A a \in LegalActions(b) \cap Actions :
           Plays(b, a, rs) => Plays(b, a, round[MaxContinuation])
  <2>1. Kept(MaxContinuation)
    BY <1>2, <1>6 DEF KeptRounds
  <2> QED
    BY <1>2, <2>1
<1> HIDE DEF Kept
<1>8. ASSUME NEW r \in ResolveContinuation(held, rs)
      PROVE  \E q \in round[MaxContinuation] :
               /\ r.engine = q.engine
               /\ r.how = "ok" => r = q /\ r.engine.board.prompt # "choice"
  <2>1. PICK q \in round[MaxContinuation] :
          r = IF q.how = "ok" /\ IsActionContinuation(q.engine.board) THEN Outcome("error", q.engine) ELSE q
    BY <1>1
  <2> QED
    BY <2>1 DEF Outcome, IsActionContinuation
<1> QED
  BY <1>7, <1>8 DEF Safe, Plays

LEMMA ApplyActionEffects ==
    ASSUME NEW held, Held(held), NEW e \in EngineRec, NEW st \in StateRec, NEW a
    PROVE  Safe(held, e, ApplyAction(e, held, st, a))
<1>1. CASE IsTerminal(st) \/ IsActionContinuation(st.board)
  BY <1>1, ReachesSelf DEF ApplyAction, Safe, Outcome
<1>2. CASE ~(IsTerminal(st) \/ IsActionContinuation(st.board))
  <2> SUFFICES ASSUME NEW q \in ApplyAction(e, held, st, a) PROVE Reaches(held, e, q.engine)
    BY DEF Safe
  <2>1. PICK r \in Restore(e, held, st) :
          q \in IF r.how # "ok" THEN {r} ELSE ResolveContinuation(held, StepLiveAction(r.engine, a))
    BY <1>2 DEF ApplyAction
  <2> DEFINE f == r.engine
  <2>2. Reaches(held, e, f) /\ f \in EngineRec
    BY <2>1, RestoreEffects DEF Safe, Reaches
  <2>3. CASE q = r
    BY <2>2, <2>3
  <2>4. CASE q \in ResolveContinuation(held, StepLiveAction(f, a))
    <3> HIDE DEF f
    <3>1. Safe(held, f, StepLiveAction(f, a))
      BY <2>2, StepLiveActionEffects DEF Safe
    <3>2. Safe(held, f, ResolveContinuation(held, StepLiveAction(f, a)))
      BY <2>2, <3>1, ResolveEffects
    <3>3. Reaches(held, f, q.engine)
      BY <2>4, <3>2 DEF Safe
    <3> QED
      BY <2>2, <3>3, ReachesTransitive
  <2> QED
    BY <2>1, <2>3, <2>4
<1> QED
  BY <1>1, <1>2

(* A decision of the sweep is one of the actions of the state, and the     *)
(* game it leaves is only reached by restores.                             *)
Decides(held, e, st, ds) ==
    \A d \in ds :
        /\ Reaches(held, e, d.engine)
        /\ d.how \in {"ok", "raised"}
        /\ d.how = "ok" => d.chosen \in LegalActions(st.board)

LEMMA SweepEffects ==
    ASSUME NEW held, Held(held), NEW e \in EngineRec, NEW st \in StateRec
    PROVE  Decides(held, e, st, Sweep(e, held, st))
<1> DEFINE listed == EnumerateLegalActions(e, held, st)
           tried == UNION {Candidates(r.engine, held, st) : r \in {q \in listed : q.how = "ok"}}
           Chosen(engines) == {[how |-> "ok", chosen |-> a, engine |-> f] :
                                 a \in LegalActions(st.board), f \in engines}
           good == {r.engine : r \in tried \cup {q \in listed : q.how = "ok"}}
           raised == {[how |-> "raised", chosen |-> "none", engine |-> r.engine] :
                        r \in {q \in listed \cup tried : q.how # "ok"}}
<1>1. Sweep(e, held, st) = Chosen(good) \cup raised
  BY DEF Sweep
<1>2. Safe(held, e, listed)
  BY EnumerateEffects
<1>3. Safe(held, e, tried)
  <2> SUFFICES ASSUME NEW q \in tried PROVE Reaches(held, e, q.engine)
    BY DEF Safe
  <2>1. PICK r \in listed : q \in Candidates(r.engine, held, st)
    OBVIOUS
  <2> DEFINE f == r.engine
  <2>2. Reaches(held, e, f) /\ f \in EngineRec
    BY <1>2 DEF Safe, Reaches
  <2>3. PICK a \in LegalActions(st.board) : q \in ApplyAction(f, held, st, a)
    BY <2>1 DEF Candidates
  <2> HIDE DEF f
  <2>4. Reaches(held, f, q.engine)
    BY <2>2, <2>3, ApplyActionEffects DEF Safe
  <2> QED
    BY <2>2, <2>4, ReachesTransitive
<1> HIDE DEF listed, tried
<1>4. \A f \in good : Reaches(held, e, f)
  BY <1>2, <1>3 DEF Safe
<1>5. ASSUME NEW d \in Chosen(good)
      PROVE  Reaches(held, e, d.engine) /\ d.how = "ok" /\ d.chosen \in LegalActions(st.board)
  <2> HIDE DEF good
  <2>1. PICK a \in LegalActions(st.board), f \in good : d = [how |-> "ok", chosen |-> a, engine |-> f]
    OBVIOUS
  <2> QED
    BY <1>4, <2>1
<1>6. ASSUME NEW d \in raised
      PROVE  Reaches(held, e, d.engine) /\ d.how = "raised"
  BY <1>2, <1>3 DEF Safe
<1> HIDE DEF Chosen, good, raised
<1> QED
  BY <1>1, <1>5, <1>6 DEF Decides

LEMMA PolicyDecidesEffects ==
    ASSUME NEW held, Held(held), NEW e \in EngineRec, NEW st \in StateRec
    PROVE  Decides(held, e, st, PolicyDecides(e, held, st))
BY SweepEffects, ReachesSelf DEF PolicyDecides, Decides

LEMMA EvaluatedEffects ==
    ASSUME engine \in EngineRec, NEW held, Held(held), NEW st \in StateRec
    PROVE  Decides(held, engine, st, EvaluatedDecisions(held, st))
<1>1. CASE ep.arm # "policy"
  BY <1>1, SweepEffects DEF EvaluatedDecisions
<1>2. CASE ep.arm = "policy"
  <2>1. SUFFICES ASSUME NEW q \in EvaluatedDecisions(held, st)
                 PROVE  /\ Reaches(held, engine, q.engine)
                        /\ q.how \in {"ok", "raised"}
                        /\ q.how = "ok" => q.chosen \in LegalActions(st.board)
    BY DEF Decides
  <2>2. PICK d \in PolicyDecides(engine, held, st) :
          q \in IF d.how = "ok" THEN Shadowed(held, st, d) ELSE {d}
    BY <1>2 DEF EvaluatedDecisions
  <2>3. /\ Reaches(held, engine, d.engine)
        /\ d.how \in {"ok", "raised"}
        /\ d.how = "ok" => d.chosen \in LegalActions(st.board)
    BY PolicyDecidesEffects DEF Decides
  <2>4. CASE q = d
    BY <2>3, <2>4
  <2>5. CASE d.how = "ok" /\ \E s \in Sweep(d.engine, held, st) : q = [d EXCEPT !.engine = s.engine]
    <3>1. PICK s \in Sweep(d.engine, held, st) : q = [d EXCEPT !.engine = s.engine]
      BY <2>5
    <3> DEFINE f == d.engine
    <3>2. f \in EngineRec
      BY <2>3 DEF Reaches
    <3>3. Reaches(held, engine, f)
      BY <2>3
    <3>4. s \in Sweep(f, held, st)
      BY <3>1
    <3> HIDE DEF f
    <3>5. Reaches(held, f, s.engine)
      BY <3>2, <3>4, SweepEffects DEF Decides
    <3>6. Reaches(held, engine, s.engine)
      BY <3>3, <3>5, ReachesTransitive
    <3>7. q.engine = s.engine /\ q.how = d.how /\ q.chosen = d.chosen
      <4>1. \E a \in LegalActions(st.board) : \E g : d = [how |-> "ok", chosen |-> a, engine |-> g]
        <5>1. CASE d \in {[how |-> "ok", chosen |-> a, engine |-> engine] : a \in LegalActions(st.board)}
          BY <5>1
        <5>2. CASE d \in Sweep(engine, held, st)
          BY <2>5, <5>2 DEF Sweep
        <5> QED
          BY <5>1, <5>2 DEF PolicyDecides
      <4>2. PICK a \in LegalActions(st.board) : \E g : d = [how |-> "ok", chosen |-> a, engine |-> g]
        BY <4>1
      <4> QED
        BY <3>1, <4>2
    <3> QED
      BY <2>3, <3>6, <3>7
  <2> QED
    BY <2>2, <2>4, <2>5 DEF Shadowed
<1> QED
  BY <1>1, <1>2

-----------------------------------------------------------------------------
(***************************************************************************)
(* The session: what a committed step was played on.                       *)
(***************************************************************************)
LEMMA StepOutcomesEffects ==
    ASSUME LiveTypes, FrameInv, NEW k \in SessionIds, NEW stop \in BOOLEAN,
           NEW a \in LegalActions(session[k].state.board) \cap Actions, NEW r \in StepOutcomes(k, a, stop)
    PROVE  /\ Reaches(HeldIds, engine, r.engine)
           /\ r.how = "ok" /\ (IsStillCurrent(k) \/ ~IsActionContinuation(session[k].state.board)) =>
                r.engine.board \in PlayedOut(session[k].state.board, a)
           /\ r.how = "ok" /\ ~IsActionContinuation(session[k].state.board) =>
                r.engine.board.prompt # "target" /\ (~stop => r.engine.board.prompt # "choice")
<1> DEFINE st == session[k].state
           ready == IF IsStillCurrent(k) THEN {Outcome("ok", engine)} ELSE Restore(engine, HeldIds, st)
<1>1. /\ Held(HeldIds) /\ engine \in EngineRec /\ st \in StateRec /\ st.board \in Boards
      /\ st.frame \in FrameRec
  BY HeldIdsHeld DEF LiveTypes, SessionRec, StateRec
<1>2. CASE engine.faulted
  BY <1>1, <1>2, ReachesSelf DEF StepOutcomes, Outcome
<1>3. CASE ~engine.faulted
  <2>1. PICK q \in ready :
          r \in IF q.how # "ok" THEN {q}
                ELSE IF stop THEN StepLiveAction(q.engine, a)
                ELSE ResolveContinuation(HeldIds, StepLiveAction(q.engine, a))
    BY <1>3 DEF StepOutcomes
  <2> DEFINE f == q.engine
  <2>2. Reaches(HeldIds, engine, f) /\ f \in EngineRec
    <3>1. CASE IsStillCurrent(k)
      BY <1>1, <3>1, ReachesSelf DEF Outcome
    <3>2. CASE ~IsStillCurrent(k)
      BY <1>1, <3>2, RestoreEffects DEF Safe, Reaches
    <3> QED
      BY <3>1, <3>2
  <2>3. CASE q.how # "ok"
    BY <2>1, <2>2, <2>3
  <2>4. CASE q.how = "ok"
    <3>1. IsStillCurrent(k) \/ ~IsActionContinuation(st.board) => f.board = st.board
      <4>1. CASE IsStillCurrent(k)
        <5>1. f = engine
          BY <4>1 DEF Outcome
        <5>2. Frame(k).sid = engine.sid /\ Frame(k).step = engine.step
          BY <4>1 DEF IsStillCurrent
        <5> QED
          BY <1>3, <5>1, <5>2 DEF FrameInv
      <4>2. CASE ~IsStillCurrent(k) /\ ~IsActionContinuation(st.board)
        <5>1. st.board.prompt \in {"none", "choice", "target"}
          BY <1>1 DEF Boards
        <5>2. st.board.prompt # "target"
          BY DEF LegalActions, Actions
        <5>3. st.board.prompt = "none"
          BY <4>2, <5>1, <5>2 DEF IsActionContinuation
        <5>4. f.board = ScenarioOf(st)
          BY <1>1, <2>4, <4>2, RestoreEffects
        <5> QED
          BY <1>1, <5>3, <5>4, ScenarioOfTyped
      <4> QED
        BY <4>1, <4>2
    <3> DEFINE played == StepLiveAction(f, a)
    <3>2. r \in IF stop THEN played ELSE ResolveContinuation(HeldIds, played)
      BY <2>1, <2>4
    <3> HIDE DEF f
    <3>3. Safe(HeldIds, f, played)
      BY <2>2, StepLiveActionEffects DEF Safe
    <3>4. f.board = st.board => Plays(st.board, a, played)
      BY <2>2, StepLiveActionEffects DEF Plays
    <3>5. /\ Safe(HeldIds, f, ResolveContinuation(HeldIds, played))
          /\ \A s \in ResolveContinuation(HeldIds, played) : s.how = "ok" => s.engine.board.prompt # "choice"
          /\ f.board = st.board => Plays(st.board, a, ResolveContinuation(HeldIds, played))
      <4>1. a \in LegalActions(st.board) \cap Actions
        OBVIOUS
      <4> HIDE DEF played, st
      <4> QED
        BY <1>1, <2>2, <3>3, <3>4, <4>1, ResolveEffects
    <3> HIDE DEF played
    <3>6. Reaches(HeldIds, f, r.engine)
      BY <3>2, <3>3, <3>5 DEF Safe
    <3>7. Reaches(HeldIds, engine, r.engine)
      BY <1>1, <2>2, <3>6, ReachesTransitive
    <3>8. f.board = st.board /\ r.how = "ok" =>
            /\ r.engine.board \in PlayedOut(st.board, a)
            /\ r.engine.board.prompt # "target"
            /\ ~stop => r.engine.board.prompt # "choice"
      BY <3>2, <3>4, <3>5 DEF Plays
    <3> QED
      BY <3>1, <3>7, <3>8
  <2> QED
    BY <2>3, <2>4
<1> QED
  BY <1>2, <1>3

(* Whatever a step does, a session keeps its state, is new, or takes the   *)
(* frame and the board of the engine the step leaves.                      *)
SessionsFollow ==
    \A k \in SessionIds :
        \/ session[k].state = session'[k].state
        \/ session'[k].state = NoState
        \/ /\ session'[k].state.frame.sid = engine'.sid
           /\ session'[k].state.frame.step = engine'.step
           /\ session'[k].state.board = engine'.board

LEMMA FramesStayBoards ==
    ASSUME LiveTypes, FrameInv, Reaches(HeldIds, engine, engine'), SessionsFollow
    PROVE  FrameInv'
<1> SUFFICES ASSUME NEW k \in SessionIds, ~engine'.faulted, session'[k].state.frame.sid = engine'.sid
             PROVE  /\ session'[k].state.frame.step <= engine'.step
                    /\ session'[k].state.frame.step = engine'.step => session'[k].state.board = engine'.board
  BY DEF FrameInv, Frame
<1>1. engine' \in EngineRec /\ engine \in EngineRec /\ engine'.step \in Nat /\ engine.step \in Nat
  BY DEF Reaches, EngineRec, LiveTypes
<1>2. CASE /\ session'[k].state.frame.sid = engine'.sid
           /\ session'[k].state.frame.step = engine'.step
           /\ session'[k].state.board = engine'.board
  BY <1>1, <1>2
<1>3. CASE session'[k].state = NoState
  <2>1. engine'.sid = 0 /\ session'[k].state.frame.step = 0 /\ session'[k].state.board = NoBoard
    BY <1>3 DEF NoState, NoFrame
  <2> QED
    BY <1>1, <2>1 DEF EngineRec
<1>4. CASE session[k].state = session'[k].state
  <2>1. Frame(k).sid = engine'.sid /\ Frame(k).sid \in HeldIds
    BY <1>4 DEF Frame, HeldIds
  <2>2. Frame(k).step \in Nat
    BY DEF LiveTypes, SessionRec, StateRec, FrameRec, Frame
  <2>3. CASE engine' = engine
    BY <1>4, <2>1, <2>3 DEF FrameInv, Frame
  <2>4. CASE ~engine.faulted /\ engine'.sid = engine.sid /\ engine'.step > engine.step
    <3>1. Frame(k).step <= engine.step
      BY <2>1, <2>4 DEF FrameInv
    <3>2. Frame(k).step < engine'.step
      BY <1>1, <2>2, <2>4, <3>1
    <3> QED
      BY <1>1, <1>4, <2>2, <3>2 DEF Frame
  <2>5. CASE engine'.sid \notin HeldIds \cup {0}
    BY <2>1, <2>5
  <2> QED
    BY <2>3, <2>4, <2>5 DEF Reaches
<1> QED
  BY <1>2, <1>3, <1>4 DEF SessionsFollow

LEMMA SessionRecords ==
    ASSUME NEW s \in SessionRec
    PROVE  /\ Claimed(s) \in SessionRec /\ Claimed(s).state = s.state
           /\ \A b \in BOOLEAN : [Claimed(s) EXCEPT !.faulted = b] \in SessionRec
                                   /\ [Claimed(s) EXCEPT !.faulted = b].state = s.state
           /\ [s EXCEPT !.leased = FALSE] \in SessionRec
           /\ [s EXCEPT !.leased = FALSE].state = s.state
           /\ \A st \in StateRec : [s EXCEPT !.state = st] \in SessionRec
                                     /\ [s EXCEPT !.state = st].state = st
           /\ s.faulted \in BOOLEAN /\ s.state \in StateRec
BY DEF Claimed, SessionRec

LEMMA EstablishedTyped ==
    ASSUME NEW st \in StateRec
    PROVE  Established(st) \in SessionRec /\ Established(st).state = st
BY DEF Established, SessionRec

LEMMA NewSessionTyped ==
    /\ NoBoard \in Boards /\ NoState \in StateRec /\ NewSession \in SessionRec
    /\ NewSession.state = NoState /\ Claimed(NewSession) \in SessionRec
    /\ Claimed(NewSession).state = NoState /\ NoCommit \in CommitRec
<1>1. NoBoard \in Boards
  BY DEF NoBoard, Boards
<1>2. NoState \in StateRec
  BY <1>1 DEF NoState, StateRec, NoFrame, FrameRec
<1>3. NewSession \in SessionRec /\ NewSession.state = NoState
  BY <1>2 DEF NewSession, SessionRec
<1>4. NoCommit \in CommitRec
  BY <1>1 DEF NoCommit, CommitRec
<1> QED
  BY <1>1, <1>2, <1>3, <1>4, SessionRecords

(* An operation that commits nothing.                                      *)
LEMMA NothingCommitted ==
    ASSUME LiveInv, Reaches(HeldIds, engine, engine'), session' \in [SessionIds -> SessionRec],
           SessionsFollow, committed' = NoCommit
    PROVE  LiveInv'
<1>1. FrameInv'
  BY FramesStayBoards DEF LiveInv
<1>2. LiveTypes'
  BY NewSessionTyped DEF LiveTypes, Reaches
<1>3. CommittedStepIsTheDecision'
  BY DEF CommittedStepIsTheDecision
<1> QED
  BY <1>1, <1>2, <1>3 DEF LiveInv

LEMMA EngineOnly ==
    ASSUME LiveInv, Reaches(HeldIds, engine, engine'), session' = session, committed' = NoCommit
    PROVE  LiveInv'
<1>1. session' \in [SessionIds -> SessionRec] /\ SessionsFollow
  BY DEF LiveInv, LiveTypes, SessionsFollow
<1> QED
  BY <1>1, NothingCommitted

(* One session takes another record: of the state it had, or of the engine.*)
LEMMA OneSession ==
    ASSUME LiveInv, Reaches(HeldIds, engine, engine'), NEW k \in SessionIds, NEW s \in SessionRec,
           session' = [session EXCEPT ![k] = s], committed' = NoCommit,
           \/ s.state = session[k].state
           \/ s.state = NoState
           \/ s.state.frame.sid = engine'.sid /\ s.state.frame.step = engine'.step /\ s.state.board = engine'.board
    PROVE  LiveInv'
<1>1. session \in [SessionIds -> SessionRec]
  BY DEF LiveInv, LiveTypes
<1>2. session' \in [SessionIds -> SessionRec] /\ SessionsFollow
  BY <1>1 DEF SessionsFollow
<1> QED
  BY <1>2, NothingCommitted

LEMMA ProcessGoneKeeps ==
    ASSUME ProcessGone
    PROVE  LiveInv'
<1>1. engine' \in EngineRec
  BY NewSessionTyped DEF ProcessGone, EngineRec
<1>2. session' = [k \in SessionIds |-> NewSession] /\ committed' = NoCommit
  BY DEF ProcessGone
<1>3. LiveTypes'
  BY <1>1, <1>2, NewSessionTyped DEF LiveTypes
<1>4. FrameInv'
  <2>1. \A k \in SessionIds : session'[k].state = NoState
    BY <1>2, NewSessionTyped
  <2> QED
    BY <2>1 DEF FrameInv, Frame, NoState, NoFrame, ProcessGone
<1>5. CommittedStepIsTheDecision'
  BY <1>2 DEF CommittedStepIsTheDecision
<1> QED
  BY <1>3, <1>4, <1>5 DEF LiveInv

LEMMA EstablishKeeps ==
    ASSUME LiveInv, NEW k \in SessionIds, NEW outcomes, Safe(HeldIds, engine, outcomes), NEW turn \in Nat,
           Establish(k, outcomes, turn)
    PROVE  LiveInv'
<1>1. PICK r \in outcomes :
        /\ engine' = r.engine
        /\ session' = [session EXCEPT ![k] =
             IF r.how = "ok" THEN Established(Wrap(r.engine, turn))
             ELSE [Claimed(session[k]) EXCEPT !.faulted = @ \/ r.how = "failed"]]
  BY DEF Establish
<1>2. committed' = NoCommit
  BY DEF Establish
<1>3. Reaches(HeldIds, engine, engine') /\ engine' \in EngineRec
  BY <1>1 DEF Safe, Reaches
<1>4. session[k] \in SessionRec /\ session \in [SessionIds -> SessionRec]
  BY DEF LiveInv, LiveTypes
<1>5. CASE r.how = "ok"
  <2> DEFINE st == Wrap(engine', turn)
  <2>1. /\ st \in StateRec /\ st.board = engine'.board
        /\ st.frame.sid = engine'.sid /\ st.frame.step = engine'.step
    BY <1>3, WrapTyped
  <2>2. session' = [session EXCEPT ![k] = Established(st)]
    BY <1>1, <1>5
  <2> HIDE DEF st
  <2>3. Established(st) \in SessionRec /\ Established(st).state = st
    BY <2>1, EstablishedTyped
  <2> QED
    BY <1>2, <1>3, <2>1, <2>2, <2>3, OneSession
<1>6. CASE r.how # "ok"
  <2> DEFINE c == Claimed(session[k])
             s == [c EXCEPT !.faulted = @ \/ r.how = "failed"]
  <2>1. session' = [session EXCEPT ![k] = s]
    <3>1. session' = [session EXCEPT ![k] =
            IF r.how = "ok" THEN Established(Wrap(r.engine, turn))
            ELSE [Claimed(session[k]) EXCEPT !.faulted = @ \/ r.how = "failed"]]
      BY <1>1, Zenon
    <3> HIDE DEF c
    <3>2. (IF r.how = "ok" THEN Established(Wrap(r.engine, turn))
           ELSE [Claimed(session[k]) EXCEPT !.faulted = @ \/ r.how = "failed"]) = s
      BY <1>6 DEF c
    <3> QED
      BY <3>1, <3>2
  <2>2. c \in SessionRec /\ c.state = session[k].state
    BY <1>4, SessionRecords
  <2> HIDE DEF c
  <2>3. s \in SessionRec /\ s.state = session[k].state
    BY <2>2 DEF SessionRec
  <2> HIDE DEF s
  <2> QED
    BY <1>2, <1>3, <2>1, <2>3, OneSession
<1> QED
  BY <1>5, <1>6

(* LiveCombatSession.step: the one operation that commits.                 *)
LEMMA SteppedKeeps ==
    ASSUME LiveInv, NEW k \in SessionIds, NEW stop \in BOOLEAN,
           NEW a \in LegalActions(session[k].state.board) \cap Actions,
           NEW r \in StepOutcomes(k, a, stop), Stepped(k, a, r)
    PROVE  /\ LiveInv'
           /\ session \in [SessionIds -> SessionRec]
           /\ r.how = "ok" =>
                /\ session'[k].state = Wrap(engine', NextTurn(session[k].state, a))
                /\ session'[k].state.board = engine'.board
                /\ session'[k].state.turn = NextTurn(session[k].state, a)
                /\ engine' = r.engine
           /\ r.how # "ok" => session'[k].state = session[k].state
<1>1. LiveTypes /\ FrameInv
  BY DEF LiveInv
<1>2. engine' = r.engine
  BY DEF Stepped
<1>3. /\ Reaches(HeldIds, engine, engine')
      /\ r.how = "ok" /\ (IsStillCurrent(k) \/ ~IsActionContinuation(session[k].state.board)) =>
           engine'.board \in PlayedOut(session[k].state.board, a)
  BY <1>1, <1>2, StepOutcomesEffects
<1>4. /\ engine' \in EngineRec /\ session[k] \in SessionRec /\ session \in [SessionIds -> SessionRec]
      /\ session[k].state \in StateRec /\ session[k].state.board \in Boards /\ session[k].state.turn \in Nat
  BY <1>1, <1>3 DEF Reaches, LiveTypes, SessionRec, StateRec
<1>5. CASE r.how # "ok"
  <2> DEFINE c == Claimed(session[k])
             s == [c EXCEPT !.faulted = @ \/ r.how \in {"fault", "faulted"}]
  <2>1. session' = [session EXCEPT ![k] = s] /\ committed' = NoCommit
    <3>1. /\ session' = [session EXCEPT ![k] =
                [Claimed(session[k]) EXCEPT !.faulted = @ \/ r.how \in {"fault", "faulted"}]]
          /\ committed' = NoCommit
      BY <1>5 DEF Stepped
    <3> QED
      BY <3>1
  <2>2. c \in SessionRec /\ c.state = session[k].state
    BY <1>4, SessionRecords
  <2> HIDE DEF c
  <2>3. s \in SessionRec /\ s.state = session[k].state
    BY <2>2 DEF SessionRec
  <2> HIDE DEF s
  <2>4. LiveInv'
    BY <1>3, <2>1, <2>3, OneSession
  <2> QED
    BY <1>4, <1>5, <2>1, <2>3, <2>4
<1>6. CASE r.how = "ok"
  <2> DEFINE turn == NextTurn(session[k].state, a)
             st == Wrap(engine', turn)
  <2>1. turn \in Nat
    BY <1>4 DEF NextTurn
  <2>2. /\ session' = [session EXCEPT ![k] = Established(st)]
        /\ committed' = [before |-> session[k].state.board, action |-> a,
                         after |-> st.board, resynced |-> ~IsStillCurrent(k)]
    BY <1>2, <1>6 DEF Stepped
  <2> HIDE DEF turn
  <2>3. /\ st \in StateRec /\ st.board = engine'.board /\ st.turn = turn
        /\ st.frame.sid = engine'.sid /\ st.frame.step = engine'.step
    BY <1>4, <2>1, WrapTyped
  <2>4. st = Wrap(engine', turn)
    OBVIOUS
  <2> HIDE DEF st
  <2>5. Established(st) \in SessionRec /\ Established(st).state = st
    BY <2>3, EstablishedTyped
  <2>6. session' \in [SessionIds -> SessionRec] /\ session'[k].state = st /\ SessionsFollow
    BY <1>4, <2>2, <2>3, <2>5 DEF SessionsFollow
  <2>7. FrameInv'
    BY <1>1, <1>3, <2>6, FramesStayBoards
  <2>8. committed' \in CommitRec
    <3>1. IsStillCurrent(k) \in BOOLEAN
      BY DEF IsStillCurrent
    <3>2. st.board \in Boards
      BY <2>3 DEF StateRec
    <3> QED
      BY <1>4, <2>2, <3>1, <3>2 DEF CommitRec
  <2>9. CommittedStepIsTheDecision'
    <3>1. /\ committed'.before = session[k].state.board /\ committed'.action = a
          /\ committed'.after = engine'.board /\ committed'.resynced = ~IsStillCurrent(k)
      BY <2>2, <2>3
    <3>2. \/ committed'.after \in PlayedOut(committed'.before, committed'.action)
          \/ committed'.resynced /\ IsActionContinuation(committed'.before)
      BY <1>3, <1>6, <3>1
    <3> QED
      BY <3>2 DEF CommittedStepIsTheDecision
  <2>10. LiveTypes'
    BY <1>4, <2>6, <2>8 DEF LiveTypes
  <2> QED
    BY <1>2, <1>4, <1>6, <2>3, <2>4, <2>6, <2>7, <2>9, <2>10 DEF LiveInv, turn
<1> QED
  BY <1>5, <1>6

(* Every operation of a free client.                                       *)
LEMMA ClientStepKeeps ==
    ASSUME LiveInv, ClientStep
    PROVE  LiveInv'
<1>1. /\ engine \in EngineRec /\ session \in [SessionIds -> SessionRec] /\ Held(HeldIds)
      /\ \A k \in SessionIds : session[k] \in SessionRec /\ session[k].state \in StateRec /\ session[k].state.turn \in Nat
  BY HeldIdsHeld DEF LiveInv, LiveTypes, SessionRec, StateRec
<1>2. 1 \in SessionIds /\ 1 \in Nat
  BY DEF SessionIds
<1>3. ASSUME NEW k \in SessionIds, NEW c \in Scenarios, StartCombat(k, c)
      PROVE  LiveInv'
  BY <1>1, <1>2, <1>3, InitializeEffects, EstablishKeeps DEF StartCombat
<1>4. ASSUME NEW k \in SessionIds, Close(k)
      PROVE  LiveInv'
  <2>1. /\ session' = [session EXCEPT ![k] = [session[k] EXCEPT !.leased = FALSE]]
        /\ engine' = engine /\ committed' = NoCommit
    BY <1>1, <1>4 DEF Close
  <2>2. [session[k] EXCEPT !.leased = FALSE] \in SessionRec
        /\ [session[k] EXCEPT !.leased = FALSE].state = session[k].state
    BY <1>1, SessionRecords
  <2> QED
    BY <1>1, <2>1, <2>2, ReachesSelf, OneSession
<1>5. ASSUME NEW k \in SessionIds, ResumeFrom(1, session[k].state)
      PROVE  LiveInv'
  <2>1. Safe(HeldIds, engine, Restore(engine, HeldIds, session[k].state))
    BY <1>1, RestoreEffects
  <2> QED
    BY <1>1, <1>2, <1>5, <2>1, EstablishKeeps DEF ResumeFrom
<1>6. ASSUME NEW snap \in Snapshots, RestoreSnapshot(1, snap)
      PROVE  LiveInv'
  <2>1. snap.board \in Boards /\ snap.step \in Nat
    BY SnapshotsAssumption
  <2>2. Safe(HeldIds, engine, Resets(engine, HeldIds, snap.board, snap.step))
    BY <1>1, <2>1, ResetsEffects
  <2>3. Reaches(HeldIds, engine, engine) /\ Reaches(HeldIds, engine, Faulted(engine))
    BY <1>1, ReachesSelf, FaultedTyped DEF Reaches
  <2>4. Safe(HeldIds, engine, SnapshotRestores(snap))
    BY <2>2, <2>3 DEF Safe, SnapshotRestores, Outcome
  <2> QED
    BY <1>2, <1>6, <2>4, EstablishKeeps DEF RestoreSnapshot
<1>7. ASSUME AdoptCurrentCombat(1)
      PROVE  LiveInv'
  <2> DEFINE st == Wrap(engine, 1)
  <2>1. /\ st \in StateRec /\ st.board = engine.board
        /\ st.frame.sid = engine.sid /\ st.frame.step = engine.step
    BY <1>1, <1>2, WrapTyped
  <2>2. session' = [session EXCEPT ![1] = [session[1] EXCEPT !.state = st]] /\ engine' = engine /\ committed' = NoCommit
    BY <1>1, <1>2, <1>7 DEF AdoptCurrentCombat
  <2> HIDE DEF st
  <2>3. [session[1] EXCEPT !.state = st] \in SessionRec /\ [session[1] EXCEPT !.state = st].state = st
    <3>1. session[1] \in SessionRec
      BY <1>1, <1>2
    <3> QED
      BY <2>1, <3>1, SessionRecords
  <2> QED
    BY <1>1, <1>2, <2>1, <2>2, <2>3, ReachesSelf, OneSession
<1>8. ASSUME NEW a \in Actions, NEW stop \in BOOLEAN, Step(1, a, stop)
      PROVE  LiveInv'
  <2>1. a \in LegalActions(session[1].state.board) \cap Actions
    BY <1>8 DEF Step
  <2>2. PICK r \in StepOutcomes(1, a, stop) : Stepped(1, a, r)
    BY <1>8 DEF Step
  <2> QED
    BY <1>2, <2>1, <2>2, SteppedKeeps
<1>9. ASSUME NEW c \in Scenarios, EmulatorInitializes(c)
      PROVE  LiveInv'
  BY <1>1, <1>9, InitializeEffects, EngineOnly DEF EmulatorInitializes, Safe
<1>10. ASSUME EmulatorEnumerates(1)
       PROVE  LiveInv'
  BY <1>1, <1>2, <1>10, EnumerateEffects, EngineOnly DEF EmulatorEnumerates, Safe
<1>11. ASSUME NEW a \in Actions, EmulatorApplies(1, a)
       PROVE  LiveInv'
  BY <1>1, <1>2, <1>11, ApplyActionEffects, EngineOnly DEF EmulatorApplies, Safe
<1> QED
  BY <1>3, <1>4, <1>5, <1>6, <1>7, <1>8, <1>9, <1>10, <1>11 DEF ClientStep

-----------------------------------------------------------------------------
(***************************************************************************)
(* An episode: the session stands where the last decision ended, so the    *)
(* next one starts there.                                                  *)
(***************************************************************************)
LEMMA PlayGrows ==
    ASSUME NEW c, NEW ds \in Seq(DecisionRec), NEW d \in DecisionRec, OnePlay(c, ds),
           d.before = IF ds = <<>> THEN Opened(c) ELSE Last(ds).after,
           d.after \in PlayedOut(d.before, d.action), d.after.prompt = "none",
           ds # <<>> /\ Last(ds).action = "end" => d.turn = Last(ds).turn + 1
    PROVE  /\ Append(ds, d) \in Seq(DecisionRec) /\ Append(ds, d) # <<>> /\ Last(Append(ds, d)) = d
           /\ OnePlay(c, Append(ds, d))
<1> DEFINE n == Len(ds)
           es == Append(ds, d)
<1>1. /\ n \in Nat /\ es \in Seq(DecisionRec) /\ Len(es) = n + 1 /\ DOMAIN es = 1..(n + 1) /\ DOMAIN ds = 1..n
      /\ es[n + 1] = d /\ \A i \in 1..n : es[i] = ds[i]
  OBVIOUS
<1>2. ds = <<>> <=> n = 0
  OBVIOUS
<1>3. n # 0 => Last(ds) = es[n]
  <2>1. Last(ds) = ds[n]
    BY DEF Last
  <2> HIDE DEF es, n
  <2> QED
    BY <1>1, <2>1
<1> HIDE DEF n
<1>4. es # <<>> /\ Last(es) = d
  <2> HIDE DEF es
  <2>1. Last(es) = es[n + 1] /\ es # <<>>
    BY <1>1 DEF Last
  <2> QED
    BY <1>1, <2>1
<1>5. ASSUME NEW i \in DOMAIN es
      PROVE  /\ es[i].before = IF i = 1 THEN Opened(c) ELSE es[i - 1].after
             /\ es[i].after \in PlayedOut(es[i].before, es[i].action)
             /\ es[i].after.prompt = "none"
             /\ es[i].action = "end" => (i < Len(es) => es[i + 1].turn = es[i].turn + 1)
  <2>1. CASE i = n + 1
    <3>1. es[i] = d /\ ~(i < Len(es)) /\ (i = 1 <=> ds = <<>>) /\ (i # 1 => es[i - 1] = Last(ds))
      <4> HIDE DEF es
      <4> QED
        BY <1>1, <1>2, <1>3, <2>1
    <3> HIDE DEF es
    <3> QED
      BY <3>1
  <2>2. CASE i \in 1..n
    <3>1. es[i] = ds[i] /\ (i # 1 => es[i - 1] = ds[i - 1]) /\ i \in DOMAIN ds
      <4> HIDE DEF es
      <4> QED
        BY <1>1, <2>2
    <3>2. /\ ds[i].before = IF i = 1 THEN Opened(c) ELSE ds[i - 1].after
          /\ ds[i].after \in PlayedOut(ds[i].before, ds[i].action)
          /\ ds[i].after.prompt = "none"
          /\ ds[i].action = "end" => (i < Len(ds) => ds[i + 1].turn = ds[i].turn + 1)
      BY <3>1 DEF OnePlay
    <3>3. ASSUME ds[i].action = "end", i < Len(es)
          PROVE  es[i + 1].turn = es[i].turn + 1
      <4>1. CASE i = n
        <5>1. n # 0 /\ es[i + 1] = d /\ Last(ds) = es[i]
          BY <1>1, <1>2, <1>3, <2>2, <4>1
        <5>2. ds # <<>> /\ Last(ds).action = "end"
          BY <1>2, <3>1, <3>3, <5>1
        <5> HIDE DEF es
        <5> QED
          BY <5>1, <5>2
      <4>2. CASE i < n
        <5>1. es[i + 1] = ds[i + 1] /\ i < Len(ds)
          <6> HIDE DEF es
          <6> QED
            BY <1>1, <2>2, <4>2 DEF n
        <5> HIDE DEF es
        <5> QED
          BY <3>1, <3>2, <3>3, <5>1
      <4> HIDE DEF es
      <4> QED
        BY <1>1, <2>2, <4>1, <4>2
    <3> HIDE DEF es
    <3> QED
      BY <3>1, <3>2, <3>3
  <2> HIDE DEF es
  <2> QED
    BY <1>1, <2>1, <2>2
<1> HIDE DEF es
<1>6. OnePlay(c, es)
  BY <1>5 DEF OnePlay
<1> QED
  BY <1>1, <1>4, <1>6 DEF es

LEMMA NoEpisodeTyped ==
    /\ NoEpisode \in EpisodeRec /\ NoEpisode.pc = "idle" /\ NoEpisode.decisions = <<>>
    /\ \A c \in Scenarios : \A arm \in Arms :
         /\ BeginEpisode(c, arm) \in EpisodeRec /\ BeginEpisode(c, arm).pc = "preflight"
         /\ BeginEpisode(c, arm).scen = c /\ BeginEpisode(c, arm).arm = arm
         /\ BeginEpisode(c, arm).decisions = <<>>
<1>1. NoState \in StateRec
  BY NewSessionTyped
<1>2. <<>> \in Seq(DecisionRec)
  OBVIOUS
<1>3. NoEpisode \in EpisodeRec
  BY <1>1, <1>2 DEF NoEpisode, EpisodeRec, EpisodePhases, Reasons
<1>4. ASSUME NEW c \in Scenarios, NEW arm \in Arms
      PROVE  /\ BeginEpisode(c, arm) \in EpisodeRec /\ BeginEpisode(c, arm).pc = "preflight"
             /\ BeginEpisode(c, arm).scen = c /\ BeginEpisode(c, arm).arm = arm
             /\ BeginEpisode(c, arm).decisions = <<>>
  <2>1. BeginEpisode(c, arm) = [NoEpisode EXCEPT !.pc = "preflight", !.scen = c, !.arm = arm]
    BY DEF BeginEpisode
  <2>2. "preflight" \in EpisodePhases
    BY DEF EpisodePhases
  <2>3. NoEpisode.decisions = <<>>
    BY DEF NoEpisode
  <2> QED
    BY <1>3, <2>1, <2>2, <2>3 DEF EpisodeRec
<1> QED
  BY <1>3, <1>4 DEF NoEpisode

(* A step inside the loop that records no decision.                        *)
LEMMA EpisodeStays ==
    ASSUME EpisodeInv, mode' = mode, ep' \in EpisodeRec, ep.pc \in Playing, ep'.pc \in Playing,
           ep'.scen = ep.scen, ep'.arm = ep.arm, ep'.base = ep.base, ep'.decisions = ep.decisions,
           session'[SessionOf(ep.arm)].state = session[SessionOf(ep.arm)].state,
           ep'.pc = "commit" => ep'.chosen \in LegalActions(BattleStateOf(ep).board)
    PROVE  EpisodeInv'
<1>1. ep.pc # "idle" /\ mode \notin {"reconstruct", "clients"}
  BY DEF EpisodeInv, Playing
<1>2. session'[SessionOf(ep'.arm)].state = BattleStateOf(ep)
  BY DEF BattleStateOf
<1>3. Reached(ep') = Reached(ep)
  BY DEF Reached
<1>4. StandsAtTheEnd(ep', session'[SessionOf(ep'.arm)].state)
  BY <1>2, <1>3 DEF EpisodeInv, StandsAtTheEnd
<1> QED
  BY <1>1, <1>2, <1>4 DEF EpisodeInv, BattleStateOf

(* A step before the loop, or out of it.                                   *)
LEMMA EpisodeWithoutDecisions ==
    ASSUME mode' = mode, mode \notin {"reconstruct", "clients"} \/ ep'.pc = "idle", ep' \in EpisodeRec,
           ep'.pc \notin Playing, ep'.decisions = <<>>,
           ep'.pc # "idle" => ep'.scen \in Scenarios /\ ep'.arm \in Arms,
           ep'.pc = "adopt" => ep'.base.board = Opened(ep'.scen)
    PROVE  EpisodeInv'
<1>1. OnePlay(ep'.scen, ep'.decisions)
  BY DEF OnePlay
<1>2. ep'.pc # "commit"
  BY DEF Playing
<1> QED
  BY <1>1, <1>2 DEF EpisodeInv

LEMMA PreflightKeeps ==
    ASSUME LiveInv, EpisodeInv, mode' = mode, Preflight
    PROVE  LiveInv' /\ EpisodeInv' /\ ep'.scen = ep.scen /\ ep'.pc # "idle"
<1>1. /\ ep \in EpisodeRec /\ ep.scen \in Scenarios /\ ep.arm \in Arms /\ ep.decisions = <<>>
      /\ mode \notin {"reconstruct", "clients"}
  BY DEF EpisodeInv, Preflight, Playing
<1>2. engine \in EngineRec /\ Held(HeldIds)
  BY HeldIdsHeld DEF LiveInv, LiveTypes
<1>3. \A q \in Initialize(engine, HeldIds, ep.scen) :
        Reaches(HeldIds, engine, q.engine) /\ (q.how = "ok" => q.engine.board = Opened(ep.scen))
  BY <1>1, <1>2, InitializeEffects DEF Safe
<1>4. ASSUME NEW why \in {"mismatch", "unsupported_pending_choice"}, ep' = Quarantined(why)
      PROVE  EpisodeInv' /\ ep'.scen = ep.scen /\ ep'.pc # "idle"
  <2>1. ep' = [ep EXCEPT !.pc = "quarantined", !.reason = why]
    BY <1>4 DEF Quarantined
  <2>2. ep' \in EpisodeRec
    BY <1>1, <2>1 DEF EpisodeRec, EpisodePhases, Reasons
  <2>3. ep'.pc = "quarantined" /\ ep'.scen = ep.scen /\ ep'.arm = ep.arm /\ ep'.decisions = <<>>
    BY <1>1, <2>1 DEF EpisodeRec
  <2>4. ep'.pc \notin Playing /\ ep'.pc # "adopt" /\ ep'.pc # "idle"
    BY <2>3 DEF Playing
  <2> QED
    BY <1>1, <2>2, <2>3, <2>4, EpisodeWithoutDecisions
<1>5. session' = session /\ committed' = NoCommit
  BY DEF Preflight
<1>6. CASE ep' = Quarantined("mismatch") /\ UNCHANGED engine
  BY <1>2, <1>4, <1>5, <1>6, ReachesSelf, EngineOnly
<1>7. ASSUME NEW q \in Initialize(engine, HeldIds, ep.scen), q.how # "ok", engine' = q.engine,
             ep' = Quarantined("mismatch")
      PROVE  LiveInv' /\ EpisodeInv' /\ ep'.scen = ep.scen /\ ep'.pc # "idle"
  BY <1>3, <1>4, <1>5, <1>7, EngineOnly
<1>8. ASSUME NEW q \in Initialize(engine, HeldIds, ep.scen), q.how = "ok",
             NEW p \in EnumerateLegalActions(q.engine, HeldIds, Wrap(q.engine, 1)), engine' = p.engine,
             \/ ep' = Quarantined("mismatch")
             \/ ep' = Quarantined("unsupported_pending_choice")
             \/ ep' = [ep EXCEPT !.pc = "adopt", !.base = Wrap(q.engine, 1)]
      PROVE  LiveInv' /\ EpisodeInv' /\ ep'.scen = ep.scen /\ ep'.pc # "idle"
  <2> DEFINE f == q.engine
             st == Wrap(f, 1)
  <2>1. Reaches(HeldIds, engine, f) /\ f \in EngineRec /\ f.board = Opened(ep.scen)
    BY <1>3, <1>8 DEF Reaches
  <2> HIDE DEF f
  <2>2. st \in StateRec /\ st.board = Opened(ep.scen)
    BY <2>1, WrapTyped
  <2> HIDE DEF st
  <2>3. p \in EnumerateLegalActions(f, HeldIds, st)
    BY DEF f, st
  <2>4. Reaches(HeldIds, f, p.engine)
    BY <1>2, <2>1, <2>2, <2>3, EnumerateEffects DEF Safe
  <2>5. Reaches(HeldIds, engine, engine')
    BY <1>2, <1>8, <2>1, <2>4, ReachesTransitive
  <2>6. LiveInv'
    BY <1>5, <2>5, EngineOnly
  <2>7. CASE ep' = [ep EXCEPT !.pc = "adopt", !.base = st]
    <3>1. ep' \in EpisodeRec
      BY <1>1, <2>2, <2>7 DEF EpisodeRec, EpisodePhases
    <3>2. ep'.pc = "adopt" /\ ep'.scen = ep.scen /\ ep'.arm = ep.arm /\ ep'.decisions = <<>> /\ ep'.base = st
      BY <1>1, <2>7 DEF EpisodeRec
    <3>3. ep'.pc \notin Playing /\ ep'.pc # "idle"
      BY <3>2 DEF Playing
    <3> QED
      BY <1>1, <2>2, <2>6, <3>1, <3>2, <3>3, EpisodeWithoutDecisions
  <2> QED
    BY <1>4, <1>8, <2>6, <2>7 DEF f, st
<1> QED
  <2>1. \/ ep' = Quarantined("mismatch") /\ UNCHANGED engine
        \/ \E q \in Initialize(engine, HeldIds, ep.scen) :
             IF q.how # "ok"
             THEN engine' = q.engine /\ ep' = Quarantined("mismatch")
             ELSE \E p \in EnumerateLegalActions(q.engine, HeldIds, Wrap(q.engine, 1)) :
                    /\ engine' = p.engine
                    /\ \/ ep' = Quarantined("mismatch")
                       \/ ep' = Quarantined("unsupported_pending_choice")
                       \/ ep' = [ep EXCEPT !.pc = "adopt", !.base = Wrap(q.engine, 1)]
    BY DEF Preflight
  <2> QED
    BY <1>4, <1>6, <1>7, <1>8, <2>1

LEMMA AdoptStateKeeps ==
    ASSUME LiveInv, EpisodeInv, mode' = mode, AdoptState
    PROVE  LiveInv' /\ EpisodeInv' /\ ep'.scen = ep.scen /\ ep'.pc # "idle"
<1> DEFINE k == SessionOf(ep.arm)
<1>1. /\ ep \in EpisodeRec /\ ep.scen \in Scenarios /\ ep.arm \in Arms /\ ep.decisions = <<>>
      /\ ep.base.board = Opened(ep.scen) /\ mode \notin {"reconstruct", "clients"}
  BY DEF EpisodeInv, AdoptState, Playing
<1>2. engine \in EngineRec /\ Held(HeldIds) /\ k \in SessionIds /\ session \in [SessionIds -> SessionRec]
  BY HeldIdsHeld DEF LiveInv, LiveTypes, SessionOf, SessionIds
<1>3. ep.base \in StateRec /\ ep.base.turn \in Nat
  BY <1>1 DEF EpisodeRec, StateRec
<1>4. PICK q \in Restore(engine, HeldIds, ep.base) :
        /\ engine' = q.engine
        /\ session' = [session EXCEPT ![k] =
             IF q.how = "ok" THEN Established(Wrap(q.engine, ep.base.turn)) ELSE Claimed(NewSession)]
        /\ ep' = [ep EXCEPT !.pc = IF q.how = "ok" THEN "loop" ELSE "raised"]
  BY DEF AdoptState
<1>5. committed' = NoCommit
  BY DEF AdoptState
<1>6. /\ Reaches(HeldIds, engine, engine') /\ engine' \in EngineRec
      /\ q.how = "ok" => engine'.board = ScenarioOf(ep.base)
  BY <1>2, <1>3, <1>4, RestoreEffects DEF Safe, Reaches
<1>7. /\ ep' \in EpisodeRec /\ ep'.scen = ep.scen /\ ep'.arm = ep.arm /\ ep'.base = ep.base
      /\ ep'.decisions = <<>>
      /\ ep'.pc = IF q.how = "ok" THEN "loop" ELSE "raised"
  BY <1>1, <1>4 DEF EpisodeRec, EpisodePhases
<1>8. CASE q.how # "ok"
  <2>1. session' = [session EXCEPT ![k] = Claimed(NewSession)]
    BY <1>4, <1>8
  <2>2. LiveInv'
    BY <1>2, <1>5, <1>6, <2>1, NewSessionTyped, OneSession
  <2>3. ep'.pc \notin Playing /\ ep'.pc # "adopt" /\ ep'.pc # "idle"
    BY <1>7, <1>8 DEF Playing
  <2> QED
    BY <1>1, <1>7, <2>2, <2>3, EpisodeWithoutDecisions
<1>9. CASE q.how = "ok"
  <2> DEFINE st == Wrap(engine', ep.base.turn)
  <2>1. /\ st \in StateRec /\ st.board = engine'.board
        /\ st.frame.sid = engine'.sid /\ st.frame.step = engine'.step
    BY <1>3, <1>6, WrapTyped
  <2>2. session' = [session EXCEPT ![k] = Established(st)]
    BY <1>4, <1>9
  <2> HIDE DEF st
  <2>3. Established(st) \in SessionRec /\ Established(st).state = st
    BY <2>1, EstablishedTyped
  <2>4. LiveInv'
    BY <1>2, <1>5, <1>6, <2>1, <2>2, <2>3, OneSession
  <2>5. Opened(ep.scen).prompt = "none"
    BY DEF Opened
  <2>6. st.board = Opened(ep.scen)
    BY <1>1, <1>3, <1>6, <1>9, <2>1, <2>5, ScenarioOfTyped
  <2>7. session'[SessionOf(ep'.arm)].state = st
    BY <1>2, <1>7, <2>2, <2>3
  <2>8. StandsAtTheEnd(ep', session'[SessionOf(ep'.arm)].state)
    BY <1>7, <2>5, <2>6, <2>7 DEF StandsAtTheEnd, Reached
  <2>9. OnePlay(ep'.scen, ep'.decisions)
    BY <1>7 DEF OnePlay
  <2>10. ep'.pc = "loop"
    BY <1>7, <1>9
  <2>11. EpisodeInv'
    BY <1>1, <1>7, <2>8, <2>9, <2>10 DEF EpisodeInv, BattleStateOf
  <2> QED
    BY <1>7, <2>4, <2>10, <2>11
<1> QED
  BY <1>8, <1>9

LEMMA EndedEffects ==
    ASSUME ep \in EpisodeRec, NEW reason \in Reasons
    PROVE  /\ Ended(reason) \in EpisodeRec /\ Ended(reason).pc = "done" /\ Ended(reason).scen = ep.scen
           /\ Ended(reason).arm = ep.arm /\ Ended(reason).base = ep.base
           /\ Ended(reason).decisions = ep.decisions
BY DEF Ended, EpisodeRec, EpisodePhases

LEMMA EndingKeeps ==
    ASSUME LiveInv, EpisodeInv, mode' = mode, ep.pc \in Playing, NEW reason \in Reasons, ep' = Ended(reason),
           session'[SessionOf(ep.arm)].state = session[SessionOf(ep.arm)].state
    PROVE  EpisodeInv' /\ ep'.scen = ep.scen /\ ep'.pc # "idle"
<1>1. ep \in EpisodeRec
  BY DEF EpisodeInv
<1>2. /\ ep' \in EpisodeRec /\ ep'.pc = "done" /\ ep'.scen = ep.scen /\ ep'.arm = ep.arm
      /\ ep'.base = ep.base /\ ep'.decisions = ep.decisions
  BY <1>1, EndedEffects
<1>3. ep'.pc \in Playing /\ ep'.pc # "commit"
  BY <1>2 DEF Playing
<1> QED
  BY <1>2, <1>3, EpisodeStays

LEMMA LoopHeadKeeps ==
    ASSUME LiveInv, EpisodeInv, mode' = mode, LoopHead
    PROVE  LiveInv' /\ EpisodeInv' /\ ep'.scen = ep.scen /\ ep'.pc # "idle"
<1>1. /\ ep \in EpisodeRec /\ ep.pc = "loop" /\ ep.pc \in Playing /\ ep.reason \in Reasons
      /\ session' = session /\ committed' = NoCommit /\ engine' = engine /\ engine \in EngineRec
  BY DEF EpisodeInv, LoopHead, Playing, EpisodeRec, LiveInv, LiveTypes
<1>2. LiveInv'
  BY <1>1, ReachesSelf, EngineOnly
<1>3. \/ \E reason \in Reasons : ep' = Ended(reason)
      \/ ep' = [ep EXCEPT !.pc = "decide"]
  BY <1>1 DEF LoopHead, Reasons
<1>4. CASE ep' = [ep EXCEPT !.pc = "decide"]
  <2>1. /\ ep' \in EpisodeRec /\ ep'.pc = "decide" /\ ep'.scen = ep.scen /\ ep'.arm = ep.arm
        /\ ep'.base = ep.base /\ ep'.decisions = ep.decisions
    BY <1>1, <1>4 DEF EpisodeRec, EpisodePhases
  <2>2. ep'.pc \in Playing /\ ep'.pc # "commit" /\ ep'.pc # "idle"
    BY <2>1 DEF Playing
  <2> QED
    BY <1>1, <1>2, <2>1, <2>2, EpisodeStays
<1> QED
  BY <1>1, <1>2, <1>3, <1>4, EndingKeeps

LEMMA DecidedKeeps ==
    ASSUME LiveInv, EpisodeInv, mode' = mode, NEW ds, NEW endings \in SUBSET Reasons,
           Decides(HeldIds, engine, BattleStateOf(ep), ds), Decided(ds, endings)
    PROVE  LiveInv' /\ EpisodeInv' /\ ep'.scen = ep.scen /\ ep'.pc # "idle"
<1>1. /\ ep \in EpisodeRec /\ ep.pc = "decide" /\ ep.pc \in Playing
      /\ session' = session /\ committed' = NoCommit
  BY DEF EpisodeInv, Decided, Playing
<1>2. PICK d \in ds :
        /\ engine' = d.engine
        /\ \/ d.how = "raised" /\ \E why \in endings : ep' = Ended(why)
           \/ d.how = "ok" /\ ep' = [ep EXCEPT !.pc = "commit", !.chosen = d.chosen]
           \/ /\ d.how = "ok" /\ ep.arm # "batch"
              /\ ep' = Ended("illegal_action_selected")
  BY DEF Decided
<1>3. Reaches(HeldIds, engine, engine') /\ (d.how = "ok" => d.chosen \in LegalActions(BattleStateOf(ep).board))
  BY <1>2 DEF Decides
<1>4. LiveInv'
  BY <1>1, <1>3, EngineOnly
<1>5. CASE \E why \in Reasons : ep' = Ended(why)
  BY <1>1, <1>4, <1>5, EndingKeeps
<1>6. CASE d.how = "ok" /\ ep' = [ep EXCEPT !.pc = "commit", !.chosen = d.chosen]
  <2> DEFINE st == BattleStateOf(ep)
  <2>1. st.board.prompt = "none"
    BY <1>1 DEF EpisodeInv, StandsAtTheEnd
  <2>2. d.chosen \in Actions
    <3>1. d.chosen \in LegalActions(st.board)
      BY <1>3, <1>6
    <3> HIDE DEF st
    <3> QED
      BY <2>1, <3>1 DEF LegalActions, Actions
  <2>3. /\ ep' \in EpisodeRec /\ ep'.pc = "commit" /\ ep'.scen = ep.scen /\ ep'.arm = ep.arm
        /\ ep'.base = ep.base /\ ep'.decisions = ep.decisions /\ ep'.chosen = d.chosen
    BY <1>1, <1>6, <2>2 DEF EpisodeRec, EpisodePhases
  <2>4. ep'.pc \in Playing /\ ep'.pc # "idle"
    BY <2>3 DEF Playing
  <2> QED
    BY <1>1, <1>3, <1>4, <1>6, <2>3, <2>4, EpisodeStays
<1>7. "illegal_action_selected" \in Reasons
  BY DEF Reasons
<1> QED
  BY <1>2, <1>5, <1>6, <1>7

LEMMA DecidersKeep ==
    ASSUME LiveInv, EpisodeInv, mode' = mode, DecideTrajectory \/ DecideEvaluated \/ DecideChoiceArm
    PROVE  LiveInv' /\ EpisodeInv' /\ ep'.scen = ep.scen /\ ep'.pc # "idle"
<1> DEFINE st == BattleStateOf(ep)
<1>1. engine \in EngineRec /\ Held(HeldIds) /\ st \in StateRec
  <2>1. SessionOf(ep.arm) \in SessionIds
    BY DEF SessionOf, SessionIds
  <2> QED
    BY <2>1, HeldIdsHeld DEF LiveInv, LiveTypes, BattleStateOf, SessionRec
<1> HIDE DEF st
<1>2. /\ Decides(HeldIds, engine, st, Sweep(engine, HeldIds, st))
      /\ Decides(HeldIds, engine, st, PolicyDecides(engine, HeldIds, st))
      /\ Decides(HeldIds, engine, st, EvaluatedDecisions(HeldIds, st))
  BY <1>1, SweepEffects, PolicyDecidesEffects, EvaluatedEffects
<1>3. {"heuristic_exception", "step_exception"} \in SUBSET Reasons /\ {"decider_exception"} \in SUBSET Reasons
  BY DEF Reasons
<1>4. CASE DecideTrajectory
  BY <1>2, <1>3, <1>4, DecidedKeeps DEF DecideTrajectory, st
<1>5. CASE DecideEvaluated
  BY <1>2, <1>3, <1>5, DecidedKeeps DEF DecideEvaluated, st
<1>6. CASE DecideChoiceArm
  BY <1>2, <1>3, <1>6, DecidedKeeps DEF DecideChoiceArm, st
<1> QED
  BY <1>4, <1>5, <1>6

(* CombatEnv.step and its record.                                          *)
LEMMA CommitKeeps ==
    ASSUME LiveInv, EpisodeInv, mode' = mode, Commit
    PROVE  LiveInv' /\ EpisodeInv' /\ ep'.scen = ep.scen /\ ep'.pc # "idle"
<1> DEFINE k == SessionOf(ep.arm)
           st == session[k].state
           a == ep.chosen
<1>1. /\ ep \in EpisodeRec /\ ep.pc = "commit" /\ ep.pc \in Playing /\ ep.pc # "idle"
      /\ k \in SessionIds /\ engine \in EngineRec /\ session \in [SessionIds -> SessionRec]
      /\ mode \notin {"reconstruct", "clients"}
  BY DEF EpisodeInv, Commit, Playing, LiveInv, LiveTypes, SessionOf, SessionIds
<1>2. /\ st \in StateRec /\ st.board \in Boards /\ st.turn \in Nat
      /\ StandsAtTheEnd(ep, st) /\ a \in LegalActions(st.board) /\ st = BattleStateOf(ep)
      /\ OnePlay(ep.scen, ep.decisions)
  BY <1>1 DEF EpisodeInv, BattleStateOf, SessionRec, StateRec
<1>3. st.board.prompt = "none" /\ st.board = Reached(ep)
  BY <1>2 DEF StandsAtTheEnd
<1>4. a \in LegalActions(st.board) \cap Actions
  BY <1>2, <1>3 DEF LegalActions, Actions
<1>5. "step_exception" \in Reasons /\ "no_progress" \in Reasons
  BY DEF Reasons
<1>6. CASE ~StepAccepted(k)
  <2>1. ep' = Ended("step_exception") /\ committed' = NoCommit /\ engine' = engine /\ session' = session
    BY <1>6 DEF Commit, StepRaised
  <2>2. LiveInv'
    BY <1>1, <2>1, ReachesSelf, EngineOnly
  <2> QED
    BY <1>1, <1>5, <2>1, <2>2, EndingKeeps
<1>7. CASE StepAccepted(k)
  <2>1. PICK q \in StepOutcomes(k, a, FALSE) :
          /\ Stepped(k, a, q)
          /\ ep' = IF q.how = "ok"
                   THEN AfterStep(ep, Append(ep.decisions, Decision(st, a, q.engine.board)))
                   ELSE StepRaised(st)
    BY <1>7 DEF Commit
  <2>2. /\ LiveInv'
        /\ q.how = "ok" =>
             /\ session'[k].state.board = engine'.board
             /\ session'[k].state.turn = NextTurn(st, a)
             /\ engine' = q.engine
        /\ q.how # "ok" => session'[k].state = st
    BY <1>1, <1>4, <2>1, SteppedKeeps
  <2>3. CASE q.how # "ok"
    <3>1. ep' = Ended("step_exception") /\ session'[k].state = session[k].state
      BY <2>1, <2>2, <2>3 DEF StepRaised
    <3> QED
      BY <1>1, <1>5, <2>2, <3>1, EndingKeeps
  <2>4. CASE q.how = "ok"
    <3> DEFINE after == q.engine.board
               d == Decision(st, a, after)
               ds == Append(ep.decisions, d)
    <3>1. after \in PlayedOut(st.board, a) /\ after.prompt # "target" /\ after.prompt # "choice" /\ after \in Boards
      <4>1. ~IsActionContinuation(st.board)
        BY <1>3 DEF IsActionContinuation
      <4>2. LiveTypes /\ FrameInv
        BY DEF LiveInv
      <4>3. /\ q.how = "ok" /\ (IsStillCurrent(k) \/ ~IsActionContinuation(st.board)) => after \in PlayedOut(st.board, a)
            /\ q.how = "ok" /\ ~IsActionContinuation(st.board) =>
                 after.prompt # "target" /\ (~FALSE => after.prompt # "choice")
            /\ Reaches(HeldIds, engine, q.engine)
        BY <1>1, <1>4, <2>1, <4>2, StepOutcomesEffects
      <4> QED
        BY <2>4, <4>1, <4>3 DEF Reaches, EngineRec
    <3>2. after.prompt = "none"
      BY <3>1 DEF Boards
    <3> HIDE DEF after
    <3>3. d \in DecisionRec /\ d.turn = st.turn /\ d.before = st.board /\ d.action = a /\ d.after = after
      BY <1>2, <1>4, <3>1 DEF Decision, DecisionRec
    <3> HIDE DEF d
    <3>4. ep.decisions \in Seq(DecisionRec)
      BY <1>1 DEF EpisodeRec
    <3>5. d.before = IF ep.decisions = <<>> THEN Opened(ep.scen) ELSE Last(ep.decisions).after
      BY <1>3, <3>3 DEF Reached
    <3>6. ep.decisions # <<>> /\ Last(ep.decisions).action = "end" => d.turn = Last(ep.decisions).turn + 1
      BY <1>2, <3>3 DEF StandsAtTheEnd
    <3>7. d.after \in PlayedOut(d.before, d.action) /\ d.after.prompt = "none"
      BY <3>1, <3>2, <3>3
    <3>8. ds \in Seq(DecisionRec) /\ ds # <<>> /\ Last(ds) = d /\ OnePlay(ep.scen, ds)
      BY <1>2, <3>3, <3>4, <3>5, <3>6, <3>7, PlayGrows
    <3>9. ep' = AfterStep(ep, ds)
      BY <2>1, <2>4 DEF d, after
    <3> HIDE DEF ds
    <3>10. /\ ep' \in EpisodeRec /\ ep'.pc \in {"loop", "done"} /\ ep'.scen = ep.scen /\ ep'.arm = ep.arm
           /\ ep'.base = ep.base /\ ep'.decisions = ds
      <4>1. CASE ep' = [Ended("no_progress") EXCEPT !.decisions = ds]
        BY <1>1, <1>5, <3>8, <4>1, EndedEffects DEF EpisodeRec, EpisodePhases
      <4>2. CASE ep' = [ep EXCEPT !.pc = "loop", !.chosen = "none", !.decisions = ds]
        BY <1>1, <3>8, <4>2 DEF EpisodeRec, EpisodePhases
      <4> QED
        BY <3>9, <4>1, <4>2 DEF AfterStep
    <3>11. Reached(ep') = after /\ Last(ep'.decisions) = d
      BY <3>3, <3>8, <3>10 DEF Reached
    <3>12. /\ session'[SessionOf(ep'.arm)].state.board = after
           /\ session'[SessionOf(ep'.arm)].state.turn = NextTurn(st, a)
      BY <2>2, <2>4, <3>10 DEF after
    <3>13. StandsAtTheEnd(ep', session'[SessionOf(ep'.arm)].state)
      <4>1. d.action = "end" => NextTurn(st, a) = d.turn + 1
        BY <3>3 DEF NextTurn
      <4> QED
        BY <3>2, <3>11, <3>12, <4>1 DEF StandsAtTheEnd
    <3>14. ep'.pc \in Playing /\ ep'.pc # "idle" /\ ep'.pc # "commit"
      BY <3>10 DEF Playing
    <3>15. ep.scen \in Scenarios /\ ep.arm \in Arms /\ ep.base.board = Opened(ep.scen)
      BY <1>1 DEF EpisodeInv
    <3>16. EpisodeInv'
      BY <1>1, <3>8, <3>10, <3>13, <3>14, <3>15 DEF EpisodeInv, BattleStateOf
    <3> QED
      BY <2>2, <3>10, <3>14, <3>16
  <2> QED
    BY <2>3, <2>4
<1> QED
  BY <1>6, <1>7

LEMMA EpisodeStepKeeps ==
    ASSUME LiveInv, EpisodeInv, mode' = mode, EpisodeStep
    PROVE  LiveInv' /\ EpisodeInv' /\ ep'.scen = ep.scen /\ ep'.pc # "idle"
BY PreflightKeeps, AdoptStateKeeps, LoopHeadKeeps, DecidersKeep, CommitKeeps DEF EpisodeStep

(* What the recorded decisions show of the episode.                        *)
LEMMA EpisodeInvIsOnePlay ==
    ASSUME EpisodeInv
    PROVE  TrajectoryIsOnePlay
<1> DEFINE ds == ep.decisions
<1>1. \A i \in DOMAIN ds :
        /\ ds[i].before = IF i = 1 THEN Opened(ep.scen) ELSE ds[i - 1].after
        /\ ds[i].after \in PlayedOut(ds[i].before, ds[i].action)
        /\ ds[i].after.prompt = "none"
        /\ ds[i].action = "end" => (i < Len(ds) => ds[i + 1].turn = ds[i].turn + 1)
  BY DEF EpisodeInv, OnePlay
<1>2. ASSUME NEW i \in DOMAIN ds
      PROVE  ds[i].after \notin {[ds[i].before EXCEPT !.prompt = "choice"]}
  <2>1. ds[i].before \in Boards
    <3>1. ds \in Seq(DecisionRec)
      BY DEF EpisodeInv, EpisodeRec
    <3>2. ds[i] \in DecisionRec
      BY <3>1
    <3> QED
      BY <3>2 DEF DecisionRec
  <2>2. [ds[i].before EXCEPT !.prompt = "choice"].prompt = "choice"
    BY <2>1 DEF Boards
  <2> QED
    BY <1>1, <2>2
<1>3. ASSUME EpisodeOver, DataUsage = "usable_complete"
      PROVE  Len(ds) > 0 /\ ds[Len(ds)].after.hp = 0
  <2>1. ep.pc = "done" /\ IsTerminal(BattleStateOf(ep))
    BY <1>3 DEF DataUsage
  <2>2. ep.pc \in Playing /\ ep \in EpisodeRec /\ ep.scen \in Scenarios
    BY <2>1 DEF Playing, EpisodeInv
  <2>3. Reached(ep).hp = 0
    BY <2>1, <2>2 DEF EpisodeInv, StandsAtTheEnd, IsTerminal
  <2>4. Opened(ep.scen).hp # 0
    BY <2>2, OpeningAssumption DEF Opened
  <2>5. ds # <<>> /\ Last(ds).after.hp = 0
    BY <2>3, <2>4 DEF Reached
  <2>6. ds \in Seq(DecisionRec)
    BY <2>2 DEF EpisodeRec
  <2>7. Len(ds) > 0
    BY <2>5, <2>6
  <2> QED
    BY <2>5, <2>7 DEF Last
<1> QED
  BY <1>1, <1>2, <1>3 DEF TrajectoryIsOnePlay, Opened

-----------------------------------------------------------------------------
(***************************************************************************)
(* The batch: the write loop, its kills and its resumptions.               *)
(***************************************************************************)
LEMMA LiveUnchanged ==
    ASSUME LiveInv, engine' = engine, session' = session, committed' = committed
    PROVE  LiveInv'
BY DEF LiveInv, LiveTypes, FrameInv, Frame, CommittedStepIsTheDecision

LEMMA EpisodeUnchanged ==
    ASSUME EpisodeInv, mode' = mode, ep' = ep, session' = session
    PROVE  EpisodeInv'
BY DEF EpisodeInv, BattleStateOf

LEMMA EpisodeBegins ==
    ASSUME mode' = mode, mode \notin {"reconstruct", "clients"}, NEW c \in Scenarios, NEW arm \in Arms,
           ep' = BeginEpisode(c, arm)
    PROVE  EpisodeInv' /\ ep'.scen = c /\ ep'.pc = "preflight"
<1>1. /\ ep' \in EpisodeRec /\ ep'.pc = "preflight" /\ ep'.scen = c /\ ep'.arm = arm /\ ep'.decisions = <<>>
  BY NoEpisodeTyped
<1>2. ep'.pc \notin Playing /\ ep'.pc # "adopt"
  BY <1>1 DEF Playing
<1> QED
  BY <1>1, <1>2, EpisodeWithoutDecisions

LEMMA EpisodeEnds ==
    ASSUME mode' = mode, ep' = NoEpisode
    PROVE  EpisodeInv' /\ ep'.pc = "idle"
<1>1. /\ ep' \in EpisodeRec /\ ep'.pc = "idle" /\ ep'.decisions = <<>>
  BY NoEpisodeTyped
<1>2. ep'.pc \notin Playing /\ ep'.pc # "adopt"
  BY <1>1 DEF Playing
<1> QED
  BY <1>1, <1>2, EpisodeWithoutDecisions

LEMMA SessionDropped ==
    ASSUME LiveInv, NEW k \in SessionIds, session' = [session EXCEPT ![k] = NewSession],
           engine' = engine, committed' = NoCommit
    PROVE  LiveInv'
<1>1. engine \in EngineRec
  BY DEF LiveInv, LiveTypes
<1> QED
  BY <1>1, NewSessionTyped, ReachesSelf, OneSession

(* The lines on disk only grow.                                            *)
LEMMA RowsKept ==
    ASSUME BatchInv, disk' \in DiskRec, disk'.rows = disk.rows,
           \A f \in Files : disk.lines[f] \subseteq disk'.lines[f]
    PROVE  /\ RowsAreBacked' /\ RowsAreSingle'
           /\ \A c : HasRow(c)' <=> HasRow(c)
           /\ \A r : /\ \A n : HasDecisions(r, n) => HasDecisions(r, n)'
                     /\ HasRecord(r) => HasRecord(r)'
                     /\ HasMeta(r) => HasMeta(r)'
                     /\ HasQuality(r) => HasQuality(r)'
<1>1. \A r : /\ \A n : HasDecisions(r, n) => HasDecisions(r, n)'
             /\ HasRecord(r) => HasRecord(r)'
             /\ HasMeta(r) => HasMeta(r)'
             /\ HasQuality(r) => HasQuality(r)'
  BY DEF HasDecisions, HasRecord, HasMeta, HasQuality, Tag, Files
<1>2. RowsAreBacked'
  BY <1>1 DEF BatchInv, RowsAreBacked
<1>3. RowsAreSingle'
  BY DEF BatchInv, RowsAreSingle
<1>4. \A c : HasRow(c)' <=> HasRow(c)
  BY DEF HasRow, RowOf
<1> QED
  BY <1>1, <1>2, <1>3, <1>4

LEMMA DiskUnchanged ==
    ASSUME BatchInv, disk' = disk
    PROVE  /\ disk' \in DiskRec /\ RowsAreBacked' /\ RowsAreSingle'
           /\ \A c : HasRow(c)' <=> HasRow(c)
           /\ disk'.summary => \A c \in Scenarios : HasRow(c)'
           /\ \A r : /\ \A n : HasDecisions(r, n) => HasDecisions(r, n)'
                     /\ HasRecord(r) => HasRecord(r)'
                     /\ HasMeta(r) => HasMeta(r)'
                     /\ HasQuality(r) => HasQuality(r)'
<1>1. disk \in DiskRec /\ (disk.summary => \A c \in Scenarios : HasRow(c))
  BY DEF BatchInv
<1>2. disk' \in DiskRec /\ disk'.rows = disk.rows /\ \A f \in Files : disk.lines[f] \subseteq disk'.lines[f]
  BY <1>1
<1>3. /\ RowsAreBacked' /\ RowsAreSingle'
      /\ \A c : HasRow(c)' <=> HasRow(c)
      /\ \A r : /\ \A n : HasDecisions(r, n) => HasDecisions(r, n)'
                /\ HasRecord(r) => HasRecord(r)'
                /\ HasMeta(r) => HasMeta(r)'
                /\ HasQuality(r) => HasQuality(r)'
  BY <1>2, RowsKept
<1>4. disk'.summary => \A c \in Scenarios : HasRow(c)'
  BY <1>1, <1>3
<1> QED
  BY <1>2, <1>3, <1>4

LEMMA BatchUnchanged ==
    ASSUME BatchInv, mode' = mode, batch' = batch, disk' = disk,
           ep'.pc # "idle" => batch.pc \notin Stopped /\ (batch.pc = "execute" => ep'.scen \in Unfinished)
    PROVE  BatchInv'
<1>1. /\ disk' \in DiskRec /\ RowsAreBacked' /\ RowsAreSingle'
      /\ \A c : HasRow(c)' <=> HasRow(c)
      /\ disk'.summary => \A c \in Scenarios : HasRow(c)'
  BY DiskUnchanged
<1>2. OnePayloadEach' <=> OnePayloadEach
  BY DEF OnePayloadEach
<1>3. Unfinished' = Unfinished
  BY DEF Unfinished
<1>4. LinesSoFar' <=> LinesSoFar
  BY DEF LinesSoFar, HasDecisions, HasRecord, HasMeta, HasQuality, Row, Current, Tag
<1>5. \A i : Behind(i)' <=> Behind(i)
  BY DEF Behind
<1> QED
  BY <1>1, <1>2, <1>3, <1>4, <1>5 DEF BatchInv

LEMMA StageOrder ==
    /\ Stages[1] = "record"
    /\ StageAfter("record") = "meta" /\ StageAfter("meta") = "quality"
    /\ StageAfter("quality") = "row" /\ StageAfter("row") = "events" /\ StageAfter("events") = "record"
<1>1. /\ Len(Stages) = 5 /\ DOMAIN Stages = 1..5 /\ Stages[1] = "record" /\ Stages[2] = "meta"
      /\ Stages[3] = "quality" /\ Stages[4] = "row" /\ Stages[5] = "events"
  BY DEF Stages
<1>2. ASSUME NEW n \in 1..5, NEW s, Stages[n] = s
      PROVE  StageAfter(s) = IF n = 5 THEN Stages[1] ELSE Stages[n + 1]
  <2>1. \A m \in 1..5 : Stages[m] = s => m = n
    BY <1>1, <1>2
  <2> DEFINE place == CHOOSE j \in DOMAIN Stages : Stages[j] = s
  <2>2. place = n
    BY <1>1, <1>2, <2>1
  <2>3. StageAfter(s) = IF place = Len(Stages) THEN Stages[1] ELSE Stages[place + 1]
    BY DEF StageAfter
  <2> HIDE DEF place
  <2> QED
    BY <1>1, <2>2, <2>3
<1>3. \A n \in 1..5 : StageAfter(Stages[n]) = IF n = 5 THEN Stages[1] ELSE Stages[n + 1]
  BY <1>2
<1>4. 1 \in 1..5 /\ 2 \in 1..5 /\ 3 \in 1..5 /\ 4 \in 1..5 /\ 5 \in 1..5
  OBVIOUS
<1>5. /\ StageAfter(Stages[1]) = Stages[2] /\ StageAfter(Stages[2]) = Stages[3]
      /\ StageAfter(Stages[3]) = Stages[4] /\ StageAfter(Stages[4]) = Stages[5]
      /\ StageAfter(Stages[5]) = Stages[1]
  BY <1>3, <1>4
<1> QED
  BY <1>1, <1>5

(* The next place of the manifest that is pending.                         *)
LEMMA TaskFromEffects ==
    ASSUME batch \in BatchRec, NEW place \in Nat \ {0}, place <= Len(Manifest) + 1
    PROVE  /\ TaskFrom(place) \in Nat \ {0} /\ TaskFrom(place) >= place
           /\ TaskFrom(place) <= Len(Manifest) => Manifest[TaskFrom(place)] \in batch.pending
           /\ \A i \in place..Len(Manifest) : Manifest[i] \in batch.pending => TaskFrom(place) <= i
           /\ TaskFrom(place) <= Len(Manifest) + 1
<1> DEFINE tasks == {i \in place..Len(Manifest) : Manifest[i] \in batch.pending}
<1>1. Len(Manifest) \in Nat
  BY ManifestAssumption
<1>2. CASE tasks = {}
  <2>1. TaskFrom(place) = Len(Manifest) + 1
    BY <1>2 DEF TaskFrom
  <2>2. \A i \in place..Len(Manifest) : Manifest[i] \notin batch.pending
    BY <1>2
  <2> QED
    BY <1>1, <2>1, <2>2
<1>3. CASE tasks # {}
  <2>1. tasks \subseteq Nat
    BY <1>1
  <2>2. TaskFrom(place) = CHOOSE i \in tasks : \A j \in tasks : i <= j
    BY <1>3 DEF TaskFrom
  <2>3. \E i \in tasks : \A j \in tasks : i <= j
    <3> HIDE DEF tasks
    <3> QED
      BY <1>3, <2>1, LeastOf
  <2>4. TaskFrom(place) \in tasks /\ \A j \in tasks : TaskFrom(place) <= j
    <3> HIDE DEF tasks
    <3> QED
      BY <2>2, <2>3
  <2>5. /\ TaskFrom(place) \in place..Len(Manifest) /\ Manifest[TaskFrom(place)] \in batch.pending
        /\ \A i \in place..Len(Manifest) : Manifest[i] \in batch.pending => TaskFrom(place) <= i
    BY <2>4
  <2> QED
    BY <1>1, <2>5
<1> QED
  BY <1>2, <1>3

LEMMA ManifestScenarios ==
    /\ Len(Manifest) \in Nat /\ DOMAIN Manifest = 1..Len(Manifest)
    /\ \A i \in DOMAIN Manifest : Manifest[i] \in Scenarios
    /\ \A c \in Scenarios : \E i \in DOMAIN Manifest : Manifest[i] = c
    /\ \A i, j \in DOMAIN Manifest : Manifest[i] = Manifest[j] => i = j
BY ManifestAssumption DEF Range

(* The payload of the current place.                                       *)
LEMMA CurrentEffects ==
    ASSUME BatchInv, batch.pc = "write", batch.at <= Len(Manifest)
    PROVE  /\ Current \in PayloadRec /\ Current \in batch.payloads /\ Current.scen = Manifest[batch.at]
           /\ Manifest[batch.at] \in batch.pending /\ batch.at \in DOMAIN Manifest
<1>1. /\ batch \in BatchRec /\ Unfinished = {} /\ Manifest[batch.at] \in batch.pending
  BY DEF BatchInv
<1>2. \E p \in batch.payloads : p.scen = Manifest[batch.at]
  BY <1>1 DEF Unfinished
<1>3. Current \in batch.payloads /\ Current.scen = Manifest[batch.at]
  BY <1>2 DEF Current
<1>4. batch.payloads \subseteq PayloadRec /\ batch.at \in Nat \ {0}
  BY <1>1 DEF BatchRec
<1>5. batch.at \in DOMAIN Manifest
  BY <1>4, ManifestScenarios
<1> QED
  BY <1>1, <1>3, <1>4, <1>5

LEMMA InvokedEffects ==
    ASSUME NEW attempt \in Nat, NEW pending \in SUBSET Scenarios
    PROVE  /\ Invoked(attempt, pending) \in BatchRec
           /\ Invoked(attempt, pending).pc = "execute" /\ Invoked(attempt, pending).stage = "record"
           /\ Invoked(attempt, pending).line = 0 /\ Invoked(attempt, pending).attempt = attempt
           /\ Invoked(attempt, pending).pending = pending /\ Invoked(attempt, pending).payloads = {}
           /\ \A pc \in BatchPhases : /\ [Invoked(attempt, pending) EXCEPT !.pc = pc] \in BatchRec
                                      /\ [Invoked(attempt, pending) EXCEPT !.pc = pc].pc = pc
                                      /\ [Invoked(attempt, pending) EXCEPT !.pc = pc].attempt = attempt
<1>1. Stages[1] = "record"
  BY StageOrder
<1>2. Invoked(attempt, pending) \in BatchRec
  BY <1>1 DEF Invoked, BatchRec, BatchPhases, StageNames
<1> QED
  BY <1>1, <1>2 DEF Invoked, BatchRec

(* An invocation starts to execute what has no row.                        *)
LEMMA ExecutionStarts ==
    ASSUME BatchInv, mode' = mode, mode = "batch", disk' = disk,
           NEW attempt \in Nat, NEW pending \in SUBSET Scenarios, batch' = Invoked(attempt, pending),
           \A c \in Scenarios : c \in pending <=> ~HasRow(c),
           ep'.pc # "idle" => ep'.scen \in pending
    PROVE  BatchInv'
<1>1. /\ disk' \in DiskRec /\ RowsAreBacked' /\ RowsAreSingle'
      /\ \A c : HasRow(c)' <=> HasRow(c)
      /\ disk'.summary => \A c \in Scenarios : HasRow(c)'
  BY DiskUnchanged
<1>2. /\ batch' \in BatchRec /\ batch'.pc = "execute" /\ batch'.stage = "record" /\ batch'.line = 0
      /\ batch'.pending = pending /\ batch'.payloads = {}
  BY InvokedEffects
<1>3. OnePayloadEach'
  BY <1>2 DEF OnePayloadEach
<1>4. Unfinished' = pending
  BY <1>2 DEF Unfinished
<1> QED
  BY <1>1, <1>2, <1>3, <1>4 DEF BatchInv, Stopped

LEMMA StartBatchKeeps ==
    ASSUME LiveInv, EpisodeInv, BatchInv, mode' = mode, mode = "batch", StartBatch
    PROVE  LiveInv' /\ EpisodeInv' /\ BatchInv'
<1>1. /\ batch' = Invoked(1, Scenarios) /\ disk' = disk /\ ep' = ep /\ batch.pc = "idle"
      /\ engine' = engine /\ session' = session /\ committed' = committed
  BY DEF StartBatch
<1>2. \A c \in Scenarios : ~HasRow(c)
  BY <1>1 DEF BatchInv, HasRow, RowOf
<1>3. ep'.pc # "idle" => ep'.scen \in Scenarios
  BY <1>1 DEF EpisodeInv
<1>4. 1 \in Nat /\ Scenarios \in SUBSET Scenarios
  OBVIOUS
<1> QED
  BY <1>1, <1>2, <1>3, <1>4, LiveUnchanged, EpisodeUnchanged, ExecutionStarts

LEMMA ResumeBatchKeeps ==
    ASSUME LiveInv, EpisodeInv, BatchInv, mode' = mode, mode = "batch", ResumeBatch
    PROVE  LiveInv' /\ EpisodeInv' /\ BatchInv'
<1> DEFINE pending == {c \in Scenarios : RowOf(c) = {}}
           attempt == batch.attempt + 1
<1>1. /\ disk' = disk /\ ep' = ep /\ batch.pc \in Stopped /\ ProcessGone
      /\ batch' = IF disk.results = "broken" THEN [Invoked(attempt, pending) EXCEPT !.pc = "raised"] ELSE Invoked(attempt, pending)
  BY DEF ResumeBatch, Resumed, Stopped
<1>2. LiveInv' /\ EpisodeInv'
  <2>1. ep.pc = "idle" /\ ep.pc \notin Playing
    BY <1>1 DEF BatchInv, Playing
  <2>2. /\ ep' \in EpisodeRec /\ ep'.pc = "idle" /\ ep'.pc \notin Playing
        /\ ep'.decisions = <<>> /\ ep'.pc # "adopt"
    BY <1>1, <2>1 DEF EpisodeInv
  <2> QED
    BY <1>1, <2>2, ProcessGoneKeeps, EpisodeWithoutDecisions
<1>3. attempt \in Nat /\ pending \in SUBSET Scenarios /\ ep'.pc = "idle"
  BY <1>1 DEF BatchInv, BatchRec
<1>4. \A c \in Scenarios : c \in pending <=> ~HasRow(c)
  BY DEF HasRow
<1> HIDE DEF pending, attempt
<1>5. CASE disk.results # "broken"
  BY <1>1, <1>2, <1>3, <1>4, <1>5, ExecutionStarts
<1>6. CASE disk.results = "broken"
  <2>1. batch' \in BatchRec /\ batch'.pc = "raised"
    <3>1. "raised" \in BatchPhases
      BY DEF BatchPhases
    <3>2. batch' = [Invoked(attempt, pending) EXCEPT !.pc = "raised"]
      BY <1>1, <1>6
    <3> QED
      BY <1>3, <3>1, <3>2, InvokedEffects
  <2>2. /\ disk' \in DiskRec /\ RowsAreBacked' /\ RowsAreSingle'
        /\ disk'.summary => \A c \in Scenarios : HasRow(c)'
    BY <1>1, DiskUnchanged
  <2> QED
    BY <1>2, <1>3, <2>1, <2>2 DEF BatchInv
<1> QED
  BY <1>5, <1>6

LEMMA ExecuteScenarioKeeps ==
    ASSUME LiveInv, EpisodeInv, BatchInv, mode' = mode, mode = "batch",
           NEW c \in Scenarios, ExecuteScenario(c)
    PROVE  LiveInv' /\ EpisodeInv' /\ BatchInv'
<1>1. /\ batch.pc = "execute" /\ c \in Unfinished /\ ep' = BeginEpisode(c, "batch")
      /\ batch' = batch /\ disk' = disk
      /\ ProcessGone \/ UNCHANGED <<engine, owner, session, committed>>
  BY DEF ExecuteScenario
<1>2. LiveInv'
  BY <1>1, ProcessGoneKeeps, LiveUnchanged
<1>3. EpisodeInv' /\ ep'.scen = c
  BY <1>1, EpisodeBegins DEF Arms
<1> QED
  BY <1>1, <1>2, <1>3, BatchUnchanged DEF Stopped

LEMMA PayloadTyped ==
    ASSUME EpisodeInv, ep.pc # "idle"
    PROVE  Payload \in PayloadRec /\ Payload.scen = ep.scen
<1>1. ep.scen \in Scenarios
  BY DEF EpisodeInv
<1>2. Status \in Statuses
  BY DEF Status, Statuses
<1>3. HasErrorEvents \in BOOLEAN
  BY DEF HasErrorEvents
<1>4. Len(ep.decisions) \in Nat
  BY DEF EpisodeInv, EpisodeRec
<1> DEFINE status == Status
           events == HasErrorEvents
<1>5. Payload = [scen |-> ep.scen, status |-> status, decisions |-> Len(ep.decisions), events |-> events]
  BY DEF Payload
<1> HIDE DEF status, events
<1> QED
  BY <1>1, <1>2, <1>3, <1>4, <1>5 DEF PayloadRec, status, events

(* Payloads come in: one for every scenario that had none.                 *)
LEMMA PayloadsArrive ==
    ASSUME BatchInv, mode' = mode, mode = "batch", batch.pc = "execute", disk' = disk,
           NEW new \in SUBSET PayloadRec, batch' = [batch EXCEPT !.payloads = @ \cup new],
           \A p \in new : p.scen \in Unfinished,
           \A p, q \in new : p.scen = q.scen => p = q,
           ep'.pc = "idle"
    PROVE  BatchInv'
<1>1. /\ disk' \in DiskRec /\ RowsAreBacked' /\ RowsAreSingle'
      /\ \A c : HasRow(c)' <=> HasRow(c)
      /\ disk'.summary => \A c \in Scenarios : HasRow(c)'
  BY DiskUnchanged
<1>2. batch \in BatchRec /\ OnePayloadEach
  BY DEF BatchInv
<1>3. /\ batch' \in BatchRec /\ batch'.pc = "execute" /\ batch'.stage = batch.stage /\ batch'.line = batch.line
      /\ batch'.pending = batch.pending /\ batch'.payloads = batch.payloads \cup new
  BY <1>2 DEF BatchRec
<1>4. OnePayloadEach'
  BY <1>2, <1>3 DEF OnePayloadEach, Unfinished
<1> QED
  BY <1>1, <1>3, <1>4 DEF BatchInv

LEMMA CollectPayloadKeeps ==
    ASSUME LiveInv, EpisodeInv, BatchInv, mode' = mode, mode = "batch", CollectPayload
    PROVE  LiveInv' /\ EpisodeInv' /\ BatchInv'
<1>1. /\ batch.pc = "execute" /\ ep.pc # "idle" /\ ep' = NoEpisode /\ disk' = disk
      /\ batch' = [batch EXCEPT !.payloads = @ \cup {Payload}]
      /\ session' = [session EXCEPT ![SessionOf(ep.arm)] = NewSession]
      /\ committed' = NoCommit /\ engine' = engine
  BY DEF CollectPayload, EpisodeOver, EnvDropped
<1>2. LiveInv'
  <2>1. SessionOf(ep.arm) \in SessionIds
    BY DEF SessionOf, SessionIds
  <2> QED
    BY <1>1, <2>1, SessionDropped
<1>3. EpisodeInv' /\ ep'.pc = "idle"
  BY <1>1, EpisodeEnds
<1>4. {Payload} \in SUBSET PayloadRec /\ \A p \in {Payload} : p.scen \in Unfinished
  BY <1>1, PayloadTyped DEF BatchInv
<1>5. \A p, q \in {Payload} : p.scen = q.scen => p = q
  OBVIOUS
<1> QED
  BY <1>1, <1>2, <1>3, <1>4, <1>5, PayloadsArrive

LEMMA WorkerCrashKeeps ==
    ASSUME LiveInv, EpisodeInv, BatchInv, mode' = mode, mode = "batch", WorkerCrash
    PROVE  LiveInv' /\ EpisodeInv' /\ BatchInv'
<1> DEFINE new == {[scen |-> c, status |-> "quarantined", decisions |-> 0, events |-> TRUE] : c \in Unfinished}
<1>1. /\ batch.pc = "execute" /\ ep' = NoEpisode /\ disk' = disk
      /\ batch' = [batch EXCEPT !.payloads = @ \cup new] /\ ProcessGone
  BY DEF WorkerCrash
<1>2. LiveInv'
  BY <1>1, ProcessGoneKeeps
<1>3. EpisodeInv' /\ ep'.pc = "idle"
  BY <1>1, EpisodeEnds
<1>4. Unfinished \subseteq Scenarios
  BY DEF BatchInv, BatchRec, Unfinished
<1>5. /\ new \in SUBSET PayloadRec /\ \A p \in new : p.scen \in Unfinished
      /\ \A p, q \in new : p.scen = q.scen => p = q
  <2>1. \A p \in new : \E c \in Unfinished :
          p = [scen |-> c, status |-> "quarantined", decisions |-> 0, events |-> TRUE]
    OBVIOUS
  <2> HIDE DEF new
  <2>2. ASSUME NEW p \in new PROVE p \in PayloadRec /\ p.scen \in Unfinished
    <3>1. PICK c \in Unfinished : p = [scen |-> c, status |-> "quarantined", decisions |-> 0, events |-> TRUE]
      BY <2>1
    <3>2. c \in Scenarios
      BY <1>4
    <3>3. p.scen = c
      BY <3>1
    <3>4. p \in PayloadRec
      BY ONLY <3>1, <3>2 DEF PayloadRec, Statuses
    <3> QED
      BY <3>3, <3>4
  <2>3. \A p \in new : p = [scen |-> p.scen, status |-> "quarantined", decisions |-> 0, events |-> TRUE]
    BY <2>1
  <2> QED
    BY <2>2, <2>3
<1> HIDE DEF new
<1> QED
  BY <1>1, <1>2, <1>3, <1>5, PayloadsArrive

LEMMA StartWritingKeeps ==
    ASSUME LiveInv, EpisodeInv, BatchInv, mode' = mode, mode = "batch", StartWriting
    PROVE  LiveInv' /\ EpisodeInv' /\ BatchInv'
<1> DEFINE at == TaskFrom(1)
<1>1. /\ batch.pc = "execute" /\ Unfinished = {} /\ ep.pc = "idle"
      /\ batch' = [batch EXCEPT !.pc = "write", !.at = at]
      /\ engine' = engine /\ session' = session /\ committed' = committed /\ ep' = ep /\ disk' = disk
  BY DEF StartWriting
<1>2. LiveInv' /\ EpisodeInv'
  BY <1>1, LiveUnchanged, EpisodeUnchanged
<1>3. /\ disk' \in DiskRec /\ RowsAreBacked' /\ RowsAreSingle'
      /\ \A c : HasRow(c)' <=> HasRow(c)
      /\ disk'.summary => \A c \in Scenarios : HasRow(c)'
  BY <1>1, DiskUnchanged
<1>4. /\ batch \in BatchRec /\ OnePayloadEach /\ batch.stage = "record" /\ batch.line = 0
      /\ \A c \in batch.pending : ~HasRow(c)
      /\ \A c \in Scenarios \ batch.pending : HasRow(c)
  BY <1>1 DEF BatchInv
<1>5. /\ at \in Nat \ {0}
      /\ at <= Len(Manifest) => Manifest[at] \in batch.pending
      /\ \A i \in 1..Len(Manifest) : Manifest[i] \in batch.pending => at <= i
  <2>1. 1 \in Nat \ {0} /\ 1 <= Len(Manifest) + 1
    BY ManifestScenarios
  <2> QED
    BY <1>4, <2>1, TaskFromEffects
<1> HIDE DEF at
<1>6. /\ batch' \in BatchRec /\ batch'.pc = "write" /\ batch'.at = at /\ batch'.stage = "record"
      /\ batch'.line = 0 /\ batch'.pending = batch.pending /\ batch'.payloads = batch.payloads
  BY <1>1, <1>4, <1>5 DEF BatchRec, BatchPhases
<1>7. OnePayloadEach' /\ Unfinished' = {}
  BY <1>1, <1>4, <1>6 DEF OnePayloadEach, Unfinished
<1>8. \A i \in DOMAIN Manifest : Manifest[i] \in batch'.pending => (HasRow(Manifest[i])' <=> Behind(i)')
  <2> SUFFICES ASSUME NEW i \in DOMAIN Manifest, Manifest[i] \in batch.pending
               PROVE  HasRow(Manifest[i])' <=> Behind(i)'
    BY <1>6
  <2>1. ~HasRow(Manifest[i])'
    BY <1>3, <1>4
  <2>2. i \in 1..Len(Manifest) /\ at <= i
    BY <1>5, ManifestScenarios
  <2>3. ~(i < at)
    BY <1>5, <2>2
  <2> QED
    BY <1>6, <2>1, <2>3 DEF Behind
<1>9. LinesSoFar'
  BY <1>6 DEF LinesSoFar, HasDecisions
<1>10. batch'.at <= Len(Manifest) => Manifest[batch'.at] \in batch'.pending /\ LinesSoFar'
  BY <1>5, <1>6, <1>9
<1> QED
  BY <1>1, <1>2, <1>3, <1>4, <1>6, <1>7, <1>8, <1>10 DEF BatchInv, Stopped

(* What the stages of the write loop have in common: the rows stay, the    *)
(* lines grow, the loop stays at its scenario.                             *)
LEMMA StageWritten ==
    ASSUME LiveInv, EpisodeInv, BatchInv, mode' = mode, mode = "batch",
           NEW stage \in {"record", "meta", "quality"}, Writing(stage), Advance, MemoryOnly,
           disk' \in DiskRec, disk'.rows = disk.rows, disk'.summary = disk.summary,
           \A f \in Files : disk.lines[f] \subseteq disk'.lines[f],
           NEW r, r = Row(Current),
           stage = "record" => HasRecord(r)',
           stage = "meta" => HasMeta(r)',
           stage = "quality" => HasQuality(r)'
    PROVE  LiveInv' /\ EpisodeInv' /\ BatchInv'
<1> DEFINE next == StageAfter(stage)
<1>1. /\ batch.pc = "write" /\ batch.at <= Len(Manifest) /\ batch.stage = stage
      /\ engine' = engine /\ session' = session /\ committed' = committed /\ ep' = ep
  BY DEF Writing, MemoryOnly
<1>2. LiveInv' /\ EpisodeInv'
  BY <1>1, LiveUnchanged, EpisodeUnchanged
<1>3. /\ batch \in BatchRec /\ OnePayloadEach /\ LinesSoFar /\ Unfinished = {}
      /\ Manifest[batch.at] \in batch.pending
      /\ \A i \in DOMAIN Manifest : Manifest[i] \in batch.pending => (HasRow(Manifest[i]) <=> Behind(i))
      /\ \A c \in Scenarios \ batch.pending : HasRow(c)
      /\ disk.summary => \A c \in Scenarios : HasRow(c)
  BY <1>1 DEF BatchInv
<1>4. next \in {"meta", "quality", "row"} /\ next # Stages[1]
  BY StageOrder
<1>5. batch' = [batch EXCEPT !.stage = next, !.line = 0, !.at = batch.at]
  <2>1. batch' = [batch EXCEPT !.stage = StageAfter(batch.stage), !.line = 0,
                               !.at = IF StageAfter(batch.stage) = Stages[1] THEN TaskFrom(batch.at + 1) ELSE batch.at]
    BY DEF Advance
  <2> QED
    BY <1>1, <1>4, <2>1
<1>6. /\ batch' \in BatchRec /\ batch'.pc = "write" /\ batch'.at = batch.at /\ batch'.stage = next
      /\ batch'.pending = batch.pending /\ batch'.payloads = batch.payloads /\ batch'.attempt = batch.attempt
  BY <1>1, <1>3, <1>4, <1>5 DEF BatchRec, StageNames
<1>7. /\ RowsAreBacked' /\ RowsAreSingle'
      /\ \A c : HasRow(c)' <=> HasRow(c)
      /\ HasRecord(r) => HasRecord(r)'
      /\ HasMeta(r) => HasMeta(r)'
  BY RowsKept
<1>8. OnePayloadEach' /\ Unfinished' = {}
  BY <1>3, <1>6 DEF OnePayloadEach, Unfinished
<1>9. \A i : Behind(i)' <=> Behind(i)
  BY <1>1, <1>4, <1>6 DEF Behind
<1>10. Row(Current)' = r
  BY <1>6 DEF Current, Row
<1>11. LinesSoFar'
  <2>1. /\ stage # "record" => HasRecord(r)
        /\ stage \notin {"record", "meta"} => HasMeta(r)
    BY <1>1, <1>3 DEF LinesSoFar
  <2>2. HasRecord(r)'
    BY <1>7, <2>1
  <2>3. stage # "record" => HasMeta(r)'
    BY <1>7, <2>1
  <2>4. (next = "meta" <=> stage = "record") /\ (next = "row" <=> stage = "quality")
    BY StageOrder
  <2> QED
    BY <1>4, <1>6, <1>10, <2>2, <2>3, <2>4 DEF LinesSoFar
<1>12. disk'.summary => \A c \in Scenarios : HasRow(c)'
  BY <1>3, <1>7
<1> HIDE DEF next
<1>13. \A i \in DOMAIN Manifest : Manifest[i] \in batch'.pending => (HasRow(Manifest[i])' <=> Behind(i)')
  BY <1>3, <1>6, <1>7, <1>9
<1>14. \A c \in Scenarios \ batch'.pending : HasRow(c)'
  BY <1>3, <1>6, <1>7
<1> QED
  BY <1>2, <1>3, <1>6, <1>7, <1>8, <1>11, <1>12, <1>13, <1>14 DEF BatchInv, Stopped

LEMMA LineWritten ==
    ASSUME BatchInv, NEW f \in Files, NEW k \in Nat, WriteLine(f, k), Current.scen \in Scenarios
    PROVE  /\ disk' \in DiskRec /\ disk'.rows = disk.rows /\ disk'.summary = disk.summary
           /\ \A g \in Files : disk.lines[g] \subseteq disk'.lines[g]
           /\ \A n : Tag(Row(Current), n) = <<Current.scen, batch.attempt, n>>
           /\ Tag(Row(Current), k) \in disk'.lines[f]
           /\ disk'.torn = disk.torn \ {f}
           /\ \A g \in Files : g # f => disk'.joined[g] = disk.joined[g]
           /\ f \notin disk.torn => disk'.joined[f] = disk.joined[f]
           /\ f \in disk.torn => disk'.joined[f] = disk.joined[f] \cup {<<Current.scen, batch.attempt, k>>}
<1> DEFINE tag == <<Current.scen, batch.attempt, k>>
<1>1. disk \in DiskRec /\ batch.attempt \in Nat
  BY DEF BatchInv, BatchRec
<1>2. tag \in Tags
  BY <1>1 DEF Tags
<1>3. disk' = [disk EXCEPT !.lines[f] = @ \cup {tag}, !.torn = @ \ {f},
                          !.joined[f] = IF f \in disk.torn THEN @ \cup {tag} ELSE @]
  BY DEF WriteLine
<1>4. \A n : Tag(Row(Current), n) = <<Current.scen, batch.attempt, n>>
  BY DEF Tag, Row
<1> HIDE DEF tag
<1>5. disk.lines \in [Files -> SUBSET Tags] /\ disk.joined \in [Files -> SUBSET Tags] /\ disk.torn \in SUBSET Files
  BY <1>1 DEF DiskRec
<1> DEFINE lines == [disk.lines EXCEPT ![f] = @ \cup {tag}]
           joined == [disk.joined EXCEPT ![f] = IF f \in disk.torn THEN @ \cup {tag} ELSE @]
           torn == disk.torn \ {f}
<1>6. lines \in [Files -> SUBSET Tags] /\ torn \in SUBSET Files
  BY <1>2, <1>5
<1>7. joined \in [Files -> SUBSET Tags]
  BY <1>2, <1>5
<1>8. disk' = [disk EXCEPT !.lines = lines, !.torn = torn, !.joined = joined]
  BY <1>3
<1>9. /\ \A g \in Files : disk.lines[g] \subseteq lines[g]
      /\ tag \in lines[f]
      /\ \A g \in Files : g # f => joined[g] = disk.joined[g]
      /\ f \notin disk.torn => joined[f] = disk.joined[f]
      /\ f \in disk.torn => joined[f] = disk.joined[f] \cup {tag}
  BY <1>5
<1> HIDE DEF lines, joined, torn
<1>10. /\ disk' \in DiskRec /\ disk'.rows = disk.rows /\ disk'.summary = disk.summary
       /\ disk'.lines = lines /\ disk'.torn = torn /\ disk'.joined = joined
  BY <1>1, <1>6, <1>7, <1>8 DEF DiskRec
<1> QED
  BY <1>4, <1>9, <1>10 DEF tag, torn

(* One decision of the current scenario.                                   *)
LEMMA WriteDecisionKeeps ==
    ASSUME LiveInv, EpisodeInv, BatchInv, mode' = mode, mode = "batch", WriteDecision
    PROVE  LiveInv' /\ EpisodeInv' /\ BatchInv'
<1> DEFINE k == batch.line + 1
<1>1. /\ batch.pc = "write" /\ batch.at <= Len(Manifest) /\ batch.stage = "record"
      /\ engine' = engine /\ session' = session /\ committed' = committed /\ ep' = ep
      /\ batch' = [batch EXCEPT !.line = k] /\ WriteLine("trajectories", k)
  BY DEF WriteDecision, Writing, MemoryOnly
<1>2. LiveInv' /\ EpisodeInv'
  BY <1>1, LiveUnchanged, EpisodeUnchanged
<1>3. /\ batch \in BatchRec /\ OnePayloadEach /\ LinesSoFar /\ Unfinished = {}
      /\ Manifest[batch.at] \in batch.pending
      /\ \A i \in DOMAIN Manifest : Manifest[i] \in batch.pending => (HasRow(Manifest[i]) <=> Behind(i))
      /\ \A c \in Scenarios \ batch.pending : HasRow(c)
      /\ disk.summary => \A c \in Scenarios : HasRow(c)
  BY <1>1 DEF BatchInv
<1>4. Current.scen \in Scenarios
  BY <1>1, CurrentEffects DEF PayloadRec
<1>5. batch.line \in Nat /\ k \in Nat
  BY <1>3 DEF BatchRec
<1> PICK r : r = Row(Current)
  OBVIOUS
<1>6. /\ disk' \in DiskRec /\ disk'.rows = disk.rows /\ disk'.summary = disk.summary
      /\ \A g \in Files : disk.lines[g] \subseteq disk'.lines[g]
      /\ Tag(r, k) \in disk'.lines["trajectories"]
  BY <1>1, <1>4, <1>5, LineWritten DEF Files
<1>7. /\ RowsAreBacked' /\ RowsAreSingle'
      /\ \A c : HasRow(c)' <=> HasRow(c)
      /\ HasDecisions(r, batch.line) => \A n \in 1..batch.line : Tag(r, n) \in disk'.lines["trajectories"]
  BY <1>6, RowsKept DEF HasDecisions, Files
<1> HIDE DEF k
<1>8. /\ batch' \in BatchRec /\ batch'.pc = "write" /\ batch'.at = batch.at /\ batch'.stage = "record"
      /\ batch'.line = k /\ batch'.attempt = batch.attempt
      /\ batch'.pending = batch.pending /\ batch'.payloads = batch.payloads
  BY <1>1, <1>3, <1>5 DEF BatchRec
<1>9. OnePayloadEach' /\ Unfinished' = {}
  BY <1>3, <1>8 DEF OnePayloadEach, Unfinished
<1>10. \A i : Behind(i)' <=> Behind(i)
  BY <1>1, <1>8 DEF Behind
<1>11. Row(Current)' = r
  BY <1>8 DEF Current, Row
<1>12. LinesSoFar'
  <2>1. HasDecisions(r, batch.line)
    BY <1>1, <1>3 DEF LinesSoFar
  <2>2. \A n \in 1..k : n \in 1..batch.line \/ n = k
    BY <1>5 DEF k
  <2>3. \A n \in 1..k : Tag(r, n) \in disk'.lines["trajectories"]
    BY <1>6, <1>7, <2>1, <2>2
  <2> QED
    BY <1>8, <1>11, <2>3 DEF LinesSoFar, HasDecisions, Tag
<1>13. disk'.summary => \A c \in Scenarios : HasRow(c)'
  BY <1>3, <1>6, <1>7
<1>14. \A i \in DOMAIN Manifest : Manifest[i] \in batch'.pending => (HasRow(Manifest[i])' <=> Behind(i)')
  BY <1>3, <1>7, <1>8, <1>10
<1>15. \A c \in Scenarios \ batch'.pending : HasRow(c)'
  BY <1>3, <1>7, <1>8
<1> QED
  BY <1>2, <1>3, <1>6, <1>7, <1>8, <1>9, <1>12, <1>13, <1>14, <1>15 DEF BatchInv, Stopped

LEMMA StagesKeep ==
    ASSUME LiveInv, EpisodeInv, BatchInv, mode' = mode, mode = "batch", WriteRecord \/ WriteMeta \/ WriteQuality
    PROVE  LiveInv' /\ EpisodeInv' /\ BatchInv'
<1> PICK r : r = Row(Current)
  OBVIOUS
<1>1. batch.pc = "write" /\ batch.at <= Len(Manifest) /\ Advance /\ MemoryOnly
  BY DEF WriteRecord, WriteMeta, WriteQuality, Writing
<1>2. /\ Current.decisions \in Nat /\ Current.scen \in Scenarios /\ batch \in BatchRec
      /\ batch.line \in Nat /\ 1 \in Nat
  BY <1>1, CurrentEffects DEF PayloadRec, BatchInv, BatchRec
<1>3. {"trajectories", "quarantine", "trajectory_meta", "trajectory_quality"} \subseteq Files
  BY DEF Files
<1>4. /\ batch.stage \in {"record", "meta", "quality"}
      /\ Writing(batch.stage)
  BY DEF WriteRecord, WriteMeta, WriteQuality, Writing
<1>5. r.status = Current.status /\ r.decisions = Current.decisions
  BY DEF Row
<1>6. ASSUME disk' = disk
      PROVE  /\ disk' \in DiskRec /\ disk'.rows = disk.rows /\ disk'.summary = disk.summary
             /\ \A g \in Files : disk.lines[g] \subseteq disk'.lines[g]
  BY <1>6 DEF BatchInv
<1>7. ASSUME NEW f \in Files, WriteLine(f, 1)
      PROVE  /\ disk' \in DiskRec /\ disk'.rows = disk.rows /\ disk'.summary = disk.summary
             /\ \A g \in Files : disk.lines[g] \subseteq disk'.lines[g]
             /\ Tag(r, 1) \in disk'.lines[f]
  BY <1>2, <1>7, LineWritten
<1>8. CASE WriteRecord
  <2>1. batch.stage = "record" /\ ~MoreDecisions
    BY <1>8 DEF WriteRecord, Writing
  <2>2. CASE Current.status = "ok"
    <3>1. disk' = disk
      BY <1>8, <2>2 DEF WriteRecord
    <3>2. HasDecisions(r, batch.line)
      BY <1>1, <2>1 DEF BatchInv, LinesSoFar
    <3>3. \A k \in 1..r.decisions : k \in 1..batch.line
      BY <1>2, <1>5, <2>1, <2>2 DEF MoreDecisions
    <3>4. HasRecord(r)
      BY <1>5, <2>2, <3>2, <3>3 DEF HasRecord, HasDecisions
    <3>5. HasRecord(r)'
      BY <3>1, <3>4 DEF HasRecord, HasDecisions, Tag
    <3> QED
      BY <1>1, <1>4, <1>6, <2>1, <3>1, <3>5, StageWritten
  <2>3. CASE Current.status # "ok"
    <3>1. WriteLine("quarantine", 1)
      BY <1>8, <2>3 DEF WriteRecord
    <3>2. HasRecord(r)'
      BY <1>3, <1>5, <1>7, <2>3, <3>1 DEF HasRecord, Tag
    <3> QED
      BY <1>1, <1>3, <1>4, <1>7, <2>1, <3>1, <3>2, StageWritten
  <2> QED
    BY <2>2, <2>3
<1>9. CASE WriteMeta
  <2>1. batch.stage = "meta"
    BY <1>9 DEF WriteMeta, Writing
  <2>2. CASE Current.status = "ok"
    <3>1. WriteLine("trajectory_meta", 1)
      BY <1>9, <2>2 DEF WriteMeta
    <3>2. HasMeta(r)'
      BY <1>3, <1>7, <3>1 DEF HasMeta, Tag
    <3> QED
      BY <1>1, <1>3, <1>4, <1>7, <2>1, <3>1, <3>2, StageWritten
  <2>3. CASE Current.status # "ok"
    <3>1. disk' = disk
      BY <1>9, <2>3 DEF WriteMeta
    <3>2. HasMeta(r)'
      BY <1>5, <2>3 DEF HasMeta
    <3> QED
      BY <1>1, <1>4, <1>6, <2>1, <3>1, <3>2, StageWritten
  <2> QED
    BY <2>2, <2>3
<1>10. CASE WriteQuality
  <2>1. batch.stage = "quality" /\ WriteLine("trajectory_quality", 1)
    BY <1>10 DEF WriteQuality, Writing
  <2>2. HasQuality(r)'
    BY <1>3, <1>7, <2>1 DEF HasQuality, Tag
  <2> QED
    BY <1>1, <1>3, <1>4, <1>7, <2>1, <2>2, StageWritten
<1> QED
  BY <1>8, <1>9, <1>10

(* The row of the current scenario, at its stage, is the first one of it.  *)
LEMMA RowAdded ==
    ASSUME BatchInv, Writing("row"), NEW results \in Results, disk' = RowAppended(results)
    PROVE  /\ disk' \in DiskRec /\ disk'.lines = disk.lines /\ disk'.summary = disk.summary
           /\ disk'.torn = disk.torn /\ disk'.joined = disk.joined
           /\ RowsAreSingle' /\ RowsAreBacked'
           /\ \A s : HasRow(s)' <=> HasRow(s) \/ s = Current.scen
<1> DEFINE row == Row(Current)
           c == Current.scen
           n == Len(disk.rows)
<1>1. /\ batch.pc = "write" /\ batch.at <= Len(Manifest) /\ batch.stage = "row"
      /\ disk' = [disk EXCEPT !.rows = Append(@, row), !.results = results]
  BY DEF Writing, RowAppended
<1>2. /\ batch \in BatchRec /\ disk \in DiskRec /\ LinesSoFar
      /\ Manifest[batch.at] \in batch.pending
      /\ \A i \in DOMAIN Manifest : Manifest[i] \in batch.pending => (HasRow(Manifest[i]) <=> Behind(i))
      /\ RowsAreBacked /\ RowsAreSingle
  BY <1>1 DEF BatchInv
<1>3. /\ Current \in PayloadRec /\ c = Manifest[batch.at] /\ batch.at \in DOMAIN Manifest
  BY <1>1, CurrentEffects
<1>4. row \in RowRec /\ row.scen = c
  BY <1>2, <1>3 DEF Row, RowRec, BatchRec, PayloadRec
<1>5. HasRecord(row) /\ HasMeta(row) /\ HasQuality(row)
  BY <1>1, <1>2 DEF LinesSoFar
<1> HIDE DEF row
<1>6. /\ disk' \in DiskRec /\ disk'.lines = disk.lines /\ disk'.summary = disk.summary
      /\ disk'.torn = disk.torn /\ disk'.joined = disk.joined
      /\ disk'.rows = Append(disk.rows, row) /\ disk.rows \in Seq(RowRec)
  <2> DEFINE rows == Append(disk.rows, row)
  <2>1. disk.rows \in Seq(RowRec)
    BY <1>2 DEF DiskRec
  <2>2. rows \in Seq(RowRec)
    BY <1>4, <2>1
  <2>3. disk' = [disk EXCEPT !.rows = rows, !.results = results]
    BY <1>1
  <2> HIDE DEF rows
  <2>4. /\ disk' \in DiskRec /\ disk'.lines = disk.lines /\ disk'.summary = disk.summary /\ disk'.rows = rows
        /\ disk'.torn = disk.torn /\ disk'.joined = disk.joined
    BY <1>2, <2>2, <2>3 DEF DiskRec
  <2> QED
    BY <2>1, <2>4 DEF rows
<1>7. /\ n \in Nat /\ DOMAIN disk.rows = 1..n /\ DOMAIN disk'.rows = 1..(n + 1)
      /\ disk'.rows[n + 1] = row /\ \A i \in 1..n : disk'.rows[i] = disk.rows[i]
  BY <1>6
<1> HIDE DEF n
<1>8. ~HasRow(c)
  <2>1. batch.at \in Nat
    BY <1>2 DEF BatchRec
  <2>2. ~Behind(batch.at)
    BY <1>1, <2>1 DEF Behind
  <2> QED
    BY <1>2, <1>3, <2>2
<1>9. \A i \in 1..n : disk.rows[i].scen # c
  BY <1>7, <1>8 DEF HasRow, RowOf
<1>10. \A s : HasRow(s)' <=> HasRow(s) \/ s = c
  <2> SUFFICES ASSUME NEW s PROVE HasRow(s)' <=> HasRow(s) \/ s = c
    OBVIOUS
  <2>1. HasRow(s)' <=> \E i \in 1..(n + 1) : disk'.rows[i].scen = s
    BY <1>7 DEF HasRow, RowOf
  <2>2. HasRow(s) <=> \E i \in 1..n : disk.rows[i].scen = s
    BY <1>7 DEF HasRow, RowOf
  <2>3. n + 1 \in 1..(n + 1) /\ \A i \in 1..(n + 1) : i = n + 1 \/ i \in 1..n
    BY <1>7
  <2>4. \A i \in 1..n : i \in 1..(n + 1)
    BY <1>7
  <2> QED
    BY <1>4, <1>7, <2>1, <2>2, <2>3, <2>4
<1>11. RowsAreSingle'
  <2> SUFFICES ASSUME NEW i \in 1..(n + 1), NEW j \in 1..(n + 1), disk'.rows[i].scen = disk'.rows[j].scen
               PROVE  i = j
    BY <1>7 DEF RowsAreSingle
  <2>1. CASE i \in 1..n /\ j \in 1..n
    BY <1>2, <1>7, <2>1 DEF RowsAreSingle
  <2>2. CASE i = n + 1 /\ j \in 1..n
    BY <1>4, <1>7, <1>9, <2>2
  <2>3. CASE i \in 1..n /\ j = n + 1
    BY <1>4, <1>7, <1>9, <2>3
  <2> QED
    BY <1>7, <2>1, <2>2, <2>3
<1>12. RowsAreBacked'
  <2>1. ASSUME NEW i \in 1..(n + 1), NEW r, r = disk'.rows[i]
        PROVE  HasRecord(r)' /\ HasMeta(r)' /\ HasQuality(r)'
    <3>1. HasRecord(r) /\ HasMeta(r) /\ HasQuality(r)
      <4>1. CASE i \in 1..n
        BY <1>2, <1>7, <2>1, <4>1 DEF RowsAreBacked
      <4>2. CASE i = n + 1
        BY <1>5, <1>7, <2>1, <4>2
      <4> QED
        BY <1>7, <4>1, <4>2
    <3> QED
      BY <1>6, <3>1 DEF HasRecord, HasDecisions, HasMeta, HasQuality, Tag
  <2> QED
    BY <1>7, <2>1 DEF RowsAreBacked
<1> QED
  BY <1>6, <1>10, <1>11, <1>12

LEMMA WriteRowKeeps ==
    ASSUME LiveInv, EpisodeInv, BatchInv, mode' = mode, mode = "batch", WriteRow
    PROVE  LiveInv' /\ EpisodeInv' /\ BatchInv'
<1> DEFINE c == Current.scen
<1> PICK r : r = Row(Current)
  OBVIOUS
<1>1. /\ batch.pc = "write" /\ batch.at <= Len(Manifest) /\ batch.stage = "row"
      /\ engine' = engine /\ session' = session /\ committed' = committed /\ ep' = ep
      /\ Advance /\ Writing("row") /\ \E results \in Results : disk' = RowAppended(results)
  BY DEF WriteRow, Writing, MemoryOnly, Results
<1>2. LiveInv' /\ EpisodeInv'
  BY <1>1, LiveUnchanged, EpisodeUnchanged
<1>3. /\ batch \in BatchRec /\ OnePayloadEach /\ LinesSoFar /\ Unfinished = {}
      /\ Manifest[batch.at] \in batch.pending
      /\ \A i \in DOMAIN Manifest : Manifest[i] \in batch.pending => (HasRow(Manifest[i]) <=> Behind(i))
      /\ \A s \in Scenarios \ batch.pending : HasRow(s)
      /\ disk.summary => \A s \in Scenarios : HasRow(s)
  BY <1>1 DEF BatchInv
<1>4. c = Manifest[batch.at] /\ batch.at \in DOMAIN Manifest
  BY <1>1, CurrentEffects
<1>5. /\ disk' \in DiskRec /\ disk'.lines = disk.lines /\ disk'.summary = disk.summary
      /\ RowsAreSingle' /\ RowsAreBacked'
      /\ \A s : HasRow(s)' <=> HasRow(s) \/ s = c
  BY <1>1, RowAdded
<1>6. StageAfter("row") = "events" /\ "events" # Stages[1]
  BY StageOrder
<1>7. batch' = [batch EXCEPT !.stage = "events", !.line = 0, !.at = batch.at]
  BY <1>1, <1>6 DEF Advance
<1>8. /\ batch' \in BatchRec /\ batch'.pc = "write" /\ batch'.at = batch.at /\ batch'.stage = "events"
      /\ batch'.pending = batch.pending /\ batch'.payloads = batch.payloads /\ batch'.attempt = batch.attempt
  BY <1>1, <1>3, <1>7 DEF BatchRec, StageNames
<1>9. Row(Current)' = r
  BY <1>8 DEF Row, Current
<1>10. HasRecord(r) /\ HasMeta(r) /\ HasQuality(r)
  BY <1>1, <1>3 DEF LinesSoFar
<1>11. HasRecord(r)' /\ HasMeta(r)' /\ HasQuality(r)'
  BY <1>5, <1>10 DEF HasRecord, HasDecisions, HasMeta, HasQuality, Tag
<1>12. LinesSoFar'
  BY <1>8, <1>9, <1>11 DEF LinesSoFar
<1>13. OnePayloadEach' /\ Unfinished' = {}
  BY <1>3, <1>8 DEF OnePayloadEach, Unfinished
<1>14. \A i \in DOMAIN Manifest : Manifest[i] \in batch'.pending => (HasRow(Manifest[i])' <=> Behind(i)')
  <2> SUFFICES ASSUME NEW i \in DOMAIN Manifest, Manifest[i] \in batch.pending
               PROVE  HasRow(Manifest[i])' <=> Behind(i)'
    BY <1>8
  <2>1. Behind(i)' <=> Behind(i) \/ i = batch.at
    BY <1>1, <1>8 DEF Behind
  <2>2. Manifest[i] = c <=> i = batch.at
    BY <1>4, ManifestScenarios
  <2> QED
    BY <1>3, <1>5, <2>1, <2>2
<1>15. disk'.summary => \A s \in Scenarios : HasRow(s)'
  BY <1>3, <1>5
<1>16. \A s \in Scenarios \ batch'.pending : HasRow(s)'
  BY <1>3, <1>5, <1>8
<1> QED
  BY <1>2, <1>3, <1>5, <1>8, <1>12, <1>13, <1>14, <1>15, <1>16 DEF BatchInv, Stopped

(* The last file of a scenario: the loop goes on to the next pending one.  *)
LEMMA WriteEventsKeeps ==
    ASSUME LiveInv, EpisodeInv, BatchInv, mode' = mode, mode = "batch", WriteEvents
    PROVE  LiveInv' /\ EpisodeInv' /\ BatchInv'
<1> DEFINE at == TaskFrom(batch.at + 1)
<1>1. /\ batch.pc = "write" /\ batch.at <= Len(Manifest) /\ batch.stage = "events"
      /\ engine' = engine /\ session' = session /\ committed' = committed /\ ep' = ep
      /\ Advance /\ (WriteLine("error_events", 1) \/ disk' = disk)
  BY DEF WriteEvents, Writing, MemoryOnly
<1>2. LiveInv' /\ EpisodeInv'
  BY <1>1, LiveUnchanged, EpisodeUnchanged
<1>3. /\ batch \in BatchRec /\ OnePayloadEach /\ Unfinished = {}
      /\ \A i \in DOMAIN Manifest : Manifest[i] \in batch.pending => (HasRow(Manifest[i]) <=> Behind(i))
      /\ \A s \in Scenarios \ batch.pending : HasRow(s)
      /\ disk.summary => \A s \in Scenarios : HasRow(s)
  BY <1>1 DEF BatchInv
<1>4. Current.scen \in Scenarios
  BY <1>1, CurrentEffects DEF PayloadRec
<1>5. /\ disk' \in DiskRec /\ disk'.rows = disk.rows /\ disk'.summary = disk.summary
      /\ \A g \in Files : disk.lines[g] \subseteq disk'.lines[g]
  <2>1. CASE WriteLine("error_events", 1)
    BY <1>4, <2>1, LineWritten DEF Files
  <2>2. CASE disk' = disk
    BY <2>2 DEF BatchInv
  <2> QED
    BY <1>1, <2>1, <2>2
<1>6. /\ RowsAreBacked' /\ RowsAreSingle' /\ \A s : HasRow(s)' <=> HasRow(s)
  BY <1>5, RowsKept
<1>7. batch.at \in Nat \ {0} /\ Len(Manifest) \in Nat /\ DOMAIN Manifest = 1..Len(Manifest)
  BY <1>3, ManifestScenarios DEF BatchRec
<1>8. /\ at \in Nat \ {0} /\ at >= batch.at + 1
      /\ at <= Len(Manifest) => Manifest[at] \in batch.pending
      /\ \A i \in (batch.at + 1)..Len(Manifest) : Manifest[i] \in batch.pending => at <= i
  <2> DEFINE place == batch.at + 1
  <2>1. place \in Nat \ {0} /\ place <= Len(Manifest) + 1
    BY <1>1, <1>7
  <2> HIDE DEF place
  <2>2. /\ TaskFrom(place) \in Nat \ {0} /\ TaskFrom(place) >= place
        /\ TaskFrom(place) <= Len(Manifest) => Manifest[TaskFrom(place)] \in batch.pending
        /\ \A i \in place..Len(Manifest) : Manifest[i] \in batch.pending => TaskFrom(place) <= i
    BY <1>3, <2>1, TaskFromEffects
  <2> QED
    BY <2>2 DEF place
<1>9. batch' = [batch EXCEPT !.stage = "record", !.line = 0, !.at = at]
  <2>1. StageAfter("events") = "record" /\ Stages[1] = "record"
    BY StageOrder
  <2> QED
    BY <1>1, <2>1 DEF Advance
<1> HIDE DEF at
<1>10. /\ batch' \in BatchRec /\ batch'.pc = "write" /\ batch'.at = at /\ batch'.stage = "record" /\ batch'.line = 0
       /\ batch'.pending = batch.pending /\ batch'.payloads = batch.payloads
  BY <1>1, <1>3, <1>8, <1>9 DEF BatchRec, StageNames
<1>11. OnePayloadEach' /\ Unfinished' = {}
  BY <1>3, <1>10 DEF OnePayloadEach, Unfinished
<1>12. \A i \in DOMAIN Manifest : Manifest[i] \in batch'.pending => (HasRow(Manifest[i])' <=> Behind(i)')
  <2> SUFFICES ASSUME NEW i \in DOMAIN Manifest, Manifest[i] \in batch.pending
               PROVE  HasRow(Manifest[i])' <=> Behind(i)'
    BY <1>10
  <2>1. i \in Nat /\ i >= 1 /\ i <= Len(Manifest)
    BY <1>7
  <2>2. Behind(i)' <=> i < at
    BY <1>10 DEF Behind
  <2>3. Behind(i) <=> i < batch.at \/ i = batch.at
    BY <1>1 DEF Behind
  <2>4. i < at <=> i < batch.at \/ i = batch.at
    <3>1. CASE i <= batch.at
      BY <1>7, <1>8, <2>1, <3>1
    <3>2. CASE i > batch.at
      <4>1. i \in (batch.at + 1)..Len(Manifest)
        BY <1>7, <2>1, <3>2
      <4>2. at <= i
        BY <1>8, <4>1
      <4> QED
        BY <1>7, <1>8, <2>1, <3>2, <4>2
    <3> QED
      BY <1>7, <2>1, <3>1, <3>2
  <2> QED
    BY <1>3, <1>6, <2>2, <2>3, <2>4
<1>13. LinesSoFar'
  BY <1>10 DEF LinesSoFar, HasDecisions
<1>14. disk'.summary => \A s \in Scenarios : HasRow(s)'
  BY <1>3, <1>5, <1>6
<1>15. \A s \in Scenarios \ batch'.pending : HasRow(s)'
  BY <1>3, <1>6, <1>10
<1>16. batch'.at <= Len(Manifest) => Manifest[batch'.at] \in batch'.pending /\ LinesSoFar'
  BY <1>8, <1>10, <1>13
<1> QED
  BY <1>2, <1>5, <1>6, <1>10, <1>11, <1>12, <1>14, <1>15, <1>16 DEF BatchInv, Stopped

(* After the loop: nothing is left to write.                               *)
LEMMA StartSummaryKeeps ==
    ASSUME LiveInv, EpisodeInv, BatchInv, mode' = mode, mode = "batch", StartSummary
    PROVE  LiveInv' /\ EpisodeInv' /\ BatchInv'
<1>1. /\ batch.pc = "write" /\ batch.at > Len(Manifest)
      /\ engine' = engine /\ session' = session /\ committed' = committed /\ ep' = ep /\ disk' = disk
  BY DEF StartSummary
<1>2. LiveInv' /\ EpisodeInv'
  BY <1>1, LiveUnchanged, EpisodeUnchanged
<1>3. batch \in BatchRec
  BY DEF BatchInv
<1>4. \E sample \in SUBSET DOMAIN Manifest : batch' = [batch EXCEPT !.pc = "rerun", !.sample = sample]
  <2> DEFINE ok == {n \in DOMAIN Manifest : \E i \in RowOf(Manifest[n]) : disk.rows[i].status = "ok"}
             sample == {n \in ok : Cardinality({m \in ok : m < n}) < DeterminismSample}
  <2>1. batch' = [batch EXCEPT !.pc = "rerun", !.sample = sample]
    BY DEF StartSummary
  <2>2. sample \in SUBSET DOMAIN Manifest
    OBVIOUS
  <2> HIDE DEF sample
  <2> QED
    BY <2>1, <2>2
<1>5. batch' \in BatchRec /\ batch'.pc = "rerun"
  BY <1>3, <1>4 DEF BatchRec, BatchPhases
<1>6. \A c \in Scenarios : HasRow(c)
  <2> SUFFICES ASSUME NEW c \in Scenarios, c \in batch.pending PROVE HasRow(c)
    BY <1>1 DEF BatchInv
  <2>1. PICK i \in DOMAIN Manifest : Manifest[i] = c
    BY ManifestScenarios
  <2>2. i < batch.at
    <3>1. i \in Nat /\ i <= Len(Manifest) /\ Len(Manifest) \in Nat /\ batch.at \in Nat
      BY <1>3, ManifestScenarios DEF BatchRec
    <3> QED
      BY <1>1, <3>1
  <2>3. Behind(i)
    BY <2>2 DEF Behind
  <2> QED
    BY <1>1, <2>1, <2>3 DEF BatchInv
<1>7. /\ disk' \in DiskRec /\ RowsAreBacked' /\ RowsAreSingle'
      /\ \A c : HasRow(c)' <=> HasRow(c)
      /\ disk'.summary => \A c \in Scenarios : HasRow(c)'
  BY <1>1, DiskUnchanged
<1>8. \A c \in Scenarios : HasRow(c)'
  BY <1>6, <1>7
<1> QED
  BY <1>2, <1>5, <1>7, <1>8 DEF BatchInv, Stopped

LEMMA RerunKeeps ==
    ASSUME LiveInv, EpisodeInv, BatchInv, mode' = mode, mode = "batch", Rerun
    PROVE  LiveInv' /\ EpisodeInv' /\ BatchInv'
<1>1. /\ batch.pc = "rerun" /\ batch.sample # {} /\ ep' = BeginEpisode(Manifest[FirstOf(batch.sample)], "batch")
      /\ engine' = engine /\ session' = session /\ committed' = committed /\ batch' = batch /\ disk' = disk
  BY DEF Rerun
<1>2. LiveInv'
  BY <1>1, LiveUnchanged
<1>3. FirstOf(batch.sample) \in DOMAIN Manifest
  <2>1. batch.sample \subseteq DOMAIN Manifest /\ DOMAIN Manifest \subseteq Nat
    BY ManifestScenarios DEF BatchInv, BatchRec
  <2>2. \E n \in batch.sample : \A m \in batch.sample : n <= m
    <3>1. batch.sample \subseteq Nat
      BY <2>1
    <3> QED
      BY <1>1, <3>1, LeastOf
  <2>3. FirstOf(batch.sample) \in batch.sample
    BY <2>2 DEF FirstOf
  <2> QED
    BY <2>1, <2>3
<1>4. Manifest[FirstOf(batch.sample)] \in Scenarios /\ "batch" \in Arms
  BY <1>3, ManifestScenarios DEF Arms
<1>5. EpisodeInv'
  BY <1>1, <1>4, EpisodeBegins
<1> QED
  BY <1>1, <1>2, <1>5, BatchUnchanged DEF Stopped

LEMMA CompareRerunKeeps ==
    ASSUME LiveInv, EpisodeInv, BatchInv, mode' = mode, mode = "batch", CompareRerun
    PROVE  LiveInv' /\ EpisodeInv' /\ BatchInv'
<1>1. /\ batch.pc = "rerun" /\ ep' = NoEpisode /\ disk' = disk
      /\ \/ batch' = [batch EXCEPT !.sample = batch.sample \ {FirstOf(batch.sample)}]
         \/ batch' = [batch EXCEPT !.pc = "raised"]
      /\ session' = [session EXCEPT ![SessionOf(ep.arm)] = NewSession]
      /\ committed' = NoCommit /\ engine' = engine
  BY DEF CompareRerun, EnvDropped
<1>2. LiveInv'
  <2>1. SessionOf(ep.arm) \in SessionIds
    BY DEF SessionOf, SessionIds
  <2> QED
    BY <1>1, <2>1, SessionDropped
<1>3. EpisodeInv' /\ ep'.pc = "idle"
  BY <1>1, EpisodeEnds
<1>4. batch \in BatchRec /\ \A c \in Scenarios : HasRow(c)
  BY <1>1 DEF BatchInv
<1>5. batch' \in BatchRec /\ batch'.pc \in {"rerun", "raised"}
  BY <1>1, <1>4 DEF BatchRec, BatchPhases
<1>6. /\ disk' \in DiskRec /\ RowsAreBacked' /\ RowsAreSingle'
      /\ \A c : HasRow(c)' <=> HasRow(c)
      /\ disk'.summary => \A c \in Scenarios : HasRow(c)'
  BY <1>1, DiskUnchanged
<1>7. \A c \in Scenarios : HasRow(c)'
  BY <1>4, <1>6
<1> QED
  BY <1>2, <1>3, <1>5, <1>6, <1>7 DEF BatchInv

LEMMA WriteSummaryKeeps ==
    ASSUME LiveInv, EpisodeInv, BatchInv, mode' = mode, mode = "batch", WriteSummary
    PROVE  LiveInv' /\ EpisodeInv' /\ BatchInv'
<1>1. /\ batch.pc = "rerun" /\ ep.pc = "idle" /\ batch' = [batch EXCEPT !.pc = "ended"]
      /\ disk' = [disk EXCEPT !.summary = TRUE]
      /\ engine' = engine /\ session' = session /\ committed' = committed /\ ep' = ep
  BY DEF WriteSummary
<1>2. LiveInv' /\ EpisodeInv'
  BY <1>1, LiveUnchanged, EpisodeUnchanged
<1>3. batch \in BatchRec /\ disk \in DiskRec /\ \A c \in Scenarios : HasRow(c)
  BY <1>1 DEF BatchInv
<1>4. batch' \in BatchRec /\ batch'.pc = "ended"
  BY <1>1, <1>3 DEF BatchRec, BatchPhases
<1>5. disk' \in DiskRec /\ disk'.rows = disk.rows /\ \A f \in Files : disk.lines[f] \subseteq disk'.lines[f]
  BY <1>1, <1>3 DEF DiskRec
<1>6. RowsAreBacked' /\ RowsAreSingle' /\ \A c : HasRow(c)' <=> HasRow(c)
  BY <1>5, RowsKept
<1>7. \A c \in Scenarios : HasRow(c)'
  BY <1>3, <1>6
<1> QED
  BY <1>1, <1>2, <1>4, <1>5, <1>6, <1>7 DEF BatchInv

(* Killed: what is flushed stays.                                          *)
LEMMA KillEffects ==
    ASSUME BatchInv, Kill
    PROVE  /\ disk' \in DiskRec /\ disk'.summary = disk.summary /\ disk'.joined = disk.joined
           /\ RowsAreBacked' /\ RowsAreSingle' /\ \A c : HasRow(c) => HasRow(c)'
<1>1. disk \in DiskRec
  BY DEF BatchInv
<1>2. \/ disk' = disk
      \/ \E f \in Files : disk' = [disk EXCEPT !.torn = @ \cup {f}]
      \/ disk' = [disk EXCEPT !.results = "broken"]
      \/ Writing("row") /\ \E results \in Results : disk' = RowAppended(results)
  BY DEF Kill, TornDisks, Results
<1>3. CASE Writing("row") /\ \E results \in Results : disk' = RowAppended(results)
  BY <1>3, RowAdded
<1>4. CASE \/ disk' = disk
           \/ \E f \in Files : disk' = [disk EXCEPT !.torn = @ \cup {f}]
           \/ disk' = [disk EXCEPT !.results = "broken"]
  <2>1. /\ disk' \in DiskRec /\ disk'.rows = disk.rows /\ disk'.summary = disk.summary
        /\ disk'.joined = disk.joined /\ disk'.lines = disk.lines
    <3>1. CASE disk' = disk
      BY <1>1, <3>1
    <3>2. CASE \E f \in Files : disk' = [disk EXCEPT !.torn = @ \cup {f}]
      <4> PICK f \in Files : disk' = [disk EXCEPT !.torn = @ \cup {f}]
        BY <3>2
      <4> DEFINE torn == disk.torn \cup {f}
      <4>1. torn \in SUBSET Files
        BY <1>1 DEF DiskRec
      <4>2. disk' = [disk EXCEPT !.torn = torn]
        OBVIOUS
      <4> HIDE DEF torn
      <4> QED
        BY <1>1, <4>1, <4>2 DEF DiskRec
    <3>3. CASE disk' = [disk EXCEPT !.results = "broken"]
      BY <1>1, <3>3 DEF DiskRec, Results
    <3> QED
      BY <1>4, <3>1, <3>2, <3>3
  <2> QED
    BY <2>1, RowsKept
<1> QED
  BY <1>2, <1>3, <1>4

LEMMA KillKeeps ==
    ASSUME LiveInv, EpisodeInv, BatchInv, mode' = mode, mode = "batch", Kill
    PROVE  LiveInv' /\ EpisodeInv' /\ BatchInv'
<1>1. batch' = [Invoked(batch.attempt, {}) EXCEPT !.pc = "killed"] /\ ep' = NoEpisode /\ ProcessGone
  BY DEF Kill
<1>2. LiveInv'
  BY <1>1, ProcessGoneKeeps
<1>3. EpisodeInv' /\ ep'.pc = "idle"
  BY <1>1, EpisodeEnds
<1>4. batch' \in BatchRec /\ batch'.pc = "killed"
  <2>1. batch.attempt \in Nat /\ {} \in SUBSET Scenarios /\ "killed" \in BatchPhases
    BY DEF BatchInv, BatchRec, BatchPhases
  <2> QED
    BY <1>1, <2>1, InvokedEffects
<1>5. disk'.summary => \A c \in Scenarios : HasRow(c)'
  BY KillEffects DEF BatchInv
<1> QED
  BY <1>2, <1>3, <1>4, <1>5, KillEffects DEF BatchInv

LEMMA BatchStepKeeps ==
    ASSUME LiveInv, EpisodeInv, BatchInv, mode' = mode, mode = "batch", BatchStep
    PROVE  LiveInv' /\ EpisodeInv' /\ BatchInv'
BY StartBatchKeeps, ResumeBatchKeeps, CollectPayloadKeeps, WorkerCrashKeeps, StartWritingKeeps,
   ExecuteScenarioKeeps, WriteDecisionKeeps, StagesKeep, WriteRowKeeps, WriteEventsKeeps, StartSummaryKeeps,
   RerunKeeps, CompareRerunKeeps, WriteSummaryKeeps, KillKeeps
   DEF BatchStep

(* The fragments, and what is joined to them.                              *)
LEMMA JoinsKept ==
    ASSUME JoinInv, disk'.torn = disk.torn, disk'.joined = disk.joined, batch'.attempt = batch.attempt,
           batch.pc \notin {"idle", "killed"}, batch'.pc \notin {"idle", "killed"}
    PROVE  JoinInv'
BY DEF JoinInv

LEMMA JoinLine ==
    ASSUME BatchInv, JoinInv, NEW f \in Files, NEW k \in Nat, WriteLine(f, k), batch.pc = "write",
           batch.at <= Len(Manifest), batch'.pc = batch.pc, batch'.attempt = batch.attempt
    PROVE  JoinInv'
<1> DEFINE tag == <<Current.scen, batch.attempt, k>>
<1>1. Current.scen \in Scenarios /\ batch.attempt \in Nat
  BY CurrentEffects DEF PayloadRec, BatchInv, BatchRec
<1>2. tag[2] = batch.attempt
  OBVIOUS
<1> HIDE DEF tag
<1>3. /\ disk'.torn = disk.torn \ {f}
      /\ \A g \in Files : g # f => disk'.joined[g] = disk.joined[g]
      /\ f \notin disk.torn => disk'.joined[f] = disk.joined[f]
      /\ f \in disk.torn => disk'.joined[f] = disk.joined[f] \cup {tag}
  BY <1>1, LineWritten DEF tag
<1>4. /\ \A g \in Files : \A s \in disk.joined[g] : s[2] > 1 /\ s[2] <= batch.attempt
      /\ \A g \in Files : \A s, t \in disk.joined[g] : s[2] = t[2] => s = t
      /\ \A g \in disk.torn : batch.attempt > 1 /\ \A s \in disk.joined[g] : s[2] < batch.attempt
      /\ batch.attempt >= 1
  BY DEF JoinInv
<1>5. \A s \in disk.joined[f] : f \in disk.torn => s[2] # batch.attempt
  BY <1>1, <1>4
<1>6. \A g \in Files : \A s \in disk'.joined[g] : s[2] > 1 /\ s[2] <= batch.attempt
  BY <1>1, <1>2, <1>3, <1>4
<1>7. \A g \in Files : \A s, t \in disk'.joined[g] : s[2] = t[2] => s = t
  BY <1>2, <1>3, <1>4, <1>5
<1>8. disk.torn \subseteq Files
  BY DEF BatchInv, DiskRec
<1>9. \A g \in disk'.torn : batch.attempt > 1 /\ \A s \in disk'.joined[g] : s[2] < batch.attempt
  BY <1>3, <1>4, <1>8
<1> QED
  BY <1>4, <1>6, <1>7, <1>9 DEF JoinInv

LEMMA AdvanceStays ==
    ASSUME BatchInv, Advance
    PROVE  batch'.pc = batch.pc /\ batch'.attempt = batch.attempt
BY DEF Advance, BatchInv, BatchRec

LEMMA BatchStepJoins ==
    ASSUME BatchInv, JoinInv, BatchStep
    PROVE  JoinInv'
<1>1. batch \in BatchRec /\ batch.attempt \in Nat /\ batch.line \in Nat /\ disk \in DiskRec
  BY DEF BatchInv, BatchRec
<1>2. CASE StartBatch
  <2>1. 1 \in Nat /\ Scenarios \in SUBSET Scenarios
    OBVIOUS
  <2>2. batch'.pc = "execute" /\ batch'.attempt = 1 /\ disk' = disk /\ batch.pc = "idle"
    BY <1>2, <2>1, InvokedEffects DEF StartBatch
  <2> QED
    BY <2>2 DEF JoinInv
<1>3. CASE ResumeBatch
  <2> DEFINE attempt == batch.attempt + 1
             pending == {c \in Scenarios : RowOf(c) = {}}
  <2>1. /\ attempt \in Nat /\ pending \in SUBSET Scenarios /\ "raised" \in BatchPhases
        /\ batch.pc \in Stopped /\ disk' = disk
        /\ \/ batch' = Invoked(attempt, pending)
           \/ batch' = [Invoked(attempt, pending) EXCEPT !.pc = "raised"]
    BY <1>1, <1>3 DEF ResumeBatch, Resumed, Stopped, BatchPhases
  <2>2. attempt = batch.attempt + 1
    OBVIOUS
  <2> HIDE DEF attempt, pending
  <2>3. batch'.pc \in {"execute", "raised"} /\ batch'.attempt = attempt
    <3>1. /\ Invoked(attempt, pending).pc = "execute" /\ Invoked(attempt, pending).attempt = attempt
          /\ [Invoked(attempt, pending) EXCEPT !.pc = "raised"].pc = "raised"
          /\ [Invoked(attempt, pending) EXCEPT !.pc = "raised"].attempt = attempt
      BY <2>1, InvokedEffects
    <3> QED
      BY <2>1, <3>1
  <2>4. \A f \in Files : \A s \in disk.joined[f] : s[2] \in Nat
    BY <1>1 DEF DiskRec, Tags
  <2>5. disk.torn \subseteq Files
    BY <1>1 DEF DiskRec
  <2>6. /\ batch.attempt >= 1
        /\ \A f \in Files : \A s \in disk.joined[f] : s[2] > 1 /\ s[2] <= batch.attempt
        /\ \A f \in Files : \A s, t \in disk.joined[f] : s[2] = t[2] => s = t
    BY <2>1 DEF JoinInv, Stopped
  <2>7. \A f \in Files : \A s \in disk.joined[f] : s[2] <= attempt /\ s[2] < attempt
    BY <1>1, <2>2, <2>4, <2>6
  <2>8. attempt > 1
    BY <1>1, <2>2, <2>6
  <2> QED
    BY <2>1, <2>3, <2>5, <2>6, <2>7, <2>8 DEF JoinInv
<1>4. CASE \/ CollectPayload \/ WorkerCrash \/ StartWriting \/ \E c \in Scenarios : ExecuteScenario(c)
           \/ StartSummary \/ Rerun \/ CompareRerun
  <2>1. /\ disk' = disk /\ batch.pc \in {"execute", "write", "rerun"}
        /\ batch'.attempt = batch.attempt /\ batch'.pc \in {"execute", "write", "rerun", "raised"}
    BY <1>1, <1>4 DEF CollectPayload, WorkerCrash, StartWriting, ExecuteScenario, StartSummary, Rerun, CompareRerun,
                      BatchRec
  <2> QED
    BY <2>1, JoinsKept
<1>5. CASE WriteSummary
  <2>1. /\ disk'.torn = disk.torn /\ disk'.joined = disk.joined /\ batch.pc = "rerun"
        /\ batch'.attempt = batch.attempt /\ batch'.pc = "ended"
    BY <1>1, <1>5 DEF WriteSummary, BatchRec, DiskRec
  <2> QED
    BY <2>1, JoinsKept
<1>6. CASE WriteDecision
  <2> DEFINE k == batch.line + 1
  <2>1. /\ batch.pc = "write" /\ batch.at <= Len(Manifest) /\ WriteLine("trajectories", k) /\ k \in Nat
        /\ batch' = [batch EXCEPT !.line = k]
    BY <1>1, <1>6 DEF WriteDecision, Writing
  <2> HIDE DEF k
  <2>2. batch'.pc = batch.pc /\ batch'.attempt = batch.attempt
    BY <1>1, <2>1 DEF BatchRec
  <2> QED
    BY <2>1, <2>2, JoinLine DEF Files
<1>7. CASE WriteRecord \/ WriteMeta \/ WriteQuality \/ WriteEvents
  <2>1. /\ batch.pc = "write" /\ batch.at <= Len(Manifest) /\ Advance
        /\ disk' = disk \/ \E f \in Files : WriteLine(f, 1)
    BY <1>7 DEF WriteRecord, WriteMeta, WriteQuality, WriteEvents, Writing, Files
  <2>2. batch'.pc = batch.pc /\ batch'.attempt = batch.attempt
    BY <2>1, AdvanceStays
  <2>3. 1 \in Nat
    OBVIOUS
  <2> QED
    BY <2>1, <2>2, <2>3, JoinLine, JoinsKept
<1>8. CASE WriteRow
  <2>1. batch.pc = "write" /\ Advance /\ Writing("row") /\ \E results \in Results : disk' = RowAppended(results)
    BY <1>8 DEF WriteRow, Writing, Results
  <2>2. disk'.torn = disk.torn /\ disk'.joined = disk.joined
    BY <2>1, RowAdded
  <2> QED
    BY <2>1, <2>2, AdvanceStays, JoinsKept
<1>9. CASE Kill
  <2>1. batch'.attempt = batch.attempt /\ batch'.pc = "killed" /\ batch.pc # "idle"
    <3>1. {} \in SUBSET Scenarios /\ "killed" \in BatchPhases
      BY DEF BatchPhases
    <3>2. batch' = [Invoked(batch.attempt, {}) EXCEPT !.pc = "killed"] /\ batch.pc # "idle"
      BY <1>9 DEF Kill
    <3> QED
      BY <1>1, <3>1, <3>2, InvokedEffects
  <2>2. disk'.joined = disk.joined
    BY <1>9, KillEffects
  <2> QED
    BY <2>1, <2>2 DEF JoinInv
<1> QED
  BY <1>2, <1>3, <1>4, <1>5, <1>6, <1>7, <1>8, <1>9 DEF BatchStep

(* What the files show of the batch.                                       *)
LEMMA BatchInvBacksRows ==
    ASSUME BatchInv, JoinInv
    PROVE  ResultRowsAreBacked
<1>1. ASSUME NEW i \in DOMAIN disk.rows, NEW r, r = disk.rows[i]
      PROVE  /\ RowOf(r.scen) = {i}
             /\ <<r.scen, r.attempt, 1>> \in disk.lines["trajectory_quality"]
             /\ IF r.status = "ok"
                THEN /\ \A k \in 1..r.decisions : <<r.scen, r.attempt, k>> \in disk.lines["trajectories"]
                     /\ <<r.scen, r.attempt, 1>> \in disk.lines["trajectory_meta"]
                ELSE <<r.scen, r.attempt, 1>> \in disk.lines["quarantine"]
  <2>1. RowOf(r.scen) = {i}
    BY <1>1 DEF BatchInv, RowsAreSingle, RowOf
  <2>2. HasRecord(r) /\ HasMeta(r) /\ HasQuality(r)
    BY <1>1 DEF BatchInv, RowsAreBacked
  <2> QED
    BY <2>1, <2>2 DEF HasRecord, HasDecisions, HasMeta, HasQuality, Tag
<1>2. disk.summary => \A c \in Scenarios : RowOf(c) # {}
  BY DEF BatchInv, HasRow
<1>3. \A f \in Files : \A s, t \in disk.joined[f] : s[2] > 1 /\ (s[2] = t[2] => s = t)
  BY DEF JoinInv
<1> QED
  BY <1>1, <1>2, <1>3 DEF ResultRowsAreBacked

-----------------------------------------------------------------------------
(***************************************************************************)
(* The evaluation, and the whole.                                          *)
(***************************************************************************)
LEMMA EvalStepKeeps ==
    ASSUME LiveInv, EpisodeInv, EvalInv, mode' = mode, mode = "eval", EvalStep
    PROVE  LiveInv' /\ EpisodeInv' /\ EvalInv'
<1>1. /\ eval.pair \in ArmPairs /\ eval.at \in Nat \ {0} /\ eval.pair[1] \in Arms /\ eval.pair[2] \in Arms
      /\ ep \in EpisodeRec /\ engine \in EngineRec /\ SessionOf(ep.arm) \in SessionIds
  BY DEF EvalInv, EvalRec, ArmPairs, Arms, EpisodeInv, LiveInv, LiveTypes, SessionOf, SessionIds
<1>2. ASSUME DropEnv
      PROVE  LiveInv'
  BY <1>1, <1>2, SessionDropped DEF DropEnv
<1>3. eval \in EvalRec
  BY DEF EvalInv
<1>4. EvalInv'
  <2>1. eval' \in EvalRec /\ eval'.pair = eval.pair
    <3>1. CASE \E pc \in {"first", "second", "write", "raised"} : \E quarantined \in BOOLEAN :
                 eval' = [eval EXCEPT !.pc = pc, !.quarantined = quarantined]
      BY <1>3, <3>1 DEF EvalRec
    <3>2. CASE \E pc \in {"first", "second", "write", "raised"} : eval' = [eval EXCEPT !.pc = pc]
      BY <1>3, <3>2 DEF EvalRec
    <3>3. CASE eval' = [eval EXCEPT !.pc = "next", !.at = eval.at + 1]
      <4> DEFINE at == eval.at + 1
      <4>1. at \in Nat \ {0} /\ eval' = [eval EXCEPT !.pc = "next", !.at = at]
        <5>1. eval.at + 1 \in Nat /\ eval.at + 1 # 0
          BY <1>1
        <5> QED
          BY <3>3, <5>1
      <4> HIDE DEF at
      <4> QED
        BY <1>3, <4>1 DEF EvalRec
    <3> QED
      BY <3>1, <3>2, <3>3
         DEF EvalStep, NextScenario, FirstArmOver, SecondArmOver, EvalDies, WriteScenario
  <2> QED
    BY <1>1, <2>1 DEF EvalInv
<1>5. CASE NextScenario
  <2>1. /\ ep' = BeginEpisode(EvalList[eval.at], eval.pair[1]) /\ eval.at <= Len(EvalList)
        /\ engine' = engine /\ session' = session /\ committed' = NoCommit
    BY <1>5 DEF NextScenario
  <2>2. LiveInv'
    BY <1>1, <2>1, ReachesSelf, EngineOnly
  <2>3. EvalList[eval.at] \in Scenarios
    <3>1. eval.at \in DOMAIN EvalList
      BY <1>1, <2>1, EvalAssumption
    <3> QED
      BY <3>1, EvalAssumption
  <2> QED
    BY <1>1, <1>4, <2>1, <2>2, <2>3, EpisodeBegins
<1>6. CASE FirstArmOver
  <2>1. /\ DropEnv /\ ep.pc \in {"done", "quarantined"}
        /\ IF ep.pc = "quarantined" THEN ep' = NoEpisode
           ELSE ep' = [NoEpisode EXCEPT !.pc = "adopt", !.scen = ep.scen, !.arm = eval.pair[2], !.base = ep.base]
    BY <1>6 DEF FirstArmOver
  <2>2. CASE ep.pc = "quarantined"
    BY <1>2, <1>4, <2>1, <2>2, EpisodeEnds
  <2>3. CASE ep.pc = "done"
    <3>1. ep' = [NoEpisode EXCEPT !.pc = "adopt", !.scen = ep.scen, !.arm = eval.pair[2], !.base = ep.base]
      BY <2>1, <2>3
    <3>2. ep.scen \in Scenarios /\ ep.base \in StateRec /\ ep.base.board = Opened(ep.scen)
      BY <1>1, <2>3 DEF EpisodeInv, EpisodeRec, Playing
    <3>3. NoEpisode \in EpisodeRec /\ NoEpisode.decisions = <<>> /\ "adopt" \in EpisodePhases
      BY NoEpisodeTyped DEF EpisodePhases
    <3> DEFINE arm == eval.pair[2]
    <3>4. arm \in Arms
      BY <1>1
    <3> HIDE DEF arm
    <3>5. ep' = [NoEpisode EXCEPT !.pc = "adopt", !.scen = ep.scen, !.arm = arm, !.base = ep.base]
      BY <3>1 DEF arm
    <3>6. /\ ep' \in EpisodeRec /\ ep'.pc = "adopt" /\ ep'.scen = ep.scen /\ ep'.arm = arm
          /\ ep'.base = ep.base /\ ep'.decisions = <<>>
      BY <3>2, <3>3, <3>4, <3>5 DEF EpisodeRec
    <3>7. ep'.pc \notin Playing
      BY <3>6 DEF Playing
    <3> QED
      BY <1>2, <1>4, <2>1, <3>2, <3>4, <3>6, <3>7, EpisodeWithoutDecisions
  <2> QED
    BY <2>1, <2>2, <2>3
<1>7. CASE SecondArmOver \/ EvalDies
  BY <1>2, <1>4, <1>7, EpisodeEnds DEF SecondArmOver, EvalDies
<1>8. CASE WriteScenario
  <2>1. engine' = engine /\ session' = session /\ committed' = NoCommit /\ ep' = ep
    BY <1>8 DEF WriteScenario
  <2> QED
    BY <1>1, <1>4, <2>1, ReachesSelf, EngineOnly, EpisodeUnchanged
<1> QED
  BY <1>5, <1>6, <1>7, <1>8 DEF EvalStep

LEMMA EpisodeStepRuns ==
    ASSUME EpisodeStep
    PROVE  ep.pc # "idle"
BY DEF EpisodeStep, Preflight, AdoptState, LoopHead, DecideTrajectory, DecideEvaluated, DecideChoiceArm,
       Decided, Commit

LEMMA InitEstablishes ==
    ASSUME Init
    PROVE  IInv
<1>1. LiveInv
  <2>1. engine \in EngineRec /\ session = [k \in SessionIds |-> NewSession] /\ committed = NoCommit
    BY NewSessionTyped DEF Init, LiveInit, EngineRec
  <2>2. LiveTypes
    BY <2>1, NewSessionTyped DEF LiveTypes
  <2>3. FrameInv
    <3>1. \A k \in SessionIds : session[k].state = NoState
      BY <2>1, NewSessionTyped
    <3> QED
      BY <3>1 DEF FrameInv, Frame, NoState, NoFrame, Init, LiveInit
  <2> QED
    BY <2>1, <2>2, <2>3 DEF LiveInv, CommittedStepIsTheDecision
<1>2. EpisodeInv
  <2>1. ep = NoEpisode
    BY DEF Init
  <2>2. ep \in EpisodeRec /\ ep.pc = "idle" /\ ep.decisions = <<>>
    BY <2>1, NoEpisodeTyped
  <2> QED
    BY <2>2 DEF EpisodeInv, Playing, OnePlay
<1>3. BatchInv /\ JoinInv
  <2>1. batch = [Invoked(0, {}) EXCEPT !.pc = "idle"] /\ disk = EmptyDisk
    BY DEF Init, BatchInit, Idle
  <2>2. batch \in BatchRec /\ batch.pc = "idle"
    <3>1. 0 \in Nat /\ {} \in SUBSET Scenarios /\ "idle" \in BatchPhases
      BY DEF BatchPhases
    <3> QED
      BY <2>1, <3>1, InvokedEffects
  <2>3. /\ disk \in DiskRec /\ disk.rows = <<>> /\ disk.summary = FALSE
        /\ disk.torn = {} /\ \A f \in Files : disk.joined[f] = {}
    BY <2>1 DEF EmptyDisk, DiskRec, Results
  <2>4. BatchInv
    BY <1>2, <2>2, <2>3 DEF BatchInv, RowsAreBacked, RowsAreSingle, Stopped
  <2> QED
    BY <2>2, <2>3, <2>4 DEF JoinInv
<1>4. EvalInv
  <2>1. CASE mode = "eval"
    <3>1. PICK pair \in ArmPairs : eval = [NoEval EXCEPT !.pc = "next", !.pair = pair]
      BY <2>1 DEF Init, Evaluations
    <3>2. eval = [pc |-> "next", at |-> 1, pair |-> pair, quarantined |-> FALSE]
      BY <3>1 DEF NoEval
    <3>3. eval \in EvalRec /\ eval.pair \in ArmPairs
      BY <3>2 DEF EvalRec
    <3> QED
      BY <2>1, <3>3 DEF EvalInv
  <2>2. CASE mode # "eval"
    <3>1. eval = [pc |-> "idle", at |-> 1, pair |-> <<>>, quarantined |-> FALSE]
      BY <2>2 DEF Init, NoEval
    <3>2. eval \in EvalRec /\ eval.pc = "idle"
      BY <3>1 DEF EvalRec
    <3> QED
      BY <2>2, <3>2 DEF EvalInv
  <2> QED
    BY <2>1, <2>2
<1> QED
  BY <1>1, <1>2, <1>3, <1>4 DEF IInv

LEMMA NextKeeps ==
    ASSUME IInv, [Next]_dataVars
    PROVE  IInv'
<1>1. CASE mode = "clients" /\ ClientStep /\ UNCHANGED <<mode, ep, batch, disk, eval, floorVars>>
  <2>1. LiveInv'
    BY <1>1, ClientStepKeeps DEF IInv
  <2>2. EpisodeInv'
    <3>1. ep.pc = "idle" /\ ep \in EpisodeRec /\ ep.decisions = <<>> /\ ep' = ep /\ mode' = mode
      BY <1>1 DEF IInv, EpisodeInv, Playing
    <3>2. ep'.pc \notin Playing /\ ep'.pc # "adopt"
      BY <3>1 DEF Playing
    <3> QED
      BY <3>1, <3>2, EpisodeWithoutDecisions
  <2>3. BatchInv'
    <3>1. ep'.pc = "idle"
      BY <1>1 DEF IInv, EpisodeInv
    <3> QED
      BY <1>1, <3>1, BatchUnchanged DEF IInv
  <2>4. EvalInv'
    BY <1>1 DEF IInv, EvalInv
  <2>5. JoinInv'
    BY <1>1 DEF IInv, JoinInv
  <2> QED
    BY <2>1, <2>2, <2>3, <2>4, <2>5 DEF IInv
<1>2. CASE mode \in {"batch", "eval"} /\ EpisodeStep /\ UNCHANGED <<mode, batch, disk, eval, floorVars>>
  <2>1. LiveInv' /\ EpisodeInv' /\ ep'.scen = ep.scen
    BY <1>2, EpisodeStepKeeps DEF IInv
  <2>2. ep.pc # "idle"
    BY <1>2, EpisodeStepRuns
  <2>3. batch.pc \notin Stopped /\ (batch.pc = "execute" => ep'.scen \in Unfinished)
    BY <2>1, <2>2 DEF IInv, BatchInv
  <2>4. BatchInv'
    BY <1>2, <2>3, BatchUnchanged DEF IInv
  <2>5. EvalInv'
    BY <1>2 DEF IInv, EvalInv
  <2>6. JoinInv'
    BY <1>2 DEF IInv, JoinInv
  <2> QED
    BY <2>1, <2>4, <2>5, <2>6 DEF IInv
<1>3. CASE mode = "batch" /\ BatchStep /\ UNCHANGED <<mode, eval, floorVars>>
  <2>1. LiveInv' /\ EpisodeInv' /\ BatchInv'
    BY <1>3, BatchStepKeeps DEF IInv
  <2>2. EvalInv'
    BY <1>3 DEF IInv, EvalInv
  <2>3. JoinInv'
    BY <1>3, BatchStepJoins DEF IInv
  <2> QED
    BY <2>1, <2>2, <2>3 DEF IInv
<1>4. CASE mode = "eval" /\ EvalStep /\ UNCHANGED <<mode, batch, disk, floorVars>>
  <2>1. LiveInv' /\ EpisodeInv' /\ EvalInv'
    BY <1>4, EvalStepKeeps DEF IInv
  <2>2. batch.pc \notin Stopped /\ batch.pc # "execute"
    BY <1>4 DEF IInv, BatchInv, Stopped
  <2>3. BatchInv'
    BY <1>4, <2>2, BatchUnchanged DEF IInv
  <2>4. JoinInv'
    BY <1>4 DEF IInv, JoinInv
  <2> QED
    BY <2>1, <2>3, <2>4 DEF IInv
<1>5. CASE UNCHANGED <<mode, gameVars>>
  <2>1. LiveInv' /\ EpisodeInv' /\ EvalInv'
    BY <1>5, LiveUnchanged, EpisodeUnchanged DEF IInv, EvalInv, gameVars
  <2>2. ep'.pc # "idle" => batch.pc \notin Stopped /\ (batch.pc = "execute" => ep'.scen \in Unfinished)
    BY <1>5 DEF IInv, BatchInv, gameVars
  <2>3. BatchInv'
    BY <1>5, <2>2, BatchUnchanged DEF IInv, gameVars
  <2>4. JoinInv'
    BY <1>5 DEF IInv, JoinInv, gameVars
  <2> QED
    BY <2>1, <2>3, <2>4 DEF IInv
<1> QED
  BY <1>1, <1>2, <1>3, <1>4, <1>5 DEF Next, dataVars

(***************************************************************************)
(* Every reachable state of the combat data tools has the invariant: the   *)
(* variables are typed, a frame the game reports stands for one board, an  *)
(* episode's session stands where its last decision ended, and the batch   *)
(* has written what its place in the loop says.                            *)
(***************************************************************************)
THEOREM Invariance == Spec => []IInv
<1>1. Init => IInv
  BY InitEstablishes
<1>2. IInv /\ [Next]_dataVars => IInv'
  BY NextKeeps
<1> QED
  BY <1>1, <1>2, PTL DEF Spec

(***************************************************************************)
(* LiveCombatSession.step plays the decision on the board it was chosen    *)
(* for, whatever restored, reset or faulted the shared GameInstance since: *)
(* for any scenarios, snapshots, bound of the continuation loop and        *)
(* interleaving of emulators, sessions, episodes, batches and evaluations. *)
(***************************************************************************)
THEOREM DecisionsAreCommitted == Spec => []CommittedStepIsTheDecision
<1>1. IInv => CommittedStepIsTheDecision
  BY DEF IInv, LiveInv
<1> QED
  BY <1>1, Invariance, PTL

(***************************************************************************)
(* The decisions generate_trajectory and run_episode record are one play   *)
(* of the scenario from its opening board, and what is classified          *)
(* usable_complete ends the combat: for any manifest, decider and limits.  *)
(***************************************************************************)
THEOREM TrajectoriesAreOnePlay == Spec => []TrajectoryIsOnePlay
<1>1. IInv => TrajectoryIsOnePlay
  BY EpisodeInvIsOnePlay DEF IInv
<1> QED
  BY <1>1, Invariance, PTL

(***************************************************************************)
(* However often run_batch is killed in or between its writes and resumed, *)
(* every line a result row stands for was written before it by the same    *)
(* invocation, no scenario has two rows, and the summary waits for all of  *)
(* them: for any manifest and any number of kills.  Of the lines written,  *)
(* a resumed invocation loses at most one in each file, the one that went  *)
(* to the end of a fragment.                                               *)
(***************************************************************************)
THEOREM RowsStayBacked == Spec => []ResultRowsAreBacked
<1>1. IInv => ResultRowsAreBacked
  BY BatchInvBacksRows DEF IInv
<1> QED
  BY <1>1, Invariance, PTL

-----------------------------------------------------------------------------
(***************************************************************************)
(* Counting the elements of a sequence.                                    *)
(***************************************************************************)
HowMany(seq, P) == Cardinality({i \in DOMAIN seq : seq[i] \in P})

LEMMA HowManyNat ==
    ASSUME NEW S, NEW seq \in Seq(S), NEW P
    PROVE  /\ HowMany(seq, P) \in Nat /\ IsFiniteSet({i \in DOMAIN seq : seq[i] \in P})
           /\ (HowMany(seq, P) = 0) <=> (\A i \in DOMAIN seq : seq[i] \notin P)
<1> DEFINE D == {i \in DOMAIN seq : seq[i] \in P}
<1>1. DOMAIN seq = 1..Len(seq) /\ Len(seq) \in Nat
  OBVIOUS
<1>2. IsFiniteSet(1..Len(seq))
  BY <1>1, FS_Interval
<1>3. IsFiniteSet(D)
  BY <1>1, <1>2, FS_Subset
<1>4. Cardinality(D) \in Nat /\ (Cardinality(D) = 0 <=> D = {})
  BY <1>3, FS_CardinalityType, FS_EmptySet
<1> QED
  BY <1>3, <1>4 DEF HowMany

LEMMA HowManyNone ==
    ASSUME NEW P
    PROVE  HowMany(<<>>, P) = 0
<1>1. {i \in DOMAIN <<>> : <<>>[i] \in P} = {}
  OBVIOUS
<1> QED
  BY <1>1, FS_EmptySet DEF HowMany

LEMMA HowManyAppend ==
    ASSUME NEW S, NEW seq \in Seq(S), NEW x \in S, NEW P
    PROVE  HowMany(Append(seq, x), P) = HowMany(seq, P) + (IF x \in P THEN 1 ELSE 0)
<1> DEFINE D == {i \in DOMAIN seq : seq[i] \in P}
           n == Len(seq) + 1
           more == Append(seq, x)
           E == {i \in DOMAIN more : more[i] \in P}
<1>1. /\ DOMAIN seq = 1..Len(seq) /\ Len(seq) \in Nat /\ DOMAIN more = 1..n /\ more[n] = x
      /\ \A i \in 1..Len(seq) : more[i] = seq[i]
  OBVIOUS
<1>2. IsFiniteSet(D) /\ Cardinality(D) \in Nat
  BY HowManyNat DEF HowMany
<1>3. E = IF x \in P THEN D \cup {n} ELSE D
  BY <1>1
<1>4. n \notin D
  BY <1>1
<1>5. Cardinality(D \cup {n}) = Cardinality(D) + 1
  BY <1>2, <1>4, FS_AddElement
<1>6. HowMany(more, P) = Cardinality(E) /\ HowMany(seq, P) = Cardinality(D)
  BY DEF HowMany
<1> HIDE DEF D, E, n, more
<1>7. HowMany(more, P) = HowMany(seq, P) + (IF x \in P THEN 1 ELSE 0)
  BY <1>2, <1>3, <1>5, <1>6
<1> QED
  BY <1>7 DEF more

LEMMA ConcatLength ==
    ASSUME NEW S, NEW a \in Seq(S), NEW b \in Seq(S)
    PROVE  /\ a \o b \in Seq(S) /\ Len(a \o b) = Len(a) + Len(b)
           /\ \A j \in 1..Len(a) : (a \o b)[j] = a[j]
           /\ \A j \in 1..Len(b) : (a \o b)[Len(a) + j] = b[j]
<1> QED
  OBVIOUS

(* Positions below the removed one stay, those above move down by one.     *)
LEMMA RemoveAtFacts ==
    ASSUME NEW S, NEW seq \in Seq(S), NEW i \in DOMAIN seq
    PROVE  /\ RemoveAt(seq, i) \in Seq(S) /\ Len(RemoveAt(seq, i)) = Len(seq) - 1
           /\ \A j \in 1..(Len(seq) - 1) :
                RemoveAt(seq, i)[j] = IF j < i THEN seq[j] ELSE seq[j + 1]
<1>1. DOMAIN seq = 1..Len(seq) /\ Len(seq) \in Nat /\ i \in 1..Len(seq)
  OBVIOUS
<1> DEFINE a == SubSeq(seq, 1, i - 1)
           b == SubSeq(seq, i + 1, Len(seq))
<1>2. a \in Seq(S) /\ Len(a) = i - 1 /\ \A j \in 1..(i - 1) : a[j] = seq[j]
  BY <1>1
<1>3. b \in Seq(S) /\ Len(b) = Len(seq) - i /\ \A j \in 1..(Len(seq) - i) : b[j] = seq[i + j]
  BY <1>1
<1> HIDE DEF a, b
<1>4. a \o b \in Seq(S) /\ Len(a \o b) = Len(seq) - 1
  <2>1. a \in Seq(S) /\ b \in Seq(S)
    BY <1>2, <1>3
  <2>2. a \o b \in Seq(S) /\ Len(a \o b) = Len(a) + Len(b)
    BY <2>1, ConcatLength
  <2> QED
    BY <1>1, <1>2, <1>3, <2>1, <2>2
<1>5. ASSUME NEW j \in 1..(Len(seq) - 1)
      PROVE  (a \o b)[j] = IF j < i THEN seq[j] ELSE seq[j + 1]
  <2>1. CASE j < i
    BY <1>1, <1>2, <1>3, <2>1
  <2>2. CASE ~(j < i)
    <3>1. j - (i - 1) \in 1..(Len(seq) - i) /\ i + (j - (i - 1)) = j + 1
      BY <1>1, <2>2
    <3>2. (a \o b)[j] = b[j - Len(a)]
      BY <1>1, <1>2, <1>3, <2>2
    <3> QED
      BY <1>2, <1>3, <2>2, <3>1, <3>2
  <2> QED
    BY <2>1, <2>2
<1>6. RemoveAt(seq, i) = a \o b
  BY DEF RemoveAt, a, b
<1> QED
  BY <1>4, <1>5, <1>6

LEMMA HowManyRemove ==
    ASSUME NEW S, NEW seq \in Seq(S), NEW i \in DOMAIN seq, NEW P
    PROVE  HowMany(RemoveAt(seq, i), P) = HowMany(seq, P) - (IF seq[i] \in P THEN 1 ELSE 0)
<1> DEFINE D == {j \in DOMAIN seq : seq[j] \in P} \ {i}
           less == RemoveAt(seq, i)
           E == {j \in DOMAIN less : less[j] \in P}
           up == [j \in E |-> IF j < i THEN j ELSE j + 1]
<1>1. /\ less \in Seq(S) /\ Len(less) = Len(seq) - 1 /\ Len(seq) \in Nat /\ i \in 1..Len(seq)
      /\ DOMAIN seq = 1..Len(seq) /\ DOMAIN less = 1..(Len(seq) - 1)
      /\ \A j \in 1..(Len(seq) - 1) : less[j] = IF j < i THEN seq[j] ELSE seq[j + 1]
  BY RemoveAtFacts
<1> HIDE DEF less
<1>2. IsFiniteSet({j \in DOMAIN seq : seq[j] \in P}) /\ IsFiniteSet(E)
  BY <1>1, HowManyNat
<1>3. up \in Bijection(E, D)
  <2>1. \A j \in E : up[j] \in D
    BY <1>1
  <2>2. \A j, k \in E : up[j] = up[k] => j = k
    BY <1>1
  <2>3. ASSUME NEW k \in D PROVE \E j \in E : up[j] = k
    <3>1. CASE k < i
      <4>1. k \in E
        BY <1>1, <3>1
      <4> QED
        BY <3>1, <4>1
    <3>2. CASE ~(k < i)
      <4>1. k - 1 \in E /\ ~(k - 1 < i) /\ (k - 1) + 1 = k
        BY <1>1, <3>2
      <4> QED
        BY <4>1
    <3> QED
      BY <3>1, <3>2
  <2> QED
    BY <2>1, <2>2, <2>3, Fun_IsBij
<1>4. ExistsBijection(E, D)
  BY <1>3, Fun_ExistsBij
<1>5. Cardinality(E) = Cardinality(D)
  BY <1>2, <1>4, FS_Bijection
<1>6. Cardinality(D) = Cardinality({j \in DOMAIN seq : seq[j] \in P}) - (IF seq[i] \in P THEN 1 ELSE 0)
  <2>1. CASE seq[i] \in P
    BY <1>2, <2>1, FS_RemoveElement
  <2>2. CASE seq[i] \notin P
    <3>1. D = {j \in DOMAIN seq : seq[j] \in P}
      BY <2>2
    <3>2. Cardinality({j \in DOMAIN seq : seq[j] \in P}) \in Nat
      BY <1>2, FS_CardinalityType
    <3>3. PICK c \in Nat : c = Cardinality({j \in DOMAIN seq : seq[j] \in P})
      BY <3>2
    <3>4. Cardinality(D) = c
      BY ONLY <3>1, <3>3
    <3> QED
      BY <2>2, <3>3, <3>4
  <2> QED
    BY <2>1, <2>2
<1> QED
  BY <1>5, <1>6 DEF HowMany, less

LEMMA HowManyReplace ==
    ASSUME NEW S, NEW seq \in Seq(S), NEW i \in DOMAIN seq, NEW x \in S, NEW P
    PROVE  /\ [seq EXCEPT ![i] = x] \in Seq(S)
           /\ HowMany([seq EXCEPT ![i] = x], P) =
                HowMany(seq, P) - (IF seq[i] \in P THEN 1 ELSE 0) + (IF x \in P THEN 1 ELSE 0)
<1> DEFINE D == {j \in DOMAIN seq : seq[j] \in P}
           less == D \ {i}
           new == [seq EXCEPT ![i] = x]
           E == {j \in DOMAIN new : new[j] \in P}
<1>1. new \in Seq(S) /\ DOMAIN new = DOMAIN seq /\ new[i] = x /\ \A j \in DOMAIN seq : j # i => new[j] = seq[j]
  OBVIOUS
<1>2. IsFiniteSet(D) /\ Cardinality(D) \in Nat
  BY HowManyNat DEF HowMany
<1>3. IsFiniteSet(less) /\ Cardinality(less) = Cardinality(D) - (IF seq[i] \in P THEN 1 ELSE 0)
  <2>1. CASE seq[i] \in P
    BY <1>2, <2>1, FS_RemoveElement
  <2>2. CASE seq[i] \notin P
    <3>1. less = D
      BY <2>2
    <3> HIDE DEF less, D
    <3> QED
      BY <1>2, <2>2, <3>1
  <2> QED
    BY <2>1, <2>2
<1>4. E = IF x \in P THEN less \cup {i} ELSE less
  BY <1>1
<1>5. Cardinality(less \cup {i}) = Cardinality(less) + 1
  BY <1>3, FS_AddElement
<1>6. Cardinality(less) \in Nat
  BY <1>3, FS_CardinalityType
<1>7. HowMany(new, P) = Cardinality(E) /\ HowMany(seq, P) = Cardinality(D)
  BY DEF HowMany
<1> HIDE DEF D, E, less, new
<1>8. HowMany(new, P) = HowMany(seq, P) - (IF seq[i] \in P THEN 1 ELSE 0) + (IF x \in P THEN 1 ELSE 0)
  BY <1>2, <1>3, <1>4, <1>5, <1>6, <1>7
<1> QED
  BY <1>1, <1>8 DEF new

-----------------------------------------------------------------------------
(***************************************************************************)
(* What the log and the states hold.                                       *)
(***************************************************************************)
Tinkers ==
    {"none", "chosen", "conflict", "missing"} \cup {e[1] : e \in Evidence} \cup {e[2] : e \in Evidence}
Cards == [id : CardIds, floor : Nat, upgraded : BOOLEAN, tinker : Tinkers]
GainRefs == [id : CardIds, floor : Nat, upgraded : BOOLEAN, props : Tinkers, choices : Tinkers]
LossRefs == [id : CardIds, floor : Nat]
TransformRefs == [original : LossRefs, final : GainRefs]
Relics == RelicIds \cup {StartingRelic}
Warnings == {"NOTFOUND", "AMBIGUOUS", "TINKER"}
PlayerStates ==
    [deck : Seq(Cards), relics : Seq(Relics), potions : Seq(PotionIds), hp : Int, warnings : SUBSET Warnings]
Lists == CardLists \cup RelicLists \cup {"potions_gained", "potions_lost"}
EntriesOf(list) ==
    CASE list = "cards_gained" -> GainRefs
      [] list = "cards_removed" -> LossRefs
      [] list = "cards_transformed" -> TransformRefs
      [] list \in {"upgraded_cards", "downgraded_cards"} -> CardIds
      [] list \in RelicLists -> Relics
      [] OTHER -> PotionIds
CardsOf(id) == {c \in Cards : c.id = id}
CardsAt(id, u) == {c \in Cards : c.id = id /\ c.upgraded = u}

LEMMA StateFields ==
    ASSUME NEW s \in PlayerStates
    PROVE  /\ s.deck \in Seq(Cards) /\ s.relics \in Seq(Relics) /\ s.potions \in Seq(PotionIds)
           /\ s.hp \in Int /\ s.warnings \subseteq Warnings
           /\ s = [deck |-> s.deck, relics |-> s.relics, potions |-> s.potions,
                   hp |-> s.hp, warnings |-> s.warnings]
  BY DEF PlayerStates

LEMMA FirstIsThere ==
    ASSUME NEW T, T \subseteq Nat, T # {}
    PROVE  First(T) \in T /\ \A j \in T : First(T) <= j
<1>1. \E i \in T : \A j \in T : i <= j
  BY LeastOf
<1> QED
  BY <1>1 DEF First

LEMMA WarnEffects ==
    ASSUME NEW s \in PlayerStates, NEW w \in Warnings
    PROVE  /\ Warn(s, w) \in PlayerStates
           /\ Warn(s, w).deck = s.deck /\ Warn(s, w).relics = s.relics
           /\ Warn(s, w).potions = s.potions /\ Warn(s, w).hp = s.hp
           /\ Warn(s, w).warnings = s.warnings \cup {w}
<1> DEFINE ws == s.warnings \cup {w}
<1>1. ws \subseteq Warnings
  BY StateFields
<1> HIDE DEF ws
<1>2. Warn(s, w) = [s EXCEPT !.warnings = ws]
  BY DEF Warn, ws, PlayerStates
<1> QED
  BY <1>1, <1>2 DEF PlayerStates, ws

(* Nothing but the deck and the warnings changes, and no warning goes.     *)
DeckOnly(s, t) ==
    /\ t \in PlayerStates
    /\ t.relics = s.relics /\ t.potions = s.potions /\ t.hp = s.hp
    /\ s.warnings \subseteq t.warnings

LEMMA AddCardEffects ==
    ASSUME NEW s \in PlayerStates, NEW ref \in GainRefs
    PROVE  /\ DeckOnly(s, AddCard(s, ref))
           /\ \A w \in {"NOTFOUND", "AMBIGUOUS"} : w \in AddCard(s, ref).warnings => w \in s.warnings
           /\ \E c \in Cards :
                /\ c.id = ref.id /\ c.floor = ref.floor /\ c.upgraded = ref.upgraded
                /\ AddCard(s, ref).deck = Append(s.deck, c)
<1> DEFINE tinker == Reconciled(ref)
           known == ref.id # MadScience \/ tinker \notin {"conflict", "missing"}
           card == Card(ref.id, ref.floor, ref.upgraded, IF ref.id = MadScience /\ known THEN tinker ELSE "none")
           deck == Append(s.deck, card)
           ws == IF known THEN s.warnings ELSE s.warnings \cup {"TINKER"}
<1>1. tinker \in Tinkers
  BY DEF Reconciled, GainRefs, Tinkers
<1>2. (IF ref.id = MadScience /\ known THEN tinker ELSE "none") \in Tinkers
  <2> HIDE DEF tinker, known
  <2> QED
    BY <1>1 DEF Tinkers
<1>3. /\ card \in Cards
      /\ card.id = ref.id /\ card.floor = ref.floor /\ card.upgraded = ref.upgraded
  <2> HIDE DEF known, tinker
  <2> QED
    BY <1>2 DEF Card, Cards, GainRefs
<1> HIDE DEF card
<1>4. deck \in Seq(Cards)
  BY <1>3, StateFields
<1>5. /\ ws \subseteq Warnings /\ s.warnings \subseteq ws
      /\ \A w \in {"NOTFOUND", "AMBIGUOUS"} : w \in ws => w \in s.warnings
  <2> HIDE DEF known, tinker
  <2> QED
    BY StateFields DEF Warnings
<1>6. AddCard(s, ref) = [s EXCEPT !.deck = deck, !.warnings = ws]
  BY DEF AddCard, card, PlayerStates
<1> HIDE DEF deck, ws
<1>7. /\ AddCard(s, ref) \in PlayerStates
      /\ AddCard(s, ref).deck = deck /\ AddCard(s, ref).warnings = ws
      /\ AddCard(s, ref).relics = s.relics /\ AddCard(s, ref).potions = s.potions
      /\ AddCard(s, ref).hp = s.hp
  BY <1>4, <1>5, <1>6 DEF PlayerStates
<1>8. AddCard(s, ref).deck = Append(s.deck, card)
  BY <1>7 DEF deck
<1> QED
  BY <1>3, <1>5, <1>7, <1>8 DEF DeckOnly

LEMMA WithIdFacts ==
    ASSUME NEW s \in PlayerStates, NEW id
    PROVE  /\ WithId(s, id) \subseteq DOMAIN s.deck /\ DOMAIN s.deck \subseteq Nat
           /\ \A i \in WithId(s, id) : s.deck[i] \in Cards /\ s.deck[i].id = id
<1>1. s.deck \in Seq(Cards)
  BY StateFields
<1> QED
  BY <1>1 DEF WithId

(* A removal that finds nothing says so; one that calls nothing ambiguous   *)
(* took one of several copies that are upgraded or not alike, when the      *)
(* floor does not tell the copies apart.                                    *)
LEMMA RemoveCardEffects ==
    ASSUME NEW s \in PlayerStates, NEW ref \in LossRefs
    PROVE  /\ DeckOnly(s, RemoveCard(s, ref))
           /\ \/ /\ "NOTFOUND" \in RemoveCard(s, ref).warnings
                 /\ RemoveCard(s, ref).deck = s.deck
              \/ \E i \in DOMAIN s.deck :
                   /\ s.deck[i].id = ref.id
                   /\ RemoveCard(s, ref).deck = RemoveAt(s.deck, i)
                   /\ /\ "AMBIGUOUS" \notin RemoveCard(s, ref).warnings
                      /\ \A j \in WithId(s, ref.id) : s.deck[j].floor = ref.floor
                      => \A j \in WithId(s, ref.id) : s.deck[j].upgraded = s.deck[i].upgraded
<1> DEFINE found == RemovalCandidates(s, ref)
           t == RemoveCard(s, ref)
<1>1. found \subseteq WithId(s, ref.id) /\ (found = {} => WithId(s, ref.id) = {})
  BY DEF RemovalCandidates
<1>2. CASE found = {}
  <2>1. t = Warn(s, "NOTFOUND")
    BY <1>2 DEF RemoveCard
  <2>2. "NOTFOUND" \in Warnings
    BY DEF Warnings
  <2> HIDE DEF t
  <2>3. DeckOnly(s, t) /\ "NOTFOUND" \in t.warnings /\ t.deck = s.deck
    BY <2>1, <2>2, WarnEffects DEF DeckOnly
  <2> QED
    BY <2>3 DEF t
<1>3. CASE found # {}
  <2> DEFINE i == First(found)
             deck == RemoveAt(s.deck, i)
             removed == [s EXCEPT !.deck = deck]
             split == \E j, k \in found : s.deck[j].upgraded # s.deck[k].upgraded
  <2>1. i \in found
    BY <1>1, <1>3, WithIdFacts, FirstIsThere
  <2>2. i \in DOMAIN s.deck /\ s.deck[i].id = ref.id
    BY <1>1, <2>1, WithIdFacts
  <2>3. deck \in Seq(Cards)
    <3>1. s.deck \in Seq(Cards)
      BY StateFields
    <3> HIDE DEF i
    <3> QED
      BY <2>2, <3>1, RemoveAtFacts
  <2>4. t = IF split THEN Warn(removed, "AMBIGUOUS") ELSE removed
    BY <1>3 DEF RemoveCard
  <2> HIDE DEF i, deck, found
  <2>5. /\ removed \in PlayerStates /\ removed.deck = deck /\ removed.relics = s.relics
        /\ removed.potions = s.potions /\ removed.hp = s.hp /\ removed.warnings = s.warnings
    BY <2>3 DEF PlayerStates
  <2>6. "AMBIGUOUS" \in Warnings
    BY DEF Warnings
  <2> HIDE DEF removed, split, t
  <2>7. DeckOnly(s, t) /\ t.deck = deck /\ (split => "AMBIGUOUS" \in t.warnings)
    <3>1. CASE split
      <4>1. t = Warn(removed, "AMBIGUOUS")
        BY <2>4, <3>1
      <4>2. /\ t \in PlayerStates /\ t.deck = deck /\ t.relics = s.relics /\ t.potions = s.potions
            /\ t.hp = s.hp /\ t.warnings = s.warnings \cup {"AMBIGUOUS"}
        BY <2>5, <2>6, <4>1, WarnEffects
      <4> QED
        BY <4>2 DEF DeckOnly
    <3>2. CASE ~split
      <4>1. t = removed
        BY <2>4, <3>2
      <4> QED
        BY <2>5, <3>2, <4>1 DEF DeckOnly
    <3> QED
      BY <3>1, <3>2
  <2>8. ASSUME "AMBIGUOUS" \notin t.warnings, \A j \in WithId(s, ref.id) : s.deck[j].floor = ref.floor,
               NEW j \in WithId(s, ref.id)
        PROVE  s.deck[j].upgraded = s.deck[i].upgraded
    <3>1. found = WithId(s, ref.id)
      BY <2>1, <2>8 DEF found, RemovalCandidates
    <3>2. ~split
      BY <2>7, <2>8
    <3> QED
      BY <2>1, <3>1, <3>2 DEF split
  <2>9. t.deck = RemoveAt(s.deck, i)
    BY <2>7 DEF deck
  <2> QED
    BY <2>2, <2>7, <2>8, <2>9 DEF t
<1> QED
  BY <1>2, <1>3

(* One copy of the id, at position i, is upgraded or downgraded to u.       *)
Flips(s, t, id, u) ==
    \E i \in DOMAIN s.deck, c \in Cards :
       /\ s.deck[i].id = id /\ s.deck[i].upgraded # u
       /\ c.id = id /\ c.floor = s.deck[i].floor /\ c.upgraded = u
       /\ t.deck = [s.deck EXCEPT ![i] = c]

LEMMA SetUpgradedEffects ==
    ASSUME NEW s \in PlayerStates, NEW id \in CardIds, NEW u \in BOOLEAN
    PROVE  /\ DeckOnly(s, SetUpgraded(s, id, u))
           /\ \/ "NOTFOUND" \in SetUpgraded(s, id, u).warnings /\ SetUpgraded(s, id, u).deck = s.deck
              \/ Flips(s, SetUpgraded(s, id, u), id, u)
<1> DEFINE found == {i \in WithId(s, id) : s.deck[i].upgraded # u}
           t == SetUpgraded(s, id, u)
<1>1. CASE found = {}
  <2>1. t = Warn(s, "NOTFOUND")
    BY <1>1 DEF SetUpgraded
  <2>2. "NOTFOUND" \in Warnings
    BY DEF Warnings
  <2> HIDE DEF t
  <2>3. DeckOnly(s, t) /\ "NOTFOUND" \in t.warnings /\ t.deck = s.deck
    BY <2>1, <2>2, WarnEffects DEF DeckOnly
  <2> QED
    BY <2>3 DEF t
<1>2. CASE found # {}
  <2> DEFINE i == First(found)
             c == [s.deck[i] EXCEPT !.upgraded = u]
             deck == [s.deck EXCEPT ![i] = c]
  <2>1. i \in found
    BY <1>2, WithIdFacts, FirstIsThere
  <2>2. i \in DOMAIN s.deck /\ s.deck[i] \in Cards /\ s.deck[i].id = id /\ s.deck[i].upgraded # u
    BY <2>1, WithIdFacts
  <2>3. t = [s EXCEPT !.deck[i].upgraded = u]
    BY <1>2 DEF SetUpgraded
  <2> HIDE DEF i
  <2>4. t = [s EXCEPT !.deck = deck]
    BY <2>3 DEF PlayerStates
  <2>5. c \in Cards /\ c.id = id /\ c.floor = s.deck[i].floor /\ c.upgraded = u
    BY <2>2 DEF Cards
  <2> HIDE DEF c
  <2>6. deck \in Seq(Cards)
    BY <2>2, <2>5, StateFields
  <2> HIDE DEF deck, t
  <2>7. DeckOnly(s, t) /\ t.deck = deck
    BY <2>4, <2>6 DEF DeckOnly, PlayerStates
  <2>8. t.deck = [s.deck EXCEPT ![i] = c]
    BY <2>7 DEF deck
  <2>9. Flips(s, t, id, u)
    BY <2>2, <2>5, <2>8 DEF Flips
  <2> QED
    BY <2>7, <2>9 DEF t
<1> QED
  BY <1>1, <1>2

LEMMA TransformCardEffects ==
    ASSUME NEW s \in PlayerStates, NEW x \in TransformRefs
    PROVE  /\ RemoveCard(s, x.original) \in PlayerStates
           /\ DeckOnly(s, TransformCard(s, x))
           /\ RemoveCard(s, x.original).warnings \subseteq TransformCard(s, x).warnings
           /\ \E c \in Cards :
                /\ c.id = x.final.id /\ c.floor = x.final.floor /\ c.upgraded = x.final.upgraded
                /\ TransformCard(s, x).deck = Append(RemoveCard(s, x.original).deck, c)
<1>1. x.original \in LossRefs /\ x.final \in GainRefs
  BY DEF TransformRefs
<1>2. DeckOnly(s, RemoveCard(s, x.original))
  BY <1>1, RemoveCardEffects
<1>3. PICK r : r = RemoveCard(s, x.original)
  OBVIOUS
<1>4. PICK ref : ref = x.final
  OBVIOUS
<1>5. r \in PlayerStates /\ ref \in GainRefs
  BY <1>1, <1>2, <1>3, <1>4 DEF DeckOnly
<1>6. /\ DeckOnly(r, AddCard(r, ref))
      /\ \E c \in Cards :
           /\ c.id = ref.id /\ c.floor = ref.floor /\ c.upgraded = ref.upgraded
           /\ AddCard(r, ref).deck = Append(r.deck, c)
  BY <1>5, AddCardEffects
<1>7. TransformCard(s, x) = AddCard(r, ref)
  BY <1>3, <1>4 DEF TransformCard
<1>8. DeckOnly(s, AddCard(r, ref)) /\ r.warnings \subseteq AddCard(r, ref).warnings
  BY <1>2, <1>3, <1>6 DEF DeckOnly
<1> QED
  BY <1>3, <1>4, <1>5, <1>6, <1>7, <1>8

LEMMA WithoutFirstFacts ==
    ASSUME NEW S, NEW seq \in Seq(S), NEW x, Contains(seq, x)
    PROVE  \E i \in DOMAIN seq : seq[i] = x /\ WithoutFirst(seq, x) = RemoveAt(seq, i)
<1> DEFINE T == {i \in DOMAIN seq : seq[i] = x}
<1>1. T \subseteq Nat /\ T # {}
  BY DEF Contains
<1>2. First(T) \in T
  BY <1>1, FirstIsThere
<1> QED
  BY <1>2 DEF WithoutFirst

(* What happens to the relics depends on the relics alone.                  *)
RelicsOnly(s, t) ==
    /\ t \in PlayerStates
    /\ t.deck = s.deck /\ t.potions = s.potions /\ t.hp = s.hp
    /\ s.warnings \subseteq t.warnings

LEMMA GainRelicEffects ==
    ASSUME NEW s \in PlayerStates, NEW r \in Relics
    PROVE  /\ RelicsOnly(s, GainRelic(s, r))
           /\ GainRelic(s, r).relics = IF Contains(s.relics, r) THEN s.relics ELSE Append(s.relics, r)
           /\ GainRelic(s, r).warnings = s.warnings
<1> DEFINE new == IF Contains(s.relics, r) THEN s.relics ELSE Append(s.relics, r)
<1>1. new \in Seq(Relics)
  BY StateFields
<1>2. GainRelic(s, r) = [s EXCEPT !.relics = new]
  BY DEF GainRelic, PlayerStates
<1> HIDE DEF new
<1>3. /\ GainRelic(s, r).relics = new /\ RelicsOnly(s, GainRelic(s, r))
      /\ GainRelic(s, r).warnings = s.warnings
  BY <1>1, <1>2 DEF RelicsOnly, PlayerStates
<1> QED
  BY <1>3 DEF new

LEMMA LoseRelicEffects ==
    ASSUME NEW s \in PlayerStates, NEW r \in Relics
    PROVE  /\ RelicsOnly(s, LoseRelic(s, r))
           /\ Contains(s.relics, r) =>
                LoseRelic(s, r).relics = WithoutFirst(s.relics, r) /\ LoseRelic(s, r).warnings = s.warnings
           /\ ~Contains(s.relics, r) => "NOTFOUND" \in LoseRelic(s, r).warnings /\ LoseRelic(s, r).relics = s.relics
<1>1. CASE Contains(s.relics, r)
  <2> DEFINE new == WithoutFirst(s.relics, r)
  <2>1. s.relics \in Seq(Relics)
    BY StateFields
  <2>2. PICK i \in DOMAIN s.relics : new = RemoveAt(s.relics, i)
    BY <1>1, <2>1, WithoutFirstFacts
  <2>3. new \in Seq(Relics)
    BY <2>1, <2>2, RemoveAtFacts
  <2>4. LoseRelic(s, r) = [s EXCEPT !.relics = new]
    BY <1>1 DEF LoseRelic, PlayerStates
  <2> HIDE DEF new
  <2>5. /\ LoseRelic(s, r).relics = new /\ RelicsOnly(s, LoseRelic(s, r))
        /\ LoseRelic(s, r).warnings = s.warnings
    BY <2>3, <2>4 DEF RelicsOnly, PlayerStates
  <2> QED
    BY <1>1, <2>5 DEF new
<1>2. CASE ~Contains(s.relics, r)
  <2>1. LoseRelic(s, r) = Warn(s, "NOTFOUND")
    BY <1>2 DEF LoseRelic
  <2>2. "NOTFOUND" \in Warnings
    BY DEF Warnings
  <2> QED
    BY <1>2, <2>1, <2>2, WarnEffects DEF RelicsOnly
<1> QED
  BY <1>1, <1>2

PotionsOnly(s, t) ==
    /\ t \in PlayerStates
    /\ t.deck = s.deck /\ t.relics = s.relics /\ t.hp = s.hp
    /\ s.warnings \subseteq t.warnings

LEMMA GainPotionEffects ==
    ASSUME NEW s \in PlayerStates, NEW p \in PotionIds
    PROVE  PotionsOnly(s, GainPotion(s, p)) /\ GainPotion(s, p).potions = Append(s.potions, p)
<1> DEFINE new == Append(s.potions, p)
<1>1. new \in Seq(PotionIds)
  BY StateFields
<1>2. GainPotion(s, p) = [s EXCEPT !.potions = new]
  BY DEF GainPotion, PlayerStates
<1> HIDE DEF new
<1>3. GainPotion(s, p).potions = new /\ PotionsOnly(s, GainPotion(s, p))
  BY <1>1, <1>2 DEF PotionsOnly, PlayerStates
<1> QED
  BY <1>3 DEF new

LEMMA LosePotionEffects ==
    ASSUME NEW s \in PlayerStates, NEW p \in PotionIds
    PROVE  /\ PotionsOnly(s, LosePotion(s, p))
           /\ \/ "NOTFOUND" \in LosePotion(s, p).warnings /\ ~Contains(s.potions, p)
              \/ \E i \in DOMAIN s.potions :
                   s.potions[i] = p /\ LosePotion(s, p).potions = RemoveAt(s.potions, i)
<1>1. CASE Contains(s.potions, p)
  <2> DEFINE new == WithoutFirst(s.potions, p)
  <2>1. s.potions \in Seq(PotionIds)
    BY StateFields
  <2>2. PICK i \in DOMAIN s.potions : s.potions[i] = p /\ new = RemoveAt(s.potions, i)
    BY <1>1, <2>1, WithoutFirstFacts
  <2>3. new \in Seq(PotionIds)
    BY <2>1, <2>2, RemoveAtFacts
  <2>4. LosePotion(s, p) = [s EXCEPT !.potions = new]
    BY <1>1 DEF LosePotion, PlayerStates
  <2> HIDE DEF new
  <2>5. LosePotion(s, p).potions = new /\ PotionsOnly(s, LosePotion(s, p))
    BY <2>3, <2>4 DEF PotionsOnly, PlayerStates
  <2> QED
    BY <2>2, <2>5
<1>2. CASE ~Contains(s.potions, p)
  <2>1. LosePotion(s, p) = Warn(s, "NOTFOUND")
    BY <1>2 DEF LosePotion
  <2>2. "NOTFOUND" \in Warnings
    BY DEF Warnings
  <2> QED
    BY <1>2, <2>1, <2>2, WarnEffects DEF PotionsOnly
<1> QED
  BY <1>1, <1>2

-----------------------------------------------------------------------------
(***************************************************************************)
(* The tally: how many cards of an id, how many potions of a kind; and what *)
(* an entry of a list says of it, whatever copy the replay takes.           *)
(***************************************************************************)
Keys == {"card", "potion"} \X (CardIds \cup PotionIds)
Tally(s, k) == IF k[1] = "card" THEN HowMany(s.deck, CardsOf(k[2])) ELSE HowMany(s.potions, {k[2]})
Gains(list, k) ==
    CASE list = "cards_gained" -> {x \in GainRefs : k = <<"card", x.id>>}
      [] list = "cards_transformed" -> {x \in TransformRefs : k = <<"card", x.final.id>>}
      [] list = "potions_gained" -> {x \in PotionIds : k = <<"potion", x>>}
      [] OTHER -> {}
Losses(list, k) ==
    CASE list = "cards_removed" -> {x \in LossRefs : k = <<"card", x.id>>}
      [] list = "cards_transformed" -> {x \in TransformRefs : k = <<"card", x.original.id>>}
      [] list = "potions_lost" -> {x \in PotionIds : k = <<"potion", x>>}
      [] OTHER -> {}
Delta(list, x, k) == (IF x \in Gains(list, k) THEN 1 ELSE 0) - (IF x \in Losses(list, k) THEN 1 ELSE 0)

LEMMA TallyNat ==
    ASSUME NEW s \in PlayerStates, NEW k
    PROVE  Tally(s, k) \in Nat
<1>1. s.deck \in Seq(Cards) /\ s.potions \in Seq(PotionIds)
  BY StateFields
<1>2. HowMany(s.deck, CardsOf(k[2])) \in Nat
  BY <1>1, HowManyNat
<1>3. HowMany(s.potions, {k[2]}) \in Nat
  BY <1>1, HowManyNat
<1> QED
  BY <1>2, <1>3 DEF Tally

(* The tally when the deck or the potions gain or lose one.                 *)
LEMMA TallyMoves ==
    ASSUME NEW s \in PlayerStates, NEW t \in PlayerStates, NEW k \in Keys
    PROVE  /\ t.deck = s.deck /\ t.potions = s.potions => Tally(t, k) = Tally(s, k)
           /\ \A c \in Cards :
                t.deck = Append(s.deck, c) /\ t.potions = s.potions
                  => Tally(t, k) = Tally(s, k) + (IF k = <<"card", c.id>> THEN 1 ELSE 0)
           /\ \A i \in DOMAIN s.deck :
                t.deck = RemoveAt(s.deck, i) /\ t.potions = s.potions
                  => Tally(t, k) = Tally(s, k) - (IF k = <<"card", s.deck[i].id>> THEN 1 ELSE 0)
           /\ \A i \in DOMAIN s.deck, c \in Cards :
                t.deck = [s.deck EXCEPT ![i] = c] /\ c.id = s.deck[i].id /\ t.potions = s.potions
                  => Tally(t, k) = Tally(s, k)
           /\ \A p \in PotionIds :
                t.deck = s.deck /\ t.potions = Append(s.potions, p)
                  => Tally(t, k) = Tally(s, k) + (IF k = <<"potion", p>> THEN 1 ELSE 0)
           /\ \A i \in DOMAIN s.potions :
                t.deck = s.deck /\ t.potions = RemoveAt(s.potions, i)
                  => Tally(t, k) = Tally(s, k) - (IF k = <<"potion", s.potions[i]>> THEN 1 ELSE 0)
<1> DEFINE C == CardsOf(k[2])
           P == {k[2]}
<1>1. s.deck \in Seq(Cards) /\ s.potions \in Seq(PotionIds)
  BY StateFields
<1>2. k[1] \in {"card", "potion"} /\ k = <<k[1], k[2]>>
  BY DEF Keys
<1>3. \A c \in Cards : c \in C <=> k[2] = c.id
  BY DEF CardsOf
<1>4. \A p : p \in P <=> k[2] = p
  OBVIOUS
<1>5. /\ k[1] = "card" => Tally(s, k) = HowMany(s.deck, C) /\ Tally(t, k) = HowMany(t.deck, C)
      /\ k[1] = "potion" => Tally(s, k) = HowMany(s.potions, P) /\ Tally(t, k) = HowMany(t.potions, P)
  BY <1>2 DEF Tally
<1>6. /\ \A x : k = <<"card", x>> <=> k[1] = "card" /\ k[2] = x
      /\ \A x : k = <<"potion", x>> <=> k[1] = "potion" /\ k[2] = x
  BY <1>2
<1> HIDE DEF C, P
<1>7. HowMany(s.deck, C) \in Nat /\ HowMany(s.potions, P) \in Nat
  BY <1>1, HowManyNat
<1>8. t.deck = s.deck /\ t.potions = s.potions => Tally(t, k) = Tally(s, k)
  BY <1>2, <1>5
<1>9. ASSUME NEW c \in Cards, t.deck = Append(s.deck, c), t.potions = s.potions
      PROVE  Tally(t, k) = Tally(s, k) + (IF k = <<"card", c.id>> THEN 1 ELSE 0)
  <2>1. HowMany(t.deck, C) = HowMany(s.deck, C) + (IF c \in C THEN 1 ELSE 0)
    BY <1>1, <1>9, HowManyAppend
  <2> QED
    BY <1>2, <1>3, <1>5, <1>6, <1>7, <1>9, <2>1
<1>10. ASSUME NEW i \in DOMAIN s.deck, t.deck = RemoveAt(s.deck, i), t.potions = s.potions
       PROVE  Tally(t, k) = Tally(s, k) - (IF k = <<"card", s.deck[i].id>> THEN 1 ELSE 0)
  <2>1. HowMany(t.deck, C) = HowMany(s.deck, C) - (IF s.deck[i] \in C THEN 1 ELSE 0)
    BY <1>1, <1>10, HowManyRemove
  <2>2. s.deck[i] \in Cards
    BY <1>1
  <2> QED
    BY <1>2, <1>3, <1>5, <1>6, <1>7, <1>10, <2>1, <2>2
<1>11. ASSUME NEW i \in DOMAIN s.deck, NEW c \in Cards, t.deck = [s.deck EXCEPT ![i] = c],
              c.id = s.deck[i].id, t.potions = s.potions
       PROVE  Tally(t, k) = Tally(s, k)
  <2>1. HowMany(t.deck, C) = HowMany(s.deck, C) - (IF s.deck[i] \in C THEN 1 ELSE 0) + (IF c \in C THEN 1 ELSE 0)
    BY <1>1, <1>11, HowManyReplace
  <2>2. s.deck[i] \in Cards
    BY <1>1
  <2> QED
    BY <1>2, <1>3, <1>5, <1>6, <1>7, <1>11, <2>1, <2>2
<1>12. ASSUME NEW p \in PotionIds, t.deck = s.deck, t.potions = Append(s.potions, p)
       PROVE  Tally(t, k) = Tally(s, k) + (IF k = <<"potion", p>> THEN 1 ELSE 0)
  <2>1. HowMany(t.potions, P) = HowMany(s.potions, P) + (IF p \in P THEN 1 ELSE 0)
    BY <1>1, <1>12, HowManyAppend
  <2> QED
    BY <1>2, <1>4, <1>5, <1>6, <1>7, <1>12, <2>1
<1>13. ASSUME NEW i \in DOMAIN s.potions, t.deck = s.deck, t.potions = RemoveAt(s.potions, i)
       PROVE  Tally(t, k) = Tally(s, k) - (IF k = <<"potion", s.potions[i]>> THEN 1 ELSE 0)
  <2>1. HowMany(t.potions, P) = HowMany(s.potions, P) - (IF s.potions[i] \in P THEN 1 ELSE 0)
    BY <1>1, <1>13, HowManyRemove
  <2> QED
    BY <1>2, <1>4, <1>5, <1>6, <1>7, <1>13, <2>1
<1> QED
  BY <1>8, <1>9, <1>10, <1>11, <1>12, <1>13

LEMMA ListsMean ==
    /\ EntriesOf("cards_gained") = GainRefs /\ EntriesOf("cards_removed") = LossRefs
    /\ EntriesOf("cards_transformed") = TransformRefs
    /\ EntriesOf("upgraded_cards") = CardIds /\ EntriesOf("downgraded_cards") = CardIds
    /\ EntriesOf("relics_gained") = Relics /\ EntriesOf("relics_removed") = Relics
    /\ EntriesOf("potions_gained") = PotionIds /\ EntriesOf("potions_lost") = PotionIds
  BY DEF EntriesOf, RelicLists

LEMMA EntriesMean ==
    ASSUME NEW s, NEW x
    PROVE  /\ ApplyEntry(s, "cards_gained", x) = AddCard(s, x)
           /\ ApplyEntry(s, "cards_removed", x) = RemoveCard(s, x)
           /\ ApplyEntry(s, "cards_transformed", x) = TransformCard(s, x)
           /\ ApplyEntry(s, "upgraded_cards", x) = SetUpgraded(s, x, TRUE)
           /\ ApplyEntry(s, "downgraded_cards", x) = SetUpgraded(s, x, FALSE)
           /\ ApplyEntry(s, "relics_gained", x) = GainRelic(s, x)
           /\ ApplyEntry(s, "relics_removed", x) = LoseRelic(s, x)
           /\ ApplyEntry(s, "potions_gained", x) = GainPotion(s, x)
           /\ ApplyEntry(s, "potions_lost", x) = LosePotion(s, x)
  BY DEF ApplyEntry, UpgradeCard, DowngradeCard

LEMMA DeltasMean ==
    ASSUME NEW k
    PROVE  /\ \A x \in GainRefs : Delta("cards_gained", x, k) = IF k = <<"card", x.id>> THEN 1 ELSE 0
           /\ \A x \in LossRefs : Delta("cards_removed", x, k) = 0 - (IF k = <<"card", x.id>> THEN 1 ELSE 0)
           /\ \A x \in TransformRefs :
                Delta("cards_transformed", x, k) =
                  (IF k = <<"card", x.final.id>> THEN 1 ELSE 0) - (IF k = <<"card", x.original.id>> THEN 1 ELSE 0)
           /\ \A x : \A l \in {"upgraded_cards", "downgraded_cards", "relics_gained", "relics_removed"} :
                Delta(l, x, k) = 0
           /\ \A x \in PotionIds : Delta("potions_gained", x, k) = IF k = <<"potion", x>> THEN 1 ELSE 0
           /\ \A x \in PotionIds : Delta("potions_lost", x, k) = 0 - (IF k = <<"potion", x>> THEN 1 ELSE 0)
<1>1. /\ Gains("cards_gained", k) = {x \in GainRefs : k = <<"card", x.id>>}
      /\ Losses("cards_gained", k) = {}
      /\ Gains("cards_removed", k) = {}
      /\ Losses("cards_removed", k) = {x \in LossRefs : k = <<"card", x.id>>}
      /\ Gains("cards_transformed", k) = {x \in TransformRefs : k = <<"card", x.final.id>>}
      /\ Losses("cards_transformed", k) = {x \in TransformRefs : k = <<"card", x.original.id>>}
      /\ \A l \in {"upgraded_cards", "downgraded_cards", "relics_gained", "relics_removed"} :
           Gains(l, k) = {} /\ Losses(l, k) = {}
      /\ Gains("potions_gained", k) = {x \in PotionIds : k = <<"potion", x>>}
      /\ Losses("potions_gained", k) = {}
      /\ Gains("potions_lost", k) = {}
      /\ Losses("potions_lost", k) = {x \in PotionIds : k = <<"potion", x>>}
  BY DEF Gains, Losses
<1> QED
  BY <1>1 DEF Delta

(* A state only ever gains warnings, and without NOTFOUND the tally moves   *)
(* by what the entry says.                                                  *)
Follows(s, t) == t \in PlayerStates /\ t.hp = s.hp /\ s.warnings \subseteq t.warnings

LEMMA EntryEffects ==
    ASSUME NEW s \in PlayerStates, NEW list \in Lists, NEW x \in EntriesOf(list)
    PROVE  /\ Follows(s, ApplyEntry(s, list, x))
           /\ "NOTFOUND" \notin ApplyEntry(s, list, x).warnings
                => \A k \in Keys : Tally(ApplyEntry(s, list, x), k) = Tally(s, k) + Delta(list, x, k)
<1> DEFINE t == ApplyEntry(s, list, x)
<1>1. PICK u : u = t
  OBVIOUS
<1> SUFFICES Follows(s, u) /\ ("NOTFOUND" \notin u.warnings
                                 => \A k \in Keys : Tally(u, k) = Tally(s, k) + Delta(list, x, k))
  BY <1>1
<1>0. \A k : Tally(s, k) \in Nat
  BY TallyNat
<1>2. CASE list = "cards_gained"
  <2>1. x \in GainRefs /\ u = AddCard(s, x)
    BY <1>1, <1>2, ListsMean, EntriesMean
  <2>2. PICK c \in Cards : c.id = x.id /\ u.deck = Append(s.deck, c)
    BY <2>1, AddCardEffects
  <2>3. DeckOnly(s, u)
    BY <2>1, AddCardEffects
  <2>4. ASSUME NEW k \in Keys PROVE Tally(u, k) = Tally(s, k) + Delta(list, x, k)
    <3>1. Tally(u, k) = Tally(s, k) + (IF k = <<"card", c.id>> THEN 1 ELSE 0)
      BY <2>2, <2>3, TallyMoves DEF DeckOnly
    <3>2. Delta(list, x, k) = IF k = <<"card", x.id>> THEN 1 ELSE 0
      BY <1>2, <2>1, DeltasMean
    <3> QED
      BY <2>2, <3>1, <3>2
  <2> QED
    BY <2>3, <2>4 DEF DeckOnly, Follows
<1>3. CASE list = "cards_removed"
  <2>1. x \in LossRefs /\ u = RemoveCard(s, x)
    BY <1>1, <1>3, ListsMean, EntriesMean
  <2>2. DeckOnly(s, u)
    BY <2>1, RemoveCardEffects
  <2>3. ASSUME "NOTFOUND" \notin u.warnings, NEW k \in Keys
        PROVE  Tally(u, k) = Tally(s, k) + Delta(list, x, k)
    <3>1. PICK i \in DOMAIN s.deck : s.deck[i].id = x.id /\ u.deck = RemoveAt(s.deck, i)
      BY <2>1, <2>3, RemoveCardEffects
    <3>2. Tally(u, k) = Tally(s, k) - (IF k = <<"card", s.deck[i].id>> THEN 1 ELSE 0)
      BY <2>2, <3>1, TallyMoves DEF DeckOnly
    <3>3. Delta(list, x, k) = 0 - (IF k = <<"card", x.id>> THEN 1 ELSE 0)
      BY <1>3, <2>1, DeltasMean
    <3> QED
      BY <1>0, <3>1, <3>2, <3>3
  <2> QED
    BY <2>2, <2>3 DEF DeckOnly, Follows
<1>4. CASE list = "cards_transformed"
  <2>1. x \in TransformRefs /\ u = TransformCard(s, x)
    BY <1>1, <1>4, ListsMean, EntriesMean
  <2>2. PICK r : r = RemoveCard(s, x.original)
    OBVIOUS
  <2>3. r \in PlayerStates /\ DeckOnly(s, u) /\ r.warnings \subseteq u.warnings
    BY <2>1, <2>2, TransformCardEffects
  <2>4. PICK c \in Cards : c.id = x.final.id /\ u.deck = Append(r.deck, c)
    BY <2>1, <2>2, TransformCardEffects
  <2>5. x.original \in LossRefs
    BY <2>1 DEF TransformRefs
  <2>6. DeckOnly(s, r)
    BY <2>2, <2>5, RemoveCardEffects
  <2>7. ASSUME "NOTFOUND" \notin u.warnings, NEW k \in Keys
        PROVE  Tally(u, k) = Tally(s, k) + Delta(list, x, k)
    <3>0. "NOTFOUND" \notin r.warnings
      BY <2>3, <2>7
    <3>1. PICK i \in DOMAIN s.deck : s.deck[i].id = x.original.id /\ r.deck = RemoveAt(s.deck, i)
      BY <2>2, <2>5, <3>0, RemoveCardEffects
    <3>2. Tally(r, k) = Tally(s, k) - (IF k = <<"card", s.deck[i].id>> THEN 1 ELSE 0)
      BY <2>3, <2>6, <3>1, TallyMoves DEF DeckOnly
    <3>3. Tally(u, k) = Tally(r, k) + (IF k = <<"card", c.id>> THEN 1 ELSE 0)
      BY <2>3, <2>4, <2>6, TallyMoves DEF DeckOnly
    <3>4. Delta(list, x, k) =
            (IF k = <<"card", x.final.id>> THEN 1 ELSE 0) - (IF k = <<"card", x.original.id>> THEN 1 ELSE 0)
      BY <1>4, <2>1, DeltasMean
    <3> QED
      BY <1>0, <2>4, <3>1, <3>2, <3>3, <3>4
  <2> QED
    BY <2>3, <2>7 DEF DeckOnly, Follows
<1>5. CASE list \in {"upgraded_cards", "downgraded_cards"}
  <2>1. PICK v \in BOOLEAN : x \in CardIds /\ u = SetUpgraded(s, x, v)
    BY <1>1, <1>5, ListsMean, EntriesMean
  <2>2. DeckOnly(s, u)
    BY <2>1, SetUpgradedEffects
  <2>3. ASSUME "NOTFOUND" \notin u.warnings, NEW k \in Keys
        PROVE  Tally(u, k) = Tally(s, k) + Delta(list, x, k)
    <3>1. PICK i \in DOMAIN s.deck, c \in Cards :
            s.deck[i].id = x /\ c.id = x /\ u.deck = [s.deck EXCEPT ![i] = c]
      <4>1. Flips(s, u, x, v)
        BY <2>1, <2>3, SetUpgradedEffects
      <4> QED
        BY <4>1 DEF Flips
    <3>2. Tally(u, k) = Tally(s, k)
      BY <2>2, <3>1, TallyMoves DEF DeckOnly
    <3>3. Delta(list, x, k) = 0
      BY <1>5, DeltasMean
    <3> QED
      BY <1>0, <3>2, <3>3
  <2> QED
    BY <2>2, <2>3 DEF DeckOnly, Follows
<1>6. CASE list \in RelicLists
  <2>1. x \in Relics /\ u \in {GainRelic(s, x), LoseRelic(s, x)}
    BY <1>1, <1>6, ListsMean, EntriesMean DEF RelicLists
  <2>2. RelicsOnly(s, u)
    BY <2>1, GainRelicEffects, LoseRelicEffects
  <2>3. ASSUME NEW k \in Keys
        PROVE  Tally(u, k) = Tally(s, k) + Delta(list, x, k)
    <3>2. Tally(u, k) = Tally(s, k)
      BY <2>2, TallyMoves DEF RelicsOnly
    <3>3. Delta(list, x, k) = 0
      BY <1>6, DeltasMean DEF RelicLists
    <3> QED
      BY <1>0, <3>2, <3>3
  <2> QED
    BY <2>2, <2>3 DEF RelicsOnly, Follows
<1>7. CASE list = "potions_gained"
  <2>1. x \in PotionIds /\ u = GainPotion(s, x)
    BY <1>1, <1>7, ListsMean, EntriesMean
  <2>2. PotionsOnly(s, u) /\ u.potions = Append(s.potions, x)
    BY <2>1, GainPotionEffects
  <2>3. ASSUME NEW k \in Keys
        PROVE  Tally(u, k) = Tally(s, k) + Delta(list, x, k)
    <3>2. Tally(u, k) = Tally(s, k) + (IF k = <<"potion", x>> THEN 1 ELSE 0)
      BY <2>1, <2>2, TallyMoves DEF PotionsOnly
    <3>3. Delta(list, x, k) = IF k = <<"potion", x>> THEN 1 ELSE 0
      BY <1>7, <2>1, DeltasMean
    <3> QED
      BY <1>0, <3>2, <3>3
  <2> QED
    BY <2>2, <2>3 DEF PotionsOnly, Follows
<1>8. CASE list = "potions_lost"
  <2>1. x \in PotionIds /\ u = LosePotion(s, x)
    BY <1>1, <1>8, ListsMean, EntriesMean
  <2>2. PotionsOnly(s, u)
    BY <2>1, LosePotionEffects
  <2>3. ASSUME "NOTFOUND" \notin u.warnings, NEW k \in Keys
        PROVE  Tally(u, k) = Tally(s, k) + Delta(list, x, k)
    <3>1. PICK i \in DOMAIN s.potions : s.potions[i] = x /\ u.potions = RemoveAt(s.potions, i)
      BY <2>1, <2>3, LosePotionEffects
    <3>2. Tally(u, k) = Tally(s, k) - (IF k = <<"potion", s.potions[i]>> THEN 1 ELSE 0)
      BY <2>2, <3>1, TallyMoves DEF PotionsOnly
    <3>3. Delta(list, x, k) = 0 - (IF k = <<"potion", x>> THEN 1 ELSE 0)
      BY <1>8, <2>1, DeltasMean
    <3> QED
      BY <1>0, <3>1, <3>2, <3>3
  <2> QED
    BY <2>2, <2>3 DEF PotionsOnly, Follows
<1> QED
  BY <1>2, <1>3, <1>4, <1>5, <1>6, <1>7, <1>8 DEF Lists, CardLists, RelicLists

-----------------------------------------------------------------------------
(***************************************************************************)
(* A list, and a history, from its first entry.                            *)
(***************************************************************************)

ListIs(f, s, list, entries, N) ==
    f = [n \in 0..N |-> IF n = 0 THEN s ELSE ApplyEntry(f[n - 1], list, entries[n])]

LEMMA ListExists ==
    ASSUME NEW s, NEW list, NEW entries, NEW N \in Nat
    PROVE  \E f : ListIs(f, s, list, entries, N)
<1> DEFINE Then(f, i) == IF i = 0 THEN s ELSE ApplyEntry(f[i - 1], list, entries[i])
           Good == {n \in Nat : \E f : f = [i \in 0..n |-> Then(f, i)]}
<1>1. 0 \in Good
  <2> DEFINE f == [i \in 0..0 |-> s]
  <2>1. f = [i \in 0..0 |-> Then(f, i)]
    OBVIOUS
  <2> QED
    BY <2>1
<1>2. ASSUME NEW n \in Nat, n \in Good PROVE n + 1 \in Good
  <2>1. PICK f : f = [i \in 0..n |-> Then(f, i)]
    BY <1>2
  <2> DEFINE last == ApplyEntry(f[n], list, entries[n + 1])
             h == [i \in 0..(n + 1) |-> IF i = n + 1 THEN last ELSE f[i]]
  <2>2. ASSUME NEW i \in 0..(n + 1) PROVE h[i] = Then(h, i)
    <3>1. CASE i = n + 1
      <4>1. h[i] = last /\ h[i - 1] = f[n] /\ i # 0
        <5> HIDE DEF last
        <5> QED
          BY <3>1
      <4> QED
        BY <3>1, <4>1
    <3>2. CASE i \in 0..n
      <4>1. h[i] = f[i] /\ (i # 0 => h[i - 1] = f[i - 1])
        <5> HIDE DEF last
        <5> QED
          BY <3>2
      <4>2. f[i] = Then(f, i)
        BY <2>1, <3>2
      <4> QED
        BY <4>1, <4>2
    <3> QED
      BY <3>1, <3>2
  <2>3. h = [i \in 0..(n + 1) |-> Then(h, i)]
    <3> HIDE DEF Then, last
    <3>1. \A i \in 0..(n + 1) : h[i] = [j \in 0..(n + 1) |-> Then(h, j)][i]
      BY <2>2
    <3> QED
      BY <3>1
  <2> HIDE DEF h
  <2> QED
    BY <2>3
<1> HIDE DEF Good
<1>3. N \in Good
  BY <1>1, <1>2, SetInduction
<1> QED
  BY <1>3 DEF Good, ListIs

LEMMA ListPointwise ==
    ASSUME NEW s, NEW list, NEW entries, NEW N \in Nat, NEW f, ListIs(f, s, list, entries, N)
    PROVE  /\ f[0] = s
           /\ \A n \in Nat : n + 1 <= N => f[n + 1] = ApplyEntry(f[n], list, entries[n + 1])
<1>1. \A i \in 0..N : f[i] = IF i = 0 THEN s ELSE ApplyEntry(f[i - 1], list, entries[i])
  BY DEF ListIs
<1>2. f[0] = s
  <2>1. 0 \in 0..N
    OBVIOUS
  <2> QED
    BY <1>1, <2>1
<1>3. ASSUME NEW n \in Nat, n + 1 <= N PROVE f[n + 1] = ApplyEntry(f[n], list, entries[n + 1])
  <2> DEFINE i == n + 1
  <2>1. i \in 0..N /\ i # 0 /\ i - 1 = n
    BY <1>3
  <2> HIDE DEF i
  <2>2. f[i] = ApplyEntry(f[n], list, entries[i])
    BY <1>1, <2>1
  <2> QED
    BY <2>2 DEF i
<1> QED
  BY <1>2, <1>3

LEMMA ListFunction ==
    ASSUME NEW s, NEW list, NEW entries, Len(entries) \in Nat
    PROVE  \E f : ListIs(f, s, list, entries, Len(entries)) /\ ApplyList(s, list, entries) = f[Len(entries)]
<1> DEFINE N == Len(entries)
           after == CHOOSE f : f = [n \in 0..N |-> IF n = 0 THEN s
                                                   ELSE ApplyEntry(f[n - 1], list, entries[n])]
<1>1. ListIs(after, s, list, entries, N)
  <2>1. \E f : ListIs(f, s, list, entries, N)
    BY ListExists
  <2> QED
    BY <2>1 DEF ListIs
<1>2. ApplyList(s, list, entries) = after[N]
  BY DEF ApplyList
<1> HIDE DEF after
<1> QED
  BY <1>1, <1>2

LEMMA ListNothing ==
    ASSUME NEW s, NEW list
    PROVE  ApplyList(s, list, <<>>) = s
<1>1. Len(<<>>) = 0 /\ Len(<<>>) \in Nat
  OBVIOUS
<1>2. PICK f : ListIs(f, s, list, <<>>, Len(<<>>)) /\ ApplyList(s, list, <<>>) = f[Len(<<>>)]
  BY <1>1, ListFunction
<1>3. f[0] = s
  BY <1>1, <1>2, ListPointwise
<1> QED
  BY <1>1, <1>2, <1>3

LEMMA ListAppend ==
    ASSUME NEW s, NEW list, NEW S, NEW entries \in Seq(S), NEW e
    PROVE  ApplyList(s, list, Append(entries, e)) = ApplyEntry(ApplyList(s, list, entries), list, e)
<1> DEFINE N == Len(entries)
           more == Append(entries, e)
<1>1. N \in Nat /\ Len(more) = N + 1 /\ more[N + 1] = e /\ \A i \in 1..N : more[i] = entries[i]
  OBVIOUS
<1>2. PICK f : ListIs(f, s, list, entries, N) /\ ApplyList(s, list, entries) = f[N]
  BY <1>1, ListFunction
<1>3. PICK h : ListIs(h, s, list, more, N + 1) /\ ApplyList(s, list, more) = h[N + 1]
  <2>1. Len(more) \in Nat /\ Len(more) = N + 1
    BY <1>1
  <2> HIDE DEF more
  <2>2. \E k : ListIs(k, s, list, more, Len(more)) /\ ApplyList(s, list, more) = k[Len(more)]
    BY <2>1, ListFunction
  <2> QED
    BY <2>1, <2>2
<1> HIDE DEF more, N
<1>4. /\ f[0] = s
      /\ \A n \in Nat : n + 1 <= N => f[n + 1] = ApplyEntry(f[n], list, entries[n + 1])
  BY <1>1, <1>2, ListPointwise
<1>5. /\ h[0] = s
      /\ \A n \in Nat : n + 1 <= N + 1 => h[n + 1] = ApplyEntry(h[n], list, more[n + 1])
  <2>1. N + 1 \in Nat
    BY <1>1
  <2> DEFINE M == N + 1
  <2>2. M \in Nat /\ ListIs(h, s, list, more, M)
    BY <1>3, <2>1
  <2> HIDE DEF M
  <2>3. PICK m, es : m = M /\ es = more
    OBVIOUS
  <2>4. m \in Nat /\ ListIs(h, s, list, es, m)
    BY <2>2, <2>3
  <2>5. /\ h[0] = s
        /\ \A n \in Nat : n + 1 <= m => h[n + 1] = ApplyEntry(h[n], list, es[n + 1])
    <3>1. \A ss, ll, ee : \A nn \in Nat : \A ff : ListIs(ff, ss, ll, ee, nn) =>
            /\ ff[0] = ss
            /\ \A n \in Nat : n + 1 <= nn => ff[n + 1] = ApplyEntry(ff[n], ll, ee[n + 1])
      BY ListPointwise
    <3>2. h[0] = s
      <4>1. 0 \in 0..m
        BY <2>4
      <4> QED
        BY <2>4, <4>1 DEF ListIs
    <3>3. ASSUME NEW n \in Nat, n + 1 <= m PROVE h[n + 1] = ApplyEntry(h[n], list, es[n + 1])
      BY <2>4, <3>1, <3>3
    <3> QED
      BY <3>2, <3>3
  <2> QED
    BY <2>3, <2>5 DEF M
<1> DEFINE Same == {n \in Nat : n <= N => h[n] = f[n]}
<1>6. 0 \in Same
  BY <1>4, <1>5
<1>7. ASSUME NEW n \in Nat, n \in Same PROVE n + 1 \in Same
  <2> SUFFICES ASSUME n + 1 <= N PROVE h[n + 1] = f[n + 1]
    OBVIOUS
  <2>1. h[n] = f[n] /\ more[n + 1] = entries[n + 1] /\ n + 1 <= N + 1
    BY <1>1, <1>7
  <2> QED
    BY <1>4, <1>5, <2>1
<1> HIDE DEF Same
<1>8. N \in Same
  BY <1>1, <1>6, <1>7, SetInduction
<1>9. h[N] = f[N]
  BY <1>1, <1>8 DEF Same
<1>10. h[N + 1] = ApplyEntry(h[N], list, e)
  BY <1>1, <1>5
<1> QED
  BY <1>2, <1>3, <1>9, <1>10 DEF more

HistoryIs(f, entries, N) ==
    f = [n \in 0..N |-> IF n = 0 THEN ReconstructStart ELSE ReconstructPoint(f[n - 1], entries[n])]

LEMMA HistoryExists ==
    ASSUME NEW entries, NEW N \in Nat
    PROVE  \E f : HistoryIs(f, entries, N)
<1> DEFINE Then(f, i) == IF i = 0 THEN ReconstructStart ELSE ReconstructPoint(f[i - 1], entries[i])
           Good == {n \in Nat : \E f : f = [i \in 0..n |-> Then(f, i)]}
<1>1. 0 \in Good
  <2> DEFINE f == [i \in 0..0 |-> ReconstructStart]
  <2>1. f = [i \in 0..0 |-> Then(f, i)]
    OBVIOUS
  <2> QED
    BY <2>1
<1>2. ASSUME NEW n \in Nat, n \in Good PROVE n + 1 \in Good
  <2>1. PICK f : f = [i \in 0..n |-> Then(f, i)]
    BY <1>2
  <2> DEFINE last == ReconstructPoint(f[n], entries[n + 1])
             h == [i \in 0..(n + 1) |-> IF i = n + 1 THEN last ELSE f[i]]
  <2>2. ASSUME NEW i \in 0..(n + 1) PROVE h[i] = Then(h, i)
    <3>1. CASE i = n + 1
      <4>1. h[i] = last /\ h[i - 1] = f[n] /\ i # 0
        <5> HIDE DEF last
        <5> QED
          BY <3>1
      <4> QED
        BY <3>1, <4>1
    <3>2. CASE i \in 0..n
      <4>1. h[i] = f[i] /\ (i # 0 => h[i - 1] = f[i - 1])
        <5> HIDE DEF last
        <5> QED
          BY <3>2
      <4>2. f[i] = Then(f, i)
        BY <2>1, <3>2
      <4> QED
        BY <4>1, <4>2
    <3> QED
      BY <3>1, <3>2
  <2>3. h = [i \in 0..(n + 1) |-> Then(h, i)]
    <3> HIDE DEF Then, last
    <3>1. \A i \in 0..(n + 1) : h[i] = [j \in 0..(n + 1) |-> Then(h, j)][i]
      BY <2>2
    <3> QED
      BY <3>1
  <2> HIDE DEF h
  <2> QED
    BY <2>3
<1> HIDE DEF Good
<1>3. N \in Good
  BY <1>1, <1>2, SetInduction
<1> QED
  BY <1>3 DEF Good, HistoryIs

LEMMA HistoryPointwise ==
    ASSUME NEW entries, NEW N \in Nat, NEW f, HistoryIs(f, entries, N)
    PROVE  /\ f[0] = ReconstructStart
           /\ \A n \in Nat : n + 1 <= N => f[n + 1] = ReconstructPoint(f[n], entries[n + 1])
<1>1. \A i \in 0..N : f[i] = IF i = 0 THEN ReconstructStart ELSE ReconstructPoint(f[i - 1], entries[i])
  BY DEF HistoryIs
<1>2. f[0] = ReconstructStart
  <2>1. 0 \in 0..N
    OBVIOUS
  <2> QED
    BY <1>1, <2>1
<1>3. ASSUME NEW n \in Nat, n + 1 <= N PROVE f[n + 1] = ReconstructPoint(f[n], entries[n + 1])
  <2> DEFINE i == n + 1
  <2>1. i \in 0..N /\ i # 0 /\ i - 1 = n
    BY <1>3
  <2> HIDE DEF i
  <2>2. f[i] = ReconstructPoint(f[n], entries[i])
    BY <1>1, <2>1
  <2> QED
    BY <2>2 DEF i
<1> QED
  BY <1>2, <1>3

LEMMA HistoryFunction ==
    ASSUME NEW entries, Len(entries) \in Nat
    PROVE  \E f : HistoryIs(f, entries, Len(entries)) /\ ReconstructAll(entries) = f[Len(entries)]
<1> DEFINE N == Len(entries)
           after == CHOOSE f : f = [n \in 0..N |-> IF n = 0 THEN ReconstructStart
                                                   ELSE ReconstructPoint(f[n - 1], entries[n])]
<1>1. HistoryIs(after, entries, N)
  <2>1. \E f : HistoryIs(f, entries, N)
    BY HistoryExists
  <2> QED
    BY <2>1 DEF HistoryIs
<1>2. ReconstructAll(entries) = after[N]
  BY DEF ReconstructAll
<1> HIDE DEF after
<1> QED
  BY <1>1, <1>2

LEMMA HistoryNothing ==
    ReconstructAll(<<>>) = ReconstructStart
<1>1. Len(<<>>) = 0 /\ Len(<<>>) \in Nat
  OBVIOUS
<1>2. PICK f : HistoryIs(f, <<>>, Len(<<>>)) /\ ReconstructAll(<<>>) = f[Len(<<>>)]
  BY <1>1, HistoryFunction
<1>3. f[0] = ReconstructStart
  BY <1>1, <1>2, HistoryPointwise
<1> QED
  BY <1>1, <1>2, <1>3

LEMMA HistoryAppend ==
    ASSUME NEW S, NEW entries \in Seq(S), NEW e
    PROVE  ReconstructAll(Append(entries, e)) = ReconstructPoint(ReconstructAll(entries), e)
<1> DEFINE N == Len(entries)
           more == Append(entries, e)
<1>1. N \in Nat /\ Len(more) = N + 1 /\ more[N + 1] = e /\ \A i \in 1..N : more[i] = entries[i]
  OBVIOUS
<1>2. PICK f : HistoryIs(f, entries, N) /\ ReconstructAll(entries) = f[N]
  BY <1>1, HistoryFunction
<1>3. PICK h : HistoryIs(h, more, N + 1) /\ ReconstructAll(more) = h[N + 1]
  <2>1. Len(more) \in Nat /\ Len(more) = N + 1
    BY <1>1
  <2> HIDE DEF more
  <2>2. \E k : HistoryIs(k, more, Len(more)) /\ ReconstructAll(more) = k[Len(more)]
    BY <2>1, HistoryFunction
  <2> QED
    BY <2>1, <2>2
<1> HIDE DEF more, N
<1>4. /\ f[0] = ReconstructStart
      /\ \A n \in Nat : n + 1 <= N => f[n + 1] = ReconstructPoint(f[n], entries[n + 1])
  BY <1>1, <1>2, HistoryPointwise
<1>5. /\ h[0] = ReconstructStart
      /\ \A n \in Nat : n + 1 <= N + 1 => h[n + 1] = ReconstructPoint(h[n], more[n + 1])
  <2>1. N + 1 \in Nat
    BY <1>1
  <2> DEFINE M == N + 1
  <2>2. M \in Nat /\ HistoryIs(h, more, M)
    BY <1>3, <2>1
  <2> HIDE DEF M
  <2>3. /\ h[0] = ReconstructStart
        /\ \A n \in Nat : n + 1 <= M => h[n + 1] = ReconstructPoint(h[n], more[n + 1])
    BY <2>2, HistoryPointwise
  <2> QED
    BY <2>3 DEF M
<1> DEFINE Same == {n \in Nat : n <= N => h[n] = f[n]}
<1>6. 0 \in Same
  BY <1>4, <1>5
<1>7. ASSUME NEW n \in Nat, n \in Same PROVE n + 1 \in Same
  <2> SUFFICES ASSUME n + 1 <= N PROVE h[n + 1] = f[n + 1]
    OBVIOUS
  <2>1. h[n] = f[n] /\ more[n + 1] = entries[n + 1] /\ n + 1 <= N + 1
    BY <1>1, <1>7
  <2> QED
    BY <1>4, <1>5, <2>1
<1> HIDE DEF Same
<1>8. N \in Same
  BY <1>1, <1>6, <1>7, SetInduction
<1>9. h[N] = f[N]
  BY <1>1, <1>8 DEF Same
<1>10. h[N + 1] = ReconstructPoint(h[N], e)
  BY <1>1, <1>5
<1> QED
  BY <1>2, <1>3, <1>9, <1>10 DEF more

LEMMA SeqInduction ==
    ASSUME NEW S, NEW G, <<>> \in G, \A q \in Seq(S), x \in S : q \in G => Append(q, x) \in G
    PROVE  \A q \in Seq(S) : q \in G
<1> DEFINE Good == {n \in Nat : \A q \in Seq(S) : Len(q) = n => q \in G}
<1>1. 0 \in Good
  <2>1. ASSUME NEW q \in Seq(S), Len(q) = 0 PROVE q \in G
    <3>1. q = <<>>
      BY <2>1
    <3> QED
      BY <3>1
  <2> QED
    BY <2>1
<1>2. ASSUME NEW n \in Nat, n \in Good PROVE n + 1 \in Good
  <2>1. ASSUME NEW q \in Seq(S), Len(q) = n + 1 PROVE q \in G
    <3> DEFINE front == SubSeq(q, 1, n)
               last == q[n + 1]
    <3>1. front \in Seq(S) /\ Len(front) = n /\ last \in S
      BY <2>1
    <3>2. q = Append(front, last)
      BY <2>1
    <3> HIDE DEF front, last
    <3>3. front \in G
      BY <1>2, <3>1
    <3> QED
      BY <3>1, <3>2, <3>3
  <2> QED
    BY <2>1
<1> HIDE DEF Good
<1>3. \A n \in Nat : n \in Good
  BY <1>1, <1>2, SetInduction
<1> SUFFICES ASSUME NEW q \in Seq(S) PROVE q \in G
  OBVIOUS
<1>4. Len(q) \in Nat /\ Len(q) \in Good
  BY <1>3
<1> QED
  BY <1>4 DEF Good

(* What a list of a point says of the tally.                                *)
Net(list, entries, k) == HowMany(entries, Gains(list, k)) - HowMany(entries, Losses(list, k))

LEMMA NetInt ==
    ASSUME NEW S, NEW entries \in Seq(S), NEW list, NEW k
    PROVE  Net(list, entries, k) \in Int
<1>1. HowMany(entries, Gains(list, k)) \in Nat /\ HowMany(entries, Losses(list, k)) \in Nat
  BY HowManyNat
<1> QED
  BY <1>1 DEF Net

LEMMA NetNone ==
    ASSUME NEW list, NEW k
    PROVE  Net(list, <<>>, k) = 0
<1>1. HowMany(<<>>, Gains(list, k)) = 0 /\ HowMany(<<>>, Losses(list, k)) = 0
  BY HowManyNone
<1> QED
  BY <1>1 DEF Net

LEMMA NetAppend ==
    ASSUME NEW S, NEW entries \in Seq(S), NEW x \in S, NEW list, NEW k
    PROVE  /\ Net(list, Append(entries, x), k) = Net(list, entries, k) + Delta(list, x, k)
           /\ Delta(list, x, k) \in Int
<1> DEFINE G == Gains(list, k)
           L == Losses(list, k)
<1> HIDE DEF G, L
<1>1. HowMany(entries, G) \in Nat /\ HowMany(entries, L) \in Nat
  BY HowManyNat
<1>2. /\ HowMany(Append(entries, x), G) = HowMany(entries, G) + (IF x \in G THEN 1 ELSE 0)
      /\ HowMany(Append(entries, x), L) = HowMany(entries, L) + (IF x \in L THEN 1 ELSE 0)
  BY HowManyAppend
<1>3. /\ Net(list, Append(entries, x), k) = HowMany(Append(entries, x), G) - HowMany(Append(entries, x), L)
      /\ Net(list, entries, k) = HowMany(entries, G) - HowMany(entries, L)
      /\ Delta(list, x, k) = (IF x \in G THEN 1 ELSE 0) - (IF x \in L THEN 1 ELSE 0)
  BY DEF Net, Delta, G, L
<1> QED
  BY <1>1, <1>2, <1>3

(* s became t, and without NOTFOUND every tally moved by d.                 *)
Tallies(s, t, d) ==
    /\ Follows(s, t)
    /\ "NOTFOUND" \notin t.warnings => \A k \in Keys : Tally(t, k) = Tally(s, k) + d[k]

LEMMA ListEffects ==
    ASSUME NEW s \in PlayerStates, NEW list \in Lists, NEW entries \in Seq(EntriesOf(list))
    PROVE  Tallies(s, ApplyList(s, list, entries), [k \in Keys |-> Net(list, entries, k)])
<1> DEFINE S == EntriesOf(list)
           G == {q \in Seq(S) : Tallies(s, ApplyList(s, list, q), [k \in Keys |-> Net(list, q, k)])}
<1>0. \A k : Tally(s, k) \in Nat
  BY TallyNat
<1>1. <<>> \in G
  <2>1. ApplyList(s, list, <<>>) = s
    BY ListNothing
  <2>2. \A k : Net(list, <<>>, k) = 0
    BY NetNone
  <2>3. PICK d : d = [k \in Keys |-> Net(list, <<>>, k)]
    OBVIOUS
  <2>4. \A k \in Keys : d[k] = 0
    BY <2>2, <2>3
  <2>5. Tallies(s, s, d)
    BY <1>0, <2>4 DEF Tallies, Follows
  <2>6. <<>> \in Seq(S)
    OBVIOUS
  <2> QED
    BY <2>1, <2>3, <2>5, <2>6
<1>2. ASSUME NEW q \in Seq(S), NEW x \in S, q \in G PROVE Append(q, x) \in G
  <2>1. PICK t : t = ApplyList(s, list, q)
    OBVIOUS
  <2>2. PICK u : u = ApplyEntry(t, list, x)
    OBVIOUS
  <2>3. ApplyList(s, list, Append(q, x)) = u
    BY <2>1, <2>2, ListAppend
  <2>4. PICK d : d = [k \in Keys |-> Net(list, q, k)]
    OBVIOUS
  <2>5. PICK e : e = [k \in Keys |-> Net(list, Append(q, x), k)]
    OBVIOUS
  <2>6. Tallies(s, t, d)
    BY <1>2, <2>1, <2>4
  <2>7. t \in PlayerStates
    BY <2>6 DEF Tallies, Follows
  <2>8. /\ Follows(t, u)
        /\ "NOTFOUND" \notin u.warnings => \A k \in Keys : Tally(u, k) = Tally(t, k) + Delta(list, x, k)
    BY <2>2, <2>7, EntryEffects
  <2>9. Follows(s, u)
    BY <2>6, <2>8 DEF Tallies, Follows
  <2>10. ASSUME "NOTFOUND" \notin u.warnings, NEW k \in Keys PROVE Tally(u, k) = Tally(s, k) + e[k]
    <3>1. "NOTFOUND" \notin t.warnings
      BY <2>8, <2>10 DEF Follows
    <3>2. Tally(t, k) = Tally(s, k) + d[k]
      BY <2>6, <3>1 DEF Tallies
    <3>3. Tally(u, k) = Tally(t, k) + Delta(list, x, k)
      BY <2>8, <2>10
    <3>4. Net(list, Append(q, x), k) = Net(list, q, k) + Delta(list, x, k) /\ Delta(list, x, k) \in Int
      BY NetAppend
    <3>5. Net(list, q, k) \in Int
      BY NetInt
    <3>6. e[k] = Net(list, Append(q, x), k) /\ d[k] = Net(list, q, k)
      BY <2>4, <2>5
    <3> QED
      BY <1>0, <3>2, <3>3, <3>4, <3>5, <3>6
  <2>11. Tallies(s, u, e)
    BY <2>9, <2>10 DEF Tallies
  <2>12. Append(q, x) \in Seq(S)
    OBVIOUS
  <2> QED
    BY <2>3, <2>5, <2>11, <2>12
<1> HIDE DEF G, S
<1>3. entries \in Seq(S)
  BY DEF S
<1>4. entries \in G
  BY <1>1, <1>2, <1>3, SeqInduction
<1> QED
  BY <1>4 DEF G

-----------------------------------------------------------------------------
(***************************************************************************)
(* A point: the lists in turn.                                             *)
(***************************************************************************)
StatsRec ==
    [cards_gained : Seq(GainRefs), cards_removed : Seq(LossRefs), cards_transformed : Seq(TransformRefs),
     upgraded_cards : Seq(CardIds), downgraded_cards : Seq(CardIds),
     relics_gained : Seq(Relics), relics_removed : Seq(Relics),
     potions_gained : Seq(PotionIds), potions_lost : Seq(PotionIds), hp : Int]
Change(ps, k) ==
    Net("cards_gained", ps.cards_gained, k) + Net("cards_removed", ps.cards_removed, k)
      + Net("cards_transformed", ps.cards_transformed, k)
      + Net("upgraded_cards", ps.upgraded_cards, k) + Net("downgraded_cards", ps.downgraded_cards, k)
      + Net("relics_gained", ps.relics_gained, k) + Net("relics_removed", ps.relics_removed, k)
      + Net("potions_gained", ps.potions_gained, k) + Net("potions_lost", ps.potions_lost, k)

LEMMA StatsFields ==
    ASSUME NEW ps \in StatsRec
    PROVE  /\ ps.cards_gained \in Seq(EntriesOf("cards_gained"))
           /\ ps.cards_removed \in Seq(EntriesOf("cards_removed"))
           /\ ps.cards_transformed \in Seq(EntriesOf("cards_transformed"))
           /\ ps.upgraded_cards \in Seq(EntriesOf("upgraded_cards"))
           /\ ps.downgraded_cards \in Seq(EntriesOf("downgraded_cards"))
           /\ ps.relics_gained \in Seq(EntriesOf("relics_gained"))
           /\ ps.relics_removed \in Seq(EntriesOf("relics_removed"))
           /\ ps.potions_gained \in Seq(EntriesOf("potions_gained"))
           /\ ps.potions_lost \in Seq(EntriesOf("potions_lost"))
           /\ ps.hp \in Int
  BY ListsMean DEF StatsRec

LEMMA ListsAre ==
    /\ CardLists \subseteq Lists /\ RelicLists \subseteq Lists
    /\ "potions_gained" \in Lists /\ "potions_lost" \in Lists
    /\ "cards_gained" \in CardLists /\ "cards_removed" \in CardLists /\ "cards_transformed" \in CardLists
    /\ "upgraded_cards" \in CardLists /\ "downgraded_cards" \in CardLists
    /\ "relics_gained" \in RelicLists /\ "relics_removed" \in RelicLists
  BY DEF Lists, CardLists, RelicLists

(* One list after another.                                                  *)
LEMMA OneList ==
    ASSUME NEW s \in PlayerStates, NEW list \in Lists, NEW entries \in Seq(EntriesOf(list)),
           NEW t, t = ApplyList(s, list, entries)
    PROVE  /\ Follows(s, t)
           /\ "NOTFOUND" \notin t.warnings => \A k \in Keys : Tally(t, k) = Tally(s, k) + Net(list, entries, k)
<1>1. PICK d : d = [k \in Keys |-> Net(list, entries, k)]
  OBVIOUS
<1>2. Tallies(s, t, d)
  BY <1>1, ListEffects
<1>3. \A k \in Keys : d[k] = Net(list, entries, k)
  BY <1>1
<1> QED
  BY <1>2, <1>3 DEF Tallies

LEMMA CardsEffects ==
    ASSUME NEW s \in PlayerStates, NEW ps \in StatsRec
    PROVE  /\ Follows(s, ApplyCards(s, ps))
           /\ "NOTFOUND" \notin ApplyCards(s, ps).warnings =>
                \A k \in Keys : Tally(ApplyCards(s, ps), k) =
                  Tally(s, k) + Net("cards_gained", ps.cards_gained, k) + Net("cards_removed", ps.cards_removed, k)
                    + Net("cards_transformed", ps.cards_transformed, k)
                    + Net("upgraded_cards", ps.upgraded_cards, k) + Net("downgraded_cards", ps.downgraded_cards, k)
<1>1. PICK a : a = ApplyList(s, "cards_gained", ps.cards_gained)
  OBVIOUS
<1>2. PICK b : b = ApplyList(a, "cards_removed", ps.cards_removed)
  OBVIOUS
<1>3. PICK c : c = ApplyList(b, "cards_transformed", ps.cards_transformed)
  OBVIOUS
<1>4. PICK d : d = ApplyList(c, "upgraded_cards", ps.upgraded_cards)
  OBVIOUS
<1>5. PICK e : e = ApplyList(d, "downgraded_cards", ps.downgraded_cards)
  OBVIOUS
<1>6. ApplyCards(s, ps) = e
  BY <1>1, <1>2, <1>3, <1>4, <1>5 DEF ApplyCards
<1>7. /\ Follows(s, a)
      /\ "NOTFOUND" \notin a.warnings => \A k \in Keys : Tally(a, k) = Tally(s, k) + Net("cards_gained", ps.cards_gained, k)
  BY <1>1, StatsFields, ListsAre, OneList
<1>8. /\ Follows(a, b)
      /\ "NOTFOUND" \notin b.warnings => \A k \in Keys : Tally(b, k) = Tally(a, k) + Net("cards_removed", ps.cards_removed, k)
  <2>1. a \in PlayerStates
    BY <1>7 DEF Follows
  <2> QED
    BY <1>2, <2>1, StatsFields, ListsAre, OneList
<1>9. /\ Follows(b, c)
      /\ "NOTFOUND" \notin c.warnings => \A k \in Keys : Tally(c, k) = Tally(b, k) + Net("cards_transformed", ps.cards_transformed, k)
  <2>1. b \in PlayerStates
    BY <1>8 DEF Follows
  <2> QED
    BY <1>3, <2>1, StatsFields, ListsAre, OneList
<1>10. /\ Follows(c, d)
       /\ "NOTFOUND" \notin d.warnings => \A k \in Keys : Tally(d, k) = Tally(c, k) + Net("upgraded_cards", ps.upgraded_cards, k)
  <2>1. c \in PlayerStates
    BY <1>9 DEF Follows
  <2> QED
    BY <1>4, <2>1, StatsFields, ListsAre, OneList
<1>11. /\ Follows(d, e)
       /\ "NOTFOUND" \notin e.warnings => \A k \in Keys : Tally(e, k) = Tally(d, k) + Net("downgraded_cards", ps.downgraded_cards, k)
  <2>1. d \in PlayerStates
    BY <1>10 DEF Follows
  <2> QED
    BY <1>5, <2>1, StatsFields, ListsAre, OneList
<1>12. Follows(s, e) /\ a.warnings \subseteq e.warnings /\ b.warnings \subseteq e.warnings
       /\ c.warnings \subseteq e.warnings /\ d.warnings \subseteq e.warnings
  BY <1>7, <1>8, <1>9, <1>10, <1>11 DEF Follows
<1>13. ASSUME "NOTFOUND" \notin e.warnings, NEW k \in Keys
       PROVE  Tally(e, k) =
                Tally(s, k) + Net("cards_gained", ps.cards_gained, k) + Net("cards_removed", ps.cards_removed, k)
                  + Net("cards_transformed", ps.cards_transformed, k)
                  + Net("upgraded_cards", ps.upgraded_cards, k) + Net("downgraded_cards", ps.downgraded_cards, k)
  BY <1>7, <1>8, <1>9, <1>10, <1>11, <1>12, <1>13
<1> QED
  BY <1>6, <1>12, <1>13

LEMMA ItemsEffects ==
    ASSUME NEW s \in PlayerStates, NEW ps \in StatsRec
    PROVE  /\ Follows(s, ApplyItems(s, ps))
           /\ "NOTFOUND" \notin ApplyItems(s, ps).warnings =>
                \A k \in Keys : Tally(ApplyItems(s, ps), k) =
                  Tally(s, k) + Net("relics_gained", ps.relics_gained, k) + Net("relics_removed", ps.relics_removed, k)
                    + Net("potions_gained", ps.potions_gained, k) + Net("potions_lost", ps.potions_lost, k)
<1>1. PICK a : a = ApplyList(s, "relics_gained", ps.relics_gained)
  OBVIOUS
<1>2. PICK b : b = ApplyList(a, "relics_removed", ps.relics_removed)
  OBVIOUS
<1>3. PICK c : c = ApplyList(b, "potions_gained", ps.potions_gained)
  OBVIOUS
<1>4. PICK d : d = ApplyList(c, "potions_lost", ps.potions_lost)
  OBVIOUS
<1>6. ApplyItems(s, ps) = d
  BY <1>1, <1>2, <1>3, <1>4 DEF ApplyItems
<1>7. /\ Follows(s, a)
      /\ "NOTFOUND" \notin a.warnings => \A k \in Keys : Tally(a, k) = Tally(s, k) + Net("relics_gained", ps.relics_gained, k)
  BY <1>1, StatsFields, ListsAre, OneList
<1>8. /\ Follows(a, b)
      /\ "NOTFOUND" \notin b.warnings => \A k \in Keys : Tally(b, k) = Tally(a, k) + Net("relics_removed", ps.relics_removed, k)
  <2>1. a \in PlayerStates
    BY <1>7 DEF Follows
  <2> QED
    BY <1>2, <2>1, StatsFields, ListsAre, OneList
<1>9. /\ Follows(b, c)
      /\ "NOTFOUND" \notin c.warnings => \A k \in Keys : Tally(c, k) = Tally(b, k) + Net("potions_gained", ps.potions_gained, k)
  <2>1. b \in PlayerStates
    BY <1>8 DEF Follows
  <2> QED
    BY <1>3, <2>1, StatsFields, ListsAre, OneList
<1>10. /\ Follows(c, d)
       /\ "NOTFOUND" \notin d.warnings => \A k \in Keys : Tally(d, k) = Tally(c, k) + Net("potions_lost", ps.potions_lost, k)
  <2>1. c \in PlayerStates
    BY <1>9 DEF Follows
  <2> QED
    BY <1>4, <2>1, StatsFields, ListsAre, OneList
<1>12. Follows(s, d) /\ a.warnings \subseteq d.warnings /\ b.warnings \subseteq d.warnings
       /\ c.warnings \subseteq d.warnings
  BY <1>7, <1>8, <1>9, <1>10 DEF Follows
<1>13. ASSUME "NOTFOUND" \notin d.warnings, NEW k \in Keys
       PROVE  Tally(d, k) =
                Tally(s, k) + Net("relics_gained", ps.relics_gained, k) + Net("relics_removed", ps.relics_removed, k)
                  + Net("potions_gained", ps.potions_gained, k) + Net("potions_lost", ps.potions_lost, k)
  BY <1>7, <1>8, <1>9, <1>10, <1>12, <1>13
<1> QED
  BY <1>6, <1>12, <1>13

LEMMA PointEffects ==
    ASSUME NEW s \in PlayerStates, NEW ps \in StatsRec
    PROVE  /\ ApplyPointStats(s, ps) \in PlayerStates
           /\ s.warnings \subseteq ApplyPointStats(s, ps).warnings
           /\ ApplyCards(s, ps).warnings \subseteq ApplyPointStats(s, ps).warnings
           /\ ApplyPointStats(s, ps).hp = ps.hp
           /\ ps.hp = NoHp => "NOTFOUND" \in ApplyPointStats(s, ps).warnings
           /\ ApplyPointStats(s, ps).deck = ApplyItems(ApplyCards(s, ps), ps).deck
           /\ ApplyPointStats(s, ps).relics = ApplyItems(ApplyCards(s, ps), ps).relics
           /\ "NOTFOUND" \notin ApplyPointStats(s, ps).warnings =>
                \A k \in Keys : Tally(ApplyPointStats(s, ps), k) = Tally(s, k) + Change(ps, k)
<1>1. PICK c : c = ApplyCards(s, ps)
  OBVIOUS
<1>2. PICK i : i = ApplyItems(c, ps)
  OBVIOUS
<1>3. PICK j : j = IF ps.hp = NoHp THEN Warn(i, "NOTFOUND") ELSE i
  OBVIOUS
<1>4. PICK t : t = ApplyPointStats(s, ps)
  OBVIOUS
<1>5. t = [j EXCEPT !.hp = ps.hp]
  BY <1>1, <1>2, <1>3, <1>4 DEF ApplyPointStats
<1>6. Follows(s, c)
  BY <1>1, CardsEffects
<1>7. c \in PlayerStates
  BY <1>6 DEF Follows
<1>8. Follows(c, i)
  BY <1>2, <1>7, ItemsEffects
<1>9. i \in PlayerStates /\ s.warnings \subseteq i.warnings /\ c.warnings \subseteq i.warnings
  BY <1>6, <1>8 DEF Follows
<1>10. /\ j \in PlayerStates /\ j.deck = i.deck /\ j.relics = i.relics /\ j.potions = i.potions
       /\ i.warnings \subseteq j.warnings /\ (ps.hp = NoHp => "NOTFOUND" \in j.warnings)
  <2>1. "NOTFOUND" \in Warnings
    BY DEF Warnings
  <2>2. CASE ps.hp = NoHp
    BY <1>3, <1>9, <2>1, <2>2, WarnEffects
  <2>3. CASE ps.hp # NoHp
    BY <1>3, <1>9, <2>3
  <2> QED
    BY <2>2, <2>3
<1>11. ps.hp \in Int
  BY StatsFields
<1>12. /\ t \in PlayerStates /\ t.deck = j.deck /\ t.relics = j.relics /\ t.potions = j.potions
       /\ t.hp = ps.hp /\ t.warnings = j.warnings
  BY <1>5, <1>10, <1>11 DEF PlayerStates
<1>13. ASSUME "NOTFOUND" \notin t.warnings, NEW k \in Keys PROVE Tally(t, k) = Tally(s, k) + Change(ps, k)
  <2>1. Tally(t, k) = Tally(i, k)
    BY <1>9, <1>10, <1>12, TallyMoves
  <2>2. "NOTFOUND" \notin i.warnings /\ "NOTFOUND" \notin c.warnings
    BY <1>9, <1>10, <1>12, <1>13
  <2>3. Tally(i, k) =
          Tally(c, k) + Net("relics_gained", ps.relics_gained, k) + Net("relics_removed", ps.relics_removed, k)
            + Net("potions_gained", ps.potions_gained, k) + Net("potions_lost", ps.potions_lost, k)
    BY <1>2, <1>7, <2>2, ItemsEffects
  <2>4. Tally(c, k) =
          Tally(s, k) + Net("cards_gained", ps.cards_gained, k) + Net("cards_removed", ps.cards_removed, k)
            + Net("cards_transformed", ps.cards_transformed, k)
            + Net("upgraded_cards", ps.upgraded_cards, k) + Net("downgraded_cards", ps.downgraded_cards, k)
    BY <1>1, <2>2, CardsEffects
  <2>5. /\ Tally(s, k) \in Nat
        /\ Net("cards_gained", ps.cards_gained, k) \in Int /\ Net("cards_removed", ps.cards_removed, k) \in Int
        /\ Net("cards_transformed", ps.cards_transformed, k) \in Int
        /\ Net("upgraded_cards", ps.upgraded_cards, k) \in Int
        /\ Net("downgraded_cards", ps.downgraded_cards, k) \in Int
        /\ Net("relics_gained", ps.relics_gained, k) \in Int /\ Net("relics_removed", ps.relics_removed, k) \in Int
        /\ Net("potions_gained", ps.potions_gained, k) \in Int /\ Net("potions_lost", ps.potions_lost, k) \in Int
    BY StatsFields, TallyNat, NetInt
  <2> QED
    BY <2>1, <2>3, <2>4, <2>5 DEF Change
<1> QED
  BY <1>1, <1>2, <1>4, <1>9, <1>10, <1>12, <1>13

-----------------------------------------------------------------------------
(***************************************************************************)
(* One more entry in one of the lists of a point.                          *)
(***************************************************************************)
WithEntry(ps, list, x) == [ps EXCEPT ![list] = Append(@, x)]

LEMMA ListOf ==
    ASSUME NEW ps \in StatsRec, NEW list \in Lists
    PROVE  ps[list] \in Seq(EntriesOf(list))
  BY StatsFields DEF Lists, CardLists, RelicLists

LEMMA WithEntryFacts ==
    ASSUME NEW ps \in StatsRec, NEW list \in Lists, NEW x \in EntriesOf(list)
    PROVE  /\ WithEntry(ps, list, x) \in StatsRec
           /\ WithEntry(ps, list, x)[list] = Append(ps[list], x)
           /\ \A l \in Lists : l # list => WithEntry(ps, list, x)[l] = ps[l]
           /\ WithEntry(ps, list, x).hp = ps.hp
<1>1. DOMAIN ps = Lists \cup {"hp"} /\ list # "hp"
  BY DEF StatsRec, Lists, CardLists, RelicLists
<1>2. PICK q : q = Append(ps[list], x)
  OBVIOUS
<1>3. q \in Seq(EntriesOf(list))
  BY <1>2, ListOf
<1>4. PICK new : new = WithEntry(ps, list, x)
  OBVIOUS
<1>5. new = [ps EXCEPT ![list] = q]
  BY <1>2, <1>4 DEF WithEntry
<1>6. new[list] = q /\ (\A l \in Lists : l # list => new[l] = ps[l]) /\ new.hp = ps.hp
  BY <1>1, <1>5
<1>7. new \in StatsRec
  BY <1>3, <1>5, ListsMean DEF StatsRec, Lists, CardLists, RelicLists
<1> QED
  BY <1>2, <1>4, <1>6, <1>7

LEMMA ChangeMoves ==
    ASSUME NEW ps \in StatsRec, NEW list \in Lists, NEW x \in EntriesOf(list), NEW k
    PROVE  /\ Change(ps, k) \in Int /\ Delta(list, x, k) \in Int
           /\ Change(WithEntry(ps, list, x), k) = Change(ps, k) + Delta(list, x, k)
<1>1. PICK new : new = WithEntry(ps, list, x)
  OBVIOUS
<1>2. /\ new \in StatsRec /\ new[list] = Append(ps[list], x)
      /\ \A l \in Lists : l # list => new[l] = ps[l]
  BY <1>1, WithEntryFacts
<1>3. Net(list, new[list], k) = Net(list, ps[list], k) + Delta(list, x, k) /\ Delta(list, x, k) \in Int
  BY <1>2, ListOf, NetAppend
<1>4. \A l \in Lists : Net(l, new[l], k) \in Int /\ Net(l, ps[l], k) \in Int
  <2> SUFFICES ASSUME NEW l \in Lists PROVE Net(l, new[l], k) \in Int /\ Net(l, ps[l], k) \in Int
    OBVIOUS
  <2>1. ps[l] \in Seq(EntriesOf(l)) /\ new[l] \in Seq(EntriesOf(l))
    BY <1>2, ListOf
  <2> QED
    BY <2>1, NetInt
<1> DEFINE N(l) == Net(l, ps[l], k)
           M(l) == Net(l, new[l], k)
<1>5. /\ Change(ps, k) =
           N("cards_gained") + N("cards_removed") + N("cards_transformed") + N("upgraded_cards")
             + N("downgraded_cards") + N("relics_gained") + N("relics_removed") + N("potions_gained") + N("potions_lost")
      /\ Change(new, k) =
           M("cards_gained") + M("cards_removed") + M("cards_transformed") + M("upgraded_cards")
             + M("downgraded_cards") + M("relics_gained") + M("relics_removed") + M("potions_gained") + M("potions_lost")
  BY DEF Change
<1>6. /\ \A l \in Lists : l # list => M(l) = N(l)
      /\ M(list) = N(list) + Delta(list, x, k)
      /\ \A l \in Lists : M(l) \in Int /\ N(l) \in Int
  BY <1>2, <1>3, <1>4
<1>7. Lists = {"cards_gained", "cards_removed", "cards_transformed", "upgraded_cards", "downgraded_cards",
               "relics_gained", "relics_removed", "potions_gained", "potions_lost"}
  BY DEF Lists, CardLists, RelicLists
<1>8. Change(ps, k) \in Int
  <2> HIDE DEF N, M
  <2> QED
    BY <1>5, <1>6, <1>7
<1>9. PICK a, b, c, d, e, f, g, h, i :
        /\ a = N("cards_gained") /\ b = N("cards_removed") /\ c = N("cards_transformed") /\ d = N("upgraded_cards")
        /\ e = N("downgraded_cards") /\ f = N("relics_gained") /\ g = N("relics_removed")
        /\ h = N("potions_gained") /\ i = N("potions_lost")
  OBVIOUS
<1>10. Change(new, k) = Change(ps, k) + Delta(list, x, k)
  <2>1. \A l \in Lists : M(l) = IF l = list THEN N(l) + Delta(list, x, k) ELSE N(l)
    BY <1>6
  <2>2. PICK y \in Int : y = Delta(list, x, k)
    BY <1>3
  <2> HIDE DEF N, M
  <2>3. /\ a \in Int /\ b \in Int /\ c \in Int /\ d \in Int /\ e \in Int /\ f \in Int /\ g \in Int
        /\ h \in Int /\ i \in Int
    BY <1>6, <1>7, <1>9
  <2>4. Change(ps, k) = a + b + c + d + e + f + g + h + i
    BY <1>5, <1>9
  <2>5. CASE list = "cards_gained"
    BY <1>5, <1>7, <1>9, <2>1, <2>2, <2>3, <2>4, <2>5
  <2>6. CASE list = "cards_removed"
    BY <1>5, <1>7, <1>9, <2>1, <2>2, <2>3, <2>4, <2>6
  <2>7. CASE list = "cards_transformed"
    BY <1>5, <1>7, <1>9, <2>1, <2>2, <2>3, <2>4, <2>7
  <2>8. CASE list = "upgraded_cards"
    BY <1>5, <1>7, <1>9, <2>1, <2>2, <2>3, <2>4, <2>8
  <2>9. CASE list = "downgraded_cards"
    BY <1>5, <1>7, <1>9, <2>1, <2>2, <2>3, <2>4, <2>9
  <2>10. CASE list = "relics_gained"
    BY <1>5, <1>7, <1>9, <2>1, <2>2, <2>3, <2>4, <2>10
  <2>11. CASE list = "relics_removed"
    BY <1>5, <1>7, <1>9, <2>1, <2>2, <2>3, <2>4, <2>11
  <2>12. CASE list = "potions_gained"
    BY <1>5, <1>7, <1>9, <2>1, <2>2, <2>3, <2>4, <2>12
  <2>13. CASE list = "potions_lost"
    BY <1>5, <1>7, <1>9, <2>1, <2>2, <2>3, <2>4, <2>13
  <2> QED
    BY <1>7, <2>5, <2>6, <2>7, <2>8, <2>9, <2>10, <2>11, <2>12, <2>13
<1> QED
  BY <1>1, <1>3, <1>8, <1>10

(* A list that does not tell of a part of the state leaves it.              *)
LEMMA EntryFrame ==
    ASSUME NEW s \in PlayerStates, NEW list \in Lists, NEW x \in EntriesOf(list)
    PROVE  /\ list \in CardLists => ApplyEntry(s, list, x).relics = s.relics
           /\ list \notin CardLists => ApplyEntry(s, list, x).deck = s.deck
           /\ list \notin CardLists \cup RelicLists => ApplyEntry(s, list, x).relics = s.relics
<1>1. PICK u : u = ApplyEntry(s, list, x)
  OBVIOUS
<1>2. CASE list \in CardLists
  <2>1. \/ x \in GainRefs /\ u = AddCard(s, x)
        \/ x \in LossRefs /\ u = RemoveCard(s, x)
        \/ x \in TransformRefs /\ u = TransformCard(s, x)
        \/ x \in CardIds /\ \E v \in BOOLEAN : u = SetUpgraded(s, x, v)
    BY <1>1, <1>2, ListsMean, EntriesMean DEF CardLists
  <2>2. DeckOnly(s, u)
    BY <2>1, AddCardEffects, RemoveCardEffects, TransformCardEffects, SetUpgradedEffects
  <2> QED
    BY <1>1, <1>2, <2>2 DEF DeckOnly
<1>3. CASE list \in RelicLists
  <2>1. x \in Relics /\ u \in {GainRelic(s, x), LoseRelic(s, x)}
    BY <1>1, <1>3, ListsMean, EntriesMean DEF RelicLists
  <2>2. RelicsOnly(s, u)
    BY <2>1, GainRelicEffects, LoseRelicEffects
  <2>3. list \notin CardLists
    BY <1>3 DEF CardLists, RelicLists
  <2> QED
    BY <1>1, <1>3, <2>2, <2>3 DEF RelicsOnly
<1>4. CASE list \in {"potions_gained", "potions_lost"}
  <2>1. x \in PotionIds /\ u \in {GainPotion(s, x), LosePotion(s, x)}
    BY <1>1, <1>4, ListsMean, EntriesMean
  <2>2. PotionsOnly(s, u)
    BY <2>1, GainPotionEffects, LosePotionEffects
  <2> QED
    BY <1>1, <1>4, <2>2 DEF PotionsOnly, CardLists
<1> QED
  BY <1>2, <1>3, <1>4 DEF Lists

LEMMA ListFrame ==
    ASSUME NEW s \in PlayerStates, NEW list \in Lists, NEW entries \in Seq(EntriesOf(list))
    PROVE  /\ ApplyList(s, list, entries) \in PlayerStates
           /\ list \in CardLists => ApplyList(s, list, entries).relics = s.relics
           /\ list \notin CardLists => ApplyList(s, list, entries).deck = s.deck
           /\ list \notin CardLists \cup RelicLists => ApplyList(s, list, entries).relics = s.relics
<1> DEFINE S == EntriesOf(list)
           Kept(t) == /\ t \in PlayerStates
                      /\ list \in CardLists => t.relics = s.relics
                      /\ list \notin CardLists => t.deck = s.deck
                      /\ list \notin CardLists \cup RelicLists => t.relics = s.relics
           G == {q \in Seq(S) : Kept(ApplyList(s, list, q))}
<1>1. <<>> \in G
  <2>1. ApplyList(s, list, <<>>) = s /\ <<>> \in Seq(S)
    BY ListNothing
  <2> QED
    BY <2>1
<1>2. ASSUME NEW q \in Seq(S), NEW x \in S, q \in G PROVE Append(q, x) \in G
  <2>1. PICK t : t = ApplyList(s, list, q)
    OBVIOUS
  <2>2. PICK u : u = ApplyEntry(t, list, x)
    OBVIOUS
  <2>3. ApplyList(s, list, Append(q, x)) = u
    BY <2>1, <2>2, ListAppend
  <2>4. Kept(t)
    BY <1>2, <2>1
  <2>5. u \in PlayerStates
    BY <2>2, <2>4, EntryEffects DEF Follows
  <2>6. Kept(u)
    BY <2>2, <2>4, <2>5, EntryFrame
  <2>7. Append(q, x) \in Seq(S)
    OBVIOUS
  <2> QED
    BY <2>3, <2>6, <2>7
<1> HIDE DEF G, S
<1>3. entries \in Seq(S)
  BY DEF S
<1>4. entries \in G
  BY <1>1, <1>2, <1>3, SeqInduction
<1> QED
  BY <1>4 DEF G

RelicReplay(s, ps) ==
    ApplyList(ApplyList(s, "relics_gained", ps.relics_gained), "relics_removed", ps.relics_removed)

LEMMA RelicEntrySame ==
    ASSUME NEW s \in PlayerStates, NEW t \in PlayerStates, s.relics = t.relics,
           NEW list \in RelicLists, NEW x \in EntriesOf(list)
    PROVE  ApplyEntry(s, list, x).relics = ApplyEntry(t, list, x).relics
<1>1. x \in Relics
  BY ListsMean DEF RelicLists
<1>2. CASE list = "relics_gained"
  <2>1. ApplyEntry(s, list, x) = GainRelic(s, x) /\ ApplyEntry(t, list, x) = GainRelic(t, x)
    BY <1>2, EntriesMean
  <2> QED
    BY <1>1, <2>1, GainRelicEffects
<1>3. CASE list = "relics_removed"
  <2>1. ApplyEntry(s, list, x) = LoseRelic(s, x) /\ ApplyEntry(t, list, x) = LoseRelic(t, x)
    BY <1>3, EntriesMean
  <2> QED
    BY <1>1, <2>1, LoseRelicEffects
<1> QED
  BY <1>2, <1>3 DEF RelicLists

LEMMA RelicListSame ==
    ASSUME NEW s \in PlayerStates, NEW t \in PlayerStates, s.relics = t.relics,
           NEW list \in RelicLists, NEW entries \in Seq(EntriesOf(list))
    PROVE  ApplyList(s, list, entries).relics = ApplyList(t, list, entries).relics
<1> DEFINE S == EntriesOf(list)
           G == {q \in Seq(S) : ApplyList(s, list, q).relics = ApplyList(t, list, q).relics}
<1>0. list \in Lists
  BY ListsAre
<1>1. <<>> \in G
  <2>1. ApplyList(s, list, <<>>) = s /\ ApplyList(t, list, <<>>) = t /\ <<>> \in Seq(S)
    BY ListNothing
  <2> QED
    BY <2>1
<1>2. ASSUME NEW q \in Seq(S), NEW x \in S, q \in G PROVE Append(q, x) \in G
  <2>1. PICK a, b : a = ApplyList(s, list, q) /\ b = ApplyList(t, list, q)
    OBVIOUS
  <2>2. a \in PlayerStates /\ b \in PlayerStates
    BY <1>0, <2>1, ListFrame
  <2>3. a.relics = b.relics
    BY <1>2, <2>1
  <2>4. ApplyEntry(a, list, x).relics = ApplyEntry(b, list, x).relics
    BY <2>2, <2>3, RelicEntrySame
  <2>5. /\ ApplyList(s, list, Append(q, x)) = ApplyEntry(a, list, x)
        /\ ApplyList(t, list, Append(q, x)) = ApplyEntry(b, list, x)
    BY <2>1, ListAppend
  <2>6. Append(q, x) \in Seq(S)
    OBVIOUS
  <2> QED
    BY <2>4, <2>5, <2>6
<1> HIDE DEF G, S
<1>3. entries \in Seq(S)
  BY DEF S
<1>4. entries \in G
  BY <1>1, <1>2, <1>3, SeqInduction
<1> QED
  BY <1>4 DEF G

LEMMA CardsKeepRelics ==
    ASSUME NEW s \in PlayerStates, NEW ps \in StatsRec
    PROVE  ApplyCards(s, ps) \in PlayerStates /\ ApplyCards(s, ps).relics = s.relics
<1>1. PICK a : a = ApplyList(s, "cards_gained", ps.cards_gained)
  OBVIOUS
<1>2. PICK b : b = ApplyList(a, "cards_removed", ps.cards_removed)
  OBVIOUS
<1>3. PICK c : c = ApplyList(b, "cards_transformed", ps.cards_transformed)
  OBVIOUS
<1>4. PICK d : d = ApplyList(c, "upgraded_cards", ps.upgraded_cards)
  OBVIOUS
<1>5. PICK e : e = ApplyList(d, "downgraded_cards", ps.downgraded_cards)
  OBVIOUS
<1>6. ApplyCards(s, ps) = e
  BY <1>1, <1>2, <1>3, <1>4, <1>5 DEF ApplyCards
<1>7. a \in PlayerStates /\ a.relics = s.relics
  BY <1>1, StatsFields, ListsAre, ListFrame
<1>8. b \in PlayerStates /\ b.relics = s.relics
  BY <1>2, <1>7, StatsFields, ListsAre, ListFrame
<1>9. c \in PlayerStates /\ c.relics = s.relics
  BY <1>3, <1>8, StatsFields, ListsAre, ListFrame
<1>10. d \in PlayerStates /\ d.relics = s.relics
  BY <1>4, <1>9, StatsFields, ListsAre, ListFrame
<1>11. e \in PlayerStates /\ e.relics = s.relics
  BY <1>5, <1>10, StatsFields, ListsAre, ListFrame
<1> QED
  BY <1>6, <1>11

LEMMA RelicReplayFacts ==
    ASSUME NEW s \in PlayerStates, NEW ps \in StatsRec
    PROVE  /\ RelicReplay(s, ps) \in PlayerStates
           /\ \A t \in PlayerStates : t.relics = s.relics => RelicReplay(t, ps).relics = RelicReplay(s, ps).relics
<1>1. ASSUME NEW t \in PlayerStates
      PROVE  /\ ApplyList(t, "relics_gained", ps.relics_gained) \in PlayerStates
             /\ RelicReplay(t, ps) \in PlayerStates
  <2>1. ApplyList(t, "relics_gained", ps.relics_gained) \in PlayerStates
    BY StatsFields, ListsAre, ListFrame
  <2>2. PICK a : a = ApplyList(t, "relics_gained", ps.relics_gained)
    OBVIOUS
  <2>3. ApplyList(a, "relics_removed", ps.relics_removed) \in PlayerStates
    BY <2>1, <2>2, StatsFields, ListsAre, ListFrame
  <2> QED
    BY <2>1, <2>2, <2>3 DEF RelicReplay
<1>2. ASSUME NEW t \in PlayerStates, t.relics = s.relics
      PROVE  RelicReplay(t, ps).relics = RelicReplay(s, ps).relics
  <2>1. PICK a, b : /\ a = ApplyList(t, "relics_gained", ps.relics_gained)
                    /\ b = ApplyList(s, "relics_gained", ps.relics_gained)
    OBVIOUS
  <2>2. a \in PlayerStates /\ b \in PlayerStates
    BY <1>1, <2>1
  <2>3. a.relics = b.relics
    BY <1>2, <2>1, StatsFields, ListsAre, RelicListSame
  <2>4. ApplyList(a, "relics_removed", ps.relics_removed).relics = ApplyList(b, "relics_removed", ps.relics_removed).relics
    BY <2>2, <2>3, StatsFields, ListsAre, RelicListSame
  <2> QED
    BY <2>1, <2>4 DEF RelicReplay
<1> QED
  BY <1>1, <1>2

LEMMA PointParts ==
    ASSUME NEW s \in PlayerStates, NEW ps \in StatsRec
    PROVE  /\ ApplyPointStats(s, ps).deck = ApplyCards(s, ps).deck
           /\ ApplyPointStats(s, ps).relics = RelicReplay(s, ps).relics
<1>1. PICK c : c = ApplyCards(s, ps)
  OBVIOUS
<1>2. c \in PlayerStates /\ c.relics = s.relics
  BY <1>1, CardsKeepRelics
<1>3. PICK a : a = ApplyList(c, "relics_gained", ps.relics_gained)
  OBVIOUS
<1>4. PICK b : b = ApplyList(a, "relics_removed", ps.relics_removed)
  OBVIOUS
<1>5. PICK d : d = ApplyList(b, "potions_gained", ps.potions_gained)
  OBVIOUS
<1>6. PICK e : e = ApplyList(d, "potions_lost", ps.potions_lost)
  OBVIOUS
<1>7. ApplyItems(c, ps) = e /\ RelicReplay(c, ps) = b
  BY <1>3, <1>4, <1>5, <1>6 DEF ApplyItems, RelicReplay
<1>8. "relics_gained" \notin CardLists /\ "relics_removed" \notin CardLists
      /\ "potions_gained" \notin CardLists \cup RelicLists /\ "potions_lost" \notin CardLists \cup RelicLists
  BY DEF CardLists, RelicLists
<1>9. a \in PlayerStates /\ a.deck = c.deck
  BY <1>2, <1>3, <1>8, StatsFields, ListsAre, ListFrame
<1>10. b \in PlayerStates /\ b.deck = c.deck
  BY <1>4, <1>8, <1>9, StatsFields, ListsAre, ListFrame
<1>11. d \in PlayerStates /\ d.deck = c.deck /\ d.relics = b.relics
  BY <1>5, <1>8, <1>10, StatsFields, ListsAre, ListFrame
<1>12. e.deck = c.deck /\ e.relics = b.relics
  BY <1>6, <1>8, <1>11, StatsFields, ListsAre, ListFrame
<1>13. b.relics = RelicReplay(s, ps).relics
  BY <1>2, <1>7, RelicReplayFacts
<1> QED
  BY <1>1, <1>7, <1>12, <1>13, PointEffects

(* Only the lists of a point matter, not the hit points it ends with.       *)
LEMMA ListsDecide ==
    ASSUME NEW ps, NEW qs, \A l \in Lists : qs[l] = ps[l], NEW s, NEW k
    PROVE  /\ ApplyCards(s, qs) = ApplyCards(s, ps) /\ RelicReplay(s, qs) = RelicReplay(s, ps)
           /\ Change(qs, k) = Change(ps, k) /\ CardsGained(qs) = CardsGained(ps)
           /\ CardsLost(qs) = CardsLost(ps)
           /\ Kinds(qs, CardLists) = Kinds(ps, CardLists) /\ Kinds(qs, RelicLists) = Kinds(ps, RelicLists)
<1>1. /\ qs.cards_gained = ps.cards_gained /\ qs.cards_removed = ps.cards_removed
      /\ qs.cards_transformed = ps.cards_transformed /\ qs.upgraded_cards = ps.upgraded_cards
      /\ qs.downgraded_cards = ps.downgraded_cards /\ qs.relics_gained = ps.relics_gained
      /\ qs.relics_removed = ps.relics_removed /\ qs.potions_gained = ps.potions_gained
      /\ qs.potions_lost = ps.potions_lost
  BY DEF Lists, CardLists, RelicLists
<1>2. ApplyCards(s, qs) = ApplyCards(s, ps)
  BY <1>1 DEF ApplyCards
<1>3. RelicReplay(s, qs) = RelicReplay(s, ps)
  BY <1>1 DEF RelicReplay
<1>4. Change(qs, k) = Change(ps, k)
  BY <1>1 DEF Change
<1>5. CardsGained(qs) = CardsGained(ps) /\ CardsLost(qs) = CardsLost(ps)
  BY <1>1 DEF CardsGained, CardsLost
<1>6. Kinds(qs, CardLists) = Kinds(ps, CardLists) /\ Kinds(qs, RelicLists) = Kinds(ps, RelicLists)
  BY ListsAre DEF Kinds
<1> QED
  BY <1>2, <1>3, <1>4, <1>5, <1>6

-----------------------------------------------------------------------------
(***************************************************************************)
(* A point with one kind of card events, and one of relic events.          *)
(***************************************************************************)
LEMMA AtMostOne ==
    ASSUME NEW T, IsFiniteSet(T), Cardinality(T) <= 1, NEW a \in T, NEW b \in T
    PROVE  a = b
<1> SUFFICES ASSUME a # b PROVE FALSE
  OBVIOUS
<1>1. IsFiniteSet({a}) /\ Cardinality({a}) = 1
  BY FS_Singleton
<1>2. IsFiniteSet({a} \cup {b}) /\ Cardinality({a} \cup {b}) = 2
  <2>1. b \notin {a}
    OBVIOUS
  <2>2. IsFiniteSet({a} \cup {b}) /\ Cardinality({a} \cup {b}) = Cardinality({a}) + 1
    BY <1>1, <2>1, FS_AddElement
  <2> QED
    BY <1>1, <2>2
<1>3. Cardinality({a} \cup {b}) <= Cardinality(T)
  BY FS_Subset
<1>4. Cardinality(T) \in Nat
  BY FS_CardinalityType
<1> QED
  BY <1>2, <1>3, <1>4

LEMMA KindsFinite ==
    ASSUME NEW ps
    PROVE  IsFiniteSet(Kinds(ps, CardLists)) /\ IsFiniteSet(Kinds(ps, RelicLists))
<1>1. IsFiniteSet({})
  BY FS_EmptySet
<1>2. IsFiniteSet({"relics_gained"} \cup {"relics_removed"})
  BY FS_Singleton, FS_AddElement
<1>3. IsFiniteSet({"cards_gained"} \cup {"cards_removed"})
  BY FS_Singleton, FS_AddElement
<1>4. IsFiniteSet(({"cards_gained"} \cup {"cards_removed"}) \cup {"cards_transformed"})
  BY <1>3, FS_AddElement
<1>5. IsFiniteSet((({"cards_gained"} \cup {"cards_removed"}) \cup {"cards_transformed"}) \cup {"upgraded_cards"})
  BY <1>4, FS_AddElement
<1>6. IsFiniteSet(((({"cards_gained"} \cup {"cards_removed"}) \cup {"cards_transformed"}) \cup {"upgraded_cards"})
                  \cup {"downgraded_cards"})
  BY <1>5, FS_AddElement
<1>7. CardLists = ((({"cards_gained"} \cup {"cards_removed"}) \cup {"cards_transformed"}) \cup {"upgraded_cards"})
                    \cup {"downgraded_cards"}
  BY DEF CardLists
<1>8. RelicLists = {"relics_gained"} \cup {"relics_removed"}
  BY DEF RelicLists
<1>9. IsFiniteSet(CardLists) /\ IsFiniteSet(RelicLists)
  BY <1>2, <1>6, <1>7, <1>8
<1> QED
  BY <1>9, FS_Subset DEF Kinds

LEMMA OneCardList ==
    ASSUME NEW s, NEW ps, NEW list \in CardLists, \A l \in CardLists : l # list => ps[l] = <<>>
    PROVE  ApplyCards(s, ps) = ApplyList(s, list, ps[list])
<1>1. \A t, l : ApplyList(t, l, <<>>) = t
  BY ListNothing
<1>2. /\ list # "cards_gained" => ps.cards_gained = <<>>
      /\ list # "cards_removed" => ps.cards_removed = <<>>
      /\ list # "cards_transformed" => ps.cards_transformed = <<>>
      /\ list # "upgraded_cards" => ps.upgraded_cards = <<>>
      /\ list # "downgraded_cards" => ps.downgraded_cards = <<>>
  BY DEF CardLists
<1>3. ApplyCards(s, ps) =
        ApplyList(ApplyList(ApplyList(ApplyList(ApplyList(s, "cards_gained", ps.cards_gained),
          "cards_removed", ps.cards_removed), "cards_transformed", ps.cards_transformed),
          "upgraded_cards", ps.upgraded_cards), "downgraded_cards", ps.downgraded_cards)
  BY DEF ApplyCards
<1>4. CASE list = "cards_gained"
  BY <1>1, <1>2, <1>3, <1>4
<1>5. CASE list = "cards_removed"
  BY <1>1, <1>2, <1>3, <1>5
<1>6. CASE list = "cards_transformed"
  BY <1>1, <1>2, <1>3, <1>6
<1>7. CASE list = "upgraded_cards"
  BY <1>1, <1>2, <1>3, <1>7
<1>8. CASE list = "downgraded_cards"
  BY <1>1, <1>2, <1>3, <1>8
<1> QED
  BY <1>4, <1>5, <1>6, <1>7, <1>8 DEF CardLists

LEMMA OneRelicList ==
    ASSUME NEW s, NEW ps, NEW list \in RelicLists, \A l \in RelicLists : l # list => ps[l] = <<>>
    PROVE  RelicReplay(s, ps) = ApplyList(s, list, ps[list])
<1>1. \A t, l : ApplyList(t, l, <<>>) = t
  BY ListNothing
<1>2. /\ list # "relics_gained" => ps.relics_gained = <<>>
      /\ list # "relics_removed" => ps.relics_removed = <<>>
  BY DEF RelicLists
<1>3. CASE list = "relics_gained"
  BY <1>1, <1>2, <1>3 DEF RelicReplay
<1>4. CASE list = "relics_removed"
  BY <1>1, <1>2, <1>4 DEF RelicReplay
<1> QED
  BY <1>3, <1>4 DEF RelicLists

(* The last entry of a point is the last thing the replay of it does.       *)
LEMMA EntryComesLast ==
    ASSUME NEW s, NEW ps \in StatsRec, NEW list \in Lists, NEW x \in EntriesOf(list),
           NEW new, new = WithEntry(ps, list, x)
    PROVE  /\ Kinds(ps, CardLists) \subseteq Kinds(new, CardLists)
           /\ Kinds(ps, RelicLists) \subseteq Kinds(new, RelicLists)
           /\ list \in CardLists /\ Cardinality(Kinds(new, CardLists)) <= 1
                => ApplyCards(s, new) = ApplyEntry(ApplyCards(s, ps), list, x)
           /\ list \notin CardLists => ApplyCards(s, new) = ApplyCards(s, ps)
           /\ list \in RelicLists /\ Cardinality(Kinds(new, RelicLists)) <= 1
                => RelicReplay(s, new) = ApplyEntry(RelicReplay(s, ps), list, x)
           /\ list \notin RelicLists => RelicReplay(s, new) = RelicReplay(s, ps)
<1>1. /\ new \in StatsRec /\ new[list] = Append(ps[list], x)
      /\ \A l \in Lists : l # list => new[l] = ps[l]
  BY WithEntryFacts
<1>2. ps[list] \in Seq(EntriesOf(list))
  BY ListOf
<1>3. new[list] # <<>>
  BY <1>1, <1>2
<1>4. /\ Kinds(ps, CardLists) \subseteq Kinds(new, CardLists)
      /\ Kinds(ps, RelicLists) \subseteq Kinds(new, RelicLists)
  BY <1>1, <1>3, ListsAre DEF Kinds
<1>5. ASSUME list \in CardLists, Cardinality(Kinds(new, CardLists)) <= 1
      PROVE  ApplyCards(s, new) = ApplyEntry(ApplyCards(s, ps), list, x)
  <2>1. list \in Kinds(new, CardLists)
    BY <1>3, <1>5 DEF Kinds
  <2>2. ASSUME NEW l \in CardLists, l # list PROVE new[l] = <<>> /\ ps[l] = <<>>
    <3>1. l \notin Kinds(new, CardLists)
      BY <1>5, <2>1, <2>2, KindsFinite, AtMostOne
    <3> QED
      BY <1>1, <2>2, <3>1, ListsAre DEF Kinds
  <2>3. ApplyCards(s, new) = ApplyList(s, list, new[list]) /\ ApplyCards(s, ps) = ApplyList(s, list, ps[list])
    BY <1>5, <2>2, OneCardList
  <2> QED
    BY <1>1, <1>2, <2>3, ListAppend
<1>6. ASSUME list \in RelicLists, Cardinality(Kinds(new, RelicLists)) <= 1
      PROVE  RelicReplay(s, new) = ApplyEntry(RelicReplay(s, ps), list, x)
  <2>1. list \in Kinds(new, RelicLists)
    BY <1>3, <1>6 DEF Kinds
  <2>2. ASSUME NEW l \in RelicLists, l # list PROVE new[l] = <<>> /\ ps[l] = <<>>
    <3>1. l \notin Kinds(new, RelicLists)
      BY <1>6, <2>1, <2>2, KindsFinite, AtMostOne
    <3> QED
      BY <1>1, <2>2, <3>1, ListsAre DEF Kinds
  <2>3. RelicReplay(s, new) = ApplyList(s, list, new[list]) /\ RelicReplay(s, ps) = ApplyList(s, list, ps[list])
    BY <1>6, <2>2, OneRelicList
  <2> QED
    BY <1>1, <1>2, <2>3, ListAppend
<1>7. ASSUME list \notin CardLists PROVE ApplyCards(s, new) = ApplyCards(s, ps)
  <2>1. /\ new.cards_gained = ps.cards_gained /\ new.cards_removed = ps.cards_removed
        /\ new.cards_transformed = ps.cards_transformed /\ new.upgraded_cards = ps.upgraded_cards
        /\ new.downgraded_cards = ps.downgraded_cards
    BY <1>1, <1>7 DEF Lists, CardLists
  <2> QED
    BY <2>1 DEF ApplyCards
<1>8. ASSUME list \notin RelicLists PROVE RelicReplay(s, new) = RelicReplay(s, ps)
  <2>1. new.relics_gained = ps.relics_gained /\ new.relics_removed = ps.relics_removed
    BY <1>1, <1>8 DEF Lists, RelicLists
  <2> QED
    BY <2>1 DEF RelicReplay
<1> QED
  BY <1>4, <1>5, <1>6, <1>7, <1>8

-----------------------------------------------------------------------------
(***************************************************************************)
(* Where the cards come from.                                              *)
(***************************************************************************)
OriginsIn(deck, O) == \A i \in DOMAIN deck : <<deck[i].id, deck[i].floor>> \in O
EntryGains(list, x) ==
    CASE list = "cards_gained" -> {<<x.id, x.floor>>}
      [] list = "cards_transformed" -> {<<x.final.id, x.final.floor>>}
      [] OTHER -> {}

LEMMA OriginsMove ==
    ASSUME NEW deck \in Seq(Cards), NEW O, OriginsIn(deck, O)
    PROVE  /\ \A c \in Cards : <<c.id, c.floor>> \in O => OriginsIn(Append(deck, c), O)
           /\ \A i \in DOMAIN deck : OriginsIn(RemoveAt(deck, i), O)
           /\ \A i \in DOMAIN deck, c \in Cards :
                c.id = deck[i].id /\ c.floor = deck[i].floor => OriginsIn([deck EXCEPT ![i] = c], O)
<1>1. ASSUME NEW c \in Cards, <<c.id, c.floor>> \in O PROVE OriginsIn(Append(deck, c), O)
  <2> SUFFICES ASSUME NEW i \in DOMAIN Append(deck, c)
               PROVE  <<Append(deck, c)[i].id, Append(deck, c)[i].floor>> \in O
    BY DEF OriginsIn
  <2>1. Append(deck, c)[i] = c \/ (i \in DOMAIN deck /\ Append(deck, c)[i] = deck[i])
    OBVIOUS
  <2> QED
    BY <1>1, <2>1 DEF OriginsIn
<1>2. ASSUME NEW i \in DOMAIN deck PROVE OriginsIn(RemoveAt(deck, i), O)
  <2>1. PICK less : less = RemoveAt(deck, i)
    OBVIOUS
  <2>2. /\ less \in Seq(Cards) /\ Len(less) = Len(deck) - 1
        /\ \A j \in 1..(Len(deck) - 1) : less[j] = IF j < i THEN deck[j] ELSE deck[j + 1]
    BY <2>1, RemoveAtFacts
  <2>3. ASSUME NEW j \in DOMAIN less PROVE \E n \in DOMAIN deck : less[j] = deck[n]
    <3>1. j \in 1..(Len(deck) - 1) /\ j \in DOMAIN deck /\ j + 1 \in DOMAIN deck
      BY <2>2
    <3> QED
      BY <2>2, <3>1
  <2> QED
    BY <2>1, <2>3 DEF OriginsIn
<1>3. ASSUME NEW i \in DOMAIN deck, NEW c \in Cards, c.id = deck[i].id, c.floor = deck[i].floor
      PROVE  OriginsIn([deck EXCEPT ![i] = c], O)
  BY <1>3 DEF OriginsIn
<1> QED
  BY <1>1, <1>2, <1>3

LEMMA EntryOrigins ==
    ASSUME NEW s \in PlayerStates, NEW list \in Lists, NEW x \in EntriesOf(list), NEW O,
           OriginsIn(s.deck, O), EntryGains(list, x) \subseteq O
    PROVE  OriginsIn(ApplyEntry(s, list, x).deck, O)
<1>1. PICK u : u = ApplyEntry(s, list, x)
  OBVIOUS
<1>2. s.deck \in Seq(Cards)
  BY StateFields
<1>3. CASE list = "cards_gained"
  <2>1. x \in GainRefs /\ u = AddCard(s, x) /\ <<x.id, x.floor>> \in O
    BY <1>1, <1>3, ListsMean, EntriesMean DEF EntryGains
  <2>2. PICK c \in Cards : c.id = x.id /\ c.floor = x.floor /\ u.deck = Append(s.deck, c)
    BY <2>1, AddCardEffects
  <2>3. <<c.id, c.floor>> \in O
    BY <2>1, <2>2
  <2> QED
    BY <1>1, <1>2, <2>2, <2>3, OriginsMove
<1>4. CASE list = "cards_removed"
  <2>1. x \in LossRefs /\ u = RemoveCard(s, x)
    BY <1>1, <1>4, ListsMean, EntriesMean
  <2>2. u.deck = s.deck \/ \E i \in DOMAIN s.deck : u.deck = RemoveAt(s.deck, i)
    BY <2>1, RemoveCardEffects
  <2> QED
    BY <1>1, <1>2, <2>2, OriginsMove
<1>5. CASE list = "cards_transformed"
  <2>1. x \in TransformRefs /\ u = TransformCard(s, x) /\ <<x.final.id, x.final.floor>> \in O
    BY <1>1, <1>5, ListsMean, EntriesMean DEF EntryGains
  <2>2. PICK r : r = RemoveCard(s, x.original)
    OBVIOUS
  <2>3. PICK c \in Cards : c.id = x.final.id /\ c.floor = x.final.floor /\ u.deck = Append(r.deck, c)
    BY <2>1, <2>2, TransformCardEffects
  <2>4. x.original \in LossRefs
    BY <2>1 DEF TransformRefs
  <2>5. r.deck = s.deck \/ \E i \in DOMAIN s.deck : r.deck = RemoveAt(s.deck, i)
    BY <2>2, <2>4, RemoveCardEffects
  <2>6. OriginsIn(r.deck, O)
    BY <1>2, <2>5, OriginsMove
  <2>7. r.deck \in Seq(Cards)
    BY <2>1, <2>2, TransformCardEffects, StateFields
  <2>8. <<c.id, c.floor>> \in O
    BY <2>1, <2>3
  <2> QED
    BY <1>1, <2>3, <2>6, <2>7, <2>8, OriginsMove
<1>6. CASE list \in {"upgraded_cards", "downgraded_cards"}
  <2>1. PICK v \in BOOLEAN : x \in CardIds /\ u = SetUpgraded(s, x, v)
    BY <1>1, <1>6, ListsMean, EntriesMean
  <2>2. u.deck = s.deck \/ Flips(s, u, x, v)
    BY <2>1, SetUpgradedEffects
  <2>3. ASSUME Flips(s, u, x, v) PROVE OriginsIn(u.deck, O)
    <3>1. PICK i \in DOMAIN s.deck, c \in Cards :
            c.id = s.deck[i].id /\ c.floor = s.deck[i].floor /\ u.deck = [s.deck EXCEPT ![i] = c]
      BY <2>3 DEF Flips
    <3> QED
      BY <1>2, <3>1, OriginsMove
  <2> QED
    BY <1>1, <2>2, <2>3
<1>7. CASE list \notin CardLists
  <2>1. u.deck = s.deck
    BY <1>1, <1>7, EntryFrame
  <2> QED
    BY <1>1, <2>1
<1> QED
  BY <1>3, <1>4, <1>5, <1>6, <1>7 DEF CardLists

LEMMA ListOrigins ==
    ASSUME NEW s \in PlayerStates, NEW list \in Lists, NEW entries \in Seq(EntriesOf(list)), NEW O,
           OriginsIn(s.deck, O), \A i \in DOMAIN entries : EntryGains(list, entries[i]) \subseteq O
    PROVE  OriginsIn(ApplyList(s, list, entries).deck, O)
<1> DEFINE S == EntriesOf(list)
           Covered(q) == \A i \in DOMAIN q : EntryGains(list, q[i]) \subseteq O
           G == {q \in Seq(S) : Covered(q) => OriginsIn(ApplyList(s, list, q).deck, O)}
<1>1. <<>> \in G
  <2>1. ApplyList(s, list, <<>>) = s /\ <<>> \in Seq(S)
    BY ListNothing
  <2> QED
    BY <2>1
<1>2. ASSUME NEW q \in Seq(S), NEW x \in S, q \in G PROVE Append(q, x) \in G
  <2>1. PICK t : t = ApplyList(s, list, q)
    OBVIOUS
  <2>2. t \in PlayerStates
    BY <2>1, ListFrame
  <2>3. ApplyList(s, list, Append(q, x)) = ApplyEntry(t, list, x)
    BY <2>1, ListAppend
  <2>4. ASSUME Covered(Append(q, x)) PROVE OriginsIn(ApplyEntry(t, list, x).deck, O)
    <3>1. /\ \A i \in DOMAIN q : i \in DOMAIN Append(q, x) /\ Append(q, x)[i] = q[i]
          /\ Len(q) + 1 \in DOMAIN Append(q, x) /\ Append(q, x)[Len(q) + 1] = x
      OBVIOUS
    <3>2. Covered(q) /\ EntryGains(list, x) \subseteq O
      BY <2>4, <3>1
    <3>3. OriginsIn(t.deck, O)
      BY <1>2, <2>1, <3>2
    <3> QED
      BY <2>2, <3>2, <3>3, EntryOrigins
  <2>5. Append(q, x) \in Seq(S)
    OBVIOUS
  <2> QED
    BY <2>3, <2>4, <2>5
<1> HIDE DEF G, S
<1>3. entries \in Seq(S)
  BY DEF S
<1>4. entries \in G
  BY <1>1, <1>2, <1>3, SeqInduction
<1> QED
  BY <1>4 DEF G

LEMMA CardsOrigins ==
    ASSUME NEW s \in PlayerStates, NEW ps \in StatsRec, NEW O, OriginsIn(s.deck, O),
           \A ref \in CardsGained(ps) : <<ref.id, ref.floor>> \in O
    PROVE  OriginsIn(ApplyCards(s, ps).deck, O)
<1>1. PICK a : a = ApplyList(s, "cards_gained", ps.cards_gained)
  OBVIOUS
<1>2. PICK b : b = ApplyList(a, "cards_removed", ps.cards_removed)
  OBVIOUS
<1>3. PICK c : c = ApplyList(b, "cards_transformed", ps.cards_transformed)
  OBVIOUS
<1>4. PICK d : d = ApplyList(c, "upgraded_cards", ps.upgraded_cards)
  OBVIOUS
<1>5. PICK e : e = ApplyList(d, "downgraded_cards", ps.downgraded_cards)
  OBVIOUS
<1>6. ApplyCards(s, ps) = e
  BY <1>1, <1>2, <1>3, <1>4, <1>5 DEF ApplyCards
<1>7. /\ \A x : EntryGains("cards_gained", x) = {<<x.id, x.floor>>}
      /\ \A x : EntryGains("cards_transformed", x) = {<<x.final.id, x.final.floor>>}
      /\ \A x : EntryGains("cards_removed", x) = {} /\ EntryGains("upgraded_cards", x) = {}
                /\ EntryGains("downgraded_cards", x) = {}
  BY DEF EntryGains
<1>8. /\ \A i \in DOMAIN ps.cards_gained : EntryGains("cards_gained", ps.cards_gained[i]) \subseteq O
      /\ \A i \in DOMAIN ps.cards_transformed : EntryGains("cards_transformed", ps.cards_transformed[i]) \subseteq O
  <2>1. ASSUME NEW i \in DOMAIN ps.cards_gained
        PROVE  EntryGains("cards_gained", ps.cards_gained[i]) \subseteq O
    <3>1. ps.cards_gained[i] \in CardsGained(ps)
      BY DEF CardsGained, ToSet
    <3> QED
      BY <1>7, <3>1
  <2>2. ASSUME NEW i \in DOMAIN ps.cards_transformed
        PROVE  EntryGains("cards_transformed", ps.cards_transformed[i]) \subseteq O
    <3>1. ps.cards_transformed[i].final \in CardsGained(ps)
      BY DEF CardsGained, ToSet
    <3> QED
      BY <1>7, <3>1
  <2> QED
    BY <2>1, <2>2
<1>9. a \in PlayerStates /\ OriginsIn(a.deck, O)
  BY <1>1, <1>8, StatsFields, ListsAre, ListFrame, ListOrigins
<1>10. b \in PlayerStates /\ OriginsIn(b.deck, O)
  BY <1>2, <1>7, <1>9, StatsFields, ListsAre, ListFrame, ListOrigins
<1>11. c \in PlayerStates /\ OriginsIn(c.deck, O)
  BY <1>3, <1>8, <1>10, StatsFields, ListsAre, ListFrame, ListOrigins
<1>12. d \in PlayerStates /\ OriginsIn(d.deck, O)
  BY <1>4, <1>7, <1>11, StatsFields, ListsAre, ListFrame, ListOrigins
<1>13. OriginsIn(e.deck, O)
  BY <1>5, <1>7, <1>12, StatsFields, ListsAre, ListFrame, ListOrigins
<1> QED
  BY <1>6, <1>13

-----------------------------------------------------------------------------
(***************************************************************************)
(* Two decks with as many copies of every card, upgraded or not.           *)
(***************************************************************************)
SameAt(d, e) == \A id \in CardIds, u \in BOOLEAN : HowMany(d, CardsAt(id, u)) = HowMany(e, CardsAt(id, u))
Alike(c, d) == c.id = d.id /\ c.upgraded = d.upgraded

LEMMA AlikeAt ==
    ASSUME NEW c \in Cards, NEW d \in Cards, Alike(c, d), NEW id, NEW u
    PROVE  c \in CardsAt(id, u) <=> d \in CardsAt(id, u)
  BY DEF Alike, CardsAt

LEMMA SameMoves ==
    ASSUME NEW d \in Seq(Cards), NEW e \in Seq(Cards), SameAt(d, e)
    PROVE  /\ \A b, c \in Cards : Alike(b, c) => SameAt(Append(d, b), Append(e, c))
           /\ \A i \in DOMAIN d, j \in DOMAIN e : Alike(d[i], e[j]) => SameAt(RemoveAt(d, i), RemoveAt(e, j))
           /\ \A i \in DOMAIN d, j \in DOMAIN e, b, c \in Cards :
                Alike(d[i], e[j]) /\ Alike(b, c) => SameAt([d EXCEPT ![i] = b], [e EXCEPT ![j] = c])
<1>1. ASSUME NEW b \in Cards, NEW c \in Cards, Alike(b, c) PROVE SameAt(Append(d, b), Append(e, c))
  <2> SUFFICES ASSUME NEW id \in CardIds, NEW u \in BOOLEAN
               PROVE  HowMany(Append(d, b), CardsAt(id, u)) = HowMany(Append(e, c), CardsAt(id, u))
    BY DEF SameAt
  <2>1. PICK P : P = CardsAt(id, u)
    OBVIOUS
  <2>2. b \in P <=> c \in P
    BY <1>1, <2>1, AlikeAt
  <2>3. HowMany(d, P) = HowMany(e, P)
    BY <2>1 DEF SameAt
  <2>4. /\ HowMany(Append(d, b), P) = HowMany(d, P) + (IF b \in P THEN 1 ELSE 0)
        /\ HowMany(Append(e, c), P) = HowMany(e, P) + (IF c \in P THEN 1 ELSE 0)
    BY HowManyAppend
  <2> QED
    BY <2>1, <2>2, <2>3, <2>4
<1>2. ASSUME NEW i \in DOMAIN d, NEW j \in DOMAIN e, Alike(d[i], e[j])
      PROVE  SameAt(RemoveAt(d, i), RemoveAt(e, j))
  <2> SUFFICES ASSUME NEW id \in CardIds, NEW u \in BOOLEAN
               PROVE  HowMany(RemoveAt(d, i), CardsAt(id, u)) = HowMany(RemoveAt(e, j), CardsAt(id, u))
    BY DEF SameAt
  <2>1. PICK P : P = CardsAt(id, u)
    OBVIOUS
  <2>0. d[i] \in Cards /\ e[j] \in Cards
    OBVIOUS
  <2>2. d[i] \in P <=> e[j] \in P
    BY <1>2, <2>0, <2>1, AlikeAt
  <2>3. HowMany(d, P) = HowMany(e, P)
    BY <2>1 DEF SameAt
  <2>4. /\ HowMany(RemoveAt(d, i), P) = HowMany(d, P) - (IF d[i] \in P THEN 1 ELSE 0)
        /\ HowMany(RemoveAt(e, j), P) = HowMany(e, P) - (IF e[j] \in P THEN 1 ELSE 0)
    BY HowManyRemove
  <2> QED
    BY <2>1, <2>2, <2>3, <2>4
<1>3. ASSUME NEW i \in DOMAIN d, NEW j \in DOMAIN e, NEW b \in Cards, NEW c \in Cards,
             Alike(d[i], e[j]), Alike(b, c)
      PROVE  SameAt([d EXCEPT ![i] = b], [e EXCEPT ![j] = c])
  <2> SUFFICES ASSUME NEW id \in CardIds, NEW u \in BOOLEAN
               PROVE  HowMany([d EXCEPT ![i] = b], CardsAt(id, u)) = HowMany([e EXCEPT ![j] = c], CardsAt(id, u))
    BY DEF SameAt
  <2>1. PICK P : P = CardsAt(id, u)
    OBVIOUS
  <2>0. d[i] \in Cards /\ e[j] \in Cards
    OBVIOUS
  <2>2. (d[i] \in P <=> e[j] \in P) /\ (b \in P <=> c \in P)
    BY <1>3, <2>0, <2>1, AlikeAt
  <2>3. HowMany(d, P) = HowMany(e, P)
    BY <2>1 DEF SameAt
  <2>4. /\ HowMany([d EXCEPT ![i] = b], P) = HowMany(d, P) - (IF d[i] \in P THEN 1 ELSE 0) + (IF b \in P THEN 1 ELSE 0)
        /\ HowMany([e EXCEPT ![j] = c], P) = HowMany(e, P) - (IF e[j] \in P THEN 1 ELSE 0) + (IF c \in P THEN 1 ELSE 0)
    BY HowManyReplace
  <2> QED
    BY <2>1, <2>2, <2>3, <2>4
<1> QED
  BY <1>1, <1>2, <1>3

(* When all copies of an id in one deck are alike, so are those of the other. *)
LEMMA AllAlike ==
    ASSUME NEW d \in Seq(Cards), NEW e \in Seq(Cards), SameAt(d, e), NEW i \in DOMAIN d, NEW j \in DOMAIN e,
           d[i].id = e[j].id, \A m \in DOMAIN d : d[m].id = d[i].id => d[m].upgraded = d[i].upgraded
    PROVE  Alike(d[i], e[j])
<1>0. d[i] \in Cards /\ e[j] \in Cards
  OBVIOUS
<1>1. PICK id, u : id = e[j].id /\ u = e[j].upgraded
  OBVIOUS
<1>2. id \in CardIds /\ u \in BOOLEAN
  BY <1>0, <1>1 DEF Cards
<1>3. PICK P : P = CardsAt(id, u)
  OBVIOUS
<1>4. HowMany(d, P) = HowMany(e, P)
  BY <1>2, <1>3 DEF SameAt
<1>5. e[j] \in P
  BY <1>0, <1>1, <1>3 DEF CardsAt
<1>6. HowMany(e, P) # 0
  BY <1>5, HowManyNat
<1>7. PICK m \in DOMAIN d : d[m] \in P
  BY <1>4, <1>6, HowManyNat
<1>8. d[m].id = id /\ d[m].upgraded = u
  BY <1>3, <1>7 DEF CardsAt
<1>9. d[m].upgraded = d[i].upgraded
  BY <1>1, <1>8
<1> QED
  BY <1>1, <1>8, <1>9 DEF Alike

-----------------------------------------------------------------------------
(***************************************************************************)
(* What the player lives through, and what the replay of its entry does.   *)
(***************************************************************************)
TakesCard(real, new, x) ==
    \E c \in Cards : /\ c.id = x.id /\ c.floor = x.floor /\ c.upgraded = x.upgraded
                     /\ new.deck = Append(real.deck, c)
GivesCard(real, new, x) ==
    \E i \in DOMAIN real.deck : /\ x.id = real.deck[i].id /\ x.floor = real.deck[i].floor
                                /\ new.deck = RemoveAt(real.deck, i)
TradesCard(real, new, x) ==
    \E i \in DOMAIN real.deck, c \in Cards :
       /\ x.original.id = real.deck[i].id /\ x.original.floor = real.deck[i].floor
       /\ c.id = x.final.id /\ c.floor = x.final.floor /\ c.upgraded = x.final.upgraded
       /\ new.deck = Append(RemoveAt(real.deck, i), c)
Lived(real, new, list, x) ==
    /\ real \in PlayerStates /\ new \in PlayerStates /\ list \in Lists /\ x \in EntriesOf(list)
    /\ new.hp = real.hp
    /\ list \in CardLists => new.relics = real.relics /\ new.potions = real.potions
    /\ "NOTFOUND" \notin new.warnings
    /\ list \notin CardLists => new = ApplyEntry(real, list, x)
    /\ list = "cards_gained" => TakesCard(real, new, x)
    /\ list = "cards_removed" => GivesCard(real, new, x)
    /\ list = "cards_transformed" => TradesCard(real, new, x)
    /\ list = "upgraded_cards" => Flips(real, new, x, TRUE)
    /\ list = "downgraded_cards" => Flips(real, new, x, FALSE)

LEMMA LivedTally ==
    ASSUME NEW real, NEW new, NEW list, NEW x, Lived(real, new, list, x), NEW k \in Keys
    PROVE  Tally(new, k) = Tally(real, k) + Delta(list, x, k)
<1>0. /\ real \in PlayerStates /\ new \in PlayerStates /\ list \in Lists /\ x \in EntriesOf(list)
      /\ list \in CardLists => new.potions = real.potions
  BY DEF Lived
<1>1. Tally(real, k) \in Nat
  BY <1>0, TallyNat
<1>2. real.deck \in Seq(Cards)
  BY <1>0, StateFields
<1>3. CASE list = "cards_gained"
  <2>1. PICK c \in Cards : c.id = x.id /\ new.deck = Append(real.deck, c)
    BY <1>3 DEF Lived, TakesCard
  <2>2. new.potions = real.potions
    BY <1>0, <1>3, ListsAre
  <2>3. Tally(new, k) = Tally(real, k) + (IF k = <<"card", c.id>> THEN 1 ELSE 0)
    BY <1>0, <2>1, <2>2, TallyMoves
  <2>4. x \in GainRefs
    BY <1>0, <1>3, ListsMean
  <2>5. Delta(list, x, k) = IF k = <<"card", x.id>> THEN 1 ELSE 0
    BY <1>3, <2>4, DeltasMean
  <2> QED
    BY <2>1, <2>3, <2>5
<1>4. CASE list = "cards_removed"
  <2>1. PICK i \in DOMAIN real.deck : x.id = real.deck[i].id /\ new.deck = RemoveAt(real.deck, i)
    BY <1>4 DEF Lived, GivesCard
  <2>2. new.potions = real.potions
    BY <1>0, <1>4, ListsAre
  <2>3. Tally(new, k) = Tally(real, k) - (IF k = <<"card", real.deck[i].id>> THEN 1 ELSE 0)
    BY <1>0, <2>1, <2>2, TallyMoves
  <2>4. x \in LossRefs
    BY <1>0, <1>4, ListsMean
  <2>5. Delta(list, x, k) = 0 - (IF k = <<"card", x.id>> THEN 1 ELSE 0)
    BY <1>4, <2>4, DeltasMean
  <2> QED
    BY <1>1, <2>1, <2>3, <2>5
<1>5. CASE list = "cards_transformed"
  <2>1. PICK i \in DOMAIN real.deck, c \in Cards :
          x.original.id = real.deck[i].id /\ c.id = x.final.id /\ new.deck = Append(RemoveAt(real.deck, i), c)
    BY <1>5 DEF Lived, TradesCard
  <2>2. new.potions = real.potions
    BY <1>0, <1>5, ListsAre
  <2>3. PICK less : less = RemoveAt(real.deck, i)
    OBVIOUS
  <2>4. less \in Seq(Cards)
    BY <1>2, <2>3, RemoveAtFacts
  <2>5. PICK mid : mid = [deck |-> less, relics |-> real.relics, potions |-> real.potions,
                          hp |-> real.hp, warnings |-> real.warnings]
    OBVIOUS
  <2>6. mid \in PlayerStates /\ mid.deck = less /\ mid.potions = real.potions
    BY <1>0, <2>4, <2>5, StateFields DEF PlayerStates
  <2>7. Tally(mid, k) = Tally(real, k) - (IF k = <<"card", real.deck[i].id>> THEN 1 ELSE 0)
    BY <1>0, <2>3, <2>6, TallyMoves
  <2>8. Tally(new, k) = Tally(mid, k) + (IF k = <<"card", c.id>> THEN 1 ELSE 0)
    BY <1>0, <2>1, <2>2, <2>3, <2>6, TallyMoves
  <2>9. x \in TransformRefs
    BY <1>0, <1>5, ListsMean
  <2>10. Delta(list, x, k) =
           (IF k = <<"card", x.final.id>> THEN 1 ELSE 0) - (IF k = <<"card", x.original.id>> THEN 1 ELSE 0)
    BY <1>5, <2>9, DeltasMean
  <2> QED
    BY <1>1, <2>1, <2>7, <2>8, <2>10
<1>6. CASE list \in {"upgraded_cards", "downgraded_cards"}
  <2>1. PICK v \in BOOLEAN : Flips(real, new, x, v)
    BY <1>6 DEF Lived
  <2>2. PICK i \in DOMAIN real.deck, c \in Cards :
          c.id = real.deck[i].id /\ new.deck = [real.deck EXCEPT ![i] = c]
    BY <2>1 DEF Flips
  <2>3. new.potions = real.potions
    BY <1>0, <1>6, ListsAre
  <2>4. Tally(new, k) = Tally(real, k)
    BY <1>0, <2>2, <2>3, TallyMoves
  <2>5. Delta(list, x, k) = 0
    BY <1>6, DeltasMean
  <2> QED
    BY <1>1, <2>4, <2>5
<1>7. CASE list \notin CardLists
  <2>1. new = ApplyEntry(real, list, x) /\ "NOTFOUND" \notin new.warnings
    BY <1>7 DEF Lived
  <2> QED
    BY <1>0, <2>1, EntryEffects
<1> QED
  BY <1>3, <1>4, <1>5, <1>6, <1>7 DEF CardLists

LEMMA LivedOrigins ==
    ASSUME NEW real, NEW new, NEW list, NEW x, Lived(real, new, list, x), NEW O,
           OriginsIn(real.deck, O), EntryGains(list, x) \subseteq O
    PROVE  OriginsIn(new.deck, O)
<1>0. real \in PlayerStates /\ new \in PlayerStates /\ list \in Lists /\ x \in EntriesOf(list)
  BY DEF Lived
<1>2. real.deck \in Seq(Cards)
  BY <1>0, StateFields
<1>3. CASE list = "cards_gained"
  <2>1. PICK c \in Cards : c.id = x.id /\ c.floor = x.floor /\ new.deck = Append(real.deck, c)
    BY <1>3 DEF Lived, TakesCard
  <2>2. <<c.id, c.floor>> \in O
    BY <1>3, <2>1 DEF EntryGains
  <2> QED
    BY <1>2, <2>1, <2>2, OriginsMove
<1>4. CASE list = "cards_removed"
  <2>1. PICK i \in DOMAIN real.deck : new.deck = RemoveAt(real.deck, i)
    BY <1>4 DEF Lived, GivesCard
  <2> QED
    BY <1>2, <2>1, OriginsMove
<1>5. CASE list = "cards_transformed"
  <2>1. PICK i \in DOMAIN real.deck, c \in Cards :
          c.id = x.final.id /\ c.floor = x.final.floor /\ new.deck = Append(RemoveAt(real.deck, i), c)
    BY <1>5 DEF Lived, TradesCard
  <2>2. <<c.id, c.floor>> \in O
    BY <1>5, <2>1 DEF EntryGains
  <2>3. PICK less : less = RemoveAt(real.deck, i)
    OBVIOUS
  <2>4. less \in Seq(Cards) /\ OriginsIn(less, O)
    BY <1>2, <2>3, RemoveAtFacts, OriginsMove
  <2>5. OriginsIn(Append(less, c), O)
    BY <2>2, <2>4, OriginsMove
  <2> QED
    BY <2>1, <2>3, <2>5
<1>6. CASE list \in {"upgraded_cards", "downgraded_cards"}
  <2>1. PICK v \in BOOLEAN : Flips(real, new, x, v)
    BY <1>6 DEF Lived
  <2>2. PICK i \in DOMAIN real.deck, c \in Cards :
          c.id = real.deck[i].id /\ c.floor = real.deck[i].floor /\ new.deck = [real.deck EXCEPT ![i] = c]
    BY <2>1 DEF Flips
  <2> QED
    BY <1>2, <2>2, OriginsMove
<1>7. CASE list \notin CardLists
  <2>1. new = ApplyEntry(real, list, x)
    BY <1>7 DEF Lived
  <2>2. new.deck = real.deck
    BY <1>0, <1>7, <2>1, EntryFrame
  <2> QED
    BY <2>2
<1> QED
  BY <1>3, <1>4, <1>5, <1>6, <1>7 DEF CardLists

LEMMA LivedRelics ==
    ASSUME NEW real, NEW new, NEW list, NEW x, Lived(real, new, list, x)
    PROVE  /\ list \notin RelicLists => new.relics = real.relics
           /\ list \in RelicLists => \A t \in PlayerStates :
                t.relics = real.relics => ApplyEntry(t, list, x).relics = new.relics
<1>0. real \in PlayerStates /\ new \in PlayerStates /\ list \in Lists /\ x \in EntriesOf(list)
  BY DEF Lived
<1>1. CASE list \in CardLists
  <2>1. new.relics = real.relics /\ list \notin RelicLists
    BY <1>1 DEF Lived, CardLists, RelicLists
  <2> QED
    BY <2>1
<1>2. CASE list \in RelicLists
  <2>1. new = ApplyEntry(real, list, x)
    BY <1>2 DEF Lived, CardLists, RelicLists
  <2> QED
    BY <1>0, <1>2, <2>1, RelicEntrySame
<1>3. CASE list \notin CardLists \cup RelicLists
  <2>1. new = ApplyEntry(real, list, x)
    BY <1>3 DEF Lived
  <2> QED
    BY <1>0, <1>3, <2>1, EntryFrame
<1> QED
  BY <1>1, <1>2, <1>3

Clean(s) == "NOTFOUND" \notin s.warnings /\ "AMBIGUOUS" \notin s.warnings
OneFloor(O, L) == \A y, z \in O : y[1] = z[1] /\ y[1] \in L => y = z

(* The card the replay removes is like the one that was given away.         *)
LEMMA RemovalAgrees ==
    ASSUME NEW t \in PlayerStates, NEW real \in PlayerStates, SameAt(t.deck, real.deck), NEW ref \in LossRefs,
           NEW O, NEW L, OneFloor(O, L), ref.id \in L, OriginsIn(t.deck, O), OriginsIn(real.deck, O),
           NEW j \in DOMAIN real.deck, ref.id = real.deck[j].id, ref.floor = real.deck[j].floor,
           Clean(RemoveCard(t, ref))
    PROVE  SameAt(RemoveCard(t, ref).deck, RemoveAt(real.deck, j))
<1>1. t.deck \in Seq(Cards) /\ real.deck \in Seq(Cards)
  BY StateFields
<1>2. ASSUME NEW m \in WithId(t, ref.id) PROVE t.deck[m].floor = ref.floor
  <2>1. m \in DOMAIN t.deck /\ t.deck[m].id = ref.id
    BY WithIdFacts
  <2>2. <<t.deck[m].id, t.deck[m].floor>> \in O /\ <<real.deck[j].id, real.deck[j].floor>> \in O
    BY <2>1 DEF OriginsIn
  <2>3. PICK y, z : y = <<t.deck[m].id, t.deck[m].floor>> /\ z = <<real.deck[j].id, real.deck[j].floor>>
    OBVIOUS
  <2>4. y = z
    BY <2>1, <2>2, <2>3 DEF OneFloor
  <2> QED
    BY <2>3, <2>4
<1>3. PICK i \in DOMAIN t.deck :
        /\ t.deck[i].id = ref.id
        /\ RemoveCard(t, ref).deck = RemoveAt(t.deck, i)
        /\ \A m \in WithId(t, ref.id) : t.deck[m].upgraded = t.deck[i].upgraded
  BY <1>2, RemoveCardEffects DEF Clean
<1>4. \A m \in DOMAIN t.deck : t.deck[m].id = t.deck[i].id => t.deck[m].upgraded = t.deck[i].upgraded
  BY <1>3 DEF WithId
<1>5. Alike(t.deck[i], real.deck[j])
  <2>1. PICK d, e : d = t.deck /\ e = real.deck
    OBVIOUS
  <2>2. /\ d \in Seq(Cards) /\ e \in Seq(Cards) /\ SameAt(d, e) /\ i \in DOMAIN d /\ j \in DOMAIN e
        /\ d[i].id = e[j].id /\ \A m \in DOMAIN d : d[m].id = d[i].id => d[m].upgraded = d[i].upgraded
    BY <1>1, <1>3, <1>4, <2>1
  <2>3. Alike(d[i], e[j])
    BY ONLY <2>2, AllAlike
  <2> QED
    BY <2>1, <2>3
<1>6. SameAt(RemoveAt(t.deck, i), RemoveAt(real.deck, j))
  BY <1>1, <1>5, SameMoves
<1> QED
  BY <1>3, <1>6

LEMMA LivedCards ==
    ASSUME NEW real, NEW new, NEW list, NEW x, Lived(real, new, list, x), NEW t \in PlayerStates,
           SameAt(t.deck, real.deck), NEW O, NEW L, OneFloor(O, L), OriginsIn(t.deck, O), OriginsIn(real.deck, O),
           list = "cards_removed" => x.id \in L, list = "cards_transformed" => x.original.id \in L,
           list \in CardLists, Clean(ApplyEntry(t, list, x))
    PROVE  SameAt(ApplyEntry(t, list, x).deck, new.deck)
<1>0. real \in PlayerStates /\ new \in PlayerStates /\ list \in Lists /\ x \in EntriesOf(list)
  BY DEF Lived
<1>1. t.deck \in Seq(Cards) /\ real.deck \in Seq(Cards)
  BY <1>0, StateFields
<1>2. PICK u : u = ApplyEntry(t, list, x)
  OBVIOUS
<1>3. CASE list = "cards_gained"
  <2>1. PICK c \in Cards : c.id = x.id /\ c.upgraded = x.upgraded /\ new.deck = Append(real.deck, c)
    BY <1>3 DEF Lived, TakesCard
  <2>2. x \in GainRefs /\ u = AddCard(t, x)
    BY <1>0, <1>2, <1>3, ListsMean, EntriesMean
  <2>3. PICK b \in Cards : b.id = x.id /\ b.upgraded = x.upgraded /\ u.deck = Append(t.deck, b)
    BY <2>2, AddCardEffects
  <2>4. Alike(b, c)
    BY <2>1, <2>3 DEF Alike
  <2> QED
    BY <1>1, <1>2, <2>1, <2>3, <2>4, SameMoves
<1>4. CASE list = "cards_removed"
  <2>1. PICK j \in DOMAIN real.deck :
          x.id = real.deck[j].id /\ x.floor = real.deck[j].floor /\ new.deck = RemoveAt(real.deck, j)
    BY <1>4 DEF Lived, GivesCard
  <2>2. x \in LossRefs /\ u = RemoveCard(t, x)
    BY <1>0, <1>2, <1>4, ListsMean, EntriesMean
  <2>3. Clean(RemoveCard(t, x))
    BY <1>2, <2>2
  <2>4. SameAt(RemoveCard(t, x).deck, RemoveAt(real.deck, j))
    BY <1>0, <1>4, <2>1, <2>2, <2>3, RemovalAgrees
  <2> QED
    BY <1>2, <2>1, <2>2, <2>4
<1>5. CASE list = "cards_transformed"
  <2>1. PICK j \in DOMAIN real.deck, c \in Cards :
          /\ x.original.id = real.deck[j].id /\ x.original.floor = real.deck[j].floor
          /\ c.id = x.final.id /\ c.upgraded = x.final.upgraded
          /\ new.deck = Append(RemoveAt(real.deck, j), c)
    BY <1>5 DEF Lived, TradesCard
  <2>2. x \in TransformRefs /\ u = TransformCard(t, x)
    BY <1>0, <1>2, <1>5, ListsMean, EntriesMean
  <2>3. PICK ref : ref = x.original
    OBVIOUS
  <2>4. ref \in LossRefs /\ ref.id = real.deck[j].id /\ ref.floor = real.deck[j].floor /\ ref.id \in L
    BY <1>5, <2>1, <2>2, <2>3 DEF TransformRefs
  <2>5. PICK r : r = RemoveCard(t, ref)
    OBVIOUS
  <2>6. r \in PlayerStates /\ r.warnings \subseteq u.warnings
    BY <2>2, <2>3, <2>5, TransformCardEffects
  <2>7. PICK b \in Cards : b.id = x.final.id /\ b.upgraded = x.final.upgraded /\ u.deck = Append(r.deck, b)
    BY <2>2, <2>3, <2>5, TransformCardEffects
  <2>8. Clean(RemoveCard(t, ref))
    BY <1>2, <2>5, <2>6 DEF Clean
  <2>9. SameAt(RemoveCard(t, ref).deck, RemoveAt(real.deck, j))
    BY <1>0, <2>4, <2>8, RemovalAgrees
  <2>10. PICK d, e : d = r.deck /\ e = RemoveAt(real.deck, j)
    OBVIOUS
  <2>11. d \in Seq(Cards) /\ e \in Seq(Cards) /\ SameAt(d, e)
    BY <1>1, <2>5, <2>6, <2>9, <2>10, StateFields, RemoveAtFacts
  <2>12. Alike(b, c)
    BY <2>1, <2>7 DEF Alike
  <2>13. SameAt(Append(d, b), Append(e, c))
    BY <2>11, <2>12, SameMoves
  <2> QED
    BY <1>2, <2>1, <2>7, <2>10, <2>13
<1>6. CASE list \in {"upgraded_cards", "downgraded_cards"}
  <2>1. PICK v \in BOOLEAN : Flips(real, new, x, v) /\ x \in CardIds /\ u = SetUpgraded(t, x, v)
    <3>1. CASE list = "upgraded_cards"
      BY <1>0, <1>2, <3>1, ListsMean, EntriesMean DEF Lived
    <3>2. CASE list = "downgraded_cards"
      BY <1>0, <1>2, <3>2, ListsMean, EntriesMean DEF Lived
    <3> QED
      BY <1>6, <3>1, <3>2
  <2>2. "NOTFOUND" \notin u.warnings
    BY <1>2 DEF Clean
  <2>3. Flips(t, u, x, v)
    BY <2>1, <2>2, SetUpgradedEffects
  <2>4. PICK i \in DOMAIN t.deck, b \in Cards :
          /\ t.deck[i].id = x /\ t.deck[i].upgraded # v /\ b.id = x /\ b.upgraded = v
          /\ u.deck = [t.deck EXCEPT ![i] = b]
    BY <2>3 DEF Flips
  <2>5. PICK j \in DOMAIN real.deck, c \in Cards :
          /\ real.deck[j].id = x /\ real.deck[j].upgraded # v /\ c.id = x /\ c.upgraded = v
          /\ new.deck = [real.deck EXCEPT ![j] = c]
    BY <2>1 DEF Flips
  <2>6. Alike(b, c)
    BY <2>4, <2>5 DEF Alike
  <2>7. Alike(t.deck[i], real.deck[j])
    <3>1. t.deck[i] \in Cards /\ real.deck[j] \in Cards
      BY <1>1
    <3>2. t.deck[i].upgraded \in BOOLEAN /\ real.deck[j].upgraded \in BOOLEAN
      BY <3>1 DEF Cards
    <3>3. t.deck[i].upgraded = real.deck[j].upgraded
      BY <2>1, <2>4, <2>5, <3>2
    <3> QED
      BY <2>4, <2>5, <3>3 DEF Alike
  <2>8. PICK d, e : d = t.deck /\ e = real.deck
    OBVIOUS
  <2>9. /\ d \in Seq(Cards) /\ e \in Seq(Cards) /\ SameAt(d, e)
        /\ i \in DOMAIN d /\ j \in DOMAIN e /\ Alike(d[i], e[j])
    BY <1>1, <2>7, <2>8
  <2>10. SameAt([d EXCEPT ![i] = b], [e EXCEPT ![j] = c])
    BY ONLY <2>9, <2>6, SameMoves, b \in Cards, c \in Cards
  <2> QED
    BY <1>2, <2>4, <2>5, <2>8, <2>10
<1> QED
  BY <1>3, <1>4, <1>5, <1>6 DEF CardLists

-----------------------------------------------------------------------------
(***************************************************************************)
(* What the points up to a state settle.                                   *)
(***************************************************************************)
OriginsOf(B) ==
    {<<id, 1>> : id \in ToSet(StartingDeck)}
      \cup {<<ref.id, ref.floor>> : ref \in UNION {CardsGained(stats) : stats \in B}}
LostIn(B) == {ref.id : ref \in UNION {CardsLost(stats) : stats \in B}}
Single(ps) == Cardinality(Kinds(ps, CardLists)) <= 1 /\ Cardinality(Kinds(ps, RelicLists)) <= 1
SettledBy(B) == (\A stats \in B : Single(stats)) /\ OneFloor(OriginsOf(B), LostIn(B))
SaysLess(ps, qs) ==
    /\ Kinds(ps, CardLists) \subseteq Kinds(qs, CardLists) /\ Kinds(ps, RelicLists) \subseteq Kinds(qs, RelicLists)
    /\ CardsGained(ps) \subseteq CardsGained(qs) /\ CardsLost(ps) \subseteq CardsLost(qs)

LEMMA SettledLess ==
    ASSUME NEW B, NEW C, \A ps \in B : \E qs \in C : SaysLess(ps, qs)
    PROVE  OriginsOf(B) \subseteq OriginsOf(C) /\ (SettledBy(C) => SettledBy(B))
<1>1. OriginsOf(B) \subseteq OriginsOf(C)
  <2>1. UNION {CardsGained(stats) : stats \in B} \subseteq UNION {CardsGained(stats) : stats \in C}
    BY DEF SaysLess
  <2> QED
    BY <2>1 DEF OriginsOf
<1>2. ASSUME SettledBy(C) PROVE SettledBy(B)
  <2>0. LostIn(B) \subseteq LostIn(C)
    <3>1. UNION {CardsLost(stats) : stats \in B} \subseteq UNION {CardsLost(stats) : stats \in C}
      BY DEF SaysLess
    <3> QED
      BY <3>1 DEF LostIn
  <2>1. OneFloor(OriginsOf(B), LostIn(B))
    BY <1>1, <1>2, <2>0 DEF SettledBy, OneFloor
  <2>2. ASSUME NEW ps \in B PROVE Single(ps)
    <3>1. PICK qs \in C : SaysLess(ps, qs)
      OBVIOUS
    <3>2. Single(qs)
      BY <1>2 DEF SettledBy
    <3>3. PICK a, b, c, d : /\ a = Kinds(ps, CardLists) /\ b = Kinds(ps, RelicLists)
                            /\ c = Kinds(qs, CardLists) /\ d = Kinds(qs, RelicLists)
      OBVIOUS
    <3>4. IsFiniteSet(c) /\ IsFiniteSet(d) /\ a \subseteq c /\ b \subseteq d
      BY <3>1, <3>3, KindsFinite DEF SaysLess
    <3>5. /\ Cardinality(a) <= Cardinality(c) /\ Cardinality(b) <= Cardinality(d)
          /\ IsFiniteSet(a) /\ IsFiniteSet(b)
      BY <3>4, FS_Subset
    <3>6. Cardinality(a) \in Nat /\ Cardinality(b) \in Nat /\ Cardinality(c) \in Nat /\ Cardinality(d) \in Nat
      BY <3>4, <3>5, FS_CardinalityType
    <3> QED
      BY <3>2, <3>3, <3>5, <3>6 DEF Single
  <2> QED
    BY <2>1, <2>2 DEF SettledBy
<1> QED
  BY <1>1, <1>2

LEMMA SettledMore ==
    ASSUME NEW B, NEW C, B \subseteq C
    PROVE  OriginsOf(B) \subseteq OriginsOf(C) /\ (SettledBy(C) => SettledBy(B))
<1>1. \A ps \in B : ps \in C /\ SaysLess(ps, ps)
  BY DEF SaysLess
<1> QED
  BY <1>1, SettledLess

LEMMA EntrySaysMore ==
    ASSUME NEW ps \in StatsRec, NEW list \in Lists, NEW x \in EntriesOf(list), NEW B
    PROVE  /\ SaysLess(ps, WithEntry(ps, list, x))
           /\ EntryGains(list, x) \subseteq OriginsOf(B \cup {WithEntry(ps, list, x)})
           /\ OriginsOf(B \cup {ps}) \subseteq OriginsOf(B \cup {WithEntry(ps, list, x)})
           /\ SettledBy(B \cup {WithEntry(ps, list, x)}) => SettledBy(B \cup {ps})
           /\ list = "cards_removed" => x.id \in LostIn(B \cup {WithEntry(ps, list, x)})
           /\ list = "cards_transformed" => x.original.id \in LostIn(B \cup {WithEntry(ps, list, x)})
<1>1. PICK new : new = WithEntry(ps, list, x)
  OBVIOUS
<1>2. /\ new[list] = Append(ps[list], x) /\ ps[list] \in Seq(EntriesOf(list))
      /\ \A l \in Lists : l # list => new[l] = ps[l]
  BY <1>1, WithEntryFacts, ListOf
<1>3. /\ \A i \in DOMAIN ps[list] : i \in DOMAIN new[list] /\ new[list][i] = ps[list][i]
      /\ Len(ps[list]) + 1 \in DOMAIN new[list] /\ new[list][Len(ps[list]) + 1] = x
  BY <1>2
<1>4. ToSet(ps[list]) \subseteq ToSet(new[list]) /\ x \in ToSet(new[list])
  BY <1>3 DEF ToSet
<1>5. \A l \in Lists : ToSet(ps[l]) \subseteq ToSet(new[l])
  BY <1>2, <1>4
<1>6. /\ ToSet(ps.cards_gained) \subseteq ToSet(new.cards_gained)
      /\ ToSet(ps.cards_transformed) \subseteq ToSet(new.cards_transformed)
      /\ ToSet(ps.cards_removed) \subseteq ToSet(new.cards_removed)
  BY <1>5, ListsAre
<1>7. CardsGained(ps) \subseteq CardsGained(new) /\ CardsLost(ps) \subseteq CardsLost(new)
  BY <1>6 DEF CardsGained, CardsLost
<1>8. SaysLess(ps, new)
  BY <1>1, <1>7, EntryComesLast DEF SaysLess
<1>9. EntryGains(list, x) \subseteq OriginsOf(B \cup {new})
  <2>1. CASE list = "cards_gained"
    <3>1. x \in CardsGained(new)
      BY <1>4, <2>1 DEF CardsGained
    <3>2. EntryGains(list, x) = {<<x.id, x.floor>>}
      BY <2>1 DEF EntryGains
    <3> QED
      BY <3>1, <3>2 DEF OriginsOf
  <2>2. CASE list = "cards_transformed"
    <3>1. x.final \in CardsGained(new)
      BY <1>4, <2>2 DEF CardsGained
    <3>2. EntryGains(list, x) = {<<x.final.id, x.final.floor>>}
      BY <2>2 DEF EntryGains
    <3> QED
      BY <3>1, <3>2 DEF OriginsOf
  <2>3. CASE list \notin {"cards_gained", "cards_transformed"}
    BY <2>3 DEF EntryGains
  <2> QED
    BY <2>1, <2>2, <2>3
<1>10. \A qs \in B \cup {ps} : \E rs \in B \cup {new} : SaysLess(qs, rs)
  BY <1>8 DEF SaysLess
<1>11. list = "cards_removed" => x.id \in LostIn(B \cup {new})
  BY <1>4 DEF LostIn, CardsLost
<1>12. list = "cards_transformed" => x.original.id \in LostIn(B \cup {new})
  BY <1>4 DEF LostIn, CardsLost
<1> QED
  BY <1>1, <1>8, <1>9, <1>10, <1>11, <1>12, SettledLess

-----------------------------------------------------------------------------
(***************************************************************************)
(* The invariant of a run: what the replay made of the points before, s,   *)
(* against what the player has.                                            *)
(***************************************************************************)
HistoryRec == [rooms : Nat, stats : StatsRec]
PointRec == [rooms : Nat, stats : StatsRec, entered : PlayerStates]
RunRec ==
    [pc : {"none", "playing", "recorded", "reconstructed"}, real : PlayerStates, point : PointRec,
     history : Seq(HistoryRec), truths : Seq(PlayerStates), events : Nat]
EncounterRec ==
    [state : PlayerStates, point : Nat, room : Nat, hp_status : {"unavailable", "inconsistent", "exact"}]
PassRec == [state : PlayerStates, point : Nat, encounters : Seq(EncounterRec)]
Befores(history, p) == {history[q].stats : q \in 1..(p - 1)}

Agrees(s, B, real) ==
    /\ "NOTFOUND" \notin s.warnings => s.hp = real.hp /\ \A k \in Keys : Tally(s, k) = Tally(real, k)
    /\ Clean(s) /\ SettledBy(B) => SameAt(s.deck, real.deck) /\ s.relics = real.relics

PointInv(s, B, point, real) ==
    /\ Agrees(s, B, point.entered)
    /\ "NOTFOUND" \notin s.warnings =>
         /\ \A k \in Keys : Tally(real, k) = Tally(s, k) + Change(point.stats, k)
         /\ OriginsIn(real.deck, OriginsOf(B \cup {point.stats}))
    /\ Clean(ApplyCards(s, point.stats)) /\ SettledBy(B \cup {point.stats})
         => SameAt(ApplyCards(s, point.stats).deck, real.deck)
    /\ Clean(s) /\ SettledBy(B \cup {point.stats}) => RelicReplay(s, point.stats).relics = real.relics

LEMMA PointLives ==
    ASSUME NEW s \in PlayerStates, NEW B, NEW point \in PointRec, NEW real, PointInv(s, B, point, real),
           OriginsIn(s.deck, OriginsOf(B)), NEW new, NEW list, NEW x, Lived(real, new, list, x),
           NEW next \in PointRec, next.stats = WithEntry(point.stats, list, x), next.entered = point.entered
    PROVE  PointInv(s, B, next, new)
<1>0. /\ real \in PlayerStates /\ new \in PlayerStates /\ list \in Lists /\ x \in EntriesOf(list)
      /\ point.stats \in StatsRec /\ next.stats \in StatsRec
  BY DEF Lived, PointRec
<1>1. PICK ps, qs : ps = point.stats /\ qs = next.stats
  OBVIOUS
<1>2. qs = WithEntry(ps, list, x) /\ ps \in StatsRec /\ qs \in StatsRec
  BY <1>0, <1>1
<1>3. PICK O, Q : O = OriginsOf(B \cup {ps}) /\ Q = OriginsOf(B \cup {qs})
  OBVIOUS
<1>4. EntryGains(list, x) \subseteq Q /\ O \subseteq Q /\ (SettledBy(B \cup {qs}) => SettledBy(B \cup {ps}))
  BY <1>0, <1>2, <1>3, EntrySaysMore
<1>5. OriginsOf(B) \subseteq O
  BY <1>3, SettledMore
<1>6. ASSUME "NOTFOUND" \notin s.warnings
      PROVE  /\ \A k \in Keys : Tally(new, k) = Tally(s, k) + Change(qs, k)
             /\ OriginsIn(real.deck, O) /\ OriginsIn(new.deck, Q)
  <2>1. ASSUME NEW k \in Keys PROVE Tally(new, k) = Tally(s, k) + Change(qs, k)
    <3>1. Tally(real, k) = Tally(s, k) + Change(ps, k)
      BY <1>1, <1>6 DEF PointInv
    <3>2. Tally(new, k) = Tally(real, k) + Delta(list, x, k)
      BY LivedTally
    <3>3. Change(ps, k) \in Int /\ Delta(list, x, k) \in Int /\ Change(qs, k) = Change(ps, k) + Delta(list, x, k)
      BY <1>0, <1>2, ChangeMoves
    <3>4. Tally(s, k) \in Nat
      BY TallyNat
    <3> QED
      BY <3>1, <3>2, <3>3, <3>4
  <2>2. OriginsIn(real.deck, O)
    BY <1>1, <1>3, <1>6 DEF PointInv
  <2>3. OriginsIn(real.deck, Q)
    BY <1>4, <2>2 DEF OriginsIn
  <2>4. OriginsIn(new.deck, Q)
    BY <1>4, <2>3, LivedOrigins
  <2> QED
    BY <2>1, <2>2, <2>4
<1>7. ASSUME Clean(ApplyCards(s, qs)), SettledBy(B \cup {qs})
      PROVE  SameAt(ApplyCards(s, qs).deck, new.deck)
  <2>1. SettledBy(B \cup {ps})
    BY <1>4, <1>7
  <2>2. Single(qs)
    BY <1>7 DEF SettledBy
  <2>3. PICK t : t = ApplyCards(s, ps)
    OBVIOUS
  <2>4. t \in PlayerStates /\ s.warnings \subseteq t.warnings
    BY <1>2, <2>3, CardsEffects DEF Follows
  <2>5. CASE list \in CardLists
    <3>1. ApplyCards(s, qs) = ApplyEntry(t, list, x)
      BY <1>0, <1>2, <2>2, <2>3, <2>5, EntryComesLast DEF Single
    <3>2. Clean(ApplyEntry(t, list, x))
      BY <1>7, <3>1
    <3>3. t.warnings \subseteq ApplyEntry(t, list, x).warnings
      BY <1>0, <2>4, EntryEffects DEF Follows
    <3>4. Clean(t)
      BY <3>2, <3>3 DEF Clean
    <3>5. SameAt(t.deck, real.deck)
      BY <1>1, <2>1, <2>3, <3>4 DEF PointInv
    <3>6. "NOTFOUND" \notin s.warnings
      BY <2>4, <3>4 DEF Clean
    <3>7. PICK L : L = LostIn(B \cup {qs})
      OBVIOUS
    <3>70. /\ OneFloor(O, L)
           /\ list = "cards_removed" => x.id \in L
           /\ list = "cards_transformed" => x.original.id \in L
      <4>1. OneFloor(Q, L)
        BY <1>3, <1>7, <3>7 DEF SettledBy
      <4> QED
        BY <1>0, <1>2, <1>4, <3>7, <4>1, EntrySaysMore DEF OneFloor
    <3>8. OriginsIn(t.deck, O)
      <4>1. OriginsIn(s.deck, O)
        BY <1>5 DEF OriginsIn
      <4>2. \A ref \in CardsGained(ps) : <<ref.id, ref.floor>> \in O
        BY <1>3 DEF OriginsOf
      <4> QED
        BY <1>2, <2>3, <4>1, <4>2, CardsOrigins
    <3>9. OriginsIn(real.deck, O)
      BY <1>6, <3>6
    <3>10. SameAt(ApplyEntry(t, list, x).deck, new.deck)
      BY <2>4, <2>5, <3>2, <3>5, <3>70, <3>8, <3>9, LivedCards
    <3> QED
      BY <3>1, <3>10
  <2>6. CASE list \notin CardLists
    <3>1. ApplyCards(s, qs) = t
      BY <1>0, <1>2, <2>3, <2>6, EntryComesLast
    <3>2. SameAt(t.deck, real.deck)
      BY <1>1, <1>7, <2>1, <2>3, <3>1 DEF PointInv
    <3>3. new.deck = real.deck
      <4>1. new = ApplyEntry(real, list, x)
        BY <2>6 DEF Lived
      <4> QED
        BY <1>0, <2>6, <4>1, EntryFrame
    <3> QED
      BY <3>1, <3>2, <3>3
  <2> QED
    BY <2>5, <2>6
<1>8. ASSUME Clean(s), SettledBy(B \cup {qs})
      PROVE  RelicReplay(s, qs).relics = new.relics
  <2>1. SettledBy(B \cup {ps})
    BY <1>4, <1>8
  <2>2. Single(qs)
    BY <1>8 DEF SettledBy
  <2>3. PICK t : t = RelicReplay(s, ps)
    OBVIOUS
  <2>4. t \in PlayerStates
    BY <1>2, <2>3, RelicReplayFacts
  <2>5. t.relics = real.relics
    BY <1>1, <1>8, <2>1, <2>3 DEF PointInv
  <2>6. CASE list \in RelicLists
    <3>1. RelicReplay(s, qs) = ApplyEntry(t, list, x)
      BY <1>0, <1>2, <2>2, <2>3, <2>6, EntryComesLast DEF Single
    <3> QED
      BY <2>4, <2>5, <2>6, <3>1, LivedRelics
  <2>7. CASE list \notin RelicLists
    <3>1. RelicReplay(s, qs) = t
      BY <1>0, <1>2, <2>3, <2>7, EntryComesLast
    <3> QED
      BY <2>5, <2>7, <3>1, LivedRelics
  <2> QED
    BY <2>6, <2>7
<1> QED
  BY <1>1, <1>3, <1>6, <1>7, <1>8 DEF PointInv

LEMMA EmptyStatsFacts ==
    /\ EmptyStats \in StatsRec /\ EmptyStats.hp = NoHp
    /\ \A l \in Lists : EmptyStats[l] = <<>>
    /\ \A s : ApplyCards(s, EmptyStats) = s /\ RelicReplay(s, EmptyStats) = s
    /\ \A k : Change(EmptyStats, k) = 0
<1>1. EmptyStats \in StatsRec /\ EmptyStats.hp = NoHp
  BY DEF EmptyStats, StatsRec, NoHp
<1>2. \A l \in Lists : EmptyStats[l] = <<>>
  BY DEF EmptyStats, Lists, CardLists, RelicLists
<1>3. \A t, l : ApplyList(t, l, <<>>) = t
  BY ListNothing
<1>4. ASSUME NEW s PROVE ApplyCards(s, EmptyStats) = s /\ RelicReplay(s, EmptyStats) = s
  <2>1. ApplyCards(s, EmptyStats) = ApplyList(s, "cards_gained", <<>>)
    BY <1>2, ListsAre, OneCardList
  <2>2. RelicReplay(s, EmptyStats) = ApplyList(s, "relics_gained", <<>>)
    BY <1>2, ListsAre, OneRelicList
  <2> QED
    BY <1>3, <2>1, <2>2
<1>5. ASSUME NEW k PROVE Change(EmptyStats, k) = 0
  <2>1. \A l : Net(l, <<>>, k) = 0
    BY NetNone
  <2>2. /\ EmptyStats.cards_gained = <<>> /\ EmptyStats.cards_removed = <<>> /\ EmptyStats.cards_transformed = <<>>
        /\ EmptyStats.upgraded_cards = <<>> /\ EmptyStats.downgraded_cards = <<>>
        /\ EmptyStats.relics_gained = <<>> /\ EmptyStats.relics_removed = <<>>
        /\ EmptyStats.potions_gained = <<>> /\ EmptyStats.potions_lost = <<>>
    BY DEF EmptyStats
  <2> QED
    BY <2>1, <2>2 DEF Change
<1> QED
  BY <1>1, <1>2, <1>4, <1>5

(* The point is recorded, with its stats or without.                        *)
RecordOf(ps, stats, real) ==
    ps = EmptyStats \/ ((\A l \in Lists : ps[l] = stats[l]) /\ ps.hp = real.hp)

LEMMA PointCloses ==
    ASSUME NEW s \in PlayerStates, NEW B, NEW point \in PointRec, NEW real \in PlayerStates,
           PointInv(s, B, point, real), OriginsIn(s.deck, OriginsOf(B)), NEW ps \in StatsRec,
           RecordOf(ps, point.stats, real), NEW t, t = ApplyPointStats(s, ps)
    PROVE  /\ t \in PlayerStates
           /\ Agrees(t, B \cup {ps}, real)
           /\ OriginsIn(t.deck, OriginsOf(B \cup {ps}))
           /\ "NOTFOUND" \notin t.warnings => OriginsIn(real.deck, OriginsOf(B \cup {ps}))
<1>0. point.stats \in StatsRec
  BY DEF PointRec
<1>1. /\ t \in PlayerStates /\ s.warnings \subseteq t.warnings /\ ApplyCards(s, ps).warnings \subseteq t.warnings
      /\ t.hp = ps.hp /\ (ps.hp = NoHp => "NOTFOUND" \in t.warnings)
      /\ "NOTFOUND" \notin t.warnings => \A k \in Keys : Tally(t, k) = Tally(s, k) + Change(ps, k)
  BY PointEffects
<1>2. t.deck = ApplyCards(s, ps).deck /\ t.relics = RelicReplay(s, ps).relics
  BY PointParts
<1>3. OriginsIn(t.deck, OriginsOf(B \cup {ps}))
  <2>1. PICK O : O = OriginsOf(B \cup {ps})
    OBVIOUS
  <2>2. OriginsOf(B) \subseteq O
    BY <2>1, SettledMore
  <2>3. OriginsIn(s.deck, O)
    BY <2>2 DEF OriginsIn
  <2>4. \A ref \in CardsGained(ps) : <<ref.id, ref.floor>> \in O
    BY <2>1 DEF OriginsOf
  <2> QED
    BY <1>2, <2>1, <2>3, <2>4, CardsOrigins
<1>4. CASE ps = EmptyStats
  <2>1. "NOTFOUND" \in t.warnings
    BY <1>1, <1>4, EmptyStatsFacts
  <2> QED
    BY <1>1, <1>3, <2>1 DEF Agrees, Clean
<1>5. CASE (\A l \in Lists : ps[l] = point.stats[l]) /\ ps.hp = real.hp
  <2>1. /\ ApplyCards(s, ps) = ApplyCards(s, point.stats) /\ RelicReplay(s, ps) = RelicReplay(s, point.stats)
        /\ \A k : Change(ps, k) = Change(point.stats, k)
        /\ SaysLess(ps, point.stats) /\ SaysLess(point.stats, ps)
    BY <1>5, ListsDecide DEF SaysLess
  <2>2. /\ \A qs \in B \cup {point.stats} : \E rs \in B \cup {ps} : SaysLess(qs, rs)
        /\ \A qs \in B \cup {ps} : \E rs \in B \cup {point.stats} : SaysLess(qs, rs)
    BY <2>1 DEF SaysLess
  <2>3. /\ SettledBy(B \cup {ps}) => SettledBy(B \cup {point.stats})
        /\ OriginsOf(B \cup {point.stats}) \subseteq OriginsOf(B \cup {ps})
    BY <2>2, SettledLess
  <2>4. ASSUME "NOTFOUND" \notin t.warnings
        PROVE  /\ OriginsIn(real.deck, OriginsOf(B \cup {ps}))
               /\ t.hp = real.hp /\ \A k \in Keys : Tally(t, k) = Tally(real, k)
    <3>1. "NOTFOUND" \notin s.warnings
      BY <1>1, <2>4
    <3>2. /\ \A k \in Keys : Tally(real, k) = Tally(s, k) + Change(point.stats, k)
          /\ OriginsIn(real.deck, OriginsOf(B \cup {point.stats}))
      BY <3>1 DEF PointInv
    <3>3. OriginsIn(real.deck, OriginsOf(B \cup {ps}))
      BY <2>3, <3>2 DEF OriginsIn
    <3> QED
      BY <1>1, <1>5, <2>1, <2>4, <3>2, <3>3
  <2>5. ASSUME Clean(t), SettledBy(B \cup {ps})
        PROVE  SameAt(t.deck, real.deck) /\ t.relics = real.relics
    <3>1. Clean(ApplyCards(s, ps)) /\ Clean(s)
      BY <1>1, <2>5 DEF Clean
    <3>2. SettledBy(B \cup {point.stats})
      BY <2>3, <2>5
    <3>3. SameAt(ApplyCards(s, point.stats).deck, real.deck) /\ RelicReplay(s, point.stats).relics = real.relics
      BY <2>1, <3>1, <3>2 DEF PointInv
    <3> QED
      BY <1>2, <2>1, <3>3
  <2> QED
    BY <1>1, <1>3, <2>4, <2>5 DEF Agrees
<1> QED
  BY <1>4, <1>5 DEF RecordOf

LEMMA PointOpens ==
    ASSUME NEW t \in PlayerStates, NEW C, NEW real \in PlayerStates, Agrees(t, C, real),
           "NOTFOUND" \notin t.warnings => OriginsIn(real.deck, OriginsOf(C))
    PROVE  PointInv(t, C, NewPoint(real), real)
<1>1. NewPoint(real).stats = EmptyStats /\ NewPoint(real).entered = real
  BY DEF NewPoint
<1>2. /\ ApplyCards(t, EmptyStats) = t /\ RelicReplay(t, EmptyStats) = t
      /\ \A k : Change(EmptyStats, k) = 0
  BY EmptyStatsFacts
<1>3. /\ SettledBy(C \cup {EmptyStats}) => SettledBy(C)
      /\ OriginsOf(C) \subseteq OriginsOf(C \cup {EmptyStats})
  BY SettledMore
<1>4. ASSUME "NOTFOUND" \notin t.warnings
      PROVE  /\ \A k \in Keys : Tally(real, k) = Tally(t, k) + Change(EmptyStats, k)
             /\ OriginsIn(real.deck, OriginsOf(C \cup {EmptyStats}))
  <2>1. \A k \in Keys : Tally(t, k) = Tally(real, k) /\ Tally(t, k) \in Nat
    BY <1>4, TallyNat DEF Agrees
  <2>2. \A k \in Keys : Tally(real, k) = Tally(t, k) + Change(EmptyStats, k)
    BY <1>2, <2>1
  <2>3. OriginsIn(real.deck, OriginsOf(C \cup {EmptyStats}))
    BY <1>3, <1>4 DEF OriginsIn
  <2> QED
    BY <2>2, <2>3
<1>5. ASSUME SettledBy(C \cup {EmptyStats}), Clean(t)
      PROVE  SameAt(t.deck, real.deck) /\ t.relics = real.relics
  BY <1>3, <1>5 DEF Agrees
<1> QED
  BY <1>1, <1>2, <1>4, <1>5 DEF PointInv

-----------------------------------------------------------------------------
(***************************************************************************)
(* The pass over the points.                                               *)
(***************************************************************************)
Truthful(s, B, truth) == Agrees(s, B, truth)

PassInv(pass, history, truths, rooms) ==
    /\ pass \in PassRec /\ pass.point = Len(history) + 1
    /\ OriginsIn(pass.state.deck, OriginsOf(Befores(history, Len(history) + 1)))
    /\ Len(truths) = Len(pass.encounters) + rooms
    /\ \A n \in 1..Len(pass.encounters) :
         /\ pass.encounters[n].point \in 1..Len(history)
         /\ Truthful(pass.encounters[n].state, Befores(history, pass.encounters[n].point), truths[n])
    /\ \A n \in 1..Len(truths) :
         n > Len(pass.encounters) => Truthful(pass.state, Befores(history, Len(history) + 1), truths[n])

LEMMA BeforesGrow ==
    ASSUME NEW history \in Seq(HistoryRec), NEW x \in HistoryRec
    PROVE  /\ \A p \in 1..(Len(history) + 1) : Befores(Append(history, x), p) = Befores(history, p)
           /\ Len(Append(history, x)) = Len(history) + 1
           /\ Befores(Append(history, x), Len(history) + 2) = Befores(history, Len(history) + 1) \cup {x.stats}
<1>1. PICK more, n : more = Append(history, x) /\ n = Len(history)
  OBVIOUS
<1>2. n \in Nat /\ Len(more) = n + 1 /\ more[n + 1] = x /\ \A i \in 1..n : more[i] = history[i]
  BY <1>1
<1>3. ASSUME NEW p \in 1..(n + 1) PROVE Befores(more, p) = Befores(history, p)
  <2>1. \A q \in 1..(p - 1) : more[q] = history[q]
    BY <1>2
  <2> QED
    BY <2>1 DEF Befores
<1>4. Befores(more, n + 2) = Befores(history, n + 1) \cup {x.stats}
  <2>1. 1..((n + 2) - 1) = (1..((n + 1) - 1)) \cup {n + 1}
    BY <1>2
  <2>2. \A q \in 1..((n + 1) - 1) : more[q] = history[q]
    BY <1>2
  <2> QED
    BY <1>2, <2>1, <2>2 DEF Befores
<1> QED
  BY <1>1, <1>2, <1>3, <1>4

LEMMA EncounterTyped ==
    ASSUME NEW s \in PlayerStates, NEW p \in Nat, NEW r \in Nat
    PROVE  Encounter(s, p, r) \in EncounterRec /\ Encounter(s, p, r).state = s /\ Encounter(s, p, r).point = p
  BY DEF Encounter, EncounterRec, HpStatus

LEMMA PassMoves ==
    ASSUME NEW history \in Seq(HistoryRec), NEW truths \in Seq(PlayerStates), NEW point \in PointRec,
           NEW real \in PlayerStates, NEW pass, pass = ReconstructAll(history),
           PassInv(pass, history, truths, point.rooms),
           PointInv(pass.state, Befores(history, Len(history) + 1), point, real),
           NEW x \in HistoryRec, x.rooms = point.rooms, RecordOf(x.stats, point.stats, real),
           NEW more, more = Append(history, x), NEW next, next = ReconstructAll(more)
    PROVE  /\ PassInv(next, more, truths, 0)
           /\ PointInv(next.state, Befores(more, Len(more) + 1), NewPoint(real), real)
<1> DEFINE n == Len(history)
           B == Befores(history, n + 1)
<1>1. /\ pass \in PassRec /\ pass.point = n + 1 /\ OriginsIn(pass.state.deck, OriginsOf(B))
      /\ Len(truths) = Len(pass.encounters) + point.rooms /\ n \in Nat
  BY DEF PassInv
<1>2. /\ pass.state \in PlayerStates /\ pass.encounters \in Seq(EncounterRec) /\ x.stats \in StatsRec
      /\ x.rooms \in Nat
  BY <1>1 DEF PassRec, HistoryRec
<1>3. next = ReconstructPoint(pass, x)
  BY HistoryAppend
<1>4. PICK s, t, ps : s = pass.state /\ ps = x.stats /\ t = ApplyPointStats(s, ps)
  OBVIOUS
<1>5. PICK news : news = [r \in 1..x.rooms |-> Encounter(s, n + 1, r)]
  OBVIOUS
<1>6. next = [state |-> t, point |-> (n + 1) + 1, encounters |-> pass.encounters \o news]
  BY <1>1, <1>3, <1>4, <1>5 DEF ReconstructPoint
<1>7. news \in Seq(EncounterRec) /\ Len(news) = x.rooms
      /\ \A r \in 1..x.rooms : news[r].state = s /\ news[r].point = n + 1
  <2>1. \A r \in 1..x.rooms : /\ Encounter(s, n + 1, r) \in EncounterRec
                              /\ Encounter(s, n + 1, r).state = s /\ Encounter(s, n + 1, r).point = n + 1
    <3>1. n + 1 \in Nat /\ s \in PlayerStates /\ \A r \in 1..x.rooms : r \in Nat
      BY <1>1, <1>2, <1>4
    <3> HIDE DEF n
    <3> QED
      BY <3>1, EncounterTyped
  <2>2. PICK R \in Nat : R = x.rooms
    BY <1>2
  <2>3. news \in [1..R -> EncounterRec] /\ DOMAIN news = 1..R
    BY <1>5, <2>1, <2>2
  <2>4. news \in Seq(EncounterRec)
    BY ONLY <2>3, R \in Nat
  <2>5. Len(news) = R
    BY ONLY <2>3, <2>4, R \in Nat
  <2>6. \A r \in 1..x.rooms : news[r] = Encounter(s, n + 1, r)
    BY <1>5
  <2> QED
    BY <2>1, <2>2, <2>4, <2>5, <2>6
<1>8. PICK encs, E : encs = pass.encounters \o news /\ E = Len(pass.encounters)
  OBVIOUS
<1>9. /\ encs \in Seq(EncounterRec) /\ Len(encs) = E + x.rooms /\ E \in Nat
      /\ \A i \in 1..E : encs[i] = pass.encounters[i]
      /\ \A i \in 1..x.rooms : encs[E + i] = news[i]
  <2>1. PICK olds : olds = pass.encounters
    OBVIOUS
  <2>2. olds \in Seq(EncounterRec) /\ news \in Seq(EncounterRec)
    BY <1>2, <1>7, <2>1
  <2>3. /\ olds \o news \in Seq(EncounterRec) /\ Len(olds \o news) = Len(olds) + Len(news)
        /\ \A j \in 1..Len(olds) : (olds \o news)[j] = olds[j]
        /\ \A j \in 1..Len(news) : (olds \o news)[Len(olds) + j] = news[j]
    BY <2>2, ConcatLength
  <2>4. Len(olds) \in Nat
    BY <2>2
  <2>5. encs = olds \o news /\ E = Len(olds) /\ Len(news) = x.rooms
    BY <1>7, <1>8, <2>1
  <2> QED
    BY <2>1, <2>3, <2>4, <2>5
<1>10. /\ t \in PlayerStates
       /\ Agrees(t, B \cup {ps}, real)
       /\ OriginsIn(t.deck, OriginsOf(B \cup {ps}))
       /\ "NOTFOUND" \notin t.warnings => OriginsIn(real.deck, OriginsOf(B \cup {ps}))
  <2>1. PICK C : C = B
    OBVIOUS
  <2>2. s \in PlayerStates /\ PointInv(s, C, point, real) /\ OriginsIn(s.deck, OriginsOf(C)) /\ ps \in StatsRec
        /\ RecordOf(ps, point.stats, real)
    BY <1>1, <1>2, <1>4, <2>1
  <2>3. /\ t \in PlayerStates
        /\ Agrees(t, C \cup {ps}, real)
        /\ OriginsIn(t.deck, OriginsOf(C \cup {ps}))
        /\ "NOTFOUND" \notin t.warnings => OriginsIn(real.deck, OriginsOf(C \cup {ps}))
    <3>1. t = ApplyPointStats(s, ps)
      BY <1>4
    <3> QED
      BY ONLY <2>2, <3>1, PointCloses, point \in PointRec, real \in PlayerStates
  <2> QED
    BY <2>1, <2>3
<1>11. /\ Len(more) = n + 1 /\ Befores(more, n + 2) = B \cup {ps}
       /\ \A p \in 1..(n + 1) : Befores(more, p) = Befores(history, p)
  BY <1>4, BeforesGrow
<1>12. Len(more) + 1 = n + 2 /\ (n + 1) + 1 = n + 2
  BY <1>1, <1>11
<1> HIDE DEF B
<1>13. PointInv(t, B \cup {ps}, NewPoint(real), real)
  BY <1>10, PointOpens
<1>14. next \in PassRec /\ next.state = t /\ next.point = n + 2 /\ next.encounters = encs
  BY <1>1, <1>6, <1>8, <1>9, <1>10, <1>12 DEF PassRec
<1>15. Len(truths) = Len(encs) + 0
  BY <1>1, <1>8, <1>9
<1>16. ASSUME NEW i \in 1..Len(encs)
       PROVE  encs[i].point \in 1..Len(more) /\ Truthful(encs[i].state, Befores(more, encs[i].point), truths[i])
  <2>1. CASE i <= E
    <3>1. i \in 1..E /\ encs[i] = pass.encounters[i]
      BY <1>9, <2>1
    <3>2. pass.encounters[i].point \in 1..n /\ Truthful(pass.encounters[i].state, Befores(history, pass.encounters[i].point), truths[i])
      BY <1>8, <3>1 DEF PassInv
    <3>3. pass.encounters[i].point \in 1..(n + 1)
      BY <1>1, <3>2
    <3> QED
      BY <1>11, <3>1, <3>2, <3>3
  <2>2. CASE i > E
    <3>1. i - E \in 1..x.rooms /\ E + (i - E) = i
      BY <1>2, <1>9, <2>2
    <3>2. encs[i] = news[i - E]
      BY <1>9, <3>1
    <3>3. encs[i].state = s /\ encs[i].point = n + 1
      BY <1>7, <3>1, <3>2
    <3>4. n + 1 \in 1..(n + 1)
      BY <1>1
    <3>5. Befores(more, encs[i].point) = B
      BY <1>11, <3>3, <3>4 DEF B
    <3>6. i \in 1..Len(truths) /\ i > Len(pass.encounters)
      BY <1>1, <1>8, <1>9, <2>2
    <3>7. Truthful(pass.state, B, truths[i])
      BY <3>6 DEF PassInv, B
    <3> QED
      BY <1>4, <1>11, <3>3, <3>4, <3>5, <3>7
  <2> QED
    BY <1>9, <2>1, <2>2
<1>17. \A i \in 1..Len(truths) : ~(i > Len(encs))
  BY <1>9, <1>15
<1>18. PassInv(next, more, truths, 0)
  BY <1>10, <1>11, <1>12, <1>14, <1>15, <1>16, <1>17 DEF PassInv
<1> QED
  BY <1>11, <1>12, <1>13, <1>14, <1>18

-----------------------------------------------------------------------------
(***************************************************************************)
(* The run, step by step.                                                  *)
(***************************************************************************)
RunInv(r) ==
    /\ r \in RunRec /\ "NOTFOUND" \notin r.real.warnings
    /\ PassInv(ReconstructAll(r.history), r.history, r.truths, r.point.rooms)
    /\ PointInv(ReconstructAll(r.history).state, Befores(r.history, Len(r.history) + 1), r.point, r.real)

LEMMA RunFields ==
    ASSUME NEW r \in RunRec
    PROVE  /\ r.real \in PlayerStates /\ r.point \in PointRec /\ r.history \in Seq(HistoryRec)
           /\ r.truths \in Seq(PlayerStates) /\ r.events \in Nat /\ Len(r.history) + 1 \in Nat
           /\ r.pc \in {"none", "playing", "recorded", "reconstructed"}
           /\ r.point.rooms \in Nat /\ r.point.stats \in StatsRec /\ r.point.entered \in PlayerStates
<1>1. /\ r.real \in PlayerStates /\ r.point \in PointRec /\ r.history \in Seq(HistoryRec)
      /\ r.truths \in Seq(PlayerStates) /\ r.events \in Nat
      /\ r.pc \in {"none", "playing", "recorded", "reconstructed"}
  BY DEF RunRec
<1>2. Len(r.history) \in Nat
  BY <1>1
<1>3. r.point.rooms \in Nat /\ r.point.stats \in StatsRec /\ r.point.entered \in PlayerStates
  BY <1>1 DEF PointRec
<1> QED
  BY <1>1, <1>2, <1>3

LivedOn(r, real, list, x) ==
    [r EXCEPT !.real = real, !.point.stats[list] = Append(@, x), !.events = @ + 1]

LEMMA RunLives ==
    ASSUME NEW r, RunInv(r), NEW real, NEW list, NEW x, Lived(r.real, real, list, x),
           NEW n, n = LivedOn(r, real, list, x)
    PROVE  RunInv(n) /\ n.pc = r.pc
<1>0. r \in RunRec /\ real \in PlayerStates /\ list \in Lists /\ x \in EntriesOf(list)
      /\ "NOTFOUND" \notin real.warnings
  BY DEF RunInv, Lived
<1>1. /\ r.point \in PointRec /\ r.events \in Nat /\ r.point.stats \in StatsRec /\ r.point.rooms \in Nat
  BY <1>0, RunFields
<1>2. PICK qs : qs = WithEntry(r.point.stats, list, x)
  OBVIOUS
<1>3. qs \in StatsRec
  BY <1>0, <1>1, <1>2, WithEntryFacts
<1>4. PICK point : point = [r.point EXCEPT !.stats = qs]
  OBVIOUS
<1>5. [r.point EXCEPT !.stats[list] = Append(@, x)] = point
  <2>1. PICK e : e = Append(r.point.stats[list], x)
    OBVIOUS
  <2>2. qs = [r.point.stats EXCEPT ![list] = e]
    BY <1>2, <2>1 DEF WithEntry
  <2>3. [r.point EXCEPT !.stats[list] = e] = [r.point EXCEPT !.stats = qs]
    BY <1>1, <2>2 DEF PointRec
  <2>4. [r.point EXCEPT !.stats[list] = Append(@, x)] = [r.point EXCEPT !.stats[list] = e]
    BY <1>1, <2>1 DEF PointRec
  <2> QED
    BY <1>4, <2>3, <2>4
<1>6. n = [r EXCEPT !.real = real, !.point = [r.point EXCEPT !.stats[list] = Append(@, x)],
                    !.events = @ + 1]
  BY <1>0 DEF RunRec, LivedOn
<1>7. PICK ev \in Nat : ev = r.events + 1
  BY <1>1
<1>70. n = [r EXCEPT !.real = real, !.point = point, !.events = ev]
  BY <1>0, <1>5, <1>6, <1>7 DEF RunRec
<1>8. point \in PointRec /\ point.rooms = r.point.rooms /\ point.stats = qs /\ point.entered = r.point.entered
  BY <1>1, <1>3, <1>4 DEF PointRec
<1>9. /\ n \in RunRec /\ n.real = real /\ n.point = point /\ n.history = r.history /\ n.truths = r.truths
      /\ n.pc = r.pc
  BY <1>0, <1>7, <1>70, <1>8 DEF RunRec
<1>10. PassInv(ReconstructAll(n.history), n.history, n.truths, n.point.rooms)
  BY <1>8, <1>9 DEF RunInv
<1>11. PICK s, B : s = ReconstructAll(r.history).state /\ B = Befores(r.history, Len(r.history) + 1)
  OBVIOUS
<1>12. s \in PlayerStates /\ OriginsIn(s.deck, OriginsOf(B)) /\ PointInv(s, B, r.point, r.real)
  BY <1>11 DEF RunInv, PassInv, PassRec
<1>13. PICK old, was : old = r.point /\ was = r.real
  OBVIOUS
<1>14. /\ old \in PointRec /\ PointInv(s, B, old, was) /\ Lived(was, real, list, x)
       /\ point.stats = WithEntry(old.stats, list, x) /\ point.entered = old.entered
  BY <1>1, <1>2, <1>8, <1>12, <1>13
<1>15. PointInv(s, B, point, real)
  BY ONLY <1>8, <1>12, <1>14, PointLives
<1> QED
  BY <1>0, <1>9, <1>10, <1>11, <1>15 DEF RunInv

LEMMA RunHurts ==
    ASSUME NEW r, RunInv(r), NEW hp \in Int,
           NEW n, n = [r EXCEPT !.real.hp = hp, !.events = @ + 1]
    PROVE  RunInv(n) /\ n.pc = r.pc
<1>0. r \in RunRec
  BY DEF RunInv
<1>1. r.point \in PointRec /\ r.events \in Nat /\ r.real \in PlayerStates /\ r.point.rooms \in Nat
      /\ r.point.stats \in StatsRec
  BY <1>0, RunFields
<1>2. PICK point : point = r.point
  OBVIOUS
<1>3. PICK real : real = [r.real EXCEPT !.hp = hp]
  OBVIOUS
<1>4. point \in PointRec /\ point.rooms = r.point.rooms /\ point.stats = r.point.stats /\ point.entered = r.point.entered
  BY <1>1, <1>2 DEF PointRec
<1>5. /\ real \in PlayerStates /\ real.deck = r.real.deck /\ real.relics = r.real.relics
      /\ real.potions = r.real.potions /\ real.warnings = r.real.warnings
  BY <1>1, <1>3 DEF PlayerStates
<1>60. PICK ev \in Nat : ev = r.events + 1
  BY <1>1
<1>6. n = [r EXCEPT !.real = real, !.point = point, !.events = ev]
  BY <1>0, <1>2, <1>3, <1>60 DEF RunRec
<1>7. /\ n \in RunRec /\ n.real = real /\ n.point = point /\ n.history = r.history /\ n.truths = r.truths
      /\ n.pc = r.pc
  BY <1>0, <1>4, <1>5, <1>6 DEF RunRec
<1>8. PassInv(ReconstructAll(n.history), n.history, n.truths, n.point.rooms)
  BY <1>4, <1>7 DEF RunInv
<1>9. \A k \in Keys : Tally(real, k) = Tally(r.real, k)
  BY <1>1, <1>5, TallyMoves
<1>10. PICK s, B : s = ReconstructAll(r.history).state /\ B = Befores(r.history, Len(r.history) + 1)
  OBVIOUS
<1>11. PointInv(s, B, r.point, r.real)
  BY <1>10 DEF RunInv
<1>12. PointInv(s, B, point, real)
  BY <1>4, <1>5, <1>9, <1>11 DEF PointInv
<1> QED
  BY <1>5, <1>7, <1>8, <1>10, <1>12 DEF RunInv

LEMMA RunFights ==
    ASSUME NEW r, RunInv(r),
           NEW n, n = [r EXCEPT !.point.rooms = @ + 1,
                                !.truths = Append(@, r.point.entered)]
    PROVE  RunInv(n) /\ n.pc = r.pc
<1>0. r \in RunRec
  BY DEF RunInv
<1>1. r.point \in PointRec /\ r.real \in PlayerStates /\ r.point.rooms \in Nat /\ r.truths \in Seq(PlayerStates)
      /\ r.point.entered \in PlayerStates
  BY <1>0, RunFields
<1>20. PICK rooms \in Nat : rooms = r.point.rooms + 1
  BY <1>1
<1>21. PICK point : point = [r.point EXCEPT !.rooms = rooms]
  OBVIOUS
<1>2. point = [r.point EXCEPT !.rooms = @ + 1]
  BY <1>1, <1>20, <1>21 DEF PointRec
<1>3. PICK truth : truth = r.point.entered
  OBVIOUS
<1>4. truth \in PlayerStates
  BY <1>1, <1>3
<1>5. PICK truths : truths = Append(r.truths, truth)
  OBVIOUS
<1>6. /\ truths \in Seq(PlayerStates) /\ Len(truths) = Len(r.truths) + 1 /\ truths[Len(r.truths) + 1] = truth
      /\ Len(r.truths) \in Nat /\ \A i \in 1..Len(r.truths) : truths[i] = r.truths[i]
  BY <1>1, <1>4, <1>5
<1>7. point \in PointRec /\ point.rooms = r.point.rooms + 1 /\ point.stats = r.point.stats /\ point.entered = r.point.entered
  <2>1. point \in PointRec /\ point.rooms = rooms /\ point.stats = r.point.stats /\ point.entered = r.point.entered
    BY <1>1, <1>21 DEF PointRec
  <2> QED
    BY <1>20, <2>1
<1>8. n = [r EXCEPT !.point = point, !.truths = truths]
  BY <1>0, <1>2, <1>3, <1>5 DEF RunRec
<1>9. /\ n \in RunRec /\ n.real = r.real /\ n.point = point /\ n.history = r.history /\ n.truths = truths
      /\ n.pc = r.pc
  BY <1>0, <1>6, <1>7, <1>8 DEF RunRec
<1>10. PICK pass, h, B : pass = ReconstructAll(r.history) /\ h = r.history /\ B = Befores(h, Len(h) + 1)
  OBVIOUS
<1>11. PassInv(pass, h, r.truths, r.point.rooms) /\ PointInv(pass.state, B, r.point, r.real)
  BY <1>10 DEF RunInv
<1>12. PointInv(pass.state, B, point, r.real)
  BY <1>7, <1>11 DEF PointInv
<1>13. Truthful(pass.state, B, truth)
  BY <1>3, <1>11 DEF Truthful, PointInv
<1>14. /\ pass \in PassRec /\ Len(r.truths) = Len(pass.encounters) + r.point.rooms
  BY <1>11 DEF PassInv
<1>15. Len(pass.encounters) \in Nat
  BY <1>14 DEF PassRec
<1>16. PassInv(pass, h, truths, point.rooms)
  <2>1. Len(truths) = Len(pass.encounters) + point.rooms
    BY <1>1, <1>6, <1>7, <1>14, <1>15
  <2>2. ASSUME NEW i \in 1..Len(pass.encounters)
        PROVE  /\ pass.encounters[i].point \in 1..Len(h)
               /\ Truthful(pass.encounters[i].state, Befores(h, pass.encounters[i].point), truths[i])
    <3>1. i \in 1..Len(r.truths)
      BY <1>1, <1>14, <1>15
    <3>2. truths[i] = r.truths[i]
      BY <1>6, <3>1
    <3> QED
      BY <1>11, <3>2 DEF PassInv
  <2>3. ASSUME NEW i \in 1..Len(truths), i > Len(pass.encounters)
        PROVE  Truthful(pass.state, B, truths[i])
    <3>1. CASE i = Len(r.truths) + 1
      BY <1>6, <1>13, <3>1
    <3>2. CASE i # Len(r.truths) + 1
      <4>1. i \in 1..Len(r.truths) /\ truths[i] = r.truths[i]
        BY <1>6, <3>2
      <4> QED
        BY <1>10, <1>11, <2>3, <4>1 DEF PassInv
    <3> QED
      BY <3>1, <3>2
  <2> QED
    BY <1>10, <1>11, <2>1, <2>2, <2>3 DEF PassInv
<1> QED
  BY <1>9, <1>10, <1>12, <1>16 DEF RunInv

GoneOn(r, recorded, pc) ==
    [r EXCEPT !.history = Append(@, [rooms |-> r.point.rooms,
                                     stats |-> IF recorded THEN [r.point.stats EXCEPT !.hp = r.real.hp]
                                               ELSE EmptyStats]),
              !.point = NewPoint(r.real), !.pc = pc]

LEMMA RunGoesOn ==
    ASSUME NEW r, RunInv(r), NEW recorded \in BOOLEAN, NEW pc, pc \in {"playing", "recorded"},
           NEW n, n = GoneOn(r, recorded, pc)
    PROVE  RunInv(n) /\ n.pc = pc
<1>0. r \in RunRec
  BY DEF RunInv
<1>1. /\ r.point \in PointRec /\ r.real \in PlayerStates /\ r.point.rooms \in Nat /\ r.truths \in Seq(PlayerStates)
      /\ r.history \in Seq(HistoryRec) /\ r.point.stats \in StatsRec
  BY <1>0, RunFields
<1>2. PICK ps : ps = IF recorded THEN [r.point.stats EXCEPT !.hp = r.real.hp] ELSE EmptyStats
  OBVIOUS
<1>3. ps \in StatsRec /\ RecordOf(ps, r.point.stats, r.real)
  <2>1. CASE recorded
    <3>1. ps = [r.point.stats EXCEPT !.hp = r.real.hp]
      BY <1>2, <2>1
    <3>2. r.real.hp \in Int
      BY <1>1, StateFields
    <3>3. ps \in StatsRec /\ ps.hp = r.real.hp
      BY <1>1, <3>1, <3>2 DEF StatsRec
    <3>4. \A l \in Lists : ps[l] = r.point.stats[l]
      <4>1. \A l \in Lists : l # "hp"
        BY DEF Lists, CardLists, RelicLists
      <4>2. DOMAIN r.point.stats = Lists \cup {"hp"}
        BY <1>1 DEF StatsRec, Lists, CardLists, RelicLists
      <4> QED
        BY <3>1, <4>1, <4>2
    <3> QED
      BY <3>3, <3>4 DEF RecordOf
  <2>2. CASE ~recorded
    BY <1>2, <2>2, EmptyStatsFacts DEF RecordOf
  <2> QED
    BY <2>1, <2>2
<1>4. PICK x : x = [rooms |-> r.point.rooms, stats |-> ps]
  OBVIOUS
<1>5. x \in HistoryRec /\ x.rooms = r.point.rooms /\ x.stats = ps
  BY <1>1, <1>3, <1>4 DEF HistoryRec
<1>6. PICK more : more = Append(r.history, x)
  OBVIOUS
<1>7. more \in Seq(HistoryRec)
  BY <1>1, <1>5, <1>6
<1>8. n = [r EXCEPT !.history = more, !.point = NewPoint(r.real), !.pc = pc]
  BY <1>0, <1>2, <1>4, <1>6 DEF RunRec, GoneOn
<1>9. NewPoint(r.real) \in PointRec /\ NewPoint(r.real).rooms = 0
  BY <1>1, EmptyStatsFacts DEF NewPoint, PointRec
<1>10. /\ n \in RunRec /\ n.real = r.real /\ n.point = NewPoint(r.real) /\ n.history = more /\ n.truths = r.truths
       /\ n.pc = pc
  BY <1>0, <1>7, <1>8, <1>9 DEF RunRec
<1>11. PICK h, truths, point, real, pass, next :
         /\ h = r.history /\ truths = r.truths /\ point = r.point /\ real = r.real
         /\ pass = ReconstructAll(r.history) /\ next = ReconstructAll(more)
  OBVIOUS
<1>12. /\ h \in Seq(HistoryRec) /\ truths \in Seq(PlayerStates) /\ point \in PointRec /\ real \in PlayerStates
       /\ pass = ReconstructAll(h) /\ PassInv(pass, h, truths, point.rooms)
       /\ PointInv(pass.state, Befores(h, Len(h) + 1), point, real)
       /\ x.rooms = point.rooms /\ RecordOf(x.stats, point.stats, real) /\ more = Append(h, x)
       /\ next = ReconstructAll(more)
  BY <1>1, <1>3, <1>5, <1>6, <1>11 DEF RunInv
<1>13. /\ PassInv(next, more, truths, 0)
       /\ PointInv(next.state, Befores(more, Len(more) + 1), NewPoint(real), real)
  BY ONLY <1>5, <1>12, PassMoves
<1> QED
  BY <1>9, <1>10, <1>11, <1>13 DEF RunInv

-----------------------------------------------------------------------------
(***************************************************************************)
(* What happens to the player is what the log says.                        *)
(***************************************************************************)
LEMMA DeckMoves ==
    ASSUME NEW s \in PlayerStates, NEW deck \in Seq(Cards), NEW new, new = [s EXCEPT !.deck = deck]
    PROVE  /\ new \in PlayerStates /\ new.deck = deck /\ new.relics = s.relics /\ new.potions = s.potions
           /\ new.hp = s.hp /\ new.warnings = s.warnings
  BY DEF PlayerStates

LEMMA DeckLives ==
    ASSUME NEW s \in PlayerStates, "NOTFOUND" \notin s.warnings, NEW deck \in Seq(Cards),
           NEW new, new = [s EXCEPT !.deck = deck], NEW list \in CardLists, NEW x \in EntriesOf(list),
           list = "cards_gained" => TakesCard(s, new, x),
           list = "cards_removed" => GivesCard(s, new, x),
           list = "cards_transformed" => TradesCard(s, new, x),
           list = "upgraded_cards" => Flips(s, new, x, TRUE),
           list = "downgraded_cards" => Flips(s, new, x, FALSE)
    PROVE  Lived(s, new, list, x)
<1>1. /\ new \in PlayerStates /\ new.relics = s.relics /\ new.potions = s.potions
      /\ new.hp = s.hp /\ new.warnings = s.warnings
  BY DeckMoves
<1>2. list \in Lists
  BY DEF Lists
<1> QED
  BY <1>1, <1>2 DEF Lived

LEMMA GainLives ==
    ASSUME NEW s \in PlayerStates, "NOTFOUND" \notin s.warnings, NEW id \in CardIds, NEW floor \in Nat,
           NEW u \in BOOLEAN, NEW tinker \in Tinkers, NEW props \in Tinkers, NEW choices \in Tinkers,
           NEW new, new = [s EXCEPT !.deck = Append(@, Card(id, floor, u, tinker))],
           NEW x, x = [id |-> id, floor |-> floor, upgraded |-> u, props |-> props, choices |-> choices]
    PROVE  Lived(s, new, "cards_gained", x)
<1>1. PICK c : c = Card(id, floor, u, tinker)
  OBVIOUS
<1>2. c \in Cards /\ c.id = id /\ c.floor = floor /\ c.upgraded = u
  BY <1>1 DEF Card, Cards
<1>3. x \in GainRefs /\ x.id = id /\ x.floor = floor /\ x.upgraded = u
  BY DEF GainRefs
<1>4. PICK deck : deck = Append(s.deck, c)
  OBVIOUS
<1>5. deck \in Seq(Cards)
  BY <1>2, <1>4, StateFields
<1>6. new = [s EXCEPT !.deck = deck]
  BY <1>1, <1>4 DEF PlayerStates
<1>7. new.deck = deck
  BY ONLY <1>5, <1>6, s \in PlayerStates, DeckMoves
<1>8. TakesCard(s, new, x)
  BY <1>2, <1>3, <1>4, <1>7 DEF TakesCard
<1>9. PICK l : l = "cards_gained"
  OBVIOUS
<1>10. l \in CardLists /\ x \in EntriesOf(l) /\ l # "cards_removed" /\ l # "cards_transformed"
       /\ l # "upgraded_cards" /\ l # "downgraded_cards"
  BY <1>3, <1>9, ListsMean DEF CardLists
<1>11. Lived(s, new, l, x)
  BY <1>5, <1>6, <1>8, <1>10, DeckLives
<1> QED
  BY <1>9, <1>11

LEMMA RemoveLives ==
    ASSUME NEW s \in PlayerStates, "NOTFOUND" \notin s.warnings, NEW i \in DOMAIN s.deck,
           NEW new, new = [s EXCEPT !.deck = RemoveAt(@, i)],
           NEW x, x = [id |-> s.deck[i].id, floor |-> s.deck[i].floor]
    PROVE  Lived(s, new, "cards_removed", x)
<1>1. s.deck \in Seq(Cards)
  BY StateFields
<1>2. s.deck[i] \in Cards
  BY <1>1
<1>3. x \in LossRefs /\ x.id = s.deck[i].id /\ x.floor = s.deck[i].floor
  BY <1>2 DEF LossRefs, Cards
<1>4. PICK deck : deck = RemoveAt(s.deck, i)
  OBVIOUS
<1>5. deck \in Seq(Cards)
  BY <1>1, <1>4, RemoveAtFacts
<1>6. new = [s EXCEPT !.deck = deck]
  BY <1>4 DEF PlayerStates
<1>7. new.deck = deck
  BY ONLY <1>5, <1>6, s \in PlayerStates, DeckMoves
<1>8. GivesCard(s, new, x)
  BY <1>3, <1>4, <1>7 DEF GivesCard
<1>9. PICK l : l = "cards_removed"
  OBVIOUS
<1>10. l \in CardLists /\ x \in EntriesOf(l) /\ l # "cards_gained" /\ l # "cards_transformed"
       /\ l # "upgraded_cards" /\ l # "downgraded_cards"
  BY <1>3, <1>9, ListsMean DEF CardLists
<1>11. Lived(s, new, l, x)
  BY <1>5, <1>6, <1>8, <1>10, DeckLives
<1> QED
  BY <1>9, <1>11

LEMMA TransformLives ==
    ASSUME NEW s \in PlayerStates, "NOTFOUND" \notin s.warnings, NEW i \in DOMAIN s.deck,
           NEW id \in CardIds, NEW floor \in Nat,
           NEW new, new = [s EXCEPT !.deck = Append(RemoveAt(@, i), Card(id, floor, FALSE, "none"))],
           NEW x, x = [original |-> [id |-> s.deck[i].id, floor |-> s.deck[i].floor],
                       final |-> [id |-> id, floor |-> floor, upgraded |-> FALSE, props |-> "none", choices |-> "none"]]
    PROVE  Lived(s, new, "cards_transformed", x)
<1>1. s.deck \in Seq(Cards)
  BY StateFields
<1>2. s.deck[i] \in Cards
  BY <1>1
<1>30. PICK no \in BOOLEAN, none \in Tinkers : no = FALSE /\ none = "none"
  BY DEF Tinkers
<1>3. PICK o, f :
         /\ o = [id |-> s.deck[i].id, floor |-> s.deck[i].floor]
         /\ f = [id |-> id, floor |-> floor, upgraded |-> no, props |-> none, choices |-> none]
  OBVIOUS
<1>4. o \in LossRefs /\ o.id = s.deck[i].id /\ o.floor = s.deck[i].floor
  BY <1>2, <1>3 DEF LossRefs, Cards
<1>5. f \in GainRefs /\ f.id = id /\ f.floor = floor /\ f.upgraded = no
  BY <1>3 DEF GainRefs
<1>6. x \in TransformRefs /\ x.original = o /\ x.final = f
  BY <1>3, <1>30, <1>4, <1>5 DEF TransformRefs
<1>7. PICK c : c = Card(id, floor, no, none)
  OBVIOUS
<1>8. c \in Cards /\ c.id = id /\ c.floor = floor /\ c.upgraded = no
  BY <1>7 DEF Card, Cards
<1>9. PICK less, deck : less = RemoveAt(s.deck, i) /\ deck = Append(less, c)
  OBVIOUS
<1>10. less \in Seq(Cards)
  BY <1>1, <1>9, RemoveAtFacts
<1>11. deck \in Seq(Cards)
  BY <1>8, <1>9, <1>10
<1>12. new = [s EXCEPT !.deck = deck]
  BY <1>30, <1>7, <1>9 DEF PlayerStates
<1>13. new.deck = deck
  BY ONLY <1>11, <1>12, s \in PlayerStates, DeckMoves
<1>14. TradesCard(s, new, x)
  BY <1>4, <1>5, <1>6, <1>8, <1>9, <1>13 DEF TradesCard
<1>15. PICK l : l = "cards_transformed"
  OBVIOUS
<1>16. l \in CardLists /\ x \in EntriesOf(l) /\ l # "cards_gained" /\ l # "cards_removed"
       /\ l # "upgraded_cards" /\ l # "downgraded_cards"
  BY <1>6, <1>15, ListsMean DEF CardLists
<1>17. Lived(s, new, l, x)
  BY <1>11, <1>12, <1>14, <1>16, DeckLives
<1> QED
  BY <1>15, <1>17

LEMMA FlipLives ==
    ASSUME NEW s \in PlayerStates, "NOTFOUND" \notin s.warnings, NEW i \in DOMAIN s.deck,
           NEW u \in BOOLEAN, s.deck[i].upgraded # u,
           NEW new, new = [s EXCEPT !.deck[i].upgraded = u],
           NEW list, list = IF u THEN "upgraded_cards" ELSE "downgraded_cards"
    PROVE  Lived(s, new, list, s.deck[i].id)
<1>1. s.deck \in Seq(Cards)
  BY StateFields
<1>2. s.deck[i] \in Cards
  BY <1>1
<1>3. PICK c, id : c = [s.deck[i] EXCEPT !.upgraded = u] /\ id = s.deck[i].id
  OBVIOUS
<1>4. c \in Cards /\ c.id = id /\ c.floor = s.deck[i].floor /\ c.upgraded = u /\ id \in CardIds
  BY <1>2, <1>3 DEF Cards
<1>5. PICK deck : deck = [s.deck EXCEPT ![i] = c]
  OBVIOUS
<1>6. deck \in Seq(Cards)
  BY <1>1, <1>4, <1>5, HowManyReplace
<1>7. new = [s EXCEPT !.deck = deck]
  BY <1>3, <1>5 DEF PlayerStates
<1>8. new.deck = deck
  BY ONLY <1>6, <1>7, s \in PlayerStates, DeckMoves
<1>9. Flips(s, new, id, u)
  BY <1>3, <1>4, <1>5, <1>8 DEF Flips
<1>10. /\ list \in CardLists /\ id \in EntriesOf(list) /\ list # "cards_gained" /\ list # "cards_removed"
       /\ list # "cards_transformed"
       /\ (list = "upgraded_cards" => u = TRUE) /\ (list = "downgraded_cards" => u = FALSE)
  BY <1>4, ListsMean DEF CardLists
<1>11. (list = "upgraded_cards" => Flips(s, new, id, TRUE)) /\ (list = "downgraded_cards" => Flips(s, new, id, FALSE))
  BY <1>9, <1>10
<1>12. Lived(s, new, list, id)
  BY <1>6, <1>7, <1>10, <1>11, DeckLives
<1> QED
  BY <1>3, <1>12

LEMMA ItemLives ==
    ASSUME NEW s \in PlayerStates, "NOTFOUND" \notin s.warnings
    PROVE  /\ \A r \in Relics : Lived(s, GainRelic(s, r), "relics_gained", r)
           /\ \A r \in Relics : Contains(s.relics, r) => Lived(s, LoseRelic(s, r), "relics_removed", r)
           /\ \A p \in PotionIds : Lived(s, GainPotion(s, p), "potions_gained", p)
           /\ \A p \in PotionIds : Contains(s.potions, p) => Lived(s, LosePotion(s, p), "potions_lost", p)
<1>1. \A l \in {"relics_gained", "relics_removed", "potions_gained", "potions_lost"} :
        /\ l \in Lists /\ l \notin CardLists /\ l # "cards_gained" /\ l # "cards_removed" /\ l # "cards_transformed"
        /\ l # "upgraded_cards" /\ l # "downgraded_cards"
  BY DEF Lists, CardLists, RelicLists
<1>2. ASSUME NEW l \in {"relics_gained", "relics_removed", "potions_gained", "potions_lost"},
             NEW x \in EntriesOf(l), NEW new, new = ApplyEntry(s, l, x), new \in PlayerStates,
             new.hp = s.hp, new.warnings = s.warnings
      PROVE  Lived(s, new, l, x)
  BY <1>1, <1>2 DEF Lived
<1>3. ASSUME NEW r \in Relics PROVE Lived(s, GainRelic(s, r), "relics_gained", r)
  <2>1. PICK l, new : l = "relics_gained" /\ new = GainRelic(s, r)
    OBVIOUS
  <2>2. new = ApplyEntry(s, l, r) /\ r \in EntriesOf(l)
    BY <2>1, EntriesMean, ListsMean
  <2>3. new \in PlayerStates /\ new.hp = s.hp /\ new.warnings = s.warnings
    BY <2>1, GainRelicEffects DEF RelicsOnly
  <2> QED
    BY <1>2, <2>1, <2>2, <2>3
<1>4. ASSUME NEW r \in Relics, Contains(s.relics, r) PROVE Lived(s, LoseRelic(s, r), "relics_removed", r)
  <2>1. PICK l, new : l = "relics_removed" /\ new = LoseRelic(s, r)
    OBVIOUS
  <2>2. new = ApplyEntry(s, l, r) /\ r \in EntriesOf(l)
    BY <2>1, EntriesMean, ListsMean
  <2>3. new \in PlayerStates /\ new.hp = s.hp /\ new.warnings = s.warnings
    BY <1>4, <2>1, LoseRelicEffects DEF RelicsOnly
  <2> QED
    BY <1>2, <2>1, <2>2, <2>3
<1>5. ASSUME NEW p \in PotionIds PROVE Lived(s, GainPotion(s, p), "potions_gained", p)
  <2>1. PICK l, new : l = "potions_gained" /\ new = GainPotion(s, p)
    OBVIOUS
  <2>2. new = ApplyEntry(s, l, p) /\ p \in EntriesOf(l)
    BY <2>1, EntriesMean, ListsMean
  <2>3. new \in PlayerStates /\ new.hp = s.hp
    BY <2>1, GainPotionEffects DEF PotionsOnly
  <2>4. PICK q : q = Append(s.potions, p)
    OBVIOUS
  <2>5. new = [s EXCEPT !.potions = q]
    BY <2>1, <2>4 DEF GainPotion, PlayerStates
  <2>6. new.warnings = s.warnings
    BY <2>5 DEF PlayerStates
  <2> QED
    BY <1>2, <2>1, <2>2, <2>3, <2>6
<1>6. ASSUME NEW p \in PotionIds, Contains(s.potions, p) PROVE Lived(s, LosePotion(s, p), "potions_lost", p)
  <2>1. PICK l, new : l = "potions_lost" /\ new = LosePotion(s, p)
    OBVIOUS
  <2>2. new = ApplyEntry(s, l, p) /\ p \in EntriesOf(l)
    BY <2>1, EntriesMean, ListsMean
  <2>3. new \in PlayerStates /\ new.hp = s.hp
    BY <2>1, LosePotionEffects DEF PotionsOnly
  <2>4. PICK q : q = WithoutFirst(s.potions, p)
    OBVIOUS
  <2>5. new = [s EXCEPT !.potions = q]
    BY <1>6, <2>1, <2>4 DEF LosePotion, PlayerStates
  <2>6. new.warnings = s.warnings
    BY <2>5 DEF PlayerStates
  <2> QED
    BY <1>2, <2>1, <2>2, <2>3, <2>6
<1> QED
  BY <1>3, <1>4, <1>5, <1>6

-----------------------------------------------------------------------------
(***************************************************************************)
(* The first point.                                                        *)
(***************************************************************************)
LEMMA StartTyped ==
    /\ StartingState \in PlayerStates /\ StartingState.warnings = {}
    /\ OriginsIn(StartingState.deck, {<<id, 1>> : id \in ToSet(StartingDeck)})
<1>1. StartingDeck \in Seq(CardIds) /\ MaxHp \in Int
  BY StartAssumption
<1>2. PICK N \in Nat : N = Len(StartingDeck)
  BY <1>1
<1>3. DOMAIN StartingDeck = 1..N /\ \A i \in 1..N : StartingDeck[i] \in CardIds
  BY <1>1, <1>2
<1>4. PICK no \in BOOLEAN, none \in Tinkers : no = FALSE /\ none = "none"
  BY DEF Tinkers
<1>5. PICK deck : deck = [i \in 1..N |-> Card(StartingDeck[i], 1, no, none)]
  OBVIOUS
<1>6. \A i \in 1..N : /\ Card(StartingDeck[i], 1, no, none) \in Cards
                      /\ Card(StartingDeck[i], 1, no, none).id = StartingDeck[i]
                      /\ Card(StartingDeck[i], 1, no, none).floor = 1
  BY <1>3 DEF Card, Cards
<1>7. deck \in Seq(Cards) /\ DOMAIN deck = 1..N
      /\ \A i \in 1..N : deck[i].id = StartingDeck[i] /\ deck[i].floor = 1
  <2>1. deck \in [1..N -> Cards]
    BY <1>5, <1>6
  <2>2. deck \in Seq(Cards)
    BY ONLY <2>1, N \in Nat
  <2> QED
    BY <1>5, <1>6, <2>2
<1>8. PICK relics : relics = <<StartingRelic>>
  OBVIOUS
<1>9. relics \in Seq(Relics)
  BY <1>8 DEF Relics
<1>10. PICK none2, empty : none2 = {} /\ empty = <<>>
  OBVIOUS
<1>11. none2 \in SUBSET Warnings /\ empty \in Seq(PotionIds)
  BY <1>10
<1>12. StartingState = [deck |-> deck, relics |-> relics, potions |-> empty, hp |-> MaxHp, warnings |-> none2]
  BY <1>3, <1>4, <1>5, <1>8, <1>10 DEF StartingState
<1>13. StartingState \in PlayerStates /\ StartingState.warnings = none2 /\ StartingState.deck = deck
  BY <1>1, <1>7, <1>9, <1>11, <1>12 DEF PlayerStates
<1>14. ASSUME NEW i \in DOMAIN deck
       PROVE  <<deck[i].id, deck[i].floor>> \in {<<id, 1>> : id \in ToSet(StartingDeck)}
  BY <1>2, <1>3, <1>7, <1>14 DEF ToSet
<1> QED
  BY <1>10, <1>13, <1>14 DEF OriginsIn

LEMMA RunOpens ==
    ASSUME NEW pc \in {"none", "playing"}, NEW r, r = [NewRun EXCEPT !.pc = pc]
    PROVE  RunInv(r) /\ r.pc = pc
<1>1. PICK h, B, s : h = <<>> /\ B = Befores(h, Len(h) + 1) /\ s = StartingState
  OBVIOUS
<1>2. s \in PlayerStates /\ s.warnings = {} 
      /\ OriginsIn(s.deck, {<<id, 1>> : id \in ToSet(StartingDeck)})
  BY <1>1, StartTyped
<1>3. h \in Seq(HistoryRec) /\ h \in Seq(PlayerStates) /\ h \in Seq(EncounterRec) /\ Len(h) = 0
  BY <1>1
<1>4. B = {}
  BY <1>1, <1>3 DEF Befores
<1>5. OriginsIn(s.deck, OriginsOf(B))
  BY <1>2, <1>4 DEF OriginsIn, OriginsOf
<1>6. NewPoint(s) \in PointRec /\ NewPoint(s).rooms = 0
  BY <1>2, EmptyStatsFacts DEF NewPoint, PointRec
<1>70. PICK none \in Nat, point \in PointRec : none = 0 /\ point = NewPoint(s)
  BY <1>6
<1>7. r = [pc |-> pc, real |-> s, point |-> point, history |-> h, truths |-> h, events |-> none]
  BY <1>1, <1>2, <1>70 DEF NewRun
<1>71. pc \in {"none", "playing", "recorded", "reconstructed"}
  OBVIOUS
<1>8. /\ r \in RunRec /\ r.pc = pc /\ r.real = s /\ r.point = NewPoint(s) /\ r.history = h /\ r.truths = h
  <2>1. /\ r \in RunRec /\ r.pc = pc /\ r.real = s /\ r.point = point /\ r.history = h /\ r.truths = h
    BY ONLY <1>2, <1>3, <1>7, <1>71, none \in Nat, point \in PointRec DEF RunRec
  <2> QED
    BY <1>70, <2>1
<1>9. PICK pass : pass = ReconstructStart
  OBVIOUS
<1>10. ReconstructAll(h) = pass
  BY <1>1, <1>9, HistoryNothing
<1>11. pass \in PassRec /\ pass.state = s /\ pass.point = 1 /\ pass.encounters = h
  BY <1>1, <1>2, <1>3, <1>9 DEF ReconstructStart, PassRec
<1>12. PassInv(pass, h, h, 0)
  BY <1>1, <1>3, <1>5, <1>11 DEF PassInv
<1>13. Agrees(s, B, s)
  BY <1>2 DEF Agrees, SameAt
<1>14. PointInv(s, B, NewPoint(s), s)
  BY <1>2, <1>5, <1>13, PointOpens
<1> QED
  BY <1>1, <1>2, <1>6, <1>8, <1>10, <1>11, <1>12, <1>14 DEF RunInv

-----------------------------------------------------------------------------
(***************************************************************************)
(* The steps of the run and of the scripts.                                *)
(***************************************************************************)
Records(history) ==
    LET encounters == ReconstructEncounters(history)
    IN [i \in DOMAIN encounters |->
          [encounter |-> encounters[i], status |-> ClassifyRestoreStatus(encounters[i])]]
Dealt(f) ==
    \E k \in DOMAIN f.records : \E dealt \in SUBSET DOMAIN f.records[k].encounter.state.deck :
       /\ Trusted(f.records[k])
       /\ f.scenario = <<[of |-> k, spec |-> Scenario(f.records[k].encounter, dealt)]>>
FloorsInv(r, f) ==
    /\ r.pc # "reconstructed" => f = NoFloors
    /\ r.pc = "reconstructed" => /\ f = [records |-> Records(r.history), matches |-> f.matches, scenario |-> f.scenario]
                                 /\ f.scenario = <<>> \/ Dealt(f)
FloorInv == RunInv(run) /\ FloorsInv(run, floors)

LEMMA PlayKeeps ==
    ASSUME FloorInv, NEW real, NEW list, NEW x, Happens(real, list, x), Lived(run.real, real, list, x)
    PROVE  FloorInv'
<1>1. PICK r, n : r = run /\ n = run'
  OBVIOUS
<1>2. RunInv(r) /\ Lived(r.real, real, list, x) /\ r.pc = "playing" /\ n = LivedOn(r, real, list, x)
  BY <1>1 DEF FloorInv, Happens, LivedOn
<1>3. RunInv(n) /\ n.pc = r.pc
  BY ONLY <1>2, RunLives
<1>4. floors' = floors /\ floors = NoFloors /\ n.pc = "playing"
  BY <1>1, <1>2, <1>3 DEF FloorInv, FloorsInv, Happens
<1>5. FloorsInv(n, floors')
  BY <1>4 DEF FloorsInv
<1> QED
  BY <1>1, <1>3, <1>5 DEF FloorInv

LEMMA HpKeeps ==
    ASSUME FloorInv, NEW hp \in 1..MaxHp, PlayHp(hp)
    PROVE  FloorInv'
<1>1. PICK r, n : r = run /\ n = run'
  OBVIOUS
<1>2. RunInv(r) /\ r.pc = "playing" /\ hp \in Int
      /\ n = [r EXCEPT !.real.hp = hp, !.events = @ + 1]
  BY <1>1, StartAssumption DEF FloorInv, PlayHp
<1>3. RunInv(n) /\ n.pc = r.pc
  BY ONLY <1>2, RunHurts
<1>4. floors' = floors /\ floors = NoFloors /\ n.pc = "playing"
  BY <1>1, <1>2, <1>3 DEF FloorInv, FloorsInv, PlayHp
<1>5. FloorsInv(n, floors')
  BY <1>4 DEF FloorsInv
<1> QED
  BY <1>1, <1>3, <1>5 DEF FloorInv

LEMMA CombatKeeps ==
    ASSUME FloorInv, PlayCombat
    PROVE  FloorInv'
<1>1. PICK r, n : r = run /\ n = run'
  OBVIOUS
<1>2. RunInv(r) /\ r.pc = "playing"
      /\ n = [r EXCEPT !.point.rooms = @ + 1,
                       !.truths = Append(@, r.point.entered)]
  BY <1>1 DEF FloorInv, PlayCombat
<1>3. RunInv(n) /\ n.pc = r.pc
  BY ONLY <1>2, RunFights
<1>4. floors' = floors /\ floors = NoFloors /\ n.pc = "playing"
  BY <1>1, <1>2, <1>3 DEF FloorInv, FloorsInv, PlayCombat
<1>5. FloorsInv(n, floors')
  BY <1>4 DEF FloorsInv
<1> QED
  BY <1>1, <1>3, <1>5 DEF FloorInv

LEMMA NextPointKeeps ==
    ASSUME FloorInv, NEW recorded \in BOOLEAN, PlayNextPoint(recorded)
    PROVE  FloorInv'
<1>1. PICK r, n : r = run /\ n = run'
  OBVIOUS
<1>2. PICK pc : pc = IF Len(run.history) + 1 = MaxPoints \/ Len(run.truths) = MaxRooms THEN "recorded" ELSE "playing"
  OBVIOUS
<1>3. pc \in {"playing", "recorded"}
  BY <1>2
<1>4. RunInv(r) /\ r.pc = "playing" /\ n = GoneOn(r, recorded, pc)
  BY <1>1, <1>2 DEF FloorInv, PlayNextPoint, GoneOn
<1>5. RunInv(n) /\ n.pc = pc
  BY ONLY <1>3, <1>4, RunGoesOn, recorded \in BOOLEAN
<1>6. floors' = floors /\ floors = NoFloors /\ n.pc # "reconstructed"
  BY <1>1, <1>3, <1>4, <1>5 DEF FloorInv, FloorsInv, PlayNextPoint
<1>7. FloorsInv(n, floors')
  BY <1>6 DEF FloorsInv
<1> QED
  BY <1>1, <1>5, <1>7 DEF FloorInv

LEMMA ReconstructKeeps ==
    ASSUME FloorInv, ReconstructRun
    PROVE  FloorInv'
<1>1. PICK r, n : r = run /\ n = run'
  OBVIOUS
<1>2. RunInv(r) /\ r.pc = "recorded" /\ n = [r EXCEPT !.pc = "reconstructed"] /\ r \in RunRec /\ floors = NoFloors
  BY <1>1 DEF FloorInv, FloorsInv, ReconstructRun, RunInv
<1>3. /\ n \in RunRec /\ n.pc = "reconstructed" /\ n.real = r.real /\ n.point = r.point
      /\ n.history = r.history /\ n.truths = r.truths
  BY <1>2 DEF RunRec
<1>4. RunInv(n)
  BY <1>2, <1>3 DEF RunInv
<1>5. PICK recs, m : recs = Records(run.history) /\ m = ValidateRun(FinalState(run.history), run.real)
  OBVIOUS
<1>6. floors' = [floors EXCEPT !.records = recs, !.matches = m]
  BY <1>5 DEF ReconstructRun, Records
<1>7. floors' = [records |-> recs, matches |-> m, scenario |-> <<>>]
  BY <1>2, <1>6 DEF NoFloors
<1>8. FloorsInv(n, floors')
  BY <1>1, <1>3, <1>5, <1>7 DEF FloorsInv
<1> QED
  BY <1>1, <1>4, <1>8 DEF FloorInv

LEMMA DrawKeeps ==
    ASSUME FloorInv, NEW k, NEW dealt, DrawScenario(k, dealt)
    PROVE  FloorInv'
<1>1. PICK f, g, spec : f = floors /\ g = floors' /\ spec = <<[of |-> k, spec |-> Scenario(floors.records[k].encounter, dealt)]>>
  OBVIOUS
<1>2. /\ run' = run /\ run.pc = "reconstructed" /\ k \in DOMAIN f.records /\ Trusted(f.records[k])
      /\ dealt \in SUBSET DOMAIN f.records[k].encounter.state.deck
      /\ g = [f EXCEPT !.scenario = spec]
  BY <1>1 DEF DrawScenario
<1>3. f = [records |-> Records(run.history), matches |-> f.matches, scenario |-> f.scenario]
  BY <1>1, <1>2 DEF FloorInv, FloorsInv
<1>4. g = [records |-> f.records, matches |-> f.matches, scenario |-> spec] /\ f.records = Records(run.history)
  BY <1>2, <1>3
<1>5. g.records = f.records /\ g.matches = f.matches /\ g.scenario = spec
  BY <1>4
<1>6. Dealt(g)
  BY <1>1, <1>2, <1>5 DEF Dealt
<1>7. g = [records |-> Records(run.history), matches |-> g.matches, scenario |-> g.scenario]
  BY <1>4, <1>5
<1>8. FloorsInv(run, g)
  BY <1>2, <1>6, <1>7 DEF FloorsInv
<1> QED
  BY <1>1, <1>2, <1>8 DEF FloorInv

LEMMA FloorStepKeeps ==
    ASSUME FloorInv, ReconstructionStep
    PROVE  FloorInv'
<1>1. PICK s, floor : s = run.real /\ floor = Floor
  OBVIOUS
<1>2. s \in PlayerStates /\ "NOTFOUND" \notin s.warnings /\ floor \in Nat
  <2>1. run \in RunRec
    BY DEF FloorInv, RunInv
  <2> QED
    BY <1>1, <2>1, RunFields DEF FloorInv, RunInv, Floor
<1>3. MadScience \in CardIds
  BY StartAssumption
<1>4. PICK no \in BOOLEAN, yes \in BOOLEAN, none \in Tinkers, chosen \in Tinkers :
        no = FALSE /\ yes = TRUE /\ none = "none" /\ chosen = "chosen"
  BY DEF Tinkers
<1>5. ASSUME NEW id \in CardIds, NEW u \in BOOLEAN, PlayGain(id, u) PROVE FloorInv'
  <2>1. PICK new, x : new = [s EXCEPT !.deck = Append(@, Card(id, floor, u, none))]
                      /\ x = [id |-> id, floor |-> floor, upgraded |-> u, props |-> none, choices |-> none]
    OBVIOUS
  <2>2. Lived(s, new, "cards_gained", x)
    BY ONLY <1>2, <2>1, GainLives, id \in CardIds, u \in BOOLEAN, none \in Tinkers
  <2>3. Happens(new, "cards_gained", x)
    BY <1>1, <1>4, <1>5, <2>1 DEF PlayGain, PlainRef, Ref
  <2> QED
    BY <1>1, <2>2, <2>3, PlayKeeps
<1>6. ASSUME NEW e \in Evidence, PlayTinker(e[1], e[2]) PROVE FloorInv'
  <2>1. PICK props \in Tinkers, choices \in Tinkers : props = e[1] /\ choices = e[2]
    BY DEF Tinkers
  <2>2. PICK new, x : new = [s EXCEPT !.deck = Append(@, Card(MadScience, floor, no, chosen))]
                      /\ x = [id |-> MadScience, floor |-> floor, upgraded |-> no, props |-> props, choices |-> choices]
    OBVIOUS
  <2>3. Lived(s, new, "cards_gained", x)
    BY ONLY <1>2, <1>3, <2>2, GainLives, no \in BOOLEAN, chosen \in Tinkers, props \in Tinkers, choices \in Tinkers
  <2>4. Happens(new, "cards_gained", x)
    BY <1>1, <1>4, <1>6, <2>1, <2>2 DEF PlayTinker, Ref
  <2> QED
    BY <1>1, <2>3, <2>4, PlayKeeps
<1>7. ASSUME NEW i \in DOMAIN Deck, PlayRemove(i) PROVE FloorInv'
  <2>1. i \in DOMAIN s.deck /\ Deck = s.deck
    BY <1>1 DEF Deck
  <2>2. PICK new, x : new = [s EXCEPT !.deck = RemoveAt(@, i)] /\ x = [id |-> s.deck[i].id, floor |-> s.deck[i].floor]
    OBVIOUS
  <2>3. Lived(s, new, "cards_removed", x)
    BY ONLY <1>2, <2>1, <2>2, RemoveLives
  <2>4. Happens(new, "cards_removed", x)
    BY <1>1, <1>7, <2>1, <2>2 DEF PlayRemove
  <2> QED
    BY <1>1, <2>3, <2>4, PlayKeeps
<1>8. ASSUME NEW i \in DOMAIN Deck, PlayUpgrade(i) PROVE FloorInv'
  <2>1. i \in DOMAIN s.deck /\ Deck = s.deck
    BY <1>1 DEF Deck
  <2>2. PICK new, l : new = [s EXCEPT !.deck[i].upgraded = yes] /\ l = IF yes THEN "upgraded_cards" ELSE "downgraded_cards"
    OBVIOUS
  <2>3. s.deck[i].upgraded # yes
    BY <1>4, <1>8, <2>1 DEF PlayUpgrade
  <2>4. Lived(s, new, l, s.deck[i].id)
    BY ONLY <1>2, <2>1, <2>2, <2>3, FlipLives, yes \in BOOLEAN
  <2>5. Happens(new, l, s.deck[i].id)
    BY <1>1, <1>4, <1>8, <2>1, <2>2 DEF PlayUpgrade
  <2> QED
    BY <1>1, <2>4, <2>5, PlayKeeps
<1>9. ASSUME NEW i \in DOMAIN Deck, PlayDowngrade(i) PROVE FloorInv'
  <2>1. i \in DOMAIN s.deck /\ Deck = s.deck
    BY <1>1 DEF Deck
  <2>2. PICK new, l : new = [s EXCEPT !.deck[i].upgraded = no] /\ l = IF no THEN "upgraded_cards" ELSE "downgraded_cards"
    OBVIOUS
  <2>3. s.deck[i].upgraded # no
    BY <1>4, <1>9, <2>1 DEF PlayDowngrade
  <2>4. Lived(s, new, l, s.deck[i].id)
    BY ONLY <1>2, <2>1, <2>2, <2>3, FlipLives, no \in BOOLEAN
  <2>5. Happens(new, l, s.deck[i].id)
    BY <1>1, <1>4, <1>9, <2>1, <2>2 DEF PlayDowngrade
  <2> QED
    BY <1>1, <2>4, <2>5, PlayKeeps
<1>10. ASSUME NEW i \in DOMAIN Deck, NEW id \in CardIds, PlayTransform(i, id) PROVE FloorInv'
  <2>1. i \in DOMAIN s.deck /\ Deck = s.deck
    BY <1>1 DEF Deck
  <2>2. PICK new, x :
          /\ new = [s EXCEPT !.deck = Append(RemoveAt(@, i), Card(id, floor, FALSE, "none"))]
          /\ x = [original |-> [id |-> s.deck[i].id, floor |-> s.deck[i].floor],
                  final |-> [id |-> id, floor |-> floor, upgraded |-> FALSE, props |-> "none", choices |-> "none"]]
    OBVIOUS
  <2>3. Lived(s, new, "cards_transformed", x)
    BY ONLY <1>2, <2>1, <2>2, TransformLives, id \in CardIds
  <2>4. Happens(new, "cards_transformed", x)
    BY <1>1, <1>10, <2>1, <2>2 DEF PlayTransform, PlainRef, Ref
  <2> QED
    BY <1>1, <2>3, <2>4, PlayKeeps
<1>11. ASSUME NEW r \in RelicIds, PlayRelic(r) \/ PlayLoseRelic(r) PROVE FloorInv'
  <2>1. r \in Relics
    BY DEF Relics
  <2>2. CASE PlayRelic(r)
    <3>1. Lived(s, GainRelic(s, r), "relics_gained", r)
      BY <1>2, <2>1, ItemLives
    <3> QED
      BY <1>1, <2>2, <3>1, PlayKeeps DEF PlayRelic
  <2>3. CASE PlayLoseRelic(r)
    <3>1. Lived(s, LoseRelic(s, r), "relics_removed", r)
      BY <1>1, <1>2, <2>1, <2>3, ItemLives DEF PlayLoseRelic
    <3> QED
      BY <1>1, <2>3, <3>1, PlayKeeps DEF PlayLoseRelic
  <2> QED
    BY <1>11, <2>2, <2>3
<1>12. ASSUME NEW p \in PotionIds, PlayPotion(p) \/ PlayLosePotion(p) PROVE FloorInv'
  <2>2. CASE PlayPotion(p)
    <3>1. Lived(s, GainPotion(s, p), "potions_gained", p)
      BY <1>2, ItemLives
    <3> QED
      BY <1>1, <2>2, <3>1, PlayKeeps DEF PlayPotion
  <2>3. CASE PlayLosePotion(p)
    <3>1. Lived(s, LosePotion(s, p), "potions_lost", p)
      BY <1>1, <1>2, <2>3, ItemLives DEF PlayLosePotion
    <3> QED
      BY <1>1, <2>3, <3>1, PlayKeeps DEF PlayLosePotion
  <2> QED
    BY <1>12, <2>2, <2>3
<1> QED
  BY <1>5, <1>6, <1>7, <1>8, <1>9, <1>10, <1>11, <1>12, HpKeeps, CombatKeeps, NextPointKeeps, ReconstructKeeps,
     DrawKeeps DEF ReconstructionStep

-----------------------------------------------------------------------------
(***************************************************************************)
(* What the invariant says of the records and the scenarios.               *)
(***************************************************************************)
LEMMA CountCards ==
    ASSUME NEW deck \in Seq(Cards), NEW id, NEW u
    PROVE  /\ Count(deck, LAMBDA c : c.id = id) = HowMany(deck, CardsOf(id))
           /\ Count(deck, LAMBDA c : c.id = id /\ c.upgraded = u) = HowMany(deck, CardsAt(id, u))
<1>1. \A i \in DOMAIN deck : deck[i] \in Cards
  OBVIOUS
<1>2. {i \in DOMAIN deck : deck[i].id = id} = {i \in DOMAIN deck : deck[i] \in CardsOf(id)}
  BY <1>1 DEF CardsOf
<1>3. {i \in DOMAIN deck : deck[i].id = id /\ deck[i].upgraded = u} = {i \in DOMAIN deck : deck[i] \in CardsAt(id, u)}
  BY <1>1 DEF CardsAt
<1> QED
  BY <1>2, <1>3 DEF Count, HowMany

LEMMA CountItems ==
    ASSUME NEW s, NEW t, \A x \in ToSet(s) \cup ToSet(t) : HowMany(s, {x}) = HowMany(t, {x})
    PROVE  SameItems(s, t)
<1>1. ASSUME NEW x PROVE /\ Count(s, LAMBDA y : y = x) = HowMany(s, {x})
                         /\ Count(t, LAMBDA y : y = x) = HowMany(t, {x})
  <2>1. /\ {i \in DOMAIN s : s[i] = x} = {i \in DOMAIN s : s[i] \in {x}}
        /\ {i \in DOMAIN t : t[i] = x} = {i \in DOMAIN t : t[i] \in {x}}
    OBVIOUS
  <2> QED
    BY <2>1 DEF Count, HowMany
<1> QED
  BY <1>1 DEF SameItems

(* The tallies of two states of the player agree.                           *)
LEMMA TalliesMean ==
    ASSUME NEW s \in PlayerStates, NEW t \in PlayerStates, \A k \in Keys : Tally(s, k) = Tally(t, k)
    PROVE  /\ \A id \in CardIds : HowMany(s.deck, CardsOf(id)) = HowMany(t.deck, CardsOf(id))
           /\ SameItems(s.potions, t.potions)
<1>1. ASSUME NEW id \in CardIds PROVE HowMany(s.deck, CardsOf(id)) = HowMany(t.deck, CardsOf(id))
  <2>1. PICK k : k = <<"card", id>>
    OBVIOUS
  <2>2. k \in Keys /\ k[1] = "card" /\ k[2] = id
    BY <2>1 DEF Keys
  <2> QED
    BY <2>2 DEF Tally
<1>2. ASSUME NEW p \in PotionIds PROVE HowMany(s.potions, {p}) = HowMany(t.potions, {p})
  <2>1. PICK k : k = <<"potion", p>>
    OBVIOUS
  <2>2. k \in Keys /\ k[1] # "card" /\ k[2] = p
    BY <2>1 DEF Keys
  <2> QED
    BY <2>2 DEF Tally
<1>3. s.potions \in Seq(PotionIds) /\ t.potions \in Seq(PotionIds)
  BY StateFields
<1>4. \A x \in ToSet(s.potions) \cup ToSet(t.potions) : x \in PotionIds
  BY <1>3 DEF ToSet
<1>5. SameItems(s.potions, t.potions)
  BY <1>2, <1>4, CountItems
<1> QED
  BY <1>1, <1>5

(* Every card of the deck is dealt once.                                    *)
LEMMA DealtCounts ==
    ASSUME NEW deck \in Seq(Cards), NEW dealt \in SUBSET DOMAIN deck, NEW id,
           NEW spec, spec = {<<i, deck[i]>> : i \in dealt} \cup {<<i, deck[i]>> : i \in DOMAIN deck \ dealt}
    PROVE  Cardinality({c \in spec : c[2].id = id}) = HowMany(deck, CardsOf(id))
<1> DEFINE D == {i \in DOMAIN deck : deck[i] \in CardsOf(id)}
           C == {c \in spec : c[2].id = id}
           f == [i \in D |-> <<i, deck[i]>>]
<1>1. spec = {<<i, deck[i]>> : i \in DOMAIN deck}
  OBVIOUS
<1>2. \A i \in DOMAIN deck : deck[i] \in Cards
  OBVIOUS
<1>3. \A i \in D : f[i] \in C
  BY <1>1, <1>2 DEF CardsOf
<1>4. \A i, j \in D : f[i] = f[j] => i = j
  OBVIOUS
<1>5. \A c \in C : \E i \in D : f[i] = c
  BY <1>1, <1>2 DEF CardsOf
<1>6. f \in Bijection(D, C)
  <2>1. f \in [D -> C]
    BY <1>3
  <2> HIDE DEF D, C, f
  <2> QED
    BY <1>3, <1>4, <1>5, <2>1 DEF Bijection, Injection, Surjection, IsInjective
<1>7. IsFiniteSet(D)
  BY HowManyNat
<1>8. Cardinality(D) = Cardinality(C)
  <2> HIDE DEF D, C, f
  <2> QED
    BY <1>6, <1>7, FS_Bijection DEF ExistsBijection
<1> QED
  BY <1>8 DEF HowMany

(* A record, its encounter and its truth.                                   *)
LEMMA RecordsMean ==
    ASSUME FloorInv, NEW k \in DOMAIN floors.records, NEW e, e = floors.records[k].encounter
    PROVE  /\ run.pc = "reconstructed"
           /\ e \in EncounterRec /\ e.state \in PlayerStates /\ floors.records[k].status = ClassifyRestoreStatus(e)
           /\ run.truths[k] \in PlayerStates
           /\ Agrees(e.state, Befores(run.history, e.point), run.truths[k])
<1>1. run.pc = "reconstructed"
  <2>1. DOMAIN NoFloors.records = {}
    BY DEF NoFloors
  <2> QED
    BY <2>1 DEF FloorInv, FloorsInv
<1>2. PICK encs : encs = ReconstructAll(run.history).encounters
  OBVIOUS
<1>3. floors.records = Records(run.history)
  BY <1>1 DEF FloorInv, FloorsInv
<1>4. k \in DOMAIN encs /\ floors.records[k] = [encounter |-> encs[k], status |-> ClassifyRestoreStatus(encs[k])]
  BY <1>2, <1>3 DEF Records, ReconstructEncounters
<1>5. e = encs[k] /\ floors.records[k].status = ClassifyRestoreStatus(e)
  BY <1>4
<1>6. PICK pass, h, ts : pass = ReconstructAll(run.history) /\ h = run.history /\ ts = run.truths
  OBVIOUS
<1>7. PassInv(pass, h, ts, run.point.rooms) /\ run \in RunRec
  BY <1>6 DEF FloorInv, RunInv
<1>8. pass \in PassRec /\ Len(ts) = Len(encs) + run.point.rooms /\ run.point.rooms \in Nat /\ ts \in Seq(PlayerStates)
  BY <1>2, <1>6, <1>7, RunFields DEF PassInv
<1>9. encs \in Seq(EncounterRec)
  BY <1>2, <1>6, <1>8 DEF PassRec
<1>10. k \in 1..Len(encs) /\ Len(encs) \in Nat
  BY <1>4, <1>9
<1>11. k \in 1..Len(ts)
  BY <1>8, <1>10
<1>12. ts[k] \in PlayerStates /\ e \in EncounterRec
  BY <1>5, <1>8, <1>9, <1>10, <1>11
<1>13. e.state \in PlayerStates
  BY <1>12 DEF EncounterRec
<1>14. Truthful(e.state, Befores(h, e.point), ts[k])
  BY <1>2, <1>5, <1>6, <1>7, <1>10 DEF PassInv
<1> QED
  BY <1>1, <1>5, <1>6, <1>12, <1>13, <1>14 DEF Truthful

LEMMA ScenariosMean ==
    FloorInv => ScenariosDealTheRealDeck
<1> SUFFICES ASSUME FloorInv, NEW n \in DOMAIN floors.scenario
             PROVE  LET spec == floors.scenario[n].spec
                        entered == run.truths[floors.scenario[n].of]
                    IN /\ \A id \in CardIds :
                            Cardinality({c \in spec.hand \cup spec.draw : c[2].id = id})
                              = Count(entered.deck, LAMBDA c : c.id = id)
                       /\ spec.hp = entered.hp
                       /\ SameItems(spec.potions, entered.potions)
  BY DEF ScenariosDealTheRealDeck
<1>1. floors.scenario # <<>>
  OBVIOUS
<1>2. Dealt(floors)
  BY <1>1 DEF FloorInv, FloorsInv, NoFloors
<1>3. PICK k \in DOMAIN floors.records : \E dealt \in SUBSET DOMAIN floors.records[k].encounter.state.deck :
         /\ Trusted(floors.records[k])
         /\ floors.scenario = <<[of |-> k, spec |-> Scenario(floors.records[k].encounter, dealt)]>>
  BY <1>2 DEF Dealt
<1>4. PICK dealt \in SUBSET DOMAIN floors.records[k].encounter.state.deck :
         /\ Trusted(floors.records[k])
         /\ floors.scenario = <<[of |-> k, spec |-> Scenario(floors.records[k].encounter, dealt)]>>
  BY <1>3
<1>5. PICK e, s, spec, truth : e = floors.records[k].encounter /\ s = e.state /\ spec = Scenario(e, dealt)
                               /\ truth = run.truths[k]
  OBVIOUS
<1>6. floors.scenario[n].of = k /\ floors.scenario[n].spec = spec
  BY <1>4, <1>5
<1>7. /\ s \in PlayerStates /\ floors.records[k].status = ClassifyRestoreStatus(e)
      /\ truth \in PlayerStates /\ Agrees(s, Befores(run.history, e.point), truth)
  BY <1>5, RecordsMean
<1>8. "NOTFOUND" \notin s.warnings
  BY <1>4, <1>5, <1>7 DEF Trusted, ClassifyRestoreStatus
<1>9. s.hp = truth.hp /\ \A key \in Keys : Tally(s, key) = Tally(truth, key)
  BY <1>5, <1>6, <1>7, <1>8 DEF Agrees
<1>10. /\ \A id \in CardIds : HowMany(s.deck, CardsOf(id)) = HowMany(truth.deck, CardsOf(id))
       /\ SameItems(s.potions, truth.potions)
  BY <1>7, <1>9, TalliesMean
<1>11. /\ spec.hand = {<<i, s.deck[i]>> : i \in dealt}
       /\ spec.draw = {<<i, s.deck[i]>> : i \in DOMAIN s.deck \ dealt}
       /\ spec.hp = s.hp /\ spec.potions = s.potions
  BY <1>5 DEF Scenario
<1>12. s.deck \in Seq(Cards) /\ truth.deck \in Seq(Cards)
  BY <1>7, StateFields
<1>13. ASSUME NEW id \in CardIds
       PROVE  Cardinality({c \in spec.hand \cup spec.draw : c[2].id = id}) = Count(truth.deck, LAMBDA c : c.id = id)
  <2>1. Count(truth.deck, LAMBDA c : c.id = id) = HowMany(truth.deck, CardsOf(id))
    BY <1>12, CountCards
  <2>2. PICK deck, all : deck = s.deck /\ all = spec.hand \cup spec.draw
    OBVIOUS
  <2>3. /\ deck \in Seq(Cards) /\ dealt \in SUBSET DOMAIN deck
        /\ all = {<<i, deck[i]>> : i \in dealt} \cup {<<i, deck[i]>> : i \in DOMAIN deck \ dealt}
    BY <1>5, <1>11, <1>12, <2>2
  <2>4. Cardinality({c \in all : c[2].id = id}) = HowMany(deck, CardsOf(id))
    BY ONLY <2>3, DealtCounts
  <2> QED
    BY <1>10, <2>1, <2>2, <2>4
<1> QED
  BY <1>5, <1>6, <1>9, <1>10, <1>11, <1>13

LEMMA DeterminedSettles ==
    ASSUME NEW e, Determined(e)
    PROVE  SettledBy(Befores(run.history, e.point))
  BY DEF Determined, SettledBy, Befores, Single, OneFloor, OriginsOf, LostIn

LEMMA ExactMeans ==
    FloorInv => ExactStatesAreReal
<1> SUFFICES ASSUME FloorInv, NEW k \in DOMAIN floors.records, floors.records[k].status = "exact",
                    Determined(floors.records[k].encounter)
             PROVE  LET e == floors.records[k].encounter
                        entered == run.truths[k]
                    IN /\ SameCards(e.state.deck, entered.deck)
                       /\ SameItems(e.state.relics, entered.relics)
                       /\ SameItems(e.state.potions, entered.potions)
                       /\ e.state.hp = entered.hp
  BY DEF ExactStatesAreReal
<1>1. PICK e, s, truth : e = floors.records[k].encounter /\ s = e.state /\ truth = run.truths[k]
  OBVIOUS
<1>2. /\ s \in PlayerStates /\ floors.records[k].status = ClassifyRestoreStatus(e)
      /\ truth \in PlayerStates /\ Agrees(s, Befores(run.history, e.point), truth)
  BY <1>1, RecordsMean
<1>3. ClassifyRestoreStatus(e) = "exact"
  BY <1>2
<1>4. Clean(s)
  BY <1>1, <1>3 DEF ClassifyRestoreStatus, Clean
<1>5. SettledBy(Befores(run.history, e.point))
  BY <1>1, DeterminedSettles
<1>6. /\ SameAt(s.deck, truth.deck) /\ s.relics = truth.relics /\ s.hp = truth.hp
      /\ \A key \in Keys : Tally(s, key) = Tally(truth, key)
  BY <1>1, <1>2, <1>4, <1>5 DEF Agrees, Clean
<1>7. SameItems(s.potions, truth.potions)
  BY <1>2, <1>6, TalliesMean
<1>8. SameItems(s.relics, truth.relics)
  BY <1>6 DEF SameItems
<1>9. s.deck \in Seq(Cards) /\ truth.deck \in Seq(Cards)
  BY <1>2, StateFields
<1>10. SameCards(s.deck, truth.deck)
  <2>1. \A id \in CardIds, u \in BOOLEAN :
          /\ Count(s.deck, LAMBDA c : c.id = id /\ c.upgraded = u) = HowMany(s.deck, CardsAt(id, u))
          /\ Count(truth.deck, LAMBDA c : c.id = id /\ c.upgraded = u) = HowMany(truth.deck, CardsAt(id, u))
    BY <1>9, CountCards
  <2> QED
    BY <1>6, <2>1 DEF SameCards, SameAt
<1> QED
  BY <1>1, <1>6, <1>7, <1>8, <1>10

-----------------------------------------------------------------------------
(***************************************************************************)
(* The reconstruction in the composition: nobody else touches the floors.  *)
(***************************************************************************)
LEMMA FloorInit ==
    ASSUME Init
    PROVE  FloorInv
<1>1. PICK pc \in {"none", "playing"} : run = [NewRun EXCEPT !.pc = pc]
  <2>1. CASE mode = "reconstruct"
    <3>1. PICK pc \in {"none", "playing"} : pc = "playing"
      OBVIOUS
    <3>2. run = [NewRun EXCEPT !.pc = pc]
      <4>1. PICK s, point, none : s = StartingState /\ point = NewPoint(s) /\ none = <<>>
        OBVIOUS
      <4>2. NewRun = [pc |-> pc, real |-> s, point |-> point, history |-> none, truths |-> none, events |-> 0]
        BY <3>1, <4>1 DEF NewRun
      <4>3. [NewRun EXCEPT !.pc = pc] = NewRun
        BY <4>2
      <4> QED
        BY <2>1, <4>3 DEF Init
    <3> QED
      BY <3>2
  <2>2. CASE mode # "reconstruct"
    <3>1. PICK pc \in {"none", "playing"} : pc = "none"
      OBVIOUS
    <3>2. run = [NewRun EXCEPT !.pc = pc]
      BY <2>2, <3>1 DEF Init, NoRun
    <3> QED
      BY <3>2
  <2> QED
    BY <2>1, <2>2
<1>2. RunInv(run) /\ run.pc = pc
  <2>1. PICK r : r = run
    OBVIOUS
  <2>2. r = [NewRun EXCEPT !.pc = pc]
    BY <1>1, <2>1
  <2>3. RunInv(r) /\ r.pc = pc
    BY ONLY <2>2, RunOpens, pc \in {"none", "playing"}
  <2> QED
    BY <2>1, <2>3
<1>3. floors = NoFloors
  BY DEF Init
<1> QED
  BY <1>2, <1>3 DEF FloorInv, FloorsInv

LEMMA FloorNext ==
    ASSUME FloorInv, [Next]_dataVars
    PROVE  FloorInv'
<1>1. CASE ReconstructionStep
  BY <1>1, FloorStepKeeps
<1>2. CASE UNCHANGED floorVars
  <2>1. run' = run /\ floors' = floors
    BY <1>2 DEF floorVars
  <2> QED
    BY <2>1 DEF FloorInv
<1>3. ReconstructionStep \/ UNCHANGED floorVars
  BY DEF Next, dataVars
<1> QED
  BY <1>1, <1>2, <1>3

(***************************************************************************)
(* At every point of a run the replay of reconstruct_encounters_for_run is *)
(* where FloorInv (RunInv of the run, FloorsInv of what the scripts made   *)
(* of it) says: as long as apply_point_stats found every card, it differs  *)
(* from the player's state by the lists of the point being played and      *)
(* nothing else, and every combat room recorded so far was given a state   *)
(* that agrees with the one the player came to its map point with.  For    *)
(* any cards, relics, potions, starting deck and evidence, and runs of any *)
(* length and any number of combat rooms in a point.                       *)
(***************************************************************************)
THEOREM FloorInvariance == Spec => []FloorInv
<1>1. Init => FloorInv
  BY FloorInit
<1>2. FloorInv /\ [Next]_dataVars => FloorInv'
  BY FloorNext
<1> QED
  BY <1>1, <1>2, PTL DEF Spec

(***************************************************************************)
(* A scenario load_reconstructed_sample draws, of the first or a later     *)
(* combat room of its map point, deals as many copies of each card as the  *)
(* player came to the point with, with the potions and hit points of that  *)
(* moment: whatever order the events of earlier points had, whichever      *)
(* copies apply_point_stats took for the removed, transformed and upgraded *)
(* ones, and even when the upgrade is ambiguous.  What happened at the     *)
(* point before a later room is not in it (:300-330).                      *)
(***************************************************************************)
THEOREM ScenariosAreTheRealDeck == Spec => []ScenariosDealTheRealDeck
<1>1. FloorInv => ScenariosDealTheRealDeck
  BY ScenariosMean
<1> QED
  BY <1>1, FloorInvariance, PTL

(***************************************************************************)
(* What classify_restore_status calls exact is the state the player came   *)
(* to the map point with, cards with their upgrades, relics, potions and   *)
(* hit points, wherever the log determines it: no point before it mixes    *)
(* kinds of events, and no card of which a copy was lost comes from two    *)
(* floors.                                                                 *)
(***************************************************************************)
THEOREM ExactIsReal == Spec => []ExactStatesAreReal
<1>1. FloorInv => ExactStatesAreReal
  BY ExactMeans
<1> QED
  BY <1>1, FloorInvariance, PTL
=============================================================================
