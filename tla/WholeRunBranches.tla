-------------------------- MODULE WholeRunBranches --------------------------
(***************************************************************************)
(* API/instance_whole_run.py and API/instance_whole_run_beam.py: the       *)
(* decisions and speculative Branches of one whole-run instance.           *)
(*                                                                         *)
(* The server serves one request at a time, so an operation is one step;   *)
(* what is hard is which of its parts a failing operation has done.  A     *)
(* Branch at an Event is replayed by Whole Run's own worker pool; inside a *)
(* combat it is a record of the adopted CombatPhase's BranchManager, with  *)
(* a public book here and a place in _combat_branch_reservations.          *)
(*                                                                         *)
(* What is abstracted.  The game stands at a position and a boundary; the  *)
(* snapshot, room and action prefix a replay starts from stand for the     *)
(* position they lead to.  An action is any legal action.  A rejected      *)
(* request and a read (get_decision) change nothing and are no step.       *)
(***************************************************************************)
EXTENDS BranchLedger, FiniteSets

CONSTANTS
    NoRng,
    max_branches,
    MaxMoves,       \* bound: steps of the game
    MaxFaults       \* bound: operations that fail

ASSUME CapacityIsNatural == max_branches \in Nat

VARIABLES
    root,           \* the run: boundary, position, what a replay would reach
    led,            \* ids, books, decision points, reservations, phase, event RNG
    faulted,        \* _faulted
    closed,         \* _closed
    issued_at,      \* history: the position root's decision point was issued at
    torn,           \* history: a commit moved the game and was not recorded
    faults          \* operations that failed so far

runVars == <<root, led, faulted, closed, issued_at, torn, faults>>

Boundaries == {"map_select", "event_choice", "other", "combat", "run_terminal"}
OutsideCombat == Boundaries \ {"combat"}
Gone == {"cancelled", "released", "faulted"}

NoKey == [decision |-> 0, rng |-> NoRng]
NoPhase == [on |-> FALSE, records |-> <<>>, table |-> NoHypotheses]
NewPhase == [NoPhase EXCEPT !.on = TRUE]

(* _BranchBookkeeping; "decision", "hypothesis" and "at" are what its work *)
(* item was built from.                                                    *)
NewBook(item, dps, at) ==
    [status |-> "completed", parent |-> item.parent, rng |-> item.rng, view |-> "none",
     terminal |-> FALSE, plan |-> NoKey, internal |-> 0,
     decision |-> dps.current[item.parent], hypothesis |-> 0, at |-> at]

Fresh ==
    [known |-> {Root}, books |-> << >>, order |-> <<>>, reserved |-> {},
     dps |-> Issue(NoDecisions, {Root}), phase |-> NoPhase, refs |-> << >>]

RunInit ==
    /\ \E b \in {"event_choice", "map_select"} :
          root = [boundary |-> b, pos |-> 0, replay |-> 0, snap |-> b = "map_select",
                  fought |-> FALSE]
    /\ led = Fresh
    /\ faulted = FALSE /\ closed = FALSE
    /\ issued_at = 0 /\ torn = FALSE /\ faults = 0

(* _ensure_mutable *)
Mutable == ~faulted /\ ~closed
MayFail == faults < MaxFaults

(* whether the worker of a stuck record can be replaced this time *)
Respawns == IF \E i \in DOMAIN led.phase.records : led.phase.records[i].state = "running"
            THEN BOOLEAN ELSE {TRUE}

Fails == faults < MaxFaults /\ faults' = faults + 1

(* ------------------- _cancel_and_release_all_branches ------------------ *)
(* A CANCELLED Branch stays CANCELLED.                                     *)
PhaseIds(l) ==
    LET owned == {k \in DOMAIN l.order : /\ l.books[l.order[k]].internal # 0
                                         /\ l.books[l.order[k]].status # "released"}
    IN  [k \in owned |-> l.books[l.order[k]].internal]

Outlived(l) == DOMAIN PhaseIds(l) # {} /\ ~l.phase.on
ReleaseAllRaises(l, respawns) ==
    Outlived(l) \/ ReleaseRaises(l.phase.records, PhaseIds(l), respawns)
Interrupted(l, respawns) ==
    [l EXCEPT !.phase.records = ReleaseRecords(@, PhaseIds(l), respawns)]

(* Nothing reads more of a Branch that is over than its status and its     *)
(* internal id; the rest of the book is dropped here.                      *)
Over(book, status) ==
    [status |-> status, parent |-> Root, rng |-> NoRng, view |-> "none", terminal |-> FALSE,
     plan |-> NoKey, internal |-> book.internal, decision |-> 0, hypothesis |-> 0, at |-> 0]
Tombstoned(book) == Over(book, IF book.status \in Ended THEN book.status ELSE "released")

ReleaseAll(l, respawns) ==
    [Interrupted(l, respawns) EXCEPT
        !.books = [b \in DOMAIN @ |-> Tombstoned(@[b])],
        !.dps = Clear(@, DOMAIN l.books),
        !.reserved = @ \ DOMAIN l.books,
        !.refs = << >>]

(* --------------------------- root decisions ---------------------------- *)
(* _maybe_capture_map_snapshot *)
Captured(r) ==
    IF r.boundary = "map_select"
    THEN [r EXCEPT !.snap = TRUE, !.replay = r.pos, !.fought = FALSE] ELSE r

(* A step of the session goes into the prefix; one of the combat does not. *)
(* The room of a combat ends in rewards: the next event is behind a map.   *)
Moved(b) == [root EXCEPT !.boundary = b, !.pos = @ + 1, !.replay = @ + 1]
MovedInCombat(b) == [root EXCEPT !.boundary = b, !.pos = @ + 1, !.fought = TRUE]
EngineReaches(b) == root.fought => b # "event_choice"

(* _record_root_commit.  Nothing catches what the release raises outside   *)
(* a combat: the game has moved, the decision point has not.               *)
Record(r, l, release, issue, respawns) ==
    /\ root' = Captured(r)
    /\ LET kept == IF release THEN ReleaseAll(l, respawns) ELSE l
       IN  led' = IF issue THEN [kept EXCEPT !.dps = Issue(@, {Root})] ELSE kept
    /\ issued_at' = IF led'.dps.current[Root] = led.dps.current[Root] THEN issued_at ELSE r.pos
    /\ torn' = (torn /\ r.boundary # "map_select")
    /\ UNCHANGED faults

(* mutant: release_branches the wrong way round *)
RecordKeepingBranches(r, l, release, issue, respawns) ==
    Record(r, l, ~release, issue, respawns)

RecordRootCommit(r, l, release, issue, respawns) ==
    Record(r, l, release, issue, respawns)

RecordRaises(r, l, respawns) ==
    /\ ReleaseAllRaises(l, respawns)
    /\ root' = r /\ led' = Interrupted(l, respawns)
    /\ issued_at' = IF l.dps = led.dps THEN issued_at ELSE r.pos
    /\ torn' = TRUE
    /\ UNCHANGED faults

(* _poison_combat_transaction: the phase goes, whatever its release says *)
Poisoned(l, adopted, respawns) ==
    LET kept == IF ~adopted THEN l
                ELSE IF ReleaseAllRaises(l, respawns) THEN Interrupted(l, respawns)
                ELSE ReleaseAll(l, respawns)
    IN  [kept EXCEPT !.phase = NoPhase]

(* commit_action outside a combat *)
MayCommit == Mutable /\ root.boundary # "run_terminal" /\ root.pos < MaxMoves
CommitRun ==
    /\ MayCommit /\ ~led.phase.on
    /\ \E b \in OutsideCombat : \E respawns \in Respawns :
          /\ EngineReaches(b)
          /\ \/ /\ ~ReleaseAllRaises(led, respawns)
                /\ RecordRootCommit(Moved(b), led, TRUE, TRUE, respawns)
             \/ RecordRaises(Moved(b), led, respawns)
    /\ UNCHANGED <<faulted, closed>>

(* the step, or draining the rewards after it, raises; an action that was  *)
(* stepped is in the prefix, an automatic one is not                       *)
CommitRunFaults ==
    /\ MayCommit /\ ~led.phase.on /\ MayFail
    /\ \E b \in Boundaries, extra \in 0..1, in_prefix \in BOOLEAN :
          /\ EngineReaches(b)
          /\ root' = [root EXCEPT !.boundary = b, !.pos = @ + extra + (IF in_prefix THEN 1 ELSE 0),
                                  !.replay = @ + (IF in_prefix THEN 1 ELSE 0)]
    /\ root'.pos = root.pos => root' = root
    /\ torn' = (torn \/ root'.pos # root.pos)
    /\ Fails
    /\ UNCHANGED <<led, faulted, closed, issued_at>>

(* commit_action at the map, into a combat room: enter_combat_phase *)
EnterCombat ==
    /\ MayCommit /\ ~led.phase.on /\ root.boundary = "map_select"
    /\ LET adopted == [led EXCEPT !.phase = NewPhase, !.dps = Issue(@, {Root})]
       IN  \E respawns \in Respawns :
              \/ ~ReleaseAllRaises(adopted, respawns)
                 /\ RecordRootCommit(Moved("combat"), adopted, TRUE, FALSE, respawns)
              \/ RecordRaises(Moved("combat"), adopted, respawns)
    /\ UNCHANGED <<faulted, closed>>

(* the hand-off fails: before the lease was committed the old decision     *)
(* point comes back, after it the run is poisoned                          *)
EnterCombatFaults ==
    /\ MayCommit /\ ~led.phase.on /\ root.boundary = "map_select" /\ MayFail
    /\ root' = Moved("combat") /\ torn' = TRUE
    /\ \E committed \in BOOLEAN :
          /\ faulted' = committed
          /\ LET issued == [led EXCEPT !.dps = Issue(@, {Root})]
             IN  IF committed
                 THEN led' = Poisoned(issued, FALSE, TRUE) /\ issued_at' = root'.pos
                 ELSE /\ led' = [issued EXCEPT
                                    !.dps = RestoreCurrent(@, Root, led.dps.current[Root])]
                      /\ UNCHANGED issued_at
    /\ Fails
    /\ UNCHANGED closed

(* commit_action inside a combat, its release included *)
CommitCombat ==
    /\ MayCommit /\ led.phase.on
    /\ \E respawns \in Respawns :
          /\ ~ReleaseAllRaises(led, respawns)
          /\ RecordRootCommit(MovedInCombat("combat"), led, TRUE, TRUE, respawns)
    /\ UNCHANGED <<faulted, closed>>

(* ... which ends the combat: leave_combat_phase releases, folds the phase *)
(* and drains the rewards, and the commit is recorded without a release    *)
LeaveCombat ==
    /\ MayCommit /\ led.phase.on
    /\ \E b \in OutsideCombat \ {"event_choice"}, respawns \in Respawns :
          /\ ~ReleaseAllRaises(led, respawns)
          /\ RecordRootCommit(MovedInCombat(b),
                [ReleaseAll(led, respawns) EXCEPT !.phase = NoPhase], FALSE, TRUE, respawns)
    /\ UNCHANGED <<faulted, closed>>

(* the live step raises before it is marked as advanced *)
CommitCombatFaults ==
    /\ MayCommit /\ led.phase.on /\ MayFail
    /\ \E moved \in 0..1 :
          root' = [root EXCEPT !.pos = @ + moved, !.fought = TRUE] /\ torn' = (torn \/ moved = 1)
    /\ Fails
    /\ UNCHANGED <<led, faulted, closed, issued_at>>

(* whatever raises after the live step advanced poisons the run: here the  *)
(* release of the Branches, an observation or the leaving of the phase     *)
CommitCombatPoisons ==
    /\ MayCommit /\ led.phase.on
    /\ \E b \in {"combat", "other"}, first, second \in Respawns, folded \in BOOLEAN :
          /\ MayFail \/ ReleaseAllRaises(led, first)
          /\ folded => ~ReleaseAllRaises(led, first) /\ b # "combat"
          /\ root' = MovedInCombat(b)
          /\ led' = IF folded
                    THEN Poisoned([ReleaseAll(led, first) EXCEPT !.phase = NoPhase], FALSE, second)
                    ELSE Poisoned(IF ReleaseAllRaises(led, first)
                                  THEN Interrupted(led, first) ELSE led, TRUE, second)
    /\ faulted' = TRUE /\ torn' = TRUE
    /\ faults' = IF MayFail THEN faults + 1 ELSE faults
    /\ UNCHANGED <<closed, issued_at>>

(* --------------------------- event Branches ---------------------------- *)
(* _validate_common_branch / _validate_event_branch *)
EventParent(p) ==
    IF p = Root THEN root.snap /\ root.boundary = "event_choice"
    ELSE /\ p \in DOMAIN led.books
         /\ led.books[p].status \notin Gone
         /\ ~led.books[p].terminal /\ led.books[p].view = "event"
CombatParent(p) ==
    IF p = Root THEN root.boundary = "combat"
    ELSE /\ p \in DOMAIN led.books
         /\ led.books[p].status \notin Gone
         /\ ~led.books[p].terminal /\ led.books[p].view = "combat"

(* one request: one item, or a batch of two *)
Items == [branch : Branches \ led.known, parent : led.known, rng : RngIds]
Batches == {<<x>> : x \in Items} \cup {<<x, y>> : x, y \in Items}
BranchesOf(batch) == {batch[k].branch : k \in DOMAIN batch}
ParentsOf(batch) == {batch[k].parent : k \in DOMAIN batch}
Admissible(batch) ==
    /\ \A k, j \in DOMAIN batch : k # j => batch[k].branch # batch[j].branch
    /\ \A k \in DOMAIN batch :
          LET p == batch[k].parent
          IN  /\ ~IsKnown(led.known, batch[k].branch)
              /\ p \notin BranchesOf(batch)
              /\ p # Root => batch[k].rng = led.books[p].rng
              /\ Validates(led.dps, p, led.dps.current[p])

(* active_branch_count *)
ActiveBooks == {b \in DOMAIN led.books :
                   led.books[b].status = "completed" /\ ~led.books[b].terminal}

(* _prepare_event_branch: a root child makes a hypothesis of its own, a    *)
(* grandchild stays in its parent's                                        *)
EventBook(item) ==
    IF item.parent = Root
    THEN [NewBook(item, led.dps, root.replay) EXCEPT
             !.plan = [decision |-> led.dps.current[Root], rng |-> item.rng]]
    ELSE [NewBook(item, led.dps, led.books[item.parent].at) EXCEPT
             !.plan = led.books[item.parent].plan]

Ref(refs, key) == IF key \in DOMAIN refs THEN refs[key] ELSE {}
(* a reference that leaves nobody behind goes *)
DropRefs(refs, books, bs) ==
    LET dropped(key) == {b \in bs : books[b].plan = key}
    IN  [key \in {k \in DOMAIN refs : ~(refs[k] \subseteq dropped(k))} |->
            refs[key] \ dropped(key)]

(* _commit_prepared_branch, item by item *)
Published(l, batch, books) ==
    LET new == BranchesOf(batch)
        under(key) == {batch[k].branch : k \in {j \in DOMAIN batch : books[j].plan = key}}
        keys == {books[k].plan : k \in DOMAIN batch} \ {NoKey}
    IN  [l EXCEPT !.known = Register(@, new),
                  !.books = [b \in DOMAIN @ \cup new |->
                                IF b \in new THEN books[Place(batch, b)] ELSE @[b]],
                  !.order = @ \o [k \in DOMAIN batch |-> batch[k].branch],
                  !.refs = [key \in DOMAIN @ \cup keys |->
                               Ref(@, key) \cup (IF key \in keys THEN under(key) ELSE {})]]

WithStatus(books, bs, status) ==
    [b \in DOMAIN books |-> IF b \in bs THEN Over(books[b], status) ELSE books[b]]
(* mutants: a retired Branch keeps its reference *)
RetiredKeepingReference(l, bs, status) == [l EXCEPT !.books = WithStatus(@, bs, status)]
(* the status, and _release_event_rng_reference *)
Retired(l, bs, status) ==
    [l EXCEPT !.books = WithStatus(@, bs, status), !.refs = DropRefs(@, l.books, bs)]

(* the first n answers of the workers; a fault ends its Branch *)
Faulty(batch, results, n) == {batch[k].branch : k \in {j \in 1..n : results[j] = "fault"}}
Answered(l, batch, results, n) ==
    LET faulty == Faulty(batch, results, n)
        fine == {batch[k].branch : k \in 1..n} \ faulty
        result(b) == results[Place(batch, b)]
    IN  [l EXCEPT !.dps = Issue(@, fine),
                  !.books = [b \in DOMAIN @ |->
                      IF b \in fine
                      THEN [@[b] EXCEPT !.terminal = (result(b) = "terminal"),
                                        !.view = IF result(b) = "terminal" THEN "none" ELSE result(b)]
                      ELSE IF b \in faulty THEN Over(@[b], "faulted") ELSE @[b]]]

(* _finalize_event_branch; an "elsewhere" view is behind a map or at a     *)
(* boundary without hypotheses                                             *)
EventResults == {"event", "elsewhere", "terminal", "fault"}
Finalized(l, batch, results, n) ==
    [Answered(l, batch, results, n) EXCEPT
        !.refs = DropRefs(@, l.books, Faulty(batch, results, n))]

(* emulate_action (single) and the Beam's emulate_actions, which does not  *)
(* ask _ensure_mutable: no run is poisoned at an event                     *)
EmulateEvent(batch, single) ==
    /\ ~closed /\ (single => ~faulted /\ Len(batch) = 1) /\ ~led.phase.on
    /\ \A p \in ParentsOf(batch) : EventParent(p)
    /\ Admissible(batch)
    /\ Cardinality(ActiveBooks) + Len(batch) =< max_branches
    /\ LET admitted == Published(led, batch, [k \in DOMAIN batch |-> EventBook(batch[k])])
       IN  \/ /\ \E results \in [DOMAIN batch -> EventResults] :
                    led' = Finalized(admitted, batch, results, Len(batch))
              /\ UNCHANGED faults
           \/ /\ MayFail                  \* TimeoutError
              /\ led' = Retired(admitted, BranchesOf(batch), "faulted")
              /\ Fails
           \/ /\ MayFail                  \* dispatch or a finalizer raises
              /\ \E n \in 0..(Len(batch) - 1), results \in [DOMAIN batch -> EventResults] :
                    LET done == Finalized(admitted, batch, results, n)
                    IN  led' = IF single THEN Retired(admitted, BranchesOf(batch), "faulted")
                               ELSE Retired(done, BranchesOf(batch), "released")
              /\ Fails
    /\ UNCHANGED <<root, faulted, closed, issued_at, torn>>

(* --------------------------- combat Branches --------------------------- *)
InternalOf(p) == IF p = Root THEN 0 ELSE led.books[p].internal

(* CombatPhase.build_work_item, item by item *)
KeyOfItem(item) == KeyOf(item.parent, led.dps.current[item.parent], item.rng)
Allocations(batch) ==
    AllocatedAll(led.phase.table, [k \in DOMAIN batch |-> KeyOfItem(batch[k])])
CombatBook(item, table, internal) ==
    [NewBook(item, led.dps, root.pos) EXCEPT
        !.internal = internal, !.hypothesis = HypothesisIndexFor(table, KeyOfItem(item))]

Submitted(batch, states) ==
    LET n == Len(led.phase.records)
        table == Allocations(batch)
        parents == [k \in DOMAIN batch |-> InternalOf(batch[k].parent)]
    IN  [Published(led, batch, [k \in DOMAIN batch |-> CombatBook(batch[k], table, n + k)]) EXCEPT
            !.reserved = @ \cup BranchesOf(batch),
            !.phase.table = table,
            !.phase.records = SubmitMany(@, parents, states)]

CombatResults == {"combat", "terminal", "fault"}
StateOf(result) == IF result = "fault" THEN "faulted" ELSE "completed"

(* mutants: the reservations are given back and the records forgotten *)
RolledBackForgettingRecords(batch, issued) ==
    LET after == Submitted(batch, [k \in DOMAIN batch |-> "completed"])
    IN  [led EXCEPT !.phase.records = after.phase.records]
(* the transaction's except clause *)
RolledBack(batch, issued) ==
    LET after == Submitted(batch, [k \in DOMAIN batch |-> "released"])
        used == {batch[k].branch : k \in 1..issued}
    IN  [led EXCEPT !.dps.issued = [b \in DOMAIN @ |-> @[b] + (IF b \in used THEN 1 ELSE 0)],
                    !.known = RollbackRegistration(after.known, BranchesOf(batch)),
                    !.reserved = after.reserved \ BranchesOf(batch),
                    !.phase.records = after.phase.records,
                    !.phase.table = Restore(after.phase.table, Snapshot(led.phase.table))]
MayEmulateCombat(batch) ==
    /\ Mutable /\ led.phase.on
    /\ \A p \in ParentsOf(batch) : CombatParent(p)
    /\ Admissible(batch)
    /\ Cardinality(led.reserved) + Len(batch) =< max_branches

(* _emulate_combat_phase_actions *)
EmulateCombat(batch) ==
    /\ MayEmulateCombat(batch)
    /\ \E results \in [DOMAIN batch -> CombatResults] :
          led' = Answered(Submitted(batch, [k \in DOMAIN batch |-> StateOf(results[k])]),
                          batch, results, Len(batch))
    /\ UNCHANGED faults
    /\ UNCHANGED <<root, faulted, closed, issued_at, torn>>

(* poll or a result raises, and the cleanup works *)
EmulateCombatFails(batch) ==
    /\ MayEmulateCombat(batch) /\ MayFail
    /\ \E issued \in 0..Len(batch) : led' = RolledBack(batch, issued)
    /\ Fails
    /\ UNCHANGED <<root, faulted, closed, issued_at, torn>>

(* a worker cannot be replaced, so the cleanup raises as well and the rest *)
(* of the except clause is skipped; the last respawn may succeed           *)
EmulateCombatLeaks(batch) ==
    /\ MayEmulateCombat(batch) /\ MayFail
    /\ \/ led' = Submitted(batch, [k \in DOMAIN batch |-> "released"])
       \/ \E stuck \in DOMAIN batch :
             led' = Submitted(batch, [k \in DOMAIN batch |->
                        IF k < stuck THEN "released"
                        ELSE IF k = stuck THEN "running" ELSE "cancelled"])
    /\ Fails
    /\ UNCHANGED <<root, faulted, closed, issued_at, torn>>

(* ------------------ cancel, release, status and close ------------------ *)
OnPhase(b) == led.books[b].internal # 0

(* cancel_branches, one id.  The books of the descendants are not told.    *)
CancelBranch(b) ==
    /\ Mutable /\ b \in DOMAIN led.books /\ led.books[b].status \notin Ended
    /\ LET i == led.books[b].internal
           recs == led.phase.records
       IN  \/ /\ OnPhase(b) => led.phase.on /\ i \in DOMAIN recs
              /\ led' = Retired(IF OnPhase(b)
                                THEN [led EXCEPT !.phase.records = CancelRecords(recs, {i})]
                                ELSE led, {b}, "cancelled")
           \/ /\ OnPhase(b) /\ led.phase.on /\ i \in DOMAIN recs
              /\ \E j \in Lineage(recs, i) : recs[j].state = "running"
              /\ \E reached \in SUBSET {j \in Lineage(recs, i) : recs[j].state # "running"} :
                    led' = [led EXCEPT !.phase.records = [j \in DOMAIN recs |->
                              IF j \in reached /\ recs[j].state \notin Ended
                              THEN [recs[j] EXCEPT !.state = "cancelled"] ELSE recs[j]]]
    /\ UNCHANGED <<root, faulted, closed, issued_at, torn, faults>>

(* release_branches, one id *)
ReleaseBranch(b) ==
    /\ Mutable /\ b \in DOMAIN led.books /\ led.books[b].status # "released"
    /\ OnPhase(b) => led.phase.on
    /\ LET ids == <<led.books[b].internal>>
       IN  \/ ~OnPhase(b) /\ led' = Retired(led, {b}, "released")
           \/ /\ OnPhase(b)
              /\ \E respawns \in Respawns :
                    /\ ~ReleaseRaises(led.phase.records, ids, respawns)
                    /\ led' = Retired([led EXCEPT
                                 !.phase.records = ReleaseRecords(@, ids, respawns),
                                 !.reserved = @ \ {b}], {b}, "released")
    /\ UNCHANGED <<root, faulted, closed, issued_at, torn, faults>>

(* get_branch_status refreshes the book from the phase, faulted or not *)
GetBranchStatus(b) ==
    /\ ~closed /\ b \in DOMAIN led.books /\ OnPhase(b) /\ led.books[b].status # "released"
    /\ led.books[b].internal \in DOMAIN led.phase.records
    /\ led' = [led EXCEPT
                 !.books[b].status = led.phase.records[led.books[b].internal].state]
    /\ UNCHANGED <<root, faulted, closed, issued_at, torn, faults>>

(* close releases the Branches, closes the phase, the event registry and   *)
(* the pool; the server has dropped the instance, so nothing of it is read *)
(* again.                                                                  *)
Close ==
    /\ ~closed /\ closed' = TRUE
    /\ led' = Fresh /\ issued_at' = 0 /\ torn' = FALSE
    /\ UNCHANGED <<root, faulted, faults>>

RunNext ==
    \/ CommitRun \/ CommitRunFaults \/ EnterCombat \/ EnterCombatFaults
    \/ CommitCombat \/ LeaveCombat \/ CommitCombatFaults \/ CommitCombatPoisons
    \/ \E batch \in Batches : \/ \E single \in BOOLEAN : EmulateEvent(batch, single)
                              \/ EmulateCombat(batch)
                              \/ EmulateCombatFails(batch)
                              \/ EmulateCombatLeaks(batch)
    \/ \E b \in Branches : CancelBranch(b) \/ ReleaseBranch(b) \/ GetBranchStatus(b)
    \/ Close

RunSpec == RunInit /\ [][RunNext]_runVars

-----------------------------------------------------------------------------
Statuses == {"completed", "cancelled", "released", "faulted", "running"}
Books ==
    [status : Statuses, parent : Branches \cup {Root}, rng : RngIds \cup {NoRng},
     view : {"none", "event", "elsewhere", "combat"}, terminal : BOOLEAN,
     plan : [decision : Nat, rng : RngIds \cup {NoRng}], internal : Nat,
     decision : Nat, hypothesis : Nat, at : Nat]

(* Types of the ledger: books, ids and insertion order name the same       *)
(* Branches (instance_whole_run.py, _bookkeeping and _branch_ids).         *)
RunTypeOK ==
    /\ root \in [boundary : Boundaries, pos : Nat, replay : Nat, snap : BOOLEAN,
                  fought : BOOLEAN]
    /\ DOMAIN led.books = ToSet(led.order) /\ IsInjective(led.order)
    /\ led.known = DOMAIN led.books \cup {Root}
    /\ \A b \in DOMAIN led.books : led.books[b] \in Books
    /\ led.reserved \subseteq DOMAIN led.books
    /\ led.dps.current[Root] # 0

(* No ghost Branch: a record the CombatPhase still holds has a public      *)
(* Branch that answers for it and pays for it with its reservation, also   *)
(* after a transaction that failed at any point; and the reservations stay *)
(* within max_branches (_emulate_combat_phase_actions,                     *)
(* _reserve_combat_branch_capacity).                                       *)
NoGhostBranch ==
    /\ Cardinality(led.reserved) =< max_branches
    /\ \A i \in DOMAIN led.phase.records :
          led.phase.records[i].state # "released"
              => \E b \in led.reserved : led.books[b].internal = i

(* Two Branches of one parent decision run under the same hidden cards     *)
(* exactly when Training gave them the same rng_id, whatever was rolled    *)
(* back in between (RngHypothesisTable, build_work_item).                  *)
HypothesesFollowRngIds ==
    \A a, b \in {x \in DOMAIN led.books : OnPhase(x) /\ led.books[x].status = "completed"} :
        LET x == led.books[a]
            y == led.books[b]
        IN  x.parent = y.parent /\ x.decision = y.decision
                => (x.rng = y.rng <=> x.hypothesis = y.hypothesis)

(* The registry holds an event hypothesis exactly for the Branches that    *)
(* can still be used under it: none is dropped under a live Branch, and    *)
(* none is kept for a dead one (EventRngHypothesisRegistry).               *)
EventReferencesAreExact ==
    ~closed =>
      \A key \in (DOMAIN led.refs \cup {led.books[b].plan : b \in DOMAIN led.books}) \ {NoKey} :
        Ref(led.refs, key) = {b \in DOMAIN led.books :
            led.books[b].plan = key /\ led.books[b].status = "completed"}

Usable(b) ==
    led.books[b].status \notin Gone /\ ~led.books[b].terminal /\ led.books[b].view # "none"

(* Nothing of an old decision outlives the commit that left it: the        *)
(* decision point root accepts was issued where root stands now, and a     *)
(* Branch Training can still extend was branched off there, whichever of   *)
(* the two commit paths released the others - unless a commit broke off    *)
(* half-way (_record_root_commit, leave_combat_phase, enter_combat_phase). *)
NothingOutlivesTheDecision ==
    ~torn /\ Mutable =>
        /\ issued_at = root.pos
        /\ \A b \in DOMAIN led.books : Usable(b) => led.books[b].at = root.pos

(* "combat Branch outlived its active CombatPhase" is never raised: not by *)
(* a commit, a cancel, a release or a status of this instance              *)
(* (instance_whole_run.py:819, 840, 862, 1230).                            *)
NoBranchOutlivesItsPhase ==
    ~closed => ~Outlived(led)
=============================================================================
