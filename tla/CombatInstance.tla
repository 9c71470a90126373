---------------------------- MODULE CombatInstance ----------------------------
(***************************************************************************)
(* API/instance_combat.py: a standalone combat and its speculative         *)
(* Branches, over a CombatPhase it owns from start to close.               *)
(*                                                                         *)
(* As in WholeRunBranches a request is one step.  The differences are the  *)
(* code's: a Branch has no status of its own but is asked of its record;   *)
(* there are no reservations; a branch_id is never given back; and a       *)
(* cleanup that fails closes the instance.                                 *)
(***************************************************************************)
EXTENDS BranchLedger, FiniteSets

CONSTANTS
    NoRng,
    max_branches,
    MaxCommits,     \* bound: root commits
    MaxFailures     \* bound: operations that fail

VARIABLES
    combat,     \* position of the root, and where its decision point was issued
    cled,       \* ids, books, decision points, records and hypotheses
    cclosed,    \* _closed
    reply,      \* how the last request was answered
    failures

cvars == <<combat, cled, cclosed, reply, failures>>

CInit ==
    /\ combat = [pos |-> 0, issued_at |-> 0, torn |-> FALSE]
    /\ cled = [known |-> {Root}, books |-> << >>, dps |-> Issue(NoDecisions, {Root}),
               records |-> <<>>, table |-> NoHypotheses]
    /\ cclosed = FALSE /\ reply = "none" /\ failures = 0

(* _ensure_open *)
Open == ~cclosed
Failing == failures < MaxFailures /\ failures' = failures + 1

StateOfBranch(b) == cled.records[cled.books[b].internal].state
HasDecision(b) == cled.books[b].view

(* _compact_bookkeeping_for_release: a tombstone *)
Compacted(book) ==
    [internal |-> book.internal, parent |-> Root, rng |-> NoRng, view |-> FALSE,
     decision |-> 0, hypothesis |-> 0, at |-> 0]
Compact(l, bs) ==
    [l EXCEPT !.books = [b \in DOMAIN @ |-> IF b \in bs THEN Compacted(@[b]) ELSE @[b]],
              !.dps = Clear(@, bs)]

(* _cancel_and_release_all_branches; the records of an open instance are   *)
(* never running, so the release cannot raise                              *)
Released(l, bs) ==
    Compact([l EXCEPT !.records = [i \in DOMAIN @ |->
                IF \E b \in bs : l.books[b].internal = i
                THEN [@[i] EXCEPT !.state = "released"] ELSE @[i]]], bs)
ReleasedAll(l) == Released(l, DOMAIN l.books)

(* mutant: the Branches of the old decision stay *)
CommittedKeepingBranches(l) == [l EXCEPT !.dps = Issue(@, {Root})]
Committed(l) == [ReleasedAll(l) EXCEPT !.dps = Issue(@, {Root})]

CommitAction ==
    /\ Open /\ combat.pos < MaxCommits
    /\ cled' = Committed(cled)
    /\ combat' = [combat EXCEPT !.pos = @ + 1, !.issued_at = combat.pos + 1]
    /\ reply' = "completed"
    /\ UNCHANGED <<cclosed, failures>>

(* The live step raises.  Once it advanced, the instance is closed - only  *)
(* marked so: the phase and its workers stay.                              *)
CommitFails ==
    /\ Open /\ combat.pos < MaxCommits /\ Failing
    /\ \E advanced \in BOOLEAN, moved \in 0..1 :
          /\ advanced => moved = 1
          /\ cclosed' = advanced
          /\ combat' = [combat EXCEPT !.pos = @ + moved, !.torn = @ \/ moved = 1]
    /\ reply' = "faulted"
    /\ UNCHANGED cled

(* ------------------------------ emulation ------------------------------ *)
(* _view_for: only a decision can be extended *)
Extensible(p) ==
    p = Root \/ /\ p \in DOMAIN cled.books
                /\ StateOfBranch(p) \notin {"cancelled", "released", "faulted"}
CItems == [branch : Branches \ cled.known, parent : DOMAIN cled.books \cup {Root}, rng : RngIds]
CBatches == {<<x>> : x \in CItems} \cup {<<x, y>> : x, y \in CItems}
BatchIds(batch) == {batch[k].branch : k \in DOMAIN batch}

(* the checks both entry points make first *)
Checked(item) ==
    /\ Extensible(item.parent)
    /\ item.parent # Root => item.rng = cled.books[item.parent].rng
    /\ Validates(cled.dps, item.parent, cled.dps.current[item.parent])

(* _validate_emulate_actions_item *)
Valid(batch) ==
    /\ \A k, j \in DOMAIN batch : k # j => batch[k].branch # batch[j].branch
    /\ \A k \in DOMAIN batch :
          /\ Checked(batch[k])
          /\ batch[k].parent # Root => HasDecision(batch[k].parent)
    /\ ActiveCount(cled.records) + Len(batch) =< max_branches

KeyOfItem(item) == KeyOf(item.parent, cled.dps.current[item.parent], item.rng)
Grown(batch) == AllocatedAll(cled.table, [k \in DOMAIN batch |-> KeyOfItem(batch[k])])
Parents(batch) ==
    [k \in DOMAIN batch |->
        IF batch[k].parent = Root THEN 0 ELSE cled.books[batch[k].parent].internal]

(* build_work_item, submit_many and the books, with the records as the     *)
(* poll leaves them                                                        *)
Emulated(batch, states) ==
    LET n == Len(cled.records)
        book(k) == [internal |-> n + k, parent |-> batch[k].parent, rng |-> batch[k].rng,
                    view |-> FALSE, decision |-> cled.dps.current[batch[k].parent],
                    hypothesis |-> HypothesisIndexFor(Grown(batch), KeyOfItem(batch[k])),
                    at |-> combat.pos]
    IN  [cled EXCEPT
            !.known = Register(@, BatchIds(batch)),
            !.books = [b \in DOMAIN @ \cup BatchIds(batch) |->
                          IF b \in BatchIds(batch) THEN book(Place(batch, b)) ELSE @[b]],
            !.table = Grown(batch),
            !.records = SubmitMany(@, Parents(batch), states)]

(* _finalize_branch_result, for every Branch of the request *)
Answers == {"decision", "terminal", "fault"}
FinalizedBranches(l, batch, answers) ==
    LET answered == {batch[k].branch : k \in {j \in DOMAIN batch : answers[j] # "fault"}}
    IN  [l EXCEPT !.dps = Issue(@, answered),
                  !.books = [b \in DOMAIN @ |->
                      IF b \in answered
                      THEN [@[b] EXCEPT !.view = (answers[Place(batch, b)] = "decision")]
                      ELSE @[b]]]

EmulateActions(batch) ==
    /\ Open /\ Valid(batch)
    /\ \E answers \in [DOMAIN batch -> Answers] :
          cled' = FinalizedBranches(
                     Emulated(batch, [k \in DOMAIN batch |->
                        IF answers[k] = "fault" THEN "faulted" ELSE "completed"]), batch, answers)
    /\ reply' = "completed"
    /\ UNCHANGED <<combat, cclosed, failures>>

(* emulate_action registers the id and only then asks whether the parent   *)
(* has a decision and the action is legal in it                            *)
EmulateActionRefused(item) ==
    /\ Open /\ Checked(item)
    /\ cled' = [cled EXCEPT !.known = Register(@, {item.branch})]
    /\ reply' = "rejected"
    /\ UNCHANGED <<combat, cclosed, failures>>

(* The except clause: cancel and release the records, drop the books and   *)
(* rewind the table; the ids stay burned, unless nothing was registered.   *)
CleanedUp(batch, registered, states) ==
    LET after == Emulated(batch, states)
    IN  [cled EXCEPT !.known = IF registered THEN after.known ELSE @,
                     !.records = after.records,
                     !.table = Restore(after.table, Snapshot(cled.table))]

EmulateFails(batch) ==
    /\ Open /\ Valid(batch) /\ Failing
    /\ \E registered \in BOOLEAN :
          \/ cled' = CleanedUp(batch, registered, [k \in DOMAIN batch |-> "released"])
          \/ /\ registered => Len(batch) = 1
             /\ cled' = [cled EXCEPT !.known =
                           Register(@, IF registered THEN BatchIds(batch) ELSE {})]
    /\ reply' = "faulted"
    /\ UNCHANGED <<combat, cclosed>>

(* mutant: the instance stays open *)
CleanupFailsOpenly(batch) ==
    /\ Open /\ Valid(batch) /\ Failing
    /\ \E stuck \in DOMAIN batch :
          cled' = CleanedUp(batch, TRUE, [k \in DOMAIN batch |->
                     IF k = stuck THEN "running" ELSE "released"])
    /\ reply' = "faulted"
    /\ UNCHANGED <<combat, cclosed>>

(* a worker cannot be replaced: the cleanup raises, and the instance is    *)
(* closed to prevent ghost Branch execution                                *)
CleanupFails(batch) ==
    /\ Open /\ Valid(batch) /\ Failing
    /\ \E stuck \in DOMAIN batch, gone \in BOOLEAN :
          cled' = CleanedUp(batch, TRUE, [k \in DOMAIN batch |->
                     IF k = stuck /\ ~gone THEN "running" ELSE "released"])
    /\ cclosed' = TRUE
    /\ reply' = "faulted"
    /\ UNCHANGED combat

(* -------------------- cancel, release, status, close ------------------- *)
CancelBranches(bs) ==
    /\ Open /\ bs \subseteq DOMAIN cled.books
    /\ cled' = [cled EXCEPT !.records = CancelRecords(@, {cled.books[b].internal : b \in bs})]
    /\ reply' = "completed"
    /\ UNCHANGED <<combat, cclosed, failures>>

ReleaseBranches(bs) ==
    /\ Open /\ bs \subseteq DOMAIN cled.books
    /\ cled' = Released(cled, bs)
    /\ reply' = "completed"
    /\ UNCHANGED <<combat, cclosed, failures>>

CClose ==
    /\ Open /\ cclosed' = TRUE
    /\ reply' = "completed"
    /\ UNCHANGED <<combat, cled, failures>>

CNext ==
    \/ CommitAction \/ CommitFails
    \/ \E batch \in CBatches : EmulateActions(batch) \/ EmulateFails(batch) \/ CleanupFails(batch)
    \/ \E item \in CItems : EmulateActionRefused(item)
    \/ \E bs \in SUBSET DOMAIN cled.books \ {{}} : CancelBranches(bs) \/ ReleaseBranches(bs)
    \/ CClose

CSpec == CInit /\ [][CNext]_cvars

-----------------------------------------------------------------------------
(* No ghost Branch: while the instance serves requests no worker executes  *)
(* a Branch nobody waits for, and every record that is not released is     *)
(* still reachable by a public Branch, however an operation failed         *)
(* (emulate_action, emulate_actions, commit_action).                       *)
NoGhostWhileOpen ==
    Open =>
        \A i \in DOMAIN cled.records :
            /\ cled.records[i].state \notin Active
            /\ cled.records[i].state # "released"
                   => \E b \in DOMAIN cled.books : cled.books[b].internal = i

(* A Branch that can be extended belongs to the decision root stands at,   *)
(* and carries a decision point; none survives the commit                  *)
(* (_cancel_and_release_all_branches).                                     *)
ExtensibleBranchesStartAtTheRoot ==
    Open /\ ~combat.torn =>
        \A b \in DOMAIN cled.books :
            Extensible(b) /\ HasDecision(b)
                => cled.books[b].at = combat.pos /\ cled.dps.current[b] # 0
=============================================================================
