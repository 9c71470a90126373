---------------------------- MODULE BranchManager ----------------------------
(***************************************************************************)
(* Combat/search/branch_manager.py over a Branch worker pool: the logical  *)
(* Branches, the LeaseRegistry, and the workers that execute one request   *)
(* at a time and answer through one shared result queue.                   *)
(*                                                                         *)
(* The coordinator runs one operation at a time, so an operation is a      *)
(* sequence of steps "pc"; what interleaves with it is the workers, which  *)
(* answer, hang, or answer long after the coordinator gave up on them.     *)
(*                                                                         *)
(* What is abstracted.  A Branch is submitted to a worker at most once, so *)
(* its id stands for its request_id.  A pending result's context_id hashes *)
(* the combat_session_id of the worker that produced it, so the producing  *)
(* Branch stands for it; a worker that retains that context also has the   *)
(* lease's state_epoch, since every execute() that moves the epoch also    *)
(* replaces the retained context.  The round robin of                      *)
(* _choose_bootstrap_worker may pick any of its candidates.  Deadlines are *)
(* a choice: a busy worker may expire whenever the result queue is empty.  *)
(***************************************************************************)
EXTENDS Integers, FiniteSets, SequencesExt

CONSTANTS
    Workers, NoWorker,
    MaxSerial,      \* bound: Branches submitted in one behaviour
    max_branches,   \* BranchManager.max_branches
    RespawnLimit    \* AlcBranchWorkerPool.max_respawns_per_worker

ASSUME BranchAssumption ==
    /\ Workers # {} /\ NoWorker \notin Workers
    /\ {MaxSerial, max_branches, RespawnLimit} \subseteq Nat

VARIABLES
    records,    \* _records
    leases,     \* LeaseRegistry._leases, by the Branch that produced the context
    workers,    \* per worker: generation, input queue and retained context
    abandoned,  \* requests of replaced workers that may still be answered
    results,    \* the pool's shared _result_queue
    pc,         \* where the coordinator is
    op,         \* the operation that is cancelling or releasing
    admitted,   \* poll_branch_ids of the current or last poll
    waiting,    \* poll's "waiting"
    slots,      \* poll's worker_request_ids, Free where there is none
    todo,       \* what cancel_branches / release_branches still has to visit
    visited,
    lineage     \* history: the parent a Branch was submitted under

pool == <<workers, abandoned, results>>
poll == <<admitted, waiting, slots>>
agenda == <<op, todo, visited>>
vars == <<records, leases, pool, pc, poll, agenda, lineage>>

Branches == 1..MaxSerial
NoBranch == 0
Free == 0
NoLease == [worker |-> NoWorker, generation |-> 0]

ActiveStates == {"queued", "running"}
States == ActiveStates \cup {"absent", "completed", "faulted", "cancelled", "released"}
Outcomes == {"pending", "stable", "terminal", "fault"}
Kinds == {"sub_branch", "continuation"}

BranchRecord ==
    [state : States,
     parent : Branches \cup {NoBranch},
     children : SUBSET Branches,
     context : Branches \cup {NoBranch},    \* work_item.context_id
     kind : Kinds,                          \* work_item.work_kind
     worker : Workers \cup {NoWorker},
     generation : Nat,
     result : Outcomes \cup {"none"}]

Absent ==
    [state |-> "absent", parent |-> NoBranch, children |-> {}, context |-> NoBranch,
     kind |-> "sub_branch", worker |-> NoWorker, generation |-> 0, result |-> "none"]

Known == {b \in Branches : records[b].state # "absent"}
Active == {b \in Branches : records[b].state \in ActiveStates}
InState(s) == {b \in Branches : records[b].state = s}
Busy == {w \in Workers : slots[w] # Free}

Init ==
    /\ records = [b \in Branches |-> Absent]
    /\ leases = [b \in Branches |-> NoLease]
    /\ workers = [w \in Workers |-> [generation |-> 1, inbox |-> <<>>, retained |-> NoBranch]]
    /\ abandoned = {}
    /\ results = <<>>
    /\ pc = "idle"
    /\ op = "none"
    /\ admitted = <<>>
    /\ waiting = <<>>
    /\ slots = [w \in Workers |-> Free]
    /\ todo = <<>>
    /\ visited = {}
    /\ lineage = [b \in Branches |-> NoBranch]

-----------------------------------------------------------------------------
(* LeaseRegistry                                                           *)

(* The lease a Branch's result established: its record names the worker.   *)
EstablishedLease(b) ==
    IF records[b].result = "pending"
    THEN [worker |-> records[b].worker, generation |-> records[b].generation]
    ELSE NoLease

IsValid(l) == l # NoLease /\ l.generation = workers[l.worker].generation

InvalidateLease(b) ==
    IF EstablishedLease(b) # NoLease /\ leases[b] = EstablishedLease(b)
    THEN [leases EXCEPT ![b] = NoLease]
    ELSE leases

InvalidateWorker(table, w) ==
    [b \in Branches |-> IF table[b].worker = w THEN NoLease ELSE table[b]]

LeasedWorkers == {leases[b].worker : b \in Branches} \ {NoWorker}

-----------------------------------------------------------------------------
(* Submission: submit_many.  Its callers extend the root or a completed    *)
(* Branch with a next decision; a continuation asks for the state the      *)
(* parent's pending result left on its worker.  A batch is the same as its *)
(* items one after the other, since nothing else changes the records.      *)
Extensible == {p \in InState("completed") : records[p].result \in {"pending", "stable"}}

Contexts(p) ==
    IF p # NoBranch /\ records[p].result = "pending" THEN {p, NoBranch} ELSE {NoBranch}

Submit(p, c, k) ==
    /\ pc = "idle"
    /\ p \in Extensible \cup {NoBranch}
    /\ c \in Contexts(p)
    /\ k = "continuation" => c # NoBranch
    /\ Cardinality(Active) + 1 =< max_branches
    /\ Cardinality(Known) < MaxSerial
    /\ LET b == Cardinality(Known) + 1
           new == [Absent EXCEPT !.state = "queued", !.parent = p, !.context = c, !.kind = k]
       IN  /\ records' = [r \in Branches |->
                            CASE r = b -> new
                              [] r = p -> [records[r] EXCEPT !.children = @ \cup {b}]
                              [] OTHER -> records[r]]
           /\ lineage' = [lineage EXCEPT ![b] = p]
    /\ UNCHANGED <<leases, pool, pc, poll, agenda>>

-----------------------------------------------------------------------------
(* poll: _dispatch_available                                               *)

(* The Branches of a set in the order they were submitted.                 *)
Ascending(S) ==
    {q \in [1..Cardinality(S) -> S] : \A i, j \in 1..Cardinality(S) : i < j => q[i] < q[j]}

(* poll(branch_ids): the callers name Branches in the order they submitted *)
(* them, and without branch_ids it takes every queued one in that order.   *)
PollBegin(S) ==
    /\ pc = "idle"
    /\ S # {}
    /\ admitted' \in Ascending(S)
    /\ waiting' = admitted'
    /\ slots' = [w \in Workers |-> Free]
    /\ pc' = "dispatching"
    /\ UNCHANGED <<records, leases, pool, agenda, lineage>>

FreeWorkers == Workers \ Busy

(* The lease poll looks up for a work item: only a continuation has one.   *)
LeaseFor(b) ==
    IF records[b].kind = "continuation" THEN leases[records[b].context] ELSE NoLease

Deferred(b) == IsValid(LeaseFor(b)) /\ LeaseFor(b).worker \notin FreeWorkers

BootstrapCandidates ==
    IF FreeWorkers \ LeasedWorkers # {} THEN FreeWorkers \ LeasedWorkers ELSE FreeWorkers

(* Where the scan of "waiting" stops.                                      *)
Dispatchable == FreeWorkers # {} /\ \E i \in 1..Len(waiting) : ~Deferred(waiting[i])
StopsAt(i) ==
    /\ pc = "dispatching"
    /\ FreeWorkers # {}
    /\ i \in 1..Len(waiting)
    /\ ~Deferred(waiting[i])
    /\ \A j \in 1..(i - 1) : Deferred(waiting[j])

SendTo(i, w, mode) ==
    LET b == waiting[i]
    IN  /\ records' = [records EXCEPT ![b].state = "running", ![b].worker = w,
                                      ![b].generation = workers[w].generation]
        /\ workers' = [workers EXCEPT ![w].inbox = Append(@, [branch |-> b, mode |-> mode])]
        /\ slots' = [slots EXCEPT ![w] = b]
        /\ waiting' = RemoveAt(waiting, i)
        /\ UNCHANGED <<abandoned, results, pc, admitted, agenda, lineage>>

DispatchHolderStep(i) ==
    /\ StopsAt(i)
    /\ IsValid(LeaseFor(waiting[i]))
    /\ SendTo(i, LeaseFor(waiting[i]).worker, "holder_step")
    /\ UNCHANGED leases

(* Mutant: the leases of the worker that is reused stay. *)
DispatchBootstrapKeepingLeases(i, w) ==
    /\ StopsAt(i)
    /\ ~IsValid(LeaseFor(waiting[i]))
    /\ w \in BootstrapCandidates
    /\ UNCHANGED leases
    /\ SendTo(i, w, "bootstrap_step")

DispatchBootstrap(i, w) ==
    /\ StopsAt(i)
    /\ ~IsValid(LeaseFor(waiting[i]))
    /\ w \in BootstrapCandidates
    /\ leases' = InvalidateWorker(leases, w)
    /\ SendTo(i, w, "bootstrap_step")

LeavePoll ==
    /\ waiting' = <<>>
    /\ slots' = [w \in Workers |-> Free]
    /\ UNCHANGED admitted

(* except Exception: _quarantine_poll_branches(poll_branch_ids); raise     *)
Quarantine ==
    /\ LeavePoll
    /\ pc' = "cancelling"
    /\ op' = "quarantine"
    /\ todo' = admitted
    /\ visited' = {}

(* Serialising the work item or submitting it raises; the lease table is   *)
(* put back first, so nothing of this Branch's routing remains.            *)
DispatchRaises ==
    /\ pc = "dispatching" /\ Dispatchable
    /\ Quarantine
    /\ UNCHANGED <<records, leases, pool, lineage>>

(* Nothing more to send: wait for the workers, or return the results.  The *)
(* code raises "queued Branches could not be routed to any worker" where   *)
(* no worker is busy and a Branch still waits; here poll would be stuck,   *)
(* and PollReturns shows that it never is.                                 *)
DispatchDone ==
    /\ pc = "dispatching" /\ ~Dispatchable
    /\ \/ Busy # {} /\ pc' = "waiting"
       \/ Busy = {} /\ waiting = <<>> /\ pc' = "idle"
    /\ UNCHANGED <<records, leases, pool, poll, agenda, lineage>>

-----------------------------------------------------------------------------
(* poll: results and timeouts                                              *)

(* _finish: the consumed context's lease goes, a pending result brings its *)
(* own, a fault takes every lease of the worker that reported it.          *)
Finish(b, outcome, w, generation) ==
    LET consumed == [c \in Branches |->
                       IF c = records[b].context THEN NoLease ELSE leases[c]]
    IN  /\ records' = [records EXCEPT ![b].result = outcome,
                                      ![b].state = IF outcome = "fault" THEN "faulted" ELSE "completed"]
        /\ leases' = CASE outcome = "pending" ->
                            [consumed EXCEPT ![b] = [worker |-> w, generation |-> generation]]
                       [] outcome = "fault" -> InvalidateWorker(consumed, w)
                       [] OTHER -> consumed

NeverStray(message) == TRUE
(* received_id in running_by_request_id                                    *)
Expected(message) == message.branch \in {slots[w] : w \in Workers}

Receive ==
    /\ pc = "waiting" /\ results # <<>> /\ Expected(Head(results))
    /\ LET m == Head(results)
       IN  /\ slots' = [w \in Workers |-> IF slots[w] = m.branch THEN Free ELSE slots[w]]
           /\ Finish(m.branch, m.outcome, m.worker, m.generation)
    /\ results' = Tail(results)
    /\ pc' = "dispatching"
    /\ UNCHANGED <<workers, abandoned, admitted, waiting, agenda, lineage>>

DiscardStray ==
    /\ pc = "waiting" /\ results # <<>> /\ ~Expected(Head(results))
    /\ results' = Tail(results)
    /\ UNCHANGED <<records, leases, workers, abandoned, pc, poll, agenda, lineage>>

(* respawn_worker: a replacement with an empty queue and no state.  The    *)
(* thread pool leaves the old thread running, so its request may still be  *)
(* answered; a killed process may have answered just before.               *)
RespawnFails(w) == workers[w].generation > RespawnLimit

Replaced(w) ==
    /\ workers' = [workers EXCEPT ![w] =
                     [generation |-> @.generation + 1, inbox |-> <<>>, retained |-> NoBranch]]
    /\ abandoned' = abandoned \cup
                      {[branch |-> r.branch, worker |-> w, generation |-> workers[w].generation] :
                          r \in ToSet(workers[w].inbox)}

MayExpire(w) ==
    /\ \/ pc = "waiting" /\ results = <<>>
       \/ pc = "expiring"
    /\ w \in Busy

ExpireKeepingSlot(w) ==
    /\ MayExpire(w) /\ ~RespawnFails(w)
    /\ Finish(slots[w], "fault", w, workers[w].generation)
    /\ pc' = "expiring"
    /\ UNCHANGED <<results, workers, abandoned, admitted, waiting, slots, agenda, lineage>>

Expire(w) ==
    /\ MayExpire(w) /\ ~RespawnFails(w)
    /\ Replaced(w)
    /\ Finish(slots[w], "fault", w, workers[w].generation)
    /\ slots' = [slots EXCEPT ![w] = Free]
    /\ pc' = "expiring"
    /\ UNCHANGED <<results, admitted, waiting, agenda, lineage>>

ExpireRaises(w) ==
    /\ MayExpire(w) /\ RespawnFails(w)
    /\ Quarantine
    /\ UNCHANGED <<records, leases, pool, lineage>>

ExpiredDone ==
    /\ pc = "expiring"
    /\ pc' = "dispatching"
    /\ UNCHANGED <<records, leases, pool, poll, agenda, lineage>>

-----------------------------------------------------------------------------
(* The workers: _WorkerRuntime.execute and _worker_main                    *)

Answer(b, outcome, w, generation) ==
    Append(results, [branch |-> b, outcome |-> outcome, worker |-> w, generation |-> generation])

(* A Holder Step needs the retained context of its work item; a Bootstrap  *)
(* Step restores and replays, which may mismatch.  Only a pending boundary *)
(* leaves a state behind.                                                  *)
WorkerExecutes(w, outcome) ==
    /\ workers[w].inbox # <<>>
    /\ LET r == Head(workers[w].inbox)
           mismatch == /\ r.mode = "holder_step"
                       /\ workers[w].retained # records[r.branch].context
       IN  /\ mismatch => outcome = "fault"
           /\ workers' = [workers EXCEPT
                            ![w].inbox = Tail(@),
                            ![w].retained = IF outcome = "pending" THEN r.branch ELSE NoBranch]
           /\ results' = Answer(r.branch, outcome, w, workers[w].generation)
    /\ UNCHANGED <<records, leases, abandoned, pc, poll, agenda, lineage>>

(* What a late answer says is never read, so one outcome stands for all.   *)
AbandonedAnswers(r) ==
    /\ abandoned' = abandoned \ {r}
    /\ results' = Answer(r.branch, "pending", r.worker, r.generation)
    /\ UNCHANGED <<records, leases, workers, pc, poll, agenda, lineage>>

-----------------------------------------------------------------------------
(* cancel_branches, release_branches, close_all.  A list of ids is the     *)
(* same as one call per id, except for the lists of the quarantine and of  *)
(* close_all, where an exception skips the rest.                           *)

Start(operation, phase, ids) ==
    /\ op' = operation
    /\ pc' = phase
    /\ todo' \in ids
    /\ visited' = {}
    /\ UNCHANGED <<records, leases, pool, poll, lineage>>

CancelBegin(b) == pc = "idle" /\ b \in Known /\ Start("cancel", "cancelling", {<<b>>})
ReleaseBegin(b) == pc = "idle" /\ b \in Known /\ Start("release", "releasing", {<<b>>})
CloseAll ==
    /\ pc = "idle" /\ Known # {}
    /\ Start("close", "cancelling", Ascending(Known))

MustRespawn(b) == records[b].state = "running"
Blocked(b) == MustRespawn(b) /\ RespawnFails(records[b].worker)

(* What _cancel_one does outside the record: kill the worker of a running  *)
(* Branch, or give up the lease its result established.                    *)
Discard(b) ==
    IF MustRespawn(b)
    THEN /\ Replaced(records[b].worker)
         /\ leases' = InvalidateWorker(leases, records[b].worker)
    ELSE /\ leases' = InvalidateLease(b)
         /\ UNCHANGED <<workers, abandoned>>

Cancelled(b) ==
    IF records[b].state \in {"cancelled", "released"} THEN records
    ELSE [records EXCEPT ![b].state = "cancelled", ![b].result = "none"]

CancelVisit ==
    /\ pc = "cancelling" /\ todo # <<>> /\ ~Blocked(Last(todo))
    /\ LET b == Last(todo)
       IN  IF b \in visited
           THEN /\ todo' = Front(todo)
                /\ UNCHANGED <<records, leases, workers, abandoned, visited>>
           ELSE /\ \E q \in Ascending(records[b].children) : todo' = Front(todo) \o q
                /\ visited' = visited \cup {b}
                /\ Discard(b)
                /\ records' = Cancelled(b)
    /\ UNCHANGED <<results, pc, op, poll, lineage>>

(* _quarantine_poll_branches releases in a "finally", close_all after the  *)
(* cancels; CombatPhase.close then closes the pool whatever happened.      *)
Ended == IF op = "close" THEN "closed" ELSE "idle"
EndOperation == pc' = Ended /\ op' = "none" /\ todo' = <<>> /\ visited' = {}

CancelDone ==
    /\ pc = "cancelling" /\ todo = <<>>
    /\ IF op = "cancel" THEN EndOperation
       ELSE /\ pc' = "releasing"
            /\ todo' \in IF op = "quarantine" THEN {admitted} ELSE Ascending(Known)
            /\ visited' = {}
            /\ UNCHANGED op
    /\ UNCHANGED <<records, leases, pool, poll, lineage>>

CancelRaises ==
    /\ pc = "cancelling" /\ todo # <<>> /\ Blocked(Last(todo))
    /\ IF op # "quarantine" THEN EndOperation
       ELSE /\ pc' = "releasing"
            /\ todo' = admitted
            /\ visited' = {}
            /\ UNCHANGED op
    /\ UNCHANGED <<records, leases, pool, poll, lineage>>

(* A released leaf leaves the cascade graph, and so does a released        *)
(* ancestor whose last child it was: the loop of                           *)
(* _prune_released_leaf_from_parent, from the released Branch b upwards.   *)
Prunable(recs, b) ==
    LET leaf == {c \in {b} : recs[c].state = "released" /\ recs[c].children = {}}
        follows(k, c) == /\ recs[c].state = "released" /\ recs[c].children = {k}
                         /\ recs[k].parent = c
    IN  {c \in Branches : \A S \in SUBSET Branches :
            /\ leaf \subseteq S
            /\ \A k \in S, d \in Branches : follows(k, d) => d \in S
            => c \in S}

PrunedEagerly(recs, b) ==
    [c \in Branches |->
        [recs[c] EXCEPT !.parent = IF c = b THEN NoBranch ELSE @,
                        !.children = IF c = recs[b].parent THEN @ \ {b} ELSE @]]

Pruned(recs, b) ==
    LET gone == Prunable(recs, b)
    IN  [c \in Branches |->
            [recs[c] EXCEPT !.parent = IF c \in gone THEN NoBranch ELSE @,
                            !.children = {k \in @ : ~(k \in gone /\ recs[k].parent = c)}]]

(* _compact_released_record: the status tombstone, without children that   *)
(* are released leaves themselves.                                         *)
Compacted(b) ==
    [records EXCEPT ![b] =
        [Absent EXCEPT !.state = "released",
                       !.parent = records[b].parent,
                       !.children = {c \in records[b].children :
                                       records[c].state # "released" \/ records[c].children # {}}]]

ReleaseVisit ==
    /\ pc = "releasing" /\ todo # <<>> /\ ~Blocked(Head(todo))
    /\ LET b == Head(todo)
       IN  /\ Discard(b)
           /\ records' = Pruned(Compacted(b), b)
    /\ todo' = Tail(todo)
    /\ UNCHANGED <<results, pc, op, poll, visited, lineage>>

ReleaseDone ==
    /\ pc = "releasing" /\ todo = <<>>
    /\ EndOperation
    /\ UNCHANGED <<records, leases, pool, poll, lineage>>

ReleaseRaises ==
    /\ pc = "releasing" /\ todo # <<>> /\ Blocked(Head(todo))
    /\ EndOperation
    /\ UNCHANGED <<records, leases, pool, poll, lineage>>

-----------------------------------------------------------------------------
PollStep ==
    \/ \E i \in 1..Len(waiting) : DispatchHolderStep(i)
    \/ \E i \in 1..Len(waiting), w \in Workers : DispatchBootstrap(i, w)
    \/ DispatchRaises
    \/ DispatchDone
    \/ Receive
    \/ DiscardStray
    \/ \E w \in Workers : Expire(w) \/ ExpireRaises(w)
    \/ ExpiredDone

VisitStep ==
    \/ CancelVisit \/ CancelDone \/ CancelRaises
    \/ ReleaseVisit \/ ReleaseDone \/ ReleaseRaises

Next ==
    \/ \E p, c \in Branches \cup {NoBranch}, k \in Kinds : Submit(p, c, k)
    \/ \E S \in SUBSET InState("queued") : PollBegin(S)
    \/ PollStep
    \/ \E w \in Workers, outcome \in Outcomes : WorkerExecutes(w, outcome)
    \/ \E r \in abandoned : AbandonedAnswers(r)
    \/ \E b \in Branches : CancelBegin(b) \/ ReleaseBegin(b)
    \/ CloseAll
    \/ VisitStep

(* The coordinator is a running Python thread, and a get() with a timeout  *)
(* ends.  Nothing is assumed of the workers: they may hang for ever.       *)
Fairness == WF_vars(PollStep) /\ WF_vars(VisitStep)

Spec == Init /\ [][Next]_vars /\ Fairness

-----------------------------------------------------------------------------
(* The manager, its pool and its agenda keep their types; in particular a  *)
(* worker's generation is never 0, the generation of "no lease".           *)
TypeOK ==
    /\ records \in [Branches -> BranchRecord]
    /\ leases \in [Branches -> [worker : Workers \cup {NoWorker}, generation : Nat]]
    /\ \A w \in Workers :
         /\ workers[w].generation \in Nat \ {0}
         /\ workers[w].inbox \in Seq([branch : Branches, mode : {"holder_step", "bootstrap_step"}])
         /\ workers[w].retained \in Branches \cup {NoBranch}
    /\ pc \in {"idle", "dispatching", "waiting", "expiring", "cancelling", "releasing", "closed"}
    /\ op \in {"none", "cancel", "release", "quarantine", "close"}
    /\ slots \in [Workers -> Branches \cup {Free}]
    /\ {ToSet(admitted), ToSet(waiting), ToSet(todo), visited} \subseteq SUBSET Branches

(* The affinity guarantee of the module docstring: at most one Branch is   *)
(* running on a worker, and that worker's queue holds nothing else.        *)
OneRunningPerWorker ==
    /\ \A a, b \in InState("running") : records[a].worker = records[b].worker => a = b
    /\ \A w \in Workers : \A r \in ToSet(workers[w].inbox) :
         records[r.branch].state = "running" /\ records[r.branch].worker = w

(* A valid lease tells the truth: a free worker it names retains exactly   *)
(* that context, so a Holder Step never meets "context mismatch", and the  *)
(* step runs alone on its worker (_dispatch_available of poll).            *)
LeaseIsTruthful ==
    /\ OneRunningPerWorker
    /\ \A b \in Branches :
         IsValid(leases[b]) =>
            LET w == leases[b].worker
            IN  \/ workers[w].retained = b
                \/ \E a \in InState("running") : records[a].worker = w
    /\ \A w \in Workers : \A r \in ToSet(workers[w].inbox) :
         r.mode = "holder_step" => workers[w].retained = records[r.branch].context

(* poll's docstring: however poll ends, by returning or by raising, none   *)
(* of the Branches it admitted is left queued or running.                  *)
PollSettles ==
    pc \in {"idle", "closed"} => \A b \in ToSet(admitted) : records[b].state \notin ActiveStates

(* release_branches keeps the cascade: a Branch that is not released is    *)
(* still reached from every Branch it descends from, so that cancelling an *)
(* ancestor cancels it, whatever was released in between.                  *)
Ancestors(b) ==
    {a \in Branches : \A S \in SUBSET Branches :
        (\A x \in S \cup {b} : lineage[x] \in S \cup {NoBranch}) => a \in S}
Below(a) ==
    {b \in Branches : \A S \in SUBSET Branches :
        (\A x \in S \cup {a} : records[x].children \subseteq S) => b \in S}
AncestorsReachDescendants ==
    \A b \in Known \ InState("released") : \A a \in Ancestors(b) : b \in Below(a)

(* A late answer never revives a Branch: once it has been faulted by a     *)
(* timeout, cancelled or released, no result reaches its record.           *)
NoResultAfterTheEnd ==
    [][\A b \in Branches :
         records[b].state \in {"completed", "faulted", "cancelled", "released"} =>
             /\ records'[b].state \in {records[b].state, "cancelled", "released"}
             /\ records'[b].result \in {records[b].result, "none"}
             /\ records[b].state = "released" => records'[b].state = "released"]_vars

(* bound: a refused respawn may leave a Branch running that nobody waits   *)
(* for; a later poll, which may dispatch to its worker, is not followed.   *)
NoPollWithLeftovers == pc = "dispatching" => InState("running") \subseteq {slots[w] : w \in Workers}

(* poll returns or raises although the workers may never answer.           *)
PollReturns == pc \in {"dispatching", "waiting", "expiring"} ~> pc \in {"idle", "closed"}
=============================================================================
