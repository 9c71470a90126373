---------------------------- MODULE WholeRunPool ----------------------------
(***************************************************************************)
(* Run/worker_pool.py: one Main Run Worker and NumBranchWorkers Branch     *)
(* workers, each its own process around one game session, answering        *)
(* through ONE result queue, and the controller that routes work to them   *)
(* by Lease; with its callers: the Holder / sibling attempt of             *)
(* Run/process_choice_branch_runner.py, the Branch batches of              *)
(* API/instance_whole_run_beam.py and the helpers of                       *)
(* Run/worker_fault_injection.py.                                          *)
(*                                                                         *)
(* The controller is single-threaded: "pc" says where its call stands.     *)
(* What interleaves with it is the worker processes, which start, answer,  *)
(* die, or answer after the controller gave up on them.                    *)
(*                                                                         *)
(* What is abstracted.  A context_id hashes the map snapshot, the room and *)
(* the action prefix, so it names the position a bootstrap replays to.  A  *)
(* session stands at "reached": the position, and the request that put it  *)
(* there.  Queue timeouts are a choice, open when the queue is empty; one  *)
(* that strikes a worker that would still have answered spends a fault.    *)
(***************************************************************************)
EXTENDS Integers, FiniteSets, Sequences

CONSTANTS
    NumBranchWorkers,   \* branch_worker_count
    Contexts, NoContext,
    BeamBatches,        \* the Branch batches a whole-run instance dispatches
    DirectBatches,      \* what a caller that keeps one registry dispatches
    Users,              \* which caller owns the pool
    MaxCalls,           \* bound: calls of the pool in one behaviour, by user
    MaxFaults           \* bound: deaths, faults and premature timeouts

MAIN_WORKER_SLOT == NumBranchWorkers
BranchSlots == 0..(NumBranchWorkers - 1)
Slots == BranchSlots \cup {MAIN_WORKER_SLOT}

ASSUME PoolAssumption ==
    /\ NumBranchWorkers \in Nat \ {0} /\ MaxCalls \in [Users -> Nat] /\ MaxFaults \in Nat
    /\ NoContext \notin Contexts
    /\ BeamBatches \subseteq Seq(Contexts)
    /\ DirectBatches \subseteq Seq([ctx : Contexts, kind : {"sub_branch", "continuation"},
                                    resolve : BOOLEAN])
    /\ Users \subseteq {"choice_runner", "beam", "direct"}

VARIABLES
    workers,        \* _workers: process, generation, input queue, session
    resq,           \* _result_queue
    leases,         \* LeaseRegistry._leases, by context_id
    next_id,        \* _next_request_id
    boot_index,     \* _next_bootstrap_index
    closed,         \* _closed
    pc,             \* where the controller is
    call,           \* the call in progress
    attempt,        \* run_choice_branch: its stage, context and Holder slot
    outcome,        \* how the last call ended
    user, calls, faults

vars == <<workers, resq, leases, next_id, boot_index, closed,
          pc, call, attempt, outcome, user, calls, faults>>

NoLease == [slot |-> -1, gen |-> 0, by |-> 0]
Nowhere == [ctx |-> NoContext, by |-> 0]
NoItem == [ctx |-> NoContext, kind |-> "sub_branch", resolve |-> FALSE]

NoResult ==
    [id |-> 0, ok |-> FALSE, slot |-> -1, lease |-> NoLease, mode |-> "none", own |-> TRUE]

Item(c, k, r) == [ctx |-> c, kind |-> k, resolve |-> r]

Fresh(g) ==
    [proc |-> "starting", gen |-> g, inbox |-> <<>>, current |-> NoContext, reached |-> Nowhere]

NoCall ==
    [kind |-> "none", items |-> <<>>, pin |-> -1, pending |-> <<>>, results |-> <<>>,
     remaining |-> {}, index |-> 0, hung |-> {}, target |-> -1, settled |-> 0]

NoAttempt == [stage |-> "none", ctx |-> NoContext, holder |-> -1]

(* The constructor returns once every worker said it is ready.             *)
Init ==
    /\ workers = [s \in Slots |-> [Fresh(1) EXCEPT !.proc = "up"]]
    /\ resq = <<>>
    /\ leases = [c \in Contexts |-> NoLease]
    /\ next_id = 0
    /\ boot_index = 0
    /\ closed = FALSE
    /\ pc = "idle"
    /\ call = NoCall
    /\ attempt = NoAttempt
    /\ outcome = "none"
    /\ user \in Users
    /\ calls = 0
    /\ faults = 0

-----------------------------------------------------------------------------
(* LeaseRegistry                                                           *)

LeasedSlots == {leases[c].slot : c \in Contexts} \ {-1}

InvalidateGeneration(table, s, g) ==
    [c \in Contexts |-> IF table[c].slot = s /\ table[c].gen = g THEN NoLease ELSE table[c]]

InvalidateWorker(table, s) ==
    [c \in Contexts |-> IF table[c].slot = s THEN NoLease ELSE table[c]]

(* Mutant: the generation of the slot is not compared. *)
IsValidForAnyGeneration(lease, s) == lease # NoLease

IsValidFor(lease, s) == lease # NoLease /\ lease.gen = workers[s].gen

-----------------------------------------------------------------------------
(* Worker processes                                                        *)

Spend == faults < MaxFaults /\ faults' = faults + 1

Post(m) == resq' = Append(resq, m)

Ready(s) == [tag |-> "ready", slot |-> s]

StartupFault(s) == [tag |-> "startup_fault", slot |-> s]

Controller == <<leases, next_id, boot_index, closed, pc, call, attempt, outcome, user, calls>>

(* _worker_main up to its loop. *)
WorkerStarts(s) ==
    /\ workers[s].proc = "starting"
    /\ \/ /\ workers' = [workers EXCEPT ![s].proc = "up"]
          /\ Post(Ready(s))
          /\ UNCHANGED faults
       \/ /\ workers' = [workers EXCEPT ![s].proc = "dead"]
          /\ Post(StartupFault(s))
          /\ Spend
    /\ UNCHANGED Controller

WorkerDies(s) ==
    /\ workers[s].proc \in {"starting", "up"}
    /\ workers' = [workers EXCEPT ![s].proc = "dead", ![s].inbox = <<>>]
    /\ Spend
    /\ UNCHANGED <<resq, Controller>>

(* Where a request leaves the session, when nothing raises: a bootstrap    *)
(* replays to the item's position, a Holder Step starts where it stands.   *)
Reach(w, r) == IF r.mode = "bootstrap" THEN [ctx |-> r.item.ctx, by |-> r.id] ELSE w.reached

(* Mutant: the Holder Step does not compare the worker's own context. *)
AdmitsAnyHolder(w, r) == r.mode = "holder" => r.lease.gen = w.gen

Admits(w, r) ==
    r.mode = "holder" => w.current = r.item.ctx /\ r.lease.gen = w.gen

Answer(s, r, ok, lease, own) ==
    [tag |-> "answer",
     result |-> [id |-> r.id, ok |-> ok, slot |-> s, lease |-> lease, mode |-> r.mode, own |-> own]]

(* Mutant: resolving the choice forgets to drop the retained context. *)
SettledKeepingContext(w, r) ==
    [w EXCEPT !.inbox = Tail(@), !.current = r.item.ctx,
              !.reached = IF r.item.resolve THEN Nowhere ELSE Reach(w, r)]

(* After a success the session either waits at the choice or has moved on. *)
Settled(w, r) ==
    [w EXCEPT !.inbox = Tail(@),
              !.current = IF r.item.resolve THEN NoContext ELSE r.item.ctx,
              !.reached = IF r.item.resolve THEN Nowhere ELSE Reach(w, r)]

(* _WorkerRuntime.execute for a Choice request.  A request that is not     *)
(* admitted faults; any other one may fault too, by reaching another       *)
(* boundary or raising somewhere, and every fault drops the context.  A    *)
(* fault that leaves a Holder's session where it was is covered by one     *)
(* that does not, since nothing looks at a session without a context.      *)
WorkerExecutes(s) ==
    LET w == workers[s]
        r == Head(w.inbox)
        own == Reach(w, r) = [ctx |-> r.item.ctx,
                              by |-> IF r.mode = "holder" THEN r.lease.by ELSE r.id]
        lease == [slot |-> s, gen |-> w.gen, by |-> Reach(w, r).by]
        faulted == [w EXCEPT !.inbox = Tail(@), !.current = NoContext, !.reached = Nowhere]
    IN  /\ w.proc = "up" /\ w.inbox # <<>>
        /\ r.mode # "explore"
        /\ \/ /\ Admits(w, r)
              /\ workers' = [workers EXCEPT ![s] = Settled(w, r)]
              /\ Post(Answer(s, r, TRUE, IF r.item.resolve THEN NoLease ELSE lease, own))
              /\ UNCHANGED faults
           \/ /\ IF Admits(w, r) THEN Spend ELSE UNCHANGED faults
              /\ workers' = [workers EXCEPT ![s] = faulted]
              /\ Post(Answer(s, r, FALSE, NoLease, own))
        /\ UNCHANGED Controller

(* _explore_for_room_types drives the session away without touching the    *)
(* retained context; every caller explores on the Main worker, which gets  *)
(* no Choice requests.                                                     *)
WorkerExplores(s) ==
    LET w == workers[s]
        r == Head(w.inbox)
    IN  /\ w.proc = "up" /\ w.inbox # <<>>
        /\ r.mode = "explore"
        /\ workers' = [workers EXCEPT ![s].inbox = Tail(@), ![s].reached = Nowhere]
        /\ \E ok \in BOOLEAN : Post(Answer(s, r, ok, NoLease, TRUE))
        /\ UNCHANGED <<faults, Controller>>

-----------------------------------------------------------------------------
(* Calls.  Enter(k) opens a call of kind k; a call ends by Leave(why).     *)

Processes == <<workers, resq>>
Counters == <<user, calls, faults>>

Enter(c) ==
    /\ pc = "idle"
    /\ calls < MaxCalls[user]
    /\ calls' = calls + 1
    /\ call' = [c EXCEPT !.index = boot_index, !.results = [i \in DOMAIN c.items |-> NoResult]]

(* An exception leaves the call; the caller's attempt goes with it.        *)
Raise(why) ==
    /\ outcome' = why
    /\ pc' = "idle"
    /\ call' = NoCall
    /\ attempt' = NoAttempt

Dispatch(items, pin) ==
    /\ Enter([NoCall EXCEPT !.kind = "dispatch", !.items = items, !.pin = pin])
    /\ pc' = IF items = <<>> THEN "wait" ELSE "route"
    /\ UNCHANGED <<Processes, next_id, boot_index, closed, outcome, user, faults>>

(* run_choice_branch: establish, then Holder and sibling together, then    *)
(* the determinism replay.  The Holder item is pinned to the slot that     *)
(* established the choice.  An attempt gets a registry of its own.         *)
Establish(c) ==
    /\ user = "choice_runner"
    /\ attempt.stage = "none"
    /\ attempt' = [stage |-> "establish", ctx |-> c, holder |-> -1]
    /\ leases' = [d \in Contexts |-> NoLease]
    /\ Dispatch(<<Item(c, "sub_branch", FALSE)>>, -1)

ResolvePair ==
    /\ attempt.stage = "pair"
    /\ UNCHANGED <<attempt, leases>>
    /\ Dispatch(<<Item(attempt.ctx, "continuation", TRUE), Item(attempt.ctx, "sub_branch", TRUE)>>,
                attempt.holder)

DeterminismReplay ==
    /\ attempt.stage = "replay"
    /\ UNCHANGED <<attempt, leases>>
    /\ Dispatch(<<Item(attempt.ctx, "sub_branch", TRUE)>>, -1)

(* Fewer than two distinct legal actions: ChoiceReproductionError.         *)
NothingToBranchOn ==
    /\ pc = "idle"
    /\ attempt.stage = "pair"
    /\ attempt' = NoAttempt
    /\ UNCHANGED <<Processes, leases, next_id, boot_index, closed, pc, call, outcome, Counters>>

(* A batch of Branches, none of which holds anything afterwards.           *)
DispatchBeam(b) ==
    /\ user = "beam"
    /\ UNCHANGED <<attempt, leases>>
    /\ Dispatch([i \in DOMAIN b |-> Item(b[i], "sub_branch", TRUE)], -1)

(* Any sequence of batches over one LeaseRegistry, as the tests of the     *)
(* pool issue them: choices established and continued, in any order.       *)
DispatchDirect(items) ==
    /\ user = "direct"
    /\ UNCHANGED <<attempt, leases>>
    /\ Dispatch(items, -1)

(* The requests sent: _submit numbers them.                                *)
Send(s, r) ==
    /\ next_id' = next_id + 1
    /\ workers' = [workers EXCEPT ![s].inbox = Append(@, r)]

(* WholeRunWorkerPool.execute *)
Execute(s, c) ==
    LET item == Item(c, "sub_branch", TRUE)
        r == [id |-> next_id + 1, mode |-> "bootstrap", item |-> item, lease |-> NoLease]
    IN  /\ user = "direct"
        /\ ~closed
        /\ Enter([NoCall EXCEPT !.kind = "execute", !.items = <<item>>, !.remaining = {1},
                                !.pending = <<[id |-> next_id + 1, slot |-> s]>>])
        /\ Send(s, r)
        /\ pc' = "wait"
        /\ UNCHANGED <<resq, leases, boot_index, closed, attempt, outcome, user, faults>>

(* WholeRunWorkerPool.explore *)
Explore ==
    LET r == [id |-> next_id + 1, mode |-> "explore", item |-> NoItem, lease |-> NoLease]
    IN  /\ user = "choice_runner" /\ attempt.stage = "none"
        /\ ~closed
        /\ Enter([NoCall EXCEPT !.kind = "explore", !.remaining = {1}, !.items = <<NoItem>>,
                                !.pending = <<[id |-> next_id + 1, slot |-> MAIN_WORKER_SLOT]>>])
        /\ Send(MAIN_WORKER_SLOT, r)
        /\ pc' = "wait"
        /\ UNCHANGED <<resq, leases, boot_index, closed, attempt, outcome, user, faults>>

(* worker_fault_injection.respawn_and_verify, on a pool its caller still    *)
(* uses; respawn_worker itself does not ask whether the pool is closed.     *)
RespawnByCaller(s) ==
    /\ user = "direct"
    /\ ~closed
    /\ Enter([NoCall EXCEPT !.kind = "respawn", !.hung = {s}])
    /\ Spend
    /\ pc' = "respawn"
    /\ UNCHANGED <<Processes, leases, next_id, boot_index, closed, attempt, outcome, user>>

Close ==
    /\ pc = "idle"
    /\ ~closed
    /\ closed' = TRUE
    /\ workers' = [s \in Slots |-> [workers[s] EXCEPT !.proc = "dead", !.inbox = <<>>]]
    /\ UNCHANGED <<resq, leases, next_id, boot_index, pc, call, attempt, outcome, Counters>>

-----------------------------------------------------------------------------
(* dispatch_choice_work_items: route and submit every item, then wait      *)

(* _choose_bootstrap_slot: the index-th of the slots without a Lease, or   *)
(* of all of them when every slot has one.                                 *)
BootstrapSlots ==
    LET unleased == BranchSlots \ LeasedSlots
        candidates == IF unleased # {} THEN unleased ELSE BranchSlots
        place(s) == Cardinality({t \in candidates : t < s})
    IN  {s \in candidates : place(s) = call.index % Cardinality(candidates)}

(* The item's slot is recorded under the request_id just submitted. *)
Submitted(s) ==
    [call EXCEPT !.pending = Append(@, [id |-> next_id + 1, slot |-> s]),
                 !.remaining = @ \cup {Len(call.pending) + 1}]

AfterRouting == IF Len(call.pending) + 1 = Len(call.items) THEN "wait" ELSE "route"

RouteBootstrap(s) ==
    LET item == call.items[Len(call.pending) + 1]
        r == [id |-> next_id + 1, mode |-> "bootstrap", item |-> item, lease |-> NoLease]
    IN  /\ pc = "route"
        /\ ~closed
        /\ item.kind = "sub_branch"
        /\ s \in BootstrapSlots
        /\ leases' = IF s \in LeasedSlots THEN InvalidateWorker(leases, s) ELSE leases
        /\ Send(s, r)
        /\ call' = [Submitted(s) EXCEPT !.index = @ + 1]
        /\ pc' = AfterRouting
        /\ UNCHANGED <<resq, boot_index, closed, attempt, outcome, Counters>>

(* A continuation goes to the Holder's slot while its Lease is valid, and  *)
(* is refused otherwise.                                                   *)
RouteHolder ==
    LET item == call.items[Len(call.pending) + 1]
        lease == leases[item.ctx]
        s == IF call.pin # -1 THEN call.pin ELSE lease.slot
        r == [id |-> next_id + 1, mode |-> "holder", item |-> item, lease |-> lease]
    IN  /\ pc = "route"
        /\ ~closed
        /\ item.kind = "continuation"
        /\ IF IsValidFor(lease, s)
           THEN /\ Send(s, r)
                /\ call' = Submitted(s)
                /\ pc' = AfterRouting
                /\ UNCHANGED <<leases, attempt, outcome>>
           ELSE /\ leases' = [leases EXCEPT ![item.ctx] = NoLease]
                /\ Raise("no_lease")
                /\ UNCHANGED <<workers, next_id>>
        /\ UNCHANGED <<resq, boot_index, closed, Counters>>

(* _submit on a closed pool.  The routing before it has dropped the Leases *)
(* of the slot it chose, or the continuation's invalid Lease.              *)
SubmitClosed ==
    LET item == call.items[Len(call.pending) + 1]
    IN  /\ pc = "route"
        /\ closed
        /\ IF item.kind = "sub_branch"
           THEN \E s \in BootstrapSlots : leases' = InvalidateWorker(leases, s)
           ELSE leases' = IF IsValidFor(leases[item.ctx], leases[item.ctx].slot)
                          THEN leases ELSE [leases EXCEPT ![item.ctx] = NoLease]
        /\ Raise("closed")
        /\ UNCHANGED <<Processes, next_id, boot_index, closed, Counters>>

-----------------------------------------------------------------------------
(* Waiting: the loops of dispatch_choice_work_items, execute and explore   *)

Waiting == pc = "wait" /\ call.remaining # {}

(* Mutant: an answer is taken for the oldest item that waits on its slot. *)
ExpectedBySlot(m) ==
    LET mine == {k \in call.remaining : call.pending[k].slot = m.result.slot}
    IN  {k \in mine : \A j \in mine : k =< j}

Expected(m) == {k \in call.remaining : call.pending[k].id = m.result.id}

(* An answer of this call is kept and any other answer is discarded.  The  *)
(* queue also carries the messages of starting workers, and those do not   *)
(* unpack into three.                                                      *)
Receive ==
    /\ Waiting
    /\ resq # <<>>
    /\ resq' = Tail(resq)
    /\ LET m == Head(resq)
       IN  IF m.tag = "answer"
           THEN /\ call' = [call EXCEPT
                                !.remaining = @ \ Expected(m),
                                !.results = [k \in DOMAIN @ |->
                                    IF k \in Expected(m) THEN m.result ELSE @[k]]]
                /\ UNCHANGED <<pc, attempt, outcome>>
           ELSE Raise("unpack")
    /\ UNCHANGED <<workers, leases, next_id, boot_index, closed, Counters>>

Silent == \A k \in call.remaining : workers[call.pending[k].slot].proc = "dead"

(* Mutant: the wait has no timeout. *)
TimesOutNever == Waiting /\ resq = <<>> /\ call.kind = "explore" /\ UNCHANGED vars

(* queue.Empty: every slot that still owes an answer is hung.  execute     *)
(* notices a dead worker between its polls; explore lets the exception go. *)
TimesOut ==
    /\ Waiting
    /\ resq = <<>>
    /\ IF Silent THEN UNCHANGED faults ELSE Spend
    /\ IF call.kind = "explore"
       THEN Raise("empty")
       ELSE /\ pc' = "respawn"
            /\ call' = [call EXCEPT !.hung = {call.pending[k].slot : k \in call.remaining}]
            /\ UNCHANGED <<attempt, outcome>>
    /\ UNCHANGED <<Processes, leases, next_id, boot_index, closed, user, calls>>

(* respawn_worker: terminate, spawn, then _await_ready on the same queue.  *)
Respawn(s) ==
    /\ pc = "respawn"
    /\ s \in call.hung
    /\ workers' = [workers EXCEPT ![s] = Fresh(workers[s].gen + 1)]
    /\ call' = [call EXCEPT !.target = s]
    /\ pc' = "ready"
    /\ UNCHANGED <<resq, leases, next_id, boot_index, closed, attempt, outcome, Counters>>

(* The Leases of the old generation go, and so do the requests it owed.    *)
Respawned ==
    LET s == call.target
        owed == {k \in call.remaining : call.pending[k].slot = s}
        left == call.hung \ {s}
    IN  /\ leases' = InvalidateGeneration(leases, s, workers[s].gen - 1)
        /\ call' = [call EXCEPT
                        !.remaining = @ \ owed, !.hung = left, !.target = -1,
                        !.results = [k \in DOMAIN @ |->
                            IF k \in owed THEN [NoResult EXCEPT !.slot = s] ELSE @[k]]]
        /\ pc' = IF left # {} THEN "respawn" ELSE "wait"
        /\ UNCHANGED <<attempt, outcome>>

AwaitReady ==
    /\ pc = "ready"
    /\ resq # <<>>
    /\ resq' = Tail(resq)
    /\ LET m == Head(resq)
       IN  CASE m.tag = "answer" -> Raise("unpack") /\ UNCHANGED leases
             [] m.tag = "startup_fault" -> Raise("startup") /\ UNCHANGED leases
             [] m.tag = "ready" /\ m.slot = call.target -> Respawned
             [] OTHER -> UNCHANGED <<leases, call, pc, attempt, outcome>>
    /\ UNCHANGED <<workers, next_id, boot_index, closed, Counters>>

ReadyTimesOut ==
    /\ pc = "ready"
    /\ resq = <<>>
    /\ IF workers[call.target].proc = "dead" THEN UNCHANGED faults ELSE Spend
    /\ Raise("empty")
    /\ UNCHANGED <<Processes, leases, next_id, boot_index, closed, user, calls>>

-----------------------------------------------------------------------------
(* Returning *)

(* What one result does to the registry. *)
SettleLease(table, c, result) ==
    LET dropped == [table EXCEPT ![c] = NoLease]
    IN  CASE result.ok /\ result.lease # NoLease -> [dropped EXCEPT ![c] = result.lease]
          [] ~result.ok -> InvalidateWorker(dropped, result.slot)
          [] OTHER -> dropped

(* Everything is answered: the results are taken in the items' order.      *)
Answered == pc = "wait" /\ call.remaining = {}
ToSettle == call.kind = "dispatch" /\ call.settled < Len(call.items)

Settle ==
    LET k == call.settled + 1
    IN  /\ Answered
        /\ ToSettle
        /\ leases' = SettleLease(leases, call.items[k].ctx, call.results[k])
        /\ call' = [call EXCEPT !.settled = k]
        /\ UNCHANGED <<Processes, next_id, boot_index, closed, pc, attempt, outcome, Counters>>

AllOk == \A k \in DOMAIN call.results : call.results[k].ok

(* What run_choice_branch does next with the results. *)
NextStage ==
    CASE ~AllOk -> NoAttempt
      [] attempt.stage = "establish" ->
            [attempt EXCEPT !.stage = "pair", !.holder = call.results[1].slot]
      [] attempt.stage = "pair" -> [attempt EXCEPT !.stage = "replay"]
      [] OTHER -> NoAttempt

Return ==
    /\ Answered
    /\ ~ToSettle
    /\ pc' = "idle"
    /\ outcome' = "returned"
    /\ IF call.kind = "dispatch"
       THEN boot_index' = call.index /\ attempt' = NextStage
       ELSE UNCHANGED <<boot_index, attempt>>
    /\ call' = NoCall
    /\ UNCHANGED <<Processes, leases, next_id, closed, Counters>>

-----------------------------------------------------------------------------

Step ==
    \/ \E s \in BranchSlots : RouteBootstrap(s)
    \/ RouteHolder \/ SubmitClosed
    \/ Receive \/ TimesOut
    \/ \E s \in Slots : Respawn(s)
    \/ AwaitReady \/ ReadyTimesOut
    \/ Settle \/ Return

Worker(s) == WorkerStarts(s) \/ WorkerExecutes(s) \/ WorkerExplores(s)

Next ==
    \/ \E c \in Contexts : Establish(c)
    \/ ResolvePair \/ DeterminismReplay \/ NothingToBranchOn
    \/ \E b \in BeamBatches : DispatchBeam(b)
    \/ \E b \in DirectBatches : DispatchDirect(b)
    \/ \E s \in BranchSlots, c \in Contexts : Execute(s, c)
    \/ Explore
    \/ \E s \in Slots : RespawnByCaller(s)
    \/ Close
    \/ Step
    \/ \E s \in Slots : Worker(s) \/ WorkerDies(s)

Spec == Init /\ [][Next]_vars

(* The controller runs, and a worker that lives keeps working; a timeout   *)
(* of the queue is part of the controller's own step.                      *)
FairSpec == Spec /\ WF_vars(Step) /\ \A s \in Slots : WF_vars(Worker(s))

-----------------------------------------------------------------------------
Lease == [slot : Slots \cup {-1}, gen : Nat, by : Nat]
Result ==
    [id : Nat, ok : BOOLEAN, slot : Slots \cup {-1}, lease : Lease,
     mode : {"none", "bootstrap", "holder", "explore"}, own : BOOLEAN]

(* Every worker, Lease, message and pending request has the shape the      *)
(* dataclasses of worker_pool.py give it, and no two requests on the way   *)
(* share a request_id.                                                     *)
TypeOK ==
    /\ \A s \in Slots :
        /\ workers[s].proc \in {"starting", "up", "dead"}
        /\ workers[s].gen \in Nat \ {0}
        /\ workers[s].current \in Contexts \cup {NoContext}
        /\ \A i, j \in DOMAIN workers[s].inbox :
            i # j => workers[s].inbox[i].id # workers[s].inbox[j].id
    /\ \A i \in DOMAIN resq : resq[i].tag = "answer" => resq[i].result \in Result
    /\ leases \in [Contexts -> Lease]
    /\ pc \in {"idle", "route", "wait", "respawn", "ready"}
    /\ call.remaining \subseteq DOMAIN call.pending
    /\ \A k \in DOMAIN call.results : call.results[k] \in Result
    /\ attempt.stage \in {"none", "establish", "pair", "replay"}
    /\ outcome \in {"none", "returned", "no_lease", "closed", "unpack", "startup", "empty"}

Answers == {resq[i].result : i \in {j \in DOMAIN resq : resq[j].tag = "answer"}}

(* A Holder Step that reports success ran on the very position its Lease   *)
(* was issued for: reached by the same request, in the same process, and   *)
(* not resolved since.  The Lease is the controller's belief; between its  *)
(* issue and the step the worker may have been reused, killed or replaced. *)
HolderStepsOnItsOwnReach ==
    \A a \in Answers \cup {call.results[k] : k \in DOMAIN call.results} :
        a.mode = "holder" /\ a.ok => a.own

(* The two halves of a Lease stay true of the processes they name: the     *)
(* context a worker says it retains is where its session really stands     *)
(* (_WorkerRuntime.execute resets it on every path that leaves the         *)
(* choice), and no Holder Step is on its way to a process other than the   *)
(* one that issued its Lease, not even after a respawn that failed half    *)
(* way (respawn_worker, LeaseRegistry.is_valid_for).                       *)
LeasesAreSound ==
    \A s \in Slots :
        /\ workers[s].current # NoContext => workers[s].reached.ctx = workers[s].current
        /\ \A i \in DOMAIN workers[s].inbox :
            LET r == workers[s].inbox[i]
            IN  r.mode = "holder" => r.lease.slot = s /\ r.lease.gen = workers[s].gen

(* An item is answered by its own request, or by a fault the controller    *)
(* made up, never by the late answer of a call that timed out.             *)
AnswersBelongToTheCall ==
    \A k \in DOMAIN call.results :
        call.results[k].id \in {0} \cup (IF k \in DOMAIN call.pending
                                         THEN {call.pending[k].id} ELSE {})

(* Every call of the pool ends, whatever dies or hangs under it.           *)
CallsEnd == pc # "idle" ~> pc = "idle"
=============================================================================
