--------------------------- MODULE SearchDispatch ---------------------------
(***************************************************************************)
(* The batch path of the search: search_coordinator.py builds WorkItems    *)
(* from one decision context, dispatch_work_items of branch_worker_pool.py *)
(* routes them to the worker processes by lease or by bootstrap, collects  *)
(* the answers, and fault_taxonomy.py decides what is tried again.         *)
(*                                                                         *)
(* A context is the path of candidates that leads to it from the root      *)
(* snapshot, with the hypothesis the root was rewritten for; its context   *)
(* id is the context itself (derive_context_id digests both).  Stepping    *)
(* candidate c of a context ends at a Pending boundary when                *)
(* c \in PendingCandidates, else at a Stable or Terminal one.              *)
(***************************************************************************)
EXTENDS Naturals, FiniteSets, SequencesExt

CONSTANTS
    NumWorkers,             \* worker_count
    Menus,                  \* the pruned candidates of a context, best first
    PendingCandidates,
    Hypotheses,             \* the Search Hypothesis slots of one grid
    MaxRetries,             \* SearchCoordinatorConfig.max_retries
    MaxDepth, MaxItems      \* bounds: replay prefix, WorkItems built in all

NoHypothesis == "none"

ASSUME DispatchAssumption ==
    /\ NumWorkers \in Nat \ {0} /\ MaxRetries \in Nat
    /\ Menus \subseteq Seq(Nat) /\ IsFiniteSet(Hypotheses)

Workers == 1..NumWorkers
None == [none |-> TRUE]

VARIABLES
    pool,       \* worker -> generation, inbox, and what its runtime holds
    answers,    \* the shared result queue
    leases,     \* LeaseRegistry._leases, a set: one lease per context
    next,       \* _next_bootstrap_index and _next_request_id
    contexts,   \* contexts a caller may search from
    call        \* the coordinator's call

vars == <<pool, answers, leases, next, contexts, call>>

Context(path, hyp) == [path |-> path, hyp |-> hyp]
RootContext == Context(<<>>, NoHypothesis)
After(item) == Context(Append(item.ctx.path, item.cand), item.ctx.hyp)

(* A WorkItem's work_id digests exactly these fields: two copies of one    *)
(* card among the sub-branches are two items with one id.                  *)
WorkItem(ctx, cand, index) ==
    [ctx |-> ctx, cand |-> cand,
     kind |-> IF index = 1 THEN "continuation" ELSE "sub_branch"]

PlainWorkItems(ctx, menu) == [i \in DOMAIN menu |-> WorkItem(ctx, menu[i], i)]

(* Root Action x Hypothesis, root action by root action *)
HypothesisWorkItems(ctx, menu) ==
    LET hyps == SetToSeq(Hypotheses)
        n == Len(hyps)
    IN  [k \in 1..(Len(menu) * n) |->
            LET i == ((k - 1) \div n) + 1
            IN  WorkItem(Context(ctx.path, hyps[((k - 1) % n) + 1]), menu[i], i)]

(* ----------------------------- LeaseRegistry ---------------------------- *)
LeaseOf(ctx) == {l \in leases : l.ctx = ctx}
InvalidateWorker(ls, w) == {l \in ls : l.worker # w}
Leased(ls) == {l.worker : l \in ls}
SetLease(ls, lease) == {l \in ls : l.ctx # lease.ctx} \cup {lease}

(* The signature fields of a lease are functions of its context. *)
IsValidFor(lease, item) ==
    /\ item.kind = "continuation"
    /\ lease.ctx = item.ctx
    /\ lease.generation = pool[lease.worker].generation

(* -------------------------------- workers ------------------------------- *)
(* at: where the worker's engine stands, if known; retained:               *)
(* current_context_id and current_hypothesis_id                            *)
Spawned(generation) ==
    [generation |-> generation, inbox |-> <<>>, at |-> None, retained |-> None, epoch |-> 0]

Answer(w, r, status, epoch) ==
    [id |-> r.id, item |-> r.item, status |-> status, worker |-> w,
     generation |-> pool[w].generation, epoch |-> epoch]

(* mutant: any retained state will do *)
HolderAdmitsAnyContext(w, r) == pool[w].retained # None
(* The checks of a Holder Step; a Bootstrap restores the root and replays. *)
HolderAdmits(w, r) ==
    /\ pool[w].retained = r.item.ctx
    /\ pool[w].epoch = r.lease.epoch
Replayed(w, r) == pool[w].epoch + Len(r.item.ctx.path)
StartEpoch(w, r) == IF r.mode = "holder_step" THEN pool[w].epoch ELSE Replayed(w, r)

Faulted(w) == [pool[w] EXCEPT !.inbox = Tail(@), !.at = None, !.retained = None]

Stepped(w, r) ==
    [pool[w] EXCEPT !.inbox = Tail(@), !.at = After(r.item), !.epoch = StartEpoch(w, r) + 1,
        !.retained = IF r.item.cand \in PendingCandidates THEN After(r.item) ELSE None]

(* The step, or the restore and replay before it, raises: the engine is    *)
(* left nobody knows where, and the fault may say the process is tainted   *)
(* (_is_process_tainting_fault).                                           *)
WorkerFaults(w) ==
    /\ pool[w].inbox # <<>>
    /\ LET r == Head(pool[w].inbox) IN
         /\ pool' = [pool EXCEPT ![w] = Faulted(w)]
         /\ \E status \in {"fault", "tainting"} :
               answers' = answers \cup {Answer(w, r, status, 0)}
    /\ UNCHANGED <<leases, next, contexts, call>>

WorkerSteps(w) ==
    /\ pool[w].inbox # <<>>
    /\ LET r == Head(pool[w].inbox) IN
         /\ r.mode = "holder_step" => HolderAdmits(w, r)
         /\ pool' = [pool EXCEPT ![w] = Stepped(w, r)]
         /\ answers' = answers \cup {Answer(w, r, "success", StartEpoch(w, r) + 1)}
    /\ UNCHANGED <<leases, next, contexts, call>>

(* respawn_worker: a new process with a new queue.  Requests queued on the *)
(* old one are lost.                                                       *)
Respawned(w) == [pool EXCEPT ![w] = Spawned(pool[w].generation + 1)]

(* -------------------------- dispatch_work_items ------------------------- *)
Idle == call.pc \in {"idle", "closed"}
Nothing == [i \in {} |-> None]
NoCall(pc, built) ==
    [pc |-> pc, built |-> built, items |-> <<>>, pending |-> <<>>, retry |-> <<>>, todo |-> 1,
     rounds |-> 0, waiting |-> {}, results |-> Nothing, final |-> Nothing, attempts |-> Nothing]
FreshAttempt == [count |-> 0, state |-> "Running"]

Call ==
    /\ Idle
    /\ \E ctx \in contexts, menu \in Menus :
         \E items \in {PlainWorkItems(ctx, menu)} \cup
                      (IF ctx = RootContext THEN {HypothesisWorkItems(ctx, menu)} ELSE {}) :
         LET built == call.built + Len(items) IN
         /\ built <= MaxItems
         /\ call' = IF call.pc = "closed" THEN NoCall("closed", built)
                    ELSE IF items = <<>> THEN NoCall("done", built)
                    ELSE [NoCall("route", built) EXCEPT
                             !.items = items, !.pending = items, !.rounds = 1,
                             !.attempts = [i \in ToSet(items) |-> FreshAttempt]]
    /\ UNCHANGED <<pool, answers, leases, next, contexts>>

(* Item by item: a loop over the pending items, followed by "then".        *)
Current == call.pending[call.todo]
AtLast == call.todo = Len(call.pending)
NextItem(then) ==
    [call EXCEPT !.todo = IF AtLast THEN 1 ELSE @ + 1, !.pc = IF AtLast THEN then ELSE @]

(* _submit *)
Submit(w, item, mode, lease) ==
    LET id == next.request + 1 IN
    /\ pool' = [pool EXCEPT ![w].inbox =
                   Append(@, [id |-> id, item |-> item, mode |-> mode, lease |-> lease])]
    /\ call' = [NextItem("collect") EXCEPT
                   !.waiting = @ \cup {[id |-> id, item |-> item, worker |-> w]}]

Routing == call.pc = "route"
ValidLease == {l \in LeaseOf(Current.ctx) : IsValidFor(l, Current)}

RouteHolder ==
    /\ Routing
    /\ \E lease \in ValidLease : Submit(lease.worker, Current, "holder_step", lease)
    /\ next' = [next EXCEPT !.request = @ + 1]
    /\ UNCHANGED <<answers, leases, contexts>>

(* _choose_bootstrap_worker: the next in turn of the workers without a     *)
(* lease, or of all of them when every worker has one.                     *)
BootstrapWorkers(ls) ==
    LET free == Workers \ Leased(ls)
        candidates == IF free = {} THEN Workers ELSE free
        place(w) == Cardinality({v \in candidates : v < w})
    IN  {w \in candidates : place(w) = next.bootstrap % Cardinality(candidates)}

RouteBootstrap ==
    /\ Routing /\ ValidLease = {}
    /\ LET kept == IF Current.kind = "continuation" THEN leases \ LeaseOf(Current.ctx) ELSE leases
       IN  \E w \in BootstrapWorkers(kept) :
             /\ leases' = InvalidateWorker(kept, w)
             /\ Submit(w, Current, "bootstrap_step", None)
    /\ next' = [bootstrap |-> next.bootstrap + 1, request |-> next.request + 1]
    /\ UNCHANGED <<answers, contexts>>

(* results_by_work_id: the result of a copy overwrites its twin's *)
Recorded(results, item, r) ==
    [i \in DOMAIN results \cup {item} |-> IF i = item THEN r ELSE results[i]]

(* mutant: an answer is taken for whichever request waits on its worker *)
ExpectedByWorker(a) == {x \in call.waiting : x.worker = a.worker}
Expected(a) == {x \in call.waiting : x.id = a.id}

Receive ==
    /\ call.pc = "collect" /\ call.waiting # {}
    /\ \E a \in answers :
         /\ answers' = answers \ {a}
         /\ IF Expected(a) = {} THEN UNCHANGED <<pool, leases, call>>
            ELSE \E x \in Expected(a) :
                 /\ call' = [call EXCEPT !.waiting = @ \ {x},
                                !.results = Recorded(@, x.item, a)]
                 /\ IF a.status = "tainting"
                    THEN pool' = Respawned(a.worker) /\ leases' = InvalidateWorker(leases, a.worker)
                    ELSE UNCHANGED <<pool, leases>>
    /\ UNCHANGED <<next, contexts>>

(* mutant: only the workers that still have something to do are given up *)
HungWorkersBusy == {x.worker : x \in {y \in call.waiting : pool[y.worker].inbox # <<>>}}
HungWorkers == {x.worker : x \in call.waiting}

GivenUp == {x \in call.waiting : x.worker \in HungWorkers}

(* _fault_result of an item that timed out.  Of two requests with one      *)
(* work_id one is kept; both of their workers are replaced.                *)
TimeoutResult(i) ==
    LET x == CHOOSE y \in GivenUp : y.item = i
    IN  [id |-> x.id, item |-> i, status |-> "fault", worker |-> x.worker,
         generation |-> pool[x.worker].generation, epoch |-> 0]

(* Nothing came for request_timeout_s: every request still out is a fault  *)
(* and its worker is replaced.  A worker may have answered while it was    *)
(* being terminated.                                                       *)
TimesOut ==
    /\ call.pc = "collect" /\ HungWorkers # {} /\ answers = {}
    /\ \E late \in SUBSET {w \in HungWorkers : pool[w].inbox # <<>>} :
         answers' = {Answer(w, Head(pool[w].inbox), "success", 1) : w \in late}
    /\ pool' = [w \in Workers |-> IF w \in HungWorkers THEN Respawned(w)[w] ELSE pool[w]]
    /\ leases' = {l \in leases : l.worker \notin HungWorkers}
    /\ call' = [call EXCEPT !.waiting = @ \ GivenUp,
                   !.results = [i \in DOMAIN @ \cup {x.item : x \in GivenUp} |->
                       IF \E x \in GivenUp : x.item = i THEN TimeoutResult(i) ELSE @[i]]]
    /\ UNCHANGED <<next, contexts>>

EstablishedLease(r) ==
    [worker |-> r.worker, generation |-> r.generation, ctx |-> After(r.item), epoch |-> r.epoch]
SettleLease(item) ==
    LET r == call.results[item]
        dropped == leases \ LeaseOf(item.ctx)
    IN  IF r.status # "success" THEN InvalidateWorker(dropped, r.worker)
        ELSE IF item.cand \in PendingCandidates THEN SetLease(dropped, EstablishedLease(r))
        ELSE dropped

(* All results are in: the leases follow them, item by item.               *)
Settle ==
    /\ call.pc = "collect" /\ call.waiting = {}
    /\ leases' = SettleLease(Current)
    /\ call' = NextItem("account")
    /\ UNCHANGED <<pool, answers, next, contexts>>

(* -------------------- _dispatch_work_items_until_final ------------------ *)
(* decide_retry *)
(* mutant: the attempt that just failed is not counted *)
RetriesOneMore(attempt) == attempt.count <= MaxRetries
Retries(attempt) == attempt.count + 1 <= MaxRetries
Retry(attempt) ==
    [count |-> attempt.count + 1, state |-> IF Retries(attempt) THEN "Retrying" ELSE "FinalFault"]

(* The items of a round, one by one.                                       *)
Accounting == call.pc = "account"
Answered == call.results[Current]
Attempt == call.attempts[Current]

AccountSuccess ==
    /\ Accounting /\ Answered.status = "success"
    /\ call' = [NextItem("round") EXCEPT !.attempts[Current].state = "FinalSuccess",
                                         !.final = Recorded(@, Current, Answered)]
    /\ UNCHANGED <<pool, answers, leases, next, contexts>>

Undecided(attempt) == attempt.state \in {"Running", "Retrying"}

AccountFault ==
    /\ Accounting /\ Answered.status # "success" /\ Undecided(Attempt)
    /\ call' = [NextItem("round") EXCEPT !.attempts[Current] = Retry(Attempt),
                   !.retry = IF Retries(Attempt) THEN Append(@, Current) ELSE @,
                   !.final = IF Retries(Attempt) THEN @ ELSE Recorded(@, Current, Answered)]
    /\ UNCHANGED <<pool, answers, leases, next, contexts>>

(* decide_retry refuses a final item: "cannot retry from final state"      *)
AccountRaises ==
    /\ Accounting /\ Answered.status # "success" /\ ~Undecided(Attempt)
    /\ call' = [call EXCEPT !.pc = "raised"]
    /\ UNCHANGED <<pool, answers, leases, next, contexts>>

(* while pending, with its defensive round cap                             *)
RoundEnds ==
    /\ call.pc = "round"
    /\ call' = IF call.retry = <<>> THEN [call EXCEPT !.pc = "done"]
               ELSE [call EXCEPT !.pending = call.retry, !.retry = <<>>, !.results = Nothing,
                        !.rounds = @ + 1,
                        !.pc = IF call.rounds + 1 > MaxRetries + 2 THEN "raised" ELSE "route"]
    /\ UNCHANGED <<pool, answers, leases, next, contexts>>

(* The caller goes on, and may search from a Pending result of a plain     *)
(* round.                                                                  *)
Return ==
    /\ call.pc \in {"done", "raised"}
    /\ contexts' = contexts \cup
         (IF call.pc = "raised" THEN {}
          ELSE {After(i) : i \in {j \in ToSet(call.items) :
                   /\ call.final[j].status = "success" /\ j.cand \in PendingCandidates
                   /\ j.ctx.hyp = NoHypothesis /\ Len(j.ctx.path) < MaxDepth}})
    /\ call' = NoCall("idle", call.built)
    /\ UNCHANGED <<pool, answers, leases, next>>

(* close: workers are stopped, and every later _submit raises *)
Close ==
    /\ call.pc = "idle"
    /\ call' = [call EXCEPT !.pc = "closed"]
    /\ UNCHANGED <<pool, answers, leases, next, contexts>>

Init ==
    /\ pool = [w \in Workers |-> Spawned(1)]
    /\ answers = {} /\ leases = {}
    /\ next = [bootstrap |-> 0, request |-> 0]
    /\ contexts = {RootContext}
    /\ call = NoCall("idle", 0)

Coordinates ==
    \/ RouteHolder \/ RouteBootstrap \/ Receive \/ TimesOut \/ Settle
    \/ AccountSuccess \/ AccountFault \/ AccountRaises \/ RoundEnds \/ Return

Next ==
    \/ Call \/ Close \/ Coordinates
    \/ \E w \in Workers : WorkerFaults(w) \/ WorkerSteps(w)

(* The coordinator is a running thread whose get has a timeout; nothing is *)
(* asked of the workers, which may hang or be dead.                        *)
Spec == Init /\ [][Next]_vars /\ WF_vars(Coordinates)

-----------------------------------------------------------------------------
Results == UNION {{call.results[i] : i \in DOMAIN call.results},
                  {call.final[i] : i \in DOMAIN call.final}}

TypeOK ==
    /\ \A w \in Workers : pool[w].generation \in Nat \ {0} /\ pool[w].epoch \in Nat
    /\ \A a \in answers : a.status \in {"success", "fault", "tainting"}
    /\ \A l, m \in leases : l.ctx = m.ctx => l = m
    /\ \A a \in answers, x \in call.waiting : a.id = x.id => a.item = x.item
    /\ \A x, y \in call.waiting : x.id = y.id => x = y
    /\ call.pc \in {"idle", "closed", "route", "collect", "account", "round", "done", "raised"}
    /\ \A i \in DOMAIN call.attempts :
         call.attempts[i].state \in {"Running", "Retrying", "FinalSuccess", "FinalFault"}

(* Every WorkItem of a finished call has the result of its own execution   *)
(* and a final state that agrees with it: neither a late answer of a       *)
(* replaced worker nor the answer of another item is taken for it, and     *)
(* nothing that faulted is reported as a success (search_coordinator.py    *)
(* _dispatch_work_items_until_final, branch_worker_pool.py                 *)
(* dispatch_work_items).                                                   *)
ItemsEndWithTheirOwnResult ==
    call.pc = "done" =>
        \A i \in ToSet(call.items) :
            /\ i \in DOMAIN call.final /\ call.final[i].item = i
            /\ call.attempts[i].state =
                  (IF call.final[i].status = "success" THEN "FinalSuccess" ELSE "FinalFault")

(* The retry loop stays below its defensive round cap, and fails only      *)
(* where two items share a work_id: max_retries bounds the executions of   *)
(* an item whatever its worker does (fault_taxonomy.py decide_retry).      *)
Distinct(items) == \A i, j \in DOMAIN items : items[i] = items[j] => i = j
RetriesAreBounded ==
    /\ call.rounds <= MaxRetries + 1
    /\ call.pc = "raised" => ~Distinct(call.items)

(* A Holder Step that a worker admits runs on the state its lease was      *)
(* issued for: however faults, bootstraps and respawns interleave, it is   *)
(* with the process that issued the lease, and the engine of that process  *)
(* stands at the item's context (branch_worker_pool.py                     *)
(* _WorkerRuntime.execute).                                                *)
HolderStepsOnItsContext ==
    \A w \in Workers :
        pool[w].inbox # <<>> =>
            LET r == Head(pool[w].inbox) IN
            r.mode = "holder_step" =>
                /\ r.lease.worker = w /\ r.lease.generation = pool[w].generation
                /\ HolderAdmits(w, r) => pool[w].at = r.item.ctx

(* A call always comes back, also when workers hang, die, or lose requests *)
(* queued behind a respawn (branch_worker_pool.py dispatch_work_items).    *)
CallsReturn == call.pc = "route" ~> Idle
=============================================================================
