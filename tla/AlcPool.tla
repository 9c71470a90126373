------------------------------ MODULE AlcPool -------------------------------
(***************************************************************************)
(* AlcBranchWorkerPool of alc_worker_pool.py: workers that are threads of  *)
(* one process, each with an isolated game, and execute, which several     *)
(* threads may call at once.  All of them read one result queue: a caller  *)
(* that takes the answer of another parks it in _ready_results, where its  *)
(* caller looks before every read.  A worker that hangs cannot be ended;   *)
(* its thread is abandoned and another one spawned under its id.           *)
(***************************************************************************)
EXTENDS Naturals, Sequences, FiniteSets

CONSTANTS
    Callers,            \* threads that call execute
    NumThreads,         \* worker_count
    MaxRespawns,        \* max_respawns_per_worker
    MaxExecutes         \* bound: requests of all callers

ASSUME AlcAssumption == NumThreads \in Nat /\ MaxRespawns \in Nat /\ MaxExecutes \in Nat

VARIABLES
    threads,    \* every thread ever spawned, with its handle's queue
    handles,    \* _workers: worker id -> its thread
    respawned,  \* _respawn_counts
    results,    \* _result_queue
    requests,   \* _next_request_id, _active_request_ids and _ready_results
    caller,     \* where every caller's execute stands
    closed,     \* _closed
    shared      \* history: has a worker had two callers at once?

alcVars == <<threads, handles, respawned, results, requests, caller, closed, shared>>

NoRequest == 0
Told == 0               \* the None that ends a worker
NoResult == [id |-> NoRequest, status |-> "none", worker |-> 0]
Result(id, status, w) == [id |-> id, status |-> status, worker |-> w]

SpawnWorker(w) == [worker |-> w, in_queue |-> <<>>, busy |-> NoRequest, alive |-> TRUE]
IdleCaller ==
    [pc |-> "idle", worker |-> 0, id |-> NoRequest, got |-> NoResult,
     answer |-> NoResult]

AlcInit ==
    /\ threads = [i \in 1..NumThreads |-> SpawnWorker(i)]
    /\ handles = [w \in 1..NumThreads |-> w]
    /\ respawned = [w \in 1..NumThreads |-> 0]
    /\ results = <<>>
    /\ requests = [next |-> 0, active |-> {}, ready |-> {}]
    /\ caller = [c \in Callers |-> IdleCaller]
    /\ closed = FALSE
    /\ shared = FALSE

-----------------------------------------------------------------------------
(* execute                                                                 *)

At(c, pc) == caller[c].pc = pc
Put(i, message) == [threads EXCEPT ![i].in_queue = Append(@, message)]
Waiting(w) == {c \in Callers : caller[c].worker = w /\ ~At(c, "idle")}

(* _submit: the id is taken under the lock, ...                            *)
SubmitId(c, w) ==
    /\ At(c, "idle") /\ ~closed /\ requests.next < MaxExecutes
    /\ requests' = [requests EXCEPT !.next = @ + 1, !.active = @ \cup {requests.next + 1}]
    /\ caller' = [caller EXCEPT ![c] = [IdleCaller EXCEPT !.pc = "put", !.worker = w,
                                                          !.id = requests.next + 1]]
    /\ shared' = (shared \/ Waiting(w) # {})
    /\ UNCHANGED <<threads, handles, respawned, results, closed>>

(* ... and the request is put on whatever handle the worker has by then.   *)
SubmitPut(c) ==
    /\ At(c, "put")
    /\ threads' = Put(handles[caller[c].worker], caller[c].id)
    /\ caller' = [caller EXCEPT ![c].pc = "check"]
    /\ UNCHANGED <<handles, respawned, results, requests, closed, shared>>

(* A result ends the call, after a respawn when the fault tainted its      *)
(* worker.                                                                 *)
Ended(c, r) ==
    [caller EXCEPT ![c].pc = IF r.status = "tainting" THEN "respawn" ELSE "idle",
                   ![c].worker = IF r.status = "tainting" THEN r.worker ELSE 0,
                   ![c].answer = r, ![c].got = NoResult]

(* The top of the loop: an answer another caller parked.                   *)
TakeParked(c) ==
    /\ At(c, "check")
    /\ \E r \in requests.ready :
         /\ r.id = caller[c].id
         /\ requests' = [requests EXCEPT !.ready = @ \ {r}, !.active = @ \ {r.id}]
         /\ caller' = Ended(c, r)
    /\ UNCHANGED <<threads, handles, respawned, results, closed, shared>>

NothingParked(c) ==
    /\ At(c, "check") /\ \A r \in requests.ready : r.id # caller[c].id
    /\ caller' = [caller EXCEPT ![c].pc = "get"]
    /\ UNCHANGED <<threads, handles, respawned, results, requests, closed, shared>>

GetResult(c) ==
    /\ At(c, "get") /\ results # <<>>
    /\ results' = Tail(results)
    /\ caller' = [caller EXCEPT ![c].pc = "got", ![c].got = Head(results)]
    /\ UNCHANGED <<threads, handles, respawned, requests, closed, shared>>

(* 0.1 s without a result: look again.                                     *)
NextChunk(c) ==
    /\ At(c, "get") /\ results = <<>>
    /\ caller' = [caller EXCEPT ![c].pc = "check"]
    /\ UNCHANGED <<threads, handles, respawned, results, requests, closed, shared>>

(* The deadline is over, whatever is in the queue by now.                  *)
DeadlinePasses(c) ==
    /\ At(c, "get")
    /\ caller' = [caller EXCEPT ![c].pc = "late"]
    /\ UNCHANGED <<threads, handles, respawned, results, requests, closed, shared>>

ExecuteTimesOut(c) ==
    /\ At(c, "late")
    /\ requests' = [requests EXCEPT !.active = @ \ {caller[c].id}]
    /\ caller' = [caller EXCEPT ![c].pc = "respawn",
                                ![c].answer = Result(caller[c].id, "task_timeout", caller[c].worker)]
    /\ UNCHANGED <<threads, handles, respawned, results, closed, shared>>

(* mutant: whatever answer is read is taken for the caller's own *)
IsOwnAlways(c) == TRUE

IsOwn(c) == caller[c].got.id = caller[c].id

(* The answer of another caller is parked while that caller waits for it,  *)
(* and discarded as stale when it gave up.                                 *)
ParkResult(c) ==
    /\ At(c, "got") /\ ~IsOwn(c)
    /\ requests' = IF caller[c].got.id \in requests.active
                   THEN [requests EXCEPT !.ready = @ \cup {caller[c].got}] ELSE requests
    /\ caller' = [caller EXCEPT ![c].pc = "check", ![c].got = NoResult]
    /\ UNCHANGED <<threads, handles, respawned, results, closed, shared>>

ReturnResult(c) ==
    /\ At(c, "got") /\ IsOwn(c)
    /\ requests' = [requests EXCEPT !.active = @ \ {caller[c].id}]
    /\ caller' = Ended(c, caller[c].got)
    /\ UNCHANGED <<threads, handles, respawned, results, closed, shared>>

-----------------------------------------------------------------------------
(* respawn_worker, which holds no lock: the handle is read and its thread  *)
(* told to stop, the new game is created, and the new handle replaces the  *)
(* old one.                                                                *)
RespawnRaises(c) ==
    /\ At(c, "respawn")
    /\ closed \/ respawned[caller[c].worker] >= MaxRespawns
    /\ caller' = [caller EXCEPT ![c] = IdleCaller]
    /\ UNCHANGED <<threads, handles, respawned, results, requests, closed, shared>>

(* mutant: the thread that is replaced is not told to stop *)
RespawnForgetsOldThread(c) ==
    /\ At(c, "respawn") /\ ~closed
    /\ LET w == caller[c].worker IN
       /\ respawned[w] < MaxRespawns
       /\ respawned' = [respawned EXCEPT ![w] = @ + 1]
       /\ caller' = [caller EXCEPT ![c].pc = "spawn"]
    /\ UNCHANGED <<threads, handles, results, requests, closed, shared>>

RespawnAbandons(c) ==
    /\ At(c, "respawn") /\ ~closed
    /\ LET w == caller[c].worker IN
       /\ respawned[w] < MaxRespawns
       /\ respawned' = [respawned EXCEPT ![w] = @ + 1]
       /\ threads' = Put(handles[w], Told)
       /\ caller' = [caller EXCEPT ![c].pc = "spawn"]
    /\ UNCHANGED <<handles, results, requests, closed, shared>>

RespawnSpawns(c) ==
    /\ At(c, "spawn")
    /\ threads' = Append(threads, SpawnWorker(caller[c].worker))
    /\ handles' = [handles EXCEPT ![caller[c].worker] = Len(threads) + 1]
    /\ caller' = [caller EXCEPT ![c].pc = "idle", ![c].worker = 0]
    /\ UNCHANGED <<respawned, results, requests, closed, shared>>

-----------------------------------------------------------------------------
(* _worker_main of thread i                                                *)

ThreadTakes(i) ==
    /\ threads[i].alive /\ threads[i].busy = NoRequest /\ threads[i].in_queue # <<>>
    /\ LET m == Head(threads[i].in_queue) IN
       threads' = [threads EXCEPT ![i].in_queue = Tail(@), ![i].busy = m, ![i].alive = m # Told]
    /\ UNCHANGED <<handles, respawned, results, requests, caller, closed, shared>>

ThreadAnswers(i) ==
    /\ threads[i].busy # NoRequest
    /\ \E status \in {"success", "tainting"} :
         results' = Append(results, Result(threads[i].busy, status, threads[i].worker))
    /\ threads' = [threads EXCEPT ![i].busy = NoRequest]
    /\ UNCHANGED <<handles, respawned, requests, caller, closed, shared>>

(* close, by the thread that owns the pool once its callers are done       *)
AlcClose ==
    /\ ~closed /\ \A c \in Callers : At(c, "idle")
    /\ closed' = TRUE
    /\ threads' = [i \in DOMAIN threads |->
         IF \E w \in DOMAIN handles : handles[w] = i
         THEN [threads[i] EXCEPT !.in_queue = Append(@, Told)] ELSE threads[i]]
    /\ UNCHANGED <<handles, respawned, results, requests, caller, shared>>

Executes(c) ==
    \/ SubmitPut(c) \/ TakeParked(c) \/ NothingParked(c)
    \/ GetResult(c) \/ NextChunk(c) \/ DeadlinePasses(c) \/ ExecuteTimesOut(c)
    \/ ParkResult(c) \/ ReturnResult(c)
    \/ RespawnRaises(c) \/ RespawnAbandons(c) \/ RespawnSpawns(c)

AlcNext ==
    \/ \E c \in Callers :
         \/ \E w \in DOMAIN handles : SubmitId(c, w)
         \/ Executes(c)
    \/ \E i \in DOMAIN threads : ThreadTakes(i) \/ ThreadAnswers(i)
    \/ AlcClose

AlcSpec == AlcInit /\ [][AlcNext]_alcVars

-----------------------------------------------------------------------------
(***************************************************************************)
(* However the callers' reads of the shared queue interleave with late     *)
(* answers of abandoned threads, execute returns the answer to its own     *)
(* request or a timeout, and an answer is never left for two callers.      *)
(***************************************************************************)
AnswersReachTheirCaller ==
    /\ \A c \in Callers : caller[c].answer # NoResult => caller[c].answer.id = caller[c].id
    /\ \A r, q \in requests.ready : r.id = q.id => r = q
    /\ \A c \in Callers, r \in requests.ready :
         r.id = caller[c].id => caller[c].answer.status \in {"none", "task_timeout"}

(***************************************************************************)
(* After close every thread the pool ever spawned, the abandoned ones too, *)
(* has been told to stop, unless two callers waited on one worker at once  *)
(* (respawn_worker takes no lock: both may replace the same handle, and    *)
(* one new thread is then in neither _workers nor _abandoned).             *)
(***************************************************************************)
ThreadsAreStopped ==
    closed /\ ~shared =>
        \A i \in DOMAIN threads :
            threads[i].alive => \E k \in DOMAIN threads[i].in_queue : threads[i].in_queue[k] = Told
=============================================================================
