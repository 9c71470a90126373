-------------------------- MODULE WorkerPoolsProofs --------------------------
(***************************************************************************)
(* Proofs about SearchDispatch and AlcPool, for any number of workers,     *)
(* candidates, hypotheses and retries, and of callers, threads and         *)
(* requests.                                                               *)
(***************************************************************************)
EXTENDS WorkerPools, FiniteSetTheorems, TLAPS

(***************************************************************************)
(* SearchDispatch.  Whose result an item ends with depends on the whole    *)
(* way of a request.                                                       *)
(* IdInv says that a request id stands for one item wherever it turns up,  *)
(* in an input queue, in the result queue or in the pending table, so that *)
(* what is recorded for an item is an execution of it; RoundInv that no    *)
(* pending item is without a result or an open request; CountInv that an   *)
(* item's attempts keep up with the rounds, which bounds them; StateInv    *)
(* and DistinctInv that an item is pending exactly until it is decided.    *)
(***************************************************************************)

ContextRec == [path : Seq(Nat), hyp : Hypotheses \cup {NoHypothesis}]
ItemRec == [ctx : ContextRec, cand : Nat, kind : {"continuation", "sub_branch"}]
LeaseRec == [worker : Workers, generation : Nat \ {0}, ctx : ContextRec, epoch : Nat]
RequestRec ==
    [id : Nat, item : ItemRec, mode : {"holder_step", "bootstrap_step"}, lease : LeaseRec \cup {None}]
WorkerRec ==
    [generation : Nat \ {0}, inbox : Seq(RequestRec), at : ContextRec \cup {None},
     retained : ContextRec \cup {None}, epoch : Nat]
AnswerRec ==
    [id : Nat, item : ItemRec, status : {"success", "fault", "tainting"}, worker : Workers,
     generation : Nat \ {0}, epoch : Nat]
WaitRec == [id : Nat, item : ItemRec, worker : Workers]
AttemptRec == [count : Nat, state : {"Running", "Retrying", "FinalSuccess", "FinalFault"}]

(* dict attributes: functions on some of the items                         *)
Maps(T) == UNION {[D -> T] : D \in SUBSET ItemRec}

Phases == {"idle", "closed", "route", "collect", "account", "round", "done", "raised"}
CallRec ==
    [pc : Phases, built : Nat, items : Seq(ItemRec), pending : Seq(ItemRec), retry : Seq(ItemRec),
     todo : Nat, rounds : Nat, waiting : SUBSET WaitRec,
     results : Maps(AnswerRec), final : Maps(AnswerRec), attempts : Maps(AttemptRec)]

Types ==
    /\ pool \in [Workers -> WorkerRec]
    /\ answers \subseteq AnswerRec
    /\ leases \subseteq LeaseRec
    /\ next \in [bootstrap : Nat, request : Nat]
    /\ contexts \subseteq ContextRec
    /\ call \in CallRec

(* A request id was drawn once: whatever bears it is about one item.       *)
IdInv ==
    /\ \A x \in call.waiting : x.id <= next.request
    /\ \A a \in answers : a.id <= next.request
    /\ \A w \in Workers : \A k \in DOMAIN pool[w].inbox : pool[w].inbox[k].id <= next.request
    /\ \A x, y \in call.waiting : x.id = y.id => x = y
    /\ \A a \in answers, x \in call.waiting : a.id = x.id => a.item = x.item
    /\ \A w \in Workers : \A k \in DOMAIN pool[w].inbox : \A x \in call.waiting :
         pool[w].inbox[k].id = x.id => pool[w].inbox[k].item = x.item

(* What a worker retains is where its engine stands, and a Holder Step in  *)
(* its queue carries a lease of this very process.                         *)
HolderInv ==
    \A w \in Workers :
      /\ pool[w].retained = None \/ pool[w].retained = pool[w].at
      /\ \A k \in DOMAIN pool[w].inbox :
           pool[w].inbox[k].mode = "holder_step" =>
             /\ pool[w].inbox[k].lease \in LeaseRec
             /\ pool[w].inbox[k].lease.worker = w
             /\ pool[w].inbox[k].lease.generation = pool[w].generation

OneLease == \A l, m \in leases : l.ctx = m.ctx => l = m

(* The items of the round: a pending item that was routed has a result or  *)
(* a request that is waited for.                                           *)
Covered(k) ==
    \/ call.pending[k] \in DOMAIN call.results
    \/ \E x \in call.waiting : x.item = call.pending[k]
RoundInv ==
    /\ \A k \in DOMAIN call.items : call.items[k] \in DOMAIN call.attempts
    /\ \A k \in DOMAIN call.pending : call.pending[k] \in DOMAIN call.attempts
    /\ \A k \in DOMAIN call.retry : call.retry[k] \in DOMAIN call.attempts
    /\ \A i \in DOMAIN call.results : call.results[i].item = i
    /\ \A i \in DOMAIN call.final : call.final[i].item = i
    /\ call.pc \in {"route", "collect", "account"} => call.todo \in DOMAIN call.pending
    /\ call.pc = "round" => call.todo = 1
    /\ call.pc \in {"account", "round"} => call.waiting = {}
    /\ call.pc \notin {"account", "round", "raised"} => call.retry = <<>>
    /\ \A k \in DOMAIN call.pending :
         (call.pc = "route" => k < call.todo) /\ call.pc \in {"route", "collect", "account"} =>
           Covered(k)

(* An item is executed once in a round: its count keeps up with the        *)
(* rounds.                                                                 *)
CountInv ==
    /\ call.rounds <= MaxRetries + 1
    /\ \A k \in DOMAIN call.pending : call.rounds <= call.attempts[call.pending[k]].count + 1
    /\ \A k \in DOMAIN call.retry : call.rounds <= call.attempts[call.retry[k]].count
    /\ call.retry # <<>> => call.rounds <= MaxRetries

(* An undecided item is still to be accounted for or will be tried again;  *)
(* a decided one has a result that agrees.                                 *)
Left(k) == call.pc \in {"route", "collect"} \/ (call.pc = "account" /\ k >= call.todo)
Decided(i) ==
    /\ i \in DOMAIN call.final
    /\ call.attempts[i].state =
          (IF call.final[i].status = "success" THEN "FinalSuccess" ELSE "FinalFault")
StateInv ==
    \A i \in DOMAIN call.attempts :
      \/ call.pc = "raised"
      \/ Decided(i)
      \/ /\ Undecided(call.attempts[i])
         /\ \/ \E k \in DOMAIN call.pending : Left(k) /\ call.pending[k] = i
            \/ \E k \in DOMAIN call.retry : call.retry[k] = i

(* Without copies, an item is accounted for once in a round.               *)
DistinctInv ==
    /\ call.pc = "raised" => ~Distinct(call.items)
    /\ Distinct(call.items) =>
         /\ Distinct(call.pending)
         /\ Distinct(call.retry)
         /\ \A k \in DOMAIN call.pending : Left(k) => Undecided(call.attempts[call.pending[k]])
         /\ \A j \in DOMAIN call.retry :
              /\ Undecided(call.attempts[call.retry[j]])
              /\ call.pc = "account" =>
                   \E k \in DOMAIN call.pending : k < call.todo /\ call.pending[k] = call.retry[j]

CallInv == RoundInv /\ CountInv /\ StateInv /\ DistinctInv
IInv == Types /\ IdInv /\ HolderInv /\ OneLease /\ CallInv

-----------------------------------------------------------------------------
(* The data.                                                               *)

LEMMA NotNone ==
    /\ \A c \in ContextRec : c # None
    /\ \A l \in LeaseRec : l # None
<1>1. DOMAIN None = {"none"}
  BY DEF None
<1>2. \A c \in ContextRec : "path" \in DOMAIN c
  BY DEF ContextRec
<1>3. \A l \in LeaseRec : "epoch" \in DOMAIN l
  BY DEF LeaseRec
<1> HIDE DEF None
<1> QED
  BY <1>1, <1>2, <1>3

LEMMA MapFacts ==
    ASSUME NEW T, NEW f \in Maps(T)
    PROVE  /\ DOMAIN f \subseteq ItemRec
           /\ \A i \in DOMAIN f : f[i] \in T
BY DEF Maps

LEMMA MakeMap ==
    ASSUME NEW T, NEW D \in SUBSET ItemRec, NEW f \in [D -> T]
    PROVE  f \in Maps(T) /\ DOMAIN f = D
BY DEF Maps

LEMMA NothingIsAMap ==
    ASSUME NEW T
    PROVE  Nothing \in Maps(T) /\ DOMAIN Nothing = {}
<1>1. Nothing \in [{} -> T] /\ {} \in SUBSET ItemRec
  BY DEF Nothing
<1> QED
  BY <1>1, MakeMap

LEMMA RecordedFacts ==
    ASSUME NEW f \in Maps(AnswerRec), NEW i \in ItemRec, NEW r \in AnswerRec
    PROVE  /\ Recorded(f, i, r) \in Maps(AnswerRec)
           /\ DOMAIN Recorded(f, i, r) = DOMAIN f \cup {i}
           /\ Recorded(f, i, r)[i] = r
           /\ \A j \in DOMAIN f : j # i => Recorded(f, i, r)[j] = f[j]
<1> DEFINE D == DOMAIN f \cup {i}
           g == [j \in D |-> IF j = i THEN r ELSE f[j]]
<1>1. D \in SUBSET ItemRec /\ \A j \in DOMAIN f : f[j] \in AnswerRec
  BY MapFacts
<1>2. g \in [D -> AnswerRec]
  BY <1>1
<1>3. g \in Maps(AnswerRec) /\ DOMAIN g = D
  BY <1>1, <1>2, MakeMap
<1> QED
  BY <1>3 DEF Recorded

LEMMA CallFields ==
    ASSUME NEW c \in CallRec
    PROVE  /\ c.pc \in Phases /\ c.built \in Nat /\ c.todo \in Nat /\ c.rounds \in Nat
           /\ c.items \in Seq(ItemRec) /\ c.pending \in Seq(ItemRec) /\ c.retry \in Seq(ItemRec)
           /\ c.waiting \subseteq WaitRec
           /\ c.results \in Maps(AnswerRec) /\ c.final \in Maps(AnswerRec)
           /\ c.attempts \in Maps(AttemptRec)
BY DEF CallRec

LEMMA NoCallFacts ==
    ASSUME NEW p \in Phases, NEW b \in Nat
    PROVE  /\ NoCall(p, b) \in CallRec
           /\ NoCall(p, b).pc = p /\ NoCall(p, b).built = b
           /\ NoCall(p, b).items = <<>> /\ NoCall(p, b).pending = <<>>
           /\ NoCall(p, b).retry = <<>> /\ NoCall(p, b).rounds = 0
           /\ NoCall(p, b).waiting = {} /\ NoCall(p, b).todo = 1
           /\ NoCall(p, b).results = Nothing /\ NoCall(p, b).final = Nothing
           /\ NoCall(p, b).attempts = Nothing
<1>1. Nothing \in Maps(AnswerRec) /\ Nothing \in Maps(AttemptRec)
  BY NothingIsAMap
<1> HIDE DEF Nothing
<1> QED
  BY <1>1 DEF NoCall, CallRec

(* A call that is not under way satisfies everything said about one.       *)
LEMMA IdleCallInv ==
    ASSUME NEW p \in {"idle", "closed", "done"}, NEW b \in Nat, call' = NoCall(p, b)
    PROVE  CallInv' /\ call' \in CallRec /\ call'.waiting = {}
<1>1. /\ call' \in CallRec
      /\ call'.pc = p /\ call'.items = <<>> /\ call'.pending = <<>>
      /\ call'.retry = <<>> /\ call'.rounds = 0 /\ call'.waiting = {}
      /\ DOMAIN call'.results = {} /\ DOMAIN call'.final = {} /\ DOMAIN call'.attempts = {}
  <2>1. p \in Phases
    BY DEF Phases
  <2> QED
    BY <2>1, NoCallFacts, NothingIsAMap
<1>2. DOMAIN call'.items = {} /\ DOMAIN call'.pending = {} /\ DOMAIN call'.retry = {}
  BY <1>1
<1>3. RoundInv'
  BY <1>1, <1>2 DEF RoundInv
<1>4. CountInv'
  BY <1>1, <1>2, DispatchAssumption DEF CountInv
<1>5. StateInv'
  BY <1>1 DEF StateInv
<1>6. DistinctInv'
  BY <1>1, <1>2 DEF DistinctInv, Distinct
<1> QED
  BY <1>1, <1>3, <1>4, <1>5, <1>6 DEF CallInv

LEMMA SpawnedFacts ==
    ASSUME NEW g \in Nat \ {0}
    PROVE  /\ Spawned(g) \in WorkerRec /\ Spawned(g).generation = g
           /\ Spawned(g).inbox = <<>> /\ Spawned(g).retained = None
BY DEF Spawned, WorkerRec

LEMMA AfterFacts ==
    ASSUME NEW i \in ItemRec
    PROVE  After(i) \in ContextRec /\ After(i) # None
<1>1. i.ctx \in ContextRec /\ i.cand \in Nat
  BY DEF ItemRec
<1>2. i.ctx.path \in Seq(Nat) /\ i.ctx.hyp \in Hypotheses \cup {NoHypothesis}
  BY <1>1 DEF ContextRec
<1>3. Append(i.ctx.path, i.cand) \in Seq(Nat)
  BY <1>1, <1>2
<1>4. After(i) \in ContextRec
  BY <1>2, <1>3 DEF After, Context, ContextRec
<1> QED
  BY <1>4, NotNone

LEMMA InitIInv == Init => IInv
<1> SUFFICES ASSUME Init PROVE IInv
  OBVIOUS
<1>1. \A w \in Workers : /\ pool[w] \in WorkerRec /\ pool[w].inbox = <<>>
                         /\ DOMAIN pool[w].inbox = {} /\ pool[w].retained = None
  BY SpawnedFacts DEF Init
<1>2. /\ call \in CallRec
      /\ call.pc = "idle" /\ call.items = <<>> /\ call.pending = <<>>
      /\ call.retry = <<>> /\ call.rounds = 0 /\ call.waiting = {}
      /\ DOMAIN call.results = {} /\ DOMAIN call.final = {} /\ DOMAIN call.attempts = {}
  BY NoCallFacts, NothingIsAMap DEF Init, Phases
<1>3. DOMAIN call.items = {} /\ DOMAIN call.pending = {} /\ DOMAIN call.retry = {}
  BY <1>2
<1>4. CallInv
  <2>1. RoundInv
    BY <1>2, <1>3 DEF RoundInv
  <2>2. CountInv
    BY <1>2, <1>3, DispatchAssumption DEF CountInv
  <2>3. StateInv
    BY <1>2 DEF StateInv
  <2>4. DistinctInv
    BY <1>2, <1>3 DEF DistinctInv, Distinct
  <2> QED
    BY <2>1, <2>2, <2>3, <2>4 DEF CallInv
<1>5. Types
  <2>1. RootContext \in ContextRec
    BY DEF RootContext, Context, ContextRec
  <2>2. pool \in [Workers -> WorkerRec]
    BY <1>1 DEF Init
  <2> QED
    BY <1>2, <2>1, <2>2 DEF Init, Types
<1> QED
  BY <1>1, <1>2, <1>4, <1>5 DEF Init, IInv, IdInv, HolderInv, OneLease

-----------------------------------------------------------------------------
(* The workers.                                                            *)

LEMMA HeadFacts ==
    ASSUME NEW q \in Seq(RequestRec), q # <<>>
    PROVE  /\ Head(q) \in RequestRec /\ Tail(q) \in Seq(RequestRec)
           /\ 1 \in DOMAIN q /\ Head(q) = q[1]
           /\ \A k \in DOMAIN Tail(q) : k + 1 \in DOMAIN q /\ Tail(q)[k] = q[k + 1]
OBVIOUS

LEMMA WorkerFields ==
    ASSUME Types, NEW w \in Workers
    PROVE  /\ pool[w] \in WorkerRec /\ pool[w].inbox \in Seq(RequestRec)
           /\ pool[w].generation \in Nat \ {0} /\ pool[w].epoch \in Nat
           /\ pool[w].at \in ContextRec \cup {None} /\ pool[w].retained \in ContextRec \cup {None}
BY DEF Types, WorkerRec

(* A worker answers the head of its queue, however the execution ended.    *)
LEMMA WorkerAnswersIInv ==
    ASSUME IInv, NEW w \in Workers, NEW n \in WorkerRec, NEW a \in AnswerRec,
           pool[w].inbox # <<>>,
           pool' = [pool EXCEPT ![w] = n], answers' = answers \cup {a},
           UNCHANGED <<leases, next, contexts, call>>,
           n.generation = pool[w].generation, n.inbox = Tail(pool[w].inbox),
           n.retained = None \/ n.retained = n.at,
           a.id = Head(pool[w].inbox).id, a.item = Head(pool[w].inbox).item
    PROVE  IInv'
<1> DEFINE q == pool[w].inbox
<1>1. Types /\ IdInv /\ HolderInv /\ OneLease /\ CallInv
  BY DEF IInv
<1>2. pool[w] \in WorkerRec /\ q \in Seq(RequestRec) /\ q # <<>>
  BY <1>1, WorkerFields
<1>3. /\ 1 \in DOMAIN q /\ Head(q) = q[1]
      /\ \A k \in DOMAIN Tail(q) : k + 1 \in DOMAIN q /\ Tail(q)[k] = q[k + 1]
  BY <1>2, HeadFacts
<1>4. pool'[w] = n /\ \A v \in Workers : v # w => pool'[v] = pool[v]
  BY <1>1 DEF Types
<1>5. ASSUME NEW v \in Workers, NEW k \in DOMAIN pool'[v].inbox
      PROVE  \E j \in DOMAIN pool[v].inbox : pool'[v].inbox[k] = pool[v].inbox[j]
  <2>1. CASE v = w
    <3>1. pool'[v].inbox = Tail(q)
      BY <1>4, <2>1
    <3> QED
      BY <1>3, <2>1, <3>1
  <2> QED
    BY <1>4, <2>1
<1> HIDE DEF q
<1>6. \A v \in Workers : pool'[v].generation = pool[v].generation
  BY <1>4
<1>7. Types'
  BY <1>1 DEF Types
<1>8. IdInv'
  BY <1>1, <1>3, <1>5 DEF IdInv, q
<1>9. HolderInv'
  BY <1>1, <1>4, <1>5, <1>6 DEF HolderInv
<1>10. OneLease' /\ CallInv'
  BY <1>1 DEF OneLease, CallInv, RoundInv, CountInv, StateInv, DistinctInv, Covered, Left, Decided
<1> QED
  BY <1>7, <1>8, <1>9, <1>10 DEF IInv

LEMMA AnswerFacts ==
    ASSUME Types, NEW w \in Workers, NEW r \in RequestRec,
           NEW status \in {"success", "fault", "tainting"}, NEW e \in Nat
    PROVE  /\ Answer(w, r, status, e) \in AnswerRec
           /\ Answer(w, r, status, e).id = r.id /\ Answer(w, r, status, e).item = r.item
<1>1. pool[w].generation \in Nat \ {0}
  BY WorkerFields
<1>2. r.id \in Nat /\ r.item \in ItemRec
  BY DEF RequestRec
<1> QED
  BY <1>1, <1>2 DEF Answer, AnswerRec

LEMMA WorkerFaultsIInv ==
    ASSUME IInv, NEW w \in Workers, WorkerFaults(w)
    PROVE  IInv'
<1> DEFINE r == Head(pool[w].inbox)
           n == Faulted(w)
<1>1. Types /\ pool[w] \in WorkerRec /\ pool[w].inbox \in Seq(RequestRec) /\ pool[w].inbox # <<>>
  BY WorkerFields DEF IInv, WorkerFaults
<1>2. r \in RequestRec /\ Tail(pool[w].inbox) \in Seq(RequestRec)
  BY <1>1, HeadFacts
<1>3. PICK status \in {"fault", "tainting"} : answers' = answers \cup {Answer(w, r, status, 0)}
  BY DEF WorkerFaults
<1>4. /\ n \in WorkerRec /\ n.generation = pool[w].generation
      /\ n.inbox = Tail(pool[w].inbox) /\ n.retained = None
  BY <1>1, <1>2 DEF Faulted, WorkerRec
<1>5. /\ Answer(w, r, status, 0) \in AnswerRec
      /\ Answer(w, r, status, 0).id = r.id /\ Answer(w, r, status, 0).item = r.item
  BY <1>1, <1>2, AnswerFacts
<1>6. pool' = [pool EXCEPT ![w] = n] /\ UNCHANGED <<leases, next, contexts, call>>
  BY DEF WorkerFaults
<1> HIDE DEF n
<1> QED
  BY <1>1, <1>3, <1>4, <1>5, <1>6, WorkerAnswersIInv

LEMMA WorkerStepsIInv ==
    ASSUME IInv, NEW w \in Workers, WorkerSteps(w)
    PROVE  IInv'
<1> DEFINE req == Head(pool[w].inbox)
           n == Stepped(w, req)
           e == StartEpoch(w, req) + 1
<1>1. Types /\ pool[w] \in WorkerRec /\ pool[w].inbox \in Seq(RequestRec) /\ pool[w].inbox # <<>>
  BY WorkerFields DEF IInv, WorkerSteps
<1>2. req \in RequestRec /\ Tail(pool[w].inbox) \in Seq(RequestRec)
  BY <1>1, HeadFacts
<1> HIDE DEF req
<1>3. req.item \in ItemRec /\ req.item.ctx \in ContextRec /\ req.item.ctx.path \in Seq(Nat)
  BY <1>2 DEF RequestRec, ItemRec, ContextRec
<1>4. e \in Nat
  <2>1. pool[w].epoch \in Nat /\ Len(req.item.ctx.path) \in Nat
    BY <1>1, <1>3, WorkerFields
  <2>2. StartEpoch(w, req) \in Nat
    BY <2>1 DEF StartEpoch, Replayed
  <2> QED
    BY <2>2
<1>5. After(req.item) \in ContextRec
  BY <1>3, AfterFacts
<1>6. /\ n \in WorkerRec /\ n.generation = pool[w].generation
      /\ n.inbox = Tail(pool[w].inbox) /\ (n.retained = None \/ n.retained = n.at)
  BY <1>1, <1>2, <1>4, <1>5 DEF Stepped, WorkerRec
<1>7. /\ Answer(w, req, "success", e) \in AnswerRec
      /\ Answer(w, req, "success", e).id = req.id /\ Answer(w, req, "success", e).item = req.item
  BY <1>1, <1>2, <1>4, AnswerFacts
<1>8. /\ pool' = [pool EXCEPT ![w] = n] /\ answers' = answers \cup {Answer(w, req, "success", e)}
      /\ UNCHANGED <<leases, next, contexts, call>>
  BY DEF WorkerSteps, req
<1> HIDE DEF n, e
<1> QED
  BY <1>1, <1>6, <1>7, <1>8, WorkerAnswersIInv DEF req

-----------------------------------------------------------------------------
(* A step of the coordinator that sends nothing: workers are left alone or *)
(* replaced, and nothing new is waited for.                                *)
LEMMA CoordinatorIInv ==
    ASSUME IInv, next' = next,
           pool' \in [Workers -> WorkerRec],
           \A w \in Workers :
             pool'[w] = pool[w] \/ (pool'[w].inbox = <<>> /\ pool'[w].retained = None),
           answers' \subseteq AnswerRec,
           \A a \in answers' : a \in answers \/ (a.id <= next.request /\ call'.waiting = {}),
           leases' \subseteq LeaseRec, OneLease',
           contexts' \subseteq ContextRec,
           call' \in CallRec, CallInv', call'.waiting \subseteq call.waiting
    PROVE  IInv'
<1>1. Types /\ IdInv /\ HolderInv
  BY DEF IInv
<1>2. \A w \in Workers : pool'[w] = pool[w] \/ (DOMAIN pool'[w].inbox = {} /\ pool'[w].retained = None)
  OBVIOUS
<1>3. Types'
  BY <1>1 DEF Types
<1>4. IdInv'
  BY <1>1, <1>2 DEF IdInv
<1>5. HolderInv'
  BY <1>1, <1>2 DEF HolderInv
<1> QED
  BY <1>3, <1>4, <1>5 DEF IInv

LEMMA CallStarts ==
    ASSUME NEW items \in Seq(ItemRec), items # <<>>, NEW b \in Nat,
           call' = [NoCall("route", b) EXCEPT
                      !.items = items, !.pending = items, !.rounds = 1,
                      !.attempts = [i \in ToSet(items) |-> FreshAttempt]]
    PROVE  CallInv' /\ call' \in CallRec /\ call'.waiting = {}
<1> DEFINE fresh == [i \in ToSet(items) |-> FreshAttempt]
<1>1. NoCall("route", b) \in CallRec
      /\ NoCall("route", b).retry = <<>> /\ NoCall("route", b).waiting = {}
      /\ NoCall("route", b).results = Nothing /\ NoCall("route", b).final = Nothing
      /\ NoCall("route", b).todo = 1 /\ NoCall("route", b).pc = "route"
  BY NoCallFacts DEF Phases
<1>2. ToSet(items) \in SUBSET ItemRec /\ \A k \in DOMAIN items : items[k] \in ToSet(items)
  BY DEF ToSet
<1>3. FreshAttempt \in AttemptRec /\ FreshAttempt.count = 0 /\ FreshAttempt.state = "Running"
  BY DEF FreshAttempt, AttemptRec
<1>4. fresh \in [ToSet(items) -> AttemptRec]
  BY <1>3
<1>5. fresh \in Maps(AttemptRec) /\ DOMAIN fresh = ToSet(items)
      /\ \A i \in ToSet(items) : fresh[i] = FreshAttempt
  BY <1>2, <1>4, MakeMap
<1> HIDE DEF fresh
<1>6. call' = [NoCall("route", b) EXCEPT
                 !.items = items, !.pending = items, !.rounds = 1, !.attempts = fresh]
  BY DEF fresh
<1>7. /\ call' \in CallRec /\ call'.items = items /\ call'.pending = items /\ call'.rounds = 1
      /\ call'.attempts = fresh /\ call'.retry = <<>> /\ call'.waiting = {} /\ call'.todo = 1
      /\ call'.results = Nothing /\ call'.final = Nothing /\ call'.pc = "route"
  <2> HIDE DEF Nothing
  <2> QED
    BY <1>1, <1>5, <1>6 DEF CallRec
<1>8. DOMAIN call'.results = {} /\ DOMAIN call'.final = {} /\ DOMAIN call'.retry = {}
  BY <1>7, NothingIsAMap
<1>9. 1 \in DOMAIN items /\ \A k \in DOMAIN items : ~(k < 1)
  OBVIOUS
<1>10. \A i \in DOMAIN fresh : \E k \in DOMAIN items : items[k] = i
  BY <1>5 DEF ToSet
<1>11. RoundInv'
  BY <1>2, <1>5, <1>7, <1>8, <1>9 DEF RoundInv
<1>12. CountInv'
  BY <1>2, <1>3, <1>5, <1>7, <1>8, DispatchAssumption DEF CountInv
<1>13. StateInv'
  BY <1>3, <1>5, <1>7, <1>10 DEF StateInv, Left, Undecided
<1>14. DistinctInv'
  BY <1>2, <1>3, <1>5, <1>7, <1>8 DEF DistinctInv, Distinct, Undecided
<1> QED
  BY <1>7, <1>11, <1>12, <1>13, <1>14 DEF CallInv

(* The WorkItems that are built.                                           *)
LEMMA WorkItemType ==
    ASSUME NEW c \in ContextRec, NEW cand \in Nat, NEW k \in Nat
    PROVE  WorkItem(c, cand, k) \in ItemRec
BY DEF WorkItem, ItemRec

LEMMA OrderedHypotheses ==
    /\ Cardinality(Hypotheses) \in Nat
    /\ SetToSeq(Hypotheses) \in [1..Cardinality(Hypotheses) -> Hypotheses]
<1>1. IsFiniteSet(Hypotheses) /\ Cardinality(Hypotheses) \in Nat
  BY DispatchAssumption, FS_CardinalityType
<1>2. \E f \in [1..Cardinality(Hypotheses) -> Hypotheses] : IsInjective(f)
  <2>1. ExistsBijection(1..Cardinality(Hypotheses), Hypotheses)
    BY <1>1, FS_NatBijection, FS_CountingElements
  <2> QED
    BY <2>1 DEF ExistsBijection, Bijection, Injection, IsInjective
<1> QED
  BY <1>1, <1>2 DEF SetToSeq

LEMMA PlainItems ==
    ASSUME NEW c \in ContextRec, NEW menu \in Menus
    PROVE  PlainWorkItems(c, menu) \in Seq(ItemRec)
<1>1. menu \in Seq(Nat)
  BY DispatchAssumption
<1>2. \A i \in DOMAIN menu : WorkItem(c, menu[i], i) \in ItemRec
  BY <1>1, WorkItemType
<1> QED
  BY <1>1, <1>2 DEF PlainWorkItems

LEMMA HypothesisItems ==
    ASSUME NEW c \in ContextRec, NEW menu \in Menus
    PROVE  HypothesisWorkItems(c, menu) \in Seq(ItemRec)
<1> DEFINE n == Cardinality(Hypotheses)
           hyps == SetToSeq(Hypotheses)
<1>1. menu \in Seq(Nat) /\ Len(menu) \in Nat /\ n \in Nat /\ hyps \in [1..n -> Hypotheses]
  BY DispatchAssumption, OrderedHypotheses
<1>2. hyps \in Seq(Hypotheses) /\ Len(hyps) = n /\ DOMAIN hyps = 1..n
  BY <1>1
<1> HIDE DEF n, hyps
<1>3. ASSUME NEW k \in 1..(Len(menu) * n)
      PROVE  /\ ((k - 1) \div n) + 1 \in 1..Len(menu)
             /\ ((k - 1) % n) + 1 \in 1..n
  <2>1. Len(menu) \in Nat /\ n \in Nat /\ k \in Nat /\ k >= 1 /\ k <= Len(menu) * n
    BY <1>1
  <2>2. n > 0
    BY <2>1
  <2> QED
    BY <2>1, <2>2
<1>4. ASSUME NEW k \in 1..(Len(menu) * n)
      PROVE  WorkItem(Context(c.path, hyps[((k - 1) % n) + 1]), menu[((k - 1) \div n) + 1],
                      ((k - 1) \div n) + 1) \in ItemRec
  <2>1. hyps[((k - 1) % n) + 1] \in Hypotheses
    BY <1>1, <1>3
  <2>2. menu[((k - 1) \div n) + 1] \in Nat /\ ((k - 1) \div n) + 1 \in Nat
    BY <1>1, <1>3
  <2>3. Context(c.path, hyps[((k - 1) % n) + 1]) \in ContextRec
    BY <2>1 DEF Context, ContextRec
  <2> QED
    BY <2>2, <2>3, WorkItemType
<1>5. Len(menu) * n \in Nat
  BY <1>1
<1>6. HypothesisWorkItems(c, menu) =
        [k \in 1..(Len(menu) * n) |->
           WorkItem(Context(c.path, hyps[((k - 1) % n) + 1]), menu[((k - 1) \div n) + 1],
                    ((k - 1) \div n) + 1)]
  BY <1>2 DEF HypothesisWorkItems, hyps
<1> QED
  BY <1>4, <1>5, <1>6

LEMMA CallIInv ==
    ASSUME IInv, Call
    PROVE  IInv'
<1>1. Types /\ OneLease /\ call \in CallRec /\ call.built \in Nat
  BY CallFields DEF IInv, Types
<1>2. PICK ctx \in contexts, menu \in Menus :
        \E items \in {PlainWorkItems(ctx, menu)} \cup
                     (IF ctx = RootContext THEN {HypothesisWorkItems(ctx, menu)} ELSE {}) :
          call' = IF call.pc = "closed" THEN NoCall("closed", call.built + Len(items))
                  ELSE IF items = <<>> THEN NoCall("done", call.built + Len(items))
                  ELSE [NoCall("route", call.built + Len(items)) EXCEPT
                          !.items = items, !.pending = items, !.rounds = 1,
                          !.attempts = [i \in ToSet(items) |-> FreshAttempt]]
  BY DEF Call
<1>3. ctx \in ContextRec
  BY <1>1 DEF Types
<1>4. PICK items \in Seq(ItemRec) :
          call' = IF call.pc = "closed" THEN NoCall("closed", call.built + Len(items))
                  ELSE IF items = <<>> THEN NoCall("done", call.built + Len(items))
                  ELSE [NoCall("route", call.built + Len(items)) EXCEPT
                          !.items = items, !.pending = items, !.rounds = 1,
                          !.attempts = [i \in ToSet(items) |-> FreshAttempt]]
  BY <1>2, <1>3, PlainItems, HypothesisItems
<1>5. call.built + Len(items) \in Nat
  BY <1>1
<1>6. CallInv' /\ call' \in CallRec /\ call'.waiting = {}
  <2>1. CASE call.pc = "closed"
    BY <1>4, <1>5, <2>1, IdleCallInv
  <2>2. CASE call.pc # "closed" /\ items = <<>>
    BY <1>4, <1>5, <2>2, IdleCallInv
  <2>3. CASE call.pc # "closed" /\ items # <<>>
    BY <1>4, <1>5, <2>3, CallStarts
  <2> QED
    BY <2>1, <2>2, <2>3
<1>7. UNCHANGED <<pool, answers, leases, next, contexts>>
  BY DEF Call
<1> QED
  BY <1>1, <1>6, <1>7, CoordinatorIInv DEF Types, OneLease

LEMMA CloseIInv ==
    ASSUME IInv, Close
    PROVE  IInv'
<1>1. Types /\ OneLease /\ CallInv /\ call \in CallRec /\ call.pc = "idle"
  BY DEF IInv, Types, Close
<1>2. call' = [call EXCEPT !.pc = "closed"] /\ UNCHANGED <<pool, answers, leases, next, contexts>>
  BY DEF Close
<1>3. /\ call' \in CallRec /\ call'.pc = "closed"
      /\ call'.items = call.items /\ call'.pending = call.pending /\ call'.retry = call.retry
      /\ call'.rounds = call.rounds /\ call'.todo = call.todo /\ call'.waiting = call.waiting
      /\ call'.results = call.results /\ call'.final = call.final /\ call'.attempts = call.attempts
  BY <1>1, <1>2 DEF CallRec, Phases
<1>4. RoundInv'
  BY <1>1, <1>3 DEF CallInv, RoundInv, Covered
<1>5. CountInv'
  BY <1>1, <1>3 DEF CallInv, CountInv
<1>6. StateInv'
  BY <1>1, <1>3 DEF CallInv, StateInv, Left, Decided
<1>7. DistinctInv'
  BY <1>1, <1>3 DEF CallInv, DistinctInv, Left
<1>8. CallInv'
  BY <1>4, <1>5, <1>6, <1>7 DEF CallInv
<1> QED
  BY <1>1, <1>2, <1>3, <1>8, CoordinatorIInv DEF Types, OneLease

LEMMA ReturnIInv ==
    ASSUME IInv, Return
    PROVE  IInv'
<1>1. Types /\ OneLease /\ call \in CallRec /\ call.built \in Nat /\ call.items \in Seq(ItemRec)
  BY CallFields DEF IInv, Types
<1>2. call' = NoCall("idle", call.built) /\ UNCHANGED <<pool, answers, leases, next>>
  BY DEF Return
<1>3. CallInv' /\ call' \in CallRec /\ call'.waiting = {}
  BY <1>1, <1>2, IdleCallInv
<1>4. contexts' \subseteq ContextRec
  <2>1. \A i \in ToSet(call.items) : After(i) \in ContextRec
    BY <1>1, AfterFacts DEF ToSet
  <2>2. contexts' \subseteq contexts \cup {After(i) : i \in ToSet(call.items)}
    BY DEF Return
  <2> QED
    BY <1>1, <2>1, <2>2 DEF Types
<1> QED
  BY <1>1, <1>2, <1>3, <1>4, CoordinatorIInv DEF Types, OneLease

-----------------------------------------------------------------------------
(* Routing.                                                                *)

LEMMA NextItemFacts ==
    ASSUME call \in CallRec, call.todo \in DOMAIN call.pending, NEW p \in Phases
    PROVE  /\ NextItem(p) \in CallRec
           /\ NextItem(p).items = call.items /\ NextItem(p).pending = call.pending
           /\ NextItem(p).retry = call.retry /\ NextItem(p).rounds = call.rounds
           /\ NextItem(p).waiting = call.waiting /\ NextItem(p).results = call.results
           /\ NextItem(p).final = call.final /\ NextItem(p).attempts = call.attempts
           /\ Current \in ItemRec
           /\ \A k \in DOMAIN call.pending : k \in Nat /\ k >= 1
           /\ \/ /\ NextItem(p).pc = p /\ NextItem(p).todo = 1 /\ 1 \in DOMAIN call.pending
                 /\ \A k \in DOMAIN call.pending : k < call.todo \/ k = call.todo
              \/ /\ NextItem(p).pc = call.pc /\ NextItem(p).todo = call.todo + 1
                 /\ call.todo + 1 \in DOMAIN call.pending
<1>1. call.pending \in Seq(ItemRec) /\ call.todo \in Nat /\ call.pc \in Phases
  BY CallFields
<1>2. /\ call.todo \in 1..Len(call.pending) /\ Len(call.pending) \in Nat
      /\ DOMAIN call.pending = 1..Len(call.pending) /\ Current \in ItemRec
  BY <1>1 DEF Current
<1> DEFINE t == IF AtLast THEN 1 ELSE call.todo + 1
           q == IF AtLast THEN p ELSE call.pc
<1>3. t \in Nat /\ q \in Phases /\ NextItem(p) = [call EXCEPT !.todo = t, !.pc = q]
  BY <1>1 DEF NextItem
<1>4. \/ t = 1 /\ q = p /\ call.todo = Len(call.pending)
      \/ t = call.todo + 1 /\ q = call.pc /\ call.todo # Len(call.pending)
  BY DEF AtLast
<1> HIDE DEF t, q
<1>5. /\ NextItem(p) \in CallRec /\ NextItem(p).pc = q /\ NextItem(p).todo = t
      /\ NextItem(p).items = call.items /\ NextItem(p).pending = call.pending
      /\ NextItem(p).retry = call.retry /\ NextItem(p).rounds = call.rounds
      /\ NextItem(p).waiting = call.waiting /\ NextItem(p).results = call.results
      /\ NextItem(p).final = call.final /\ NextItem(p).attempts = call.attempts
  BY <1>3 DEF CallRec
<1>6. \/ /\ t = 1 /\ q = p /\ 1 \in DOMAIN call.pending
         /\ \A k \in DOMAIN call.pending : k < call.todo \/ k = call.todo
      \/ t = call.todo + 1 /\ q = call.pc /\ call.todo + 1 \in DOMAIN call.pending
  BY <1>2, <1>4
<1> QED
  BY <1>2, <1>5, <1>6

(* An item more is waited for, and the next one is routed.                 *)
LEMMA SubmitCallInv ==
    ASSUME call \in CallRec, CallInv, call.pc = "route", NEW x \in WaitRec, x.item = Current,
           call' = [NextItem("collect") EXCEPT !.waiting = @ \cup {x}]
    PROVE  call' \in CallRec /\ CallInv' /\ call'.waiting = call.waiting \cup {x}
<1> DEFINE n == NextItem("collect")
<1>1. call.todo \in DOMAIN call.pending
  BY DEF CallInv, RoundInv
<1>2. /\ n \in CallRec
      /\ n.items = call.items /\ n.pending = call.pending
      /\ n.retry = call.retry /\ n.rounds = call.rounds
      /\ n.waiting = call.waiting /\ n.results = call.results
      /\ n.final = call.final /\ n.attempts = call.attempts
      /\ \A k \in DOMAIN call.pending : k \in Nat /\ k >= 1
      /\ \/ /\ n.pc = "collect" /\ n.todo = 1 /\ 1 \in DOMAIN call.pending
            /\ \A k \in DOMAIN call.pending : k < call.todo \/ k = call.todo
         \/ /\ n.pc = call.pc /\ n.todo = call.todo + 1
            /\ call.todo + 1 \in DOMAIN call.pending
  BY <1>1, NextItemFacts DEF Phases
<1> DEFINE more == call.waiting \cup {x}
<1>3. call' = [n EXCEPT !.waiting = more] /\ more \in SUBSET WaitRec
  BY <1>2, CallFields
<1> HIDE DEF n, more
<1>4. /\ call' \in CallRec /\ call'.pc = n.pc /\ call'.todo = n.todo
      /\ call'.items = call.items /\ call'.pending = call.pending /\ call'.retry = call.retry
      /\ call'.rounds = call.rounds /\ call'.waiting = call.waiting \cup {x}
      /\ call'.results = call.results /\ call'.final = call.final /\ call'.attempts = call.attempts
  <2>1. /\ call' \in CallRec /\ call'.waiting = more
        /\ call'.pc = n.pc /\ call'.todo = n.todo
        /\ call'.items = n.items /\ call'.pending = n.pending /\ call'.retry = n.retry
        /\ call'.rounds = n.rounds /\ call'.results = n.results /\ call'.final = n.final
        /\ call'.attempts = n.attempts
    BY <1>2, <1>3 DEF CallRec
  <2> QED
    BY <1>2, <2>1 DEF more
<1>5. call'.pc \in {"route", "collect"} /\ call'.todo \in DOMAIN call'.pending
  BY <1>2, <1>4
<1>6. \A k \in DOMAIN call.pending :
        (call'.pc = "route" => k < call'.todo) => k < call.todo \/ k = call.todo
  <2>1. call.todo \in Nat
    BY CallFields
  <2> QED
    BY <1>2, <1>4, <2>1
<1>7. \A k \in DOMAIN call.pending :
        (call'.pc = "route" => k < call'.todo) => Covered(k)'
  <2>1. \A k \in DOMAIN call.pending : k < call.todo => Covered(k)
    BY DEF CallInv, RoundInv
  <2>2. \A k \in DOMAIN call.pending : Covered(k) => Covered(k)'
    BY <1>4 DEF Covered
  <2>3. \A k \in DOMAIN call.pending : k = call.todo => Covered(k)'
    BY <1>4 DEF Covered, Current
  <2> QED
    BY <1>6, <2>1, <2>2, <2>3
<1>8. RoundInv'
  BY <1>4, <1>5, <1>7 DEF CallInv, RoundInv
<1>9. CountInv'
  BY <1>4 DEF CallInv, CountInv
<1>10. StateInv'
  BY <1>4, <1>5 DEF CallInv, StateInv, Left, Decided
<1>11. DistinctInv'
  BY <1>4, <1>5 DEF CallInv, RoundInv, DistinctInv, Left
<1> QED
  BY <1>4, <1>8, <1>9, <1>10, <1>11 DEF CallInv

LEMMA SubmitIInv ==
    ASSUME IInv, call.pc = "route", NEW w \in Workers,
           NEW mode \in {"holder_step", "bootstrap_step"}, NEW lease \in LeaseRec \cup {None},
           Submit(w, Current, mode, lease),
           mode = "holder_step" =>
             lease \in LeaseRec /\ lease.worker = w /\ lease.generation = pool[w].generation,
           next' \in [bootstrap : Nat, request : Nat], next'.request = next.request + 1,
           leases' \subseteq LeaseRec, OneLease', UNCHANGED <<answers, contexts>>
    PROVE  IInv'
<1> DEFINE id == next.request + 1
           r == [id |-> id, item |-> Current, mode |-> mode, lease |-> lease]
           x == [id |-> id, item |-> Current, worker |-> w]
           n == [pool[w] EXCEPT !.inbox = Append(pool[w].inbox, r)]
<1>1. /\ Types /\ IdInv /\ HolderInv /\ CallInv /\ call \in CallRec
      /\ next.request \in Nat /\ id \in Nat
      /\ call.todo \in DOMAIN call.pending
  BY DEF IInv, Types, CallInv, RoundInv
<1>2. Current \in ItemRec
  BY <1>1, NextItemFacts DEF Phases
<1>3. /\ r \in RequestRec /\ r.id = id /\ r.item = Current /\ r.mode = mode /\ r.lease = lease
      /\ x \in WaitRec /\ x.id = id /\ x.item = Current
  BY <1>1, <1>2 DEF RequestRec, WaitRec
<1>4. /\ pool' = [pool EXCEPT ![w].inbox = Append(@, r)]
      /\ call' = [NextItem("collect") EXCEPT !.waiting = @ \cup {x}]
  BY DEF Submit
<1> HIDE DEF r, x, id
<1>5. call' \in CallRec /\ CallInv' /\ call'.waiting = call.waiting \cup {x}
  BY <1>1, <1>3, <1>4, SubmitCallInv
<1>6. pool[w] \in WorkerRec /\ pool[w].inbox \in Seq(RequestRec)
  BY <1>1, WorkerFields
<1>7. /\ Append(pool[w].inbox, r) \in Seq(RequestRec)
      /\ \A k \in DOMAIN Append(pool[w].inbox, r) :
           \/ k \in DOMAIN pool[w].inbox /\ Append(pool[w].inbox, r)[k] = pool[w].inbox[k]
           \/ Append(pool[w].inbox, r)[k] = r
  BY <1>3, <1>6
<1>8. /\ n \in WorkerRec /\ n.inbox = Append(pool[w].inbox, r)
      /\ n.generation = pool[w].generation /\ n.retained = pool[w].retained /\ n.at = pool[w].at
  BY <1>6, <1>7 DEF WorkerRec
<1>9. pool' = [pool EXCEPT ![w] = n]
  BY <1>1, <1>4 DEF Types
<1> HIDE DEF n
<1>10. /\ pool' \in [Workers -> WorkerRec]
       /\ \A v \in Workers : /\ pool'[v].generation = pool[v].generation
                             /\ pool'[v].retained = pool[v].retained /\ pool'[v].at = pool[v].at
       /\ \A v \in Workers : \A k \in DOMAIN pool'[v].inbox :
            \/ k \in DOMAIN pool[v].inbox /\ pool'[v].inbox[k] = pool[v].inbox[k]
            \/ v = w /\ pool'[v].inbox[k] = r
  BY <1>1, <1>7, <1>8, <1>9 DEF Types
<1>11. Types'
  BY <1>1, <1>5, <1>10 DEF Types
<1>12. /\ \A y \in call.waiting : y.id \in Nat /\ y.id <= next.request
       /\ \A a \in answers : a.id \in Nat /\ a.id <= next.request
       /\ \A v \in Workers : \A k \in DOMAIN pool[v].inbox :
            pool[v].inbox[k].id \in Nat /\ pool[v].inbox[k].id <= next.request
  <2>1. \A y \in call.waiting : y.id \in Nat
    BY <1>1, CallFields DEF WaitRec
  <2>2. \A a \in answers : a.id \in Nat
    BY <1>1 DEF Types, AnswerRec
  <2>3. \A v \in Workers : \A k \in DOMAIN pool[v].inbox : pool[v].inbox[k] \in RequestRec
    BY <1>1, WorkerFields
  <2>4. \A v \in Workers : \A k \in DOMAIN pool[v].inbox : pool[v].inbox[k].id \in Nat
    BY <2>3 DEF RequestRec
  <2> QED
    BY <1>1, <2>1, <2>2, <2>4 DEF IdInv
<1>13. /\ \A y \in call.waiting : y.id # id
       /\ \A a \in answers : a.id # id
       /\ \A v \in Workers : \A k \in DOMAIN pool[v].inbox : pool[v].inbox[k].id # id
  BY <1>1, <1>12 DEF id
<1>14. IdInv'
  <2>1. /\ \A y \in call'.waiting : y.id <= next'.request
        /\ \A a \in answers' : a.id <= next'.request
        /\ \A v \in Workers : \A k \in DOMAIN pool'[v].inbox : pool'[v].inbox[k].id <= next'.request
    BY <1>1, <1>3, <1>5, <1>10, <1>12 DEF id
  <2>2. \A y, z \in call'.waiting : y.id = z.id => y = z
    BY <1>1, <1>3, <1>5, <1>13 DEF IdInv
  <2>3. \A a \in answers', y \in call'.waiting : a.id = y.id => a.item = y.item
    BY <1>1, <1>3, <1>5, <1>13 DEF IdInv
  <2>4. ASSUME NEW v \in Workers, NEW k \in DOMAIN pool'[v].inbox, NEW y \in call'.waiting,
               pool'[v].inbox[k].id = y.id
        PROVE  pool'[v].inbox[k].item = y.item
    BY <1>1, <1>3, <1>5, <1>10, <1>13, <2>4 DEF IdInv
  <2> QED
    BY <2>1, <2>2, <2>3, <2>4 DEF IdInv
<1>15. HolderInv'
  BY <1>1, <1>3, <1>10 DEF HolderInv
<1> QED
  BY <1>5, <1>11, <1>14, <1>15 DEF IInv

LEMMA RouteHolderIInv ==
    ASSUME IInv, RouteHolder
    PROVE  IInv'
<1>1. Types /\ OneLease /\ call.pc = "route" /\ leases \subseteq LeaseRec
      /\ next \in [bootstrap : Nat, request : Nat]
  BY DEF IInv, Types, RouteHolder, Routing
<1>2. PICK lease \in ValidLease : Submit(lease.worker, Current, "holder_step", lease)
  BY DEF RouteHolder
<1>3. lease \in LeaseRec /\ lease.generation = pool[lease.worker].generation
  BY <1>1 DEF ValidLease, LeaseOf, IsValidFor
<1>4. lease.worker \in Workers
  BY <1>3 DEF LeaseRec
<1>5. next' \in [bootstrap : Nat, request : Nat] /\ next'.request = next.request + 1
      /\ UNCHANGED <<answers, leases, contexts>>
  BY <1>1 DEF RouteHolder
<1> QED
  BY <1>1, <1>2, <1>3, <1>4, <1>5, SubmitIInv DEF OneLease

LEMMA RouteBootstrapIInv ==
    ASSUME IInv, RouteBootstrap
    PROVE  IInv'
<1> DEFINE kept == IF Current.kind = "continuation" THEN leases \ LeaseOf(Current.ctx) ELSE leases
<1>1. Types /\ OneLease /\ call.pc = "route" /\ leases \subseteq LeaseRec
      /\ next \in [bootstrap : Nat, request : Nat]
  BY DEF IInv, Types, RouteBootstrap, Routing
<1>2. PICK w \in BootstrapWorkers(kept) :
        leases' = InvalidateWorker(kept, w) /\ Submit(w, Current, "bootstrap_step", None)
  BY DEF RouteBootstrap
<1>3. w \in Workers
  BY <1>2 DEF BootstrapWorkers
<1>4. leases' \subseteq leases
  BY <1>2 DEF InvalidateWorker
<1>5. next' \in [bootstrap : Nat, request : Nat] /\ next'.request = next.request + 1
      /\ UNCHANGED <<answers, contexts>>
  BY <1>1 DEF RouteBootstrap
<1>6. leases' \subseteq LeaseRec /\ OneLease'
  BY <1>1, <1>4 DEF OneLease
<1> QED
  BY <1>1, <1>2, <1>3, <1>5, <1>6, SubmitIInv

-----------------------------------------------------------------------------
(* Collecting the results.                                                 *)

(* Requests leave the pending table as their items get a result.           *)
LEMMA ResultsCallInv ==
    ASSUME call \in CallRec, CallInv, call.pc = "collect",
           NEW out \in SUBSET call.waiting, NEW res \in Maps(AnswerRec),
           call' = [call EXCEPT !.waiting = call.waiting \ out, !.results = res],
           DOMAIN call.results \subseteq DOMAIN res,
           \A x \in out : x.item \in DOMAIN res,
           \A i \in DOMAIN res : res[i].item = i
    PROVE  call' \in CallRec /\ CallInv' /\ call'.waiting = call.waiting \ out
<1> DEFINE rest == call.waiting \ out
<1>1. rest \in SUBSET WaitRec
  BY CallFields
<1> HIDE DEF rest
<1>2. call' = [call EXCEPT !.waiting = rest, !.results = res]
  BY DEF rest
<1>3. /\ call' \in CallRec /\ call'.waiting = rest /\ call'.results = res
      /\ call'.pc = call.pc /\ call'.todo = call.todo
      /\ call'.items = call.items /\ call'.pending = call.pending /\ call'.retry = call.retry
      /\ call'.rounds = call.rounds /\ call'.final = call.final /\ call'.attempts = call.attempts
  BY <1>1, <1>2 DEF CallRec
<1>4. \A k \in DOMAIN call.pending : Covered(k)'
  <2>1. \A k \in DOMAIN call.pending : Covered(k)
    BY DEF CallInv, RoundInv
  <2> QED
    BY <1>3, <2>1 DEF Covered, rest
<1>5. RoundInv'
  BY <1>3, <1>4 DEF CallInv, RoundInv
<1>6. CountInv'
  BY <1>3 DEF CallInv, CountInv
<1>7. StateInv'
  BY <1>3 DEF CallInv, StateInv, Left, Decided
<1>8. DistinctInv'
  BY <1>3 DEF CallInv, DistinctInv, Left
<1> QED
  BY <1>3, <1>5, <1>6, <1>7, <1>8 DEF CallInv, rest

LEMMA RespawnedFacts ==
    ASSUME Types, NEW w \in Workers
    PROVE  /\ Respawned(w) \in [Workers -> WorkerRec]
           /\ Respawned(w)[w].inbox = <<>> /\ Respawned(w)[w].retained = None
           /\ \A v \in Workers : v # w => Respawned(w)[v] = pool[v]
<1> DEFINE n == Spawned(pool[w].generation + 1)
<1>1. pool[w].generation + 1 \in Nat \ {0}
  BY WorkerFields
<1>2. n \in WorkerRec /\ n.inbox = <<>> /\ n.retained = None
  BY <1>1, SpawnedFacts
<1> HIDE DEF n
<1>3. Respawned(w) = [pool EXCEPT ![w] = n]
  BY DEF Respawned, n
<1> QED
  BY <1>2, <1>3 DEF Types

LEMMA ReceiveIInv ==
    ASSUME IInv, Receive
    PROVE  IInv'
<1>1. Types /\ IdInv /\ OneLease /\ CallInv /\ call \in CallRec /\ call.pc = "collect"
  BY DEF IInv, Types, Receive
<1>2. PICK a \in answers :
        /\ answers' = answers \ {a}
        /\ IF Expected(a) = {} THEN UNCHANGED <<pool, leases, call>>
           ELSE \E x \in Expected(a) :
                  /\ call' = [call EXCEPT !.waiting = @ \ {x}, !.results = Recorded(@, x.item, a)]
                  /\ IF a.status = "tainting"
                     THEN pool' = Respawned(a.worker) /\ leases' = InvalidateWorker(leases, a.worker)
                     ELSE UNCHANGED <<pool, leases>>
  BY DEF Receive
<1>3. next' = next /\ contexts' = contexts
  BY DEF Receive
<1>4. a \in AnswerRec /\ a.worker \in Workers /\ a.item \in ItemRec
  BY <1>1 DEF Types, AnswerRec
<1>5. CASE Expected(a) = {}
  <2>1. UNCHANGED <<pool, leases, call>>
    BY <1>2, <1>5
  <2>2. CallInv'
    BY <1>1, <2>1 DEF CallInv, RoundInv, CountInv, StateInv, DistinctInv, Covered, Left, Decided
  <2> QED
    BY <1>1, <1>2, <1>3, <2>1, <2>2, CoordinatorIInv DEF Types, OneLease
<1>6. CASE Expected(a) # {}
  <2>1. PICK x \in Expected(a) :
          /\ call' = [call EXCEPT !.waiting = @ \ {x}, !.results = Recorded(@, x.item, a)]
          /\ IF a.status = "tainting"
             THEN pool' = Respawned(a.worker) /\ leases' = InvalidateWorker(leases, a.worker)
             ELSE UNCHANGED <<pool, leases>>
    BY <1>2, <1>6
  <2>2. x \in call.waiting /\ x.item = a.item
    BY <1>1 DEF Expected, IdInv
  <2> DEFINE res == Recorded(call.results, x.item, a)
             out == {x}
  <2>3. /\ res \in Maps(AnswerRec) /\ DOMAIN res = DOMAIN call.results \cup {x.item}
        /\ res[x.item] = a
        /\ \A i \in DOMAIN call.results : i # x.item => res[i] = call.results[i]
    <3>1. call.results \in Maps(AnswerRec) /\ x.item \in ItemRec
      BY <1>1, <1>4, <2>2, CallFields
    <3>2. a \in AnswerRec
      BY <1>4
    <3> DEFINE f == call.results
               i == x.item
    <3>3. f \in Maps(AnswerRec) /\ i \in ItemRec
      BY <3>1
    <3> HIDE DEF f, i
    <3>4. /\ Recorded(f, i, a) \in Maps(AnswerRec)
          /\ DOMAIN Recorded(f, i, a) = DOMAIN f \cup {i}
          /\ Recorded(f, i, a)[i] = a
          /\ \A j \in DOMAIN f : j # i => Recorded(f, i, a)[j] = f[j]
      BY <3>2, <3>3, RecordedFacts
    <3> QED
      BY <3>4 DEF f, i
  <2> HIDE DEF res
  <2>4. \A i \in DOMAIN res : res[i].item = i
    BY <1>1, <2>2, <2>3 DEF CallInv, RoundInv
  <2>5. out \in SUBSET call.waiting /\ \A y \in out : y.item \in DOMAIN res
    BY <2>2, <2>3
  <2>6. call' = [call EXCEPT !.waiting = call.waiting \ out, !.results = res]
    BY <2>1 DEF res
  <2> HIDE DEF out
  <2>7. call' \in CallRec /\ CallInv' /\ call'.waiting \subseteq call.waiting
    BY <1>1, <2>3, <2>4, <2>5, <2>6, ResultsCallInv
  <2>8. /\ pool' \in [Workers -> WorkerRec]
        /\ \A w \in Workers :
             pool'[w] = pool[w] \/ (pool'[w].inbox = <<>> /\ pool'[w].retained = None)
    BY <1>1, <1>4, <2>1, RespawnedFacts DEF Types
  <2>9. leases' \subseteq leases
    BY <2>1 DEF InvalidateWorker
  <2>10. leases' \subseteq LeaseRec /\ OneLease'
    BY <1>1, <2>9 DEF Types, OneLease
  <2> QED
    BY <1>1, <1>2, <1>3, <2>7, <2>8, <2>10, CoordinatorIInv DEF Types
<1> QED
  BY <1>5, <1>6

LEMMA TimesOutIInv ==
    ASSUME IInv, TimesOut
    PROVE  IInv'
<1>1. Types /\ IdInv /\ OneLease /\ CallInv /\ call \in CallRec /\ call.pc = "collect"
  BY DEF IInv, Types, TimesOut
<1>2. GivenUp = call.waiting /\ HungWorkers \subseteq Workers
  BY <1>1, CallFields DEF GivenUp, HungWorkers, WaitRec
<1> DEFINE D == DOMAIN call.results \cup {x.item : x \in GivenUp}
           res == [i \in D |-> IF \E x \in GivenUp : x.item = i THEN TimeoutResult(i)
                               ELSE call.results[i]]
<1>3. ASSUME NEW i, \E x \in GivenUp : x.item = i
      PROVE  TimeoutResult(i) \in AnswerRec /\ TimeoutResult(i).item = i
  <2> DEFINE x == CHOOSE y \in GivenUp : y.item = i
  <2>1. x \in GivenUp /\ x.item = i
    BY <1>3
  <2> HIDE DEF x
  <2>2. x \in WaitRec
    BY <1>1, <1>2, <2>1, CallFields
  <2>3. x.id \in Nat /\ x.worker \in Workers /\ x.item \in ItemRec
    BY <2>2 DEF WaitRec
  <2>4. pool[x.worker].generation \in Nat \ {0}
    BY <1>1, <2>3, WorkerFields
  <2>5. TimeoutResult(i) = [id |-> x.id, item |-> i, status |-> "fault", worker |-> x.worker,
                            generation |-> pool[x.worker].generation, epoch |-> 0]
    BY DEF TimeoutResult, x
  <2> QED
    BY <2>1, <2>3, <2>4, <2>5 DEF AnswerRec
<1>4. D \in SUBSET ItemRec
  <2>1. DOMAIN call.results \subseteq ItemRec
    BY <1>1, CallFields, MapFacts
  <2>2. \A x \in GivenUp : x.item \in ItemRec
    BY <1>1, <1>2, CallFields DEF WaitRec
  <2> QED
    BY <2>1, <2>2
<1>5. \A i \in DOMAIN call.results : call.results[i] \in AnswerRec /\ call.results[i].item = i
  BY <1>1, CallFields, MapFacts DEF CallInv, RoundInv
<1>6. res \in [D -> AnswerRec] /\ \A i \in D : res[i].item = i
  <2>1. ASSUME NEW i \in D
        PROVE  res[i] \in AnswerRec /\ res[i].item = i
    <3>1. CASE \E x \in GivenUp : x.item = i
      BY <1>3, <3>1
    <3>2. CASE ~\E x \in GivenUp : x.item = i
      <4>1. i \in DOMAIN call.results /\ res[i] = call.results[i]
        BY <3>2
      <4> QED
        BY <1>5, <4>1
    <3> QED
      BY <3>1, <3>2
  <2> QED
    BY <2>1
<1>7. res \in Maps(AnswerRec) /\ DOMAIN res = D
  BY <1>4, <1>6, MakeMap
<1>8. call' = [call EXCEPT !.waiting = call.waiting \ GivenUp, !.results = res]
  BY DEF TimesOut
<1> HIDE DEF res
<1>9. DOMAIN call.results \subseteq DOMAIN res /\ \A x \in GivenUp : x.item \in DOMAIN res
  BY <1>7
<1>10. call' \in CallRec /\ CallInv' /\ call'.waiting = {}
  <2> HIDE DEF D
  <2>1. GivenUp \in SUBSET call.waiting /\ \A i \in DOMAIN res : res[i].item = i
    BY <1>2, <1>6, <1>7
  <2>2. call' \in CallRec /\ CallInv' /\ call'.waiting = call.waiting \ GivenUp
    BY <1>1, <1>7, <1>8, <1>9, <2>1, ResultsCallInv
  <2> QED
    BY <1>2, <2>2
<1>11. /\ pool' \in [Workers -> WorkerRec]
       /\ \A w \in Workers :
            pool'[w] = pool[w] \/ (pool'[w].inbox = <<>> /\ pool'[w].retained = None)
  <2>1. pool' = [w \in Workers |-> IF w \in HungWorkers THEN Respawned(w)[w] ELSE pool[w]]
    BY DEF TimesOut
  <2>2. \A w \in Workers : /\ Respawned(w)[w] \in WorkerRec
                           /\ Respawned(w)[w].inbox = <<>> /\ Respawned(w)[w].retained = None
    BY <1>1, RespawnedFacts
  <2> QED
    BY <1>1, <2>1, <2>2 DEF Types
<1>12. answers' \subseteq AnswerRec /\ \A a \in answers' : a.id <= next.request
  <2>1. PICK late \in SUBSET {w \in HungWorkers : pool[w].inbox # <<>>} :
          answers' = {Answer(w, Head(pool[w].inbox), "success", 1) : w \in late}
    BY DEF TimesOut
  <2>2. ASSUME NEW w \in late
        PROVE  /\ Answer(w, Head(pool[w].inbox), "success", 1) \in AnswerRec
               /\ Answer(w, Head(pool[w].inbox), "success", 1).id <= next.request
    <3>1. w \in Workers /\ pool[w].inbox # <<>> /\ pool[w].inbox \in Seq(RequestRec)
      BY <1>1, <1>2, WorkerFields
    <3>2. /\ Head(pool[w].inbox) \in RequestRec /\ 1 \in DOMAIN pool[w].inbox
          /\ Head(pool[w].inbox) = pool[w].inbox[1]
      BY <3>1, HeadFacts
    <3>3. Head(pool[w].inbox).id <= next.request
      BY <1>1, <3>1, <3>2 DEF IdInv
    <3> QED
      BY <1>1, <3>1, <3>2, <3>3, AnswerFacts
  <2> QED
    BY <2>1, <2>2
<1>13. leases' \subseteq LeaseRec /\ OneLease' /\ next' = next /\ contexts' = contexts
  BY <1>1 DEF TimesOut, Types, OneLease
<1> QED
  BY <1>1, <1>10, <1>11, <1>12, <1>13, CoordinatorIInv DEF Types

-----------------------------------------------------------------------------
(* The end of a round.                                                     *)

LEMMA CurrentFacts ==
    ASSUME call \in CallRec, CallInv, call.pc \in {"collect", "account"}, call.waiting = {}
    PROVE  /\ call.todo \in DOMAIN call.pending /\ Current \in ItemRec
           /\ Current \in DOMAIN call.attempts /\ Attempt \in AttemptRec
           /\ Answered \in AnswerRec /\ Answered.item = Current
<1>1. call.todo \in DOMAIN call.pending /\ Covered(call.todo) /\ Current \in DOMAIN call.attempts
  BY DEF CallInv, RoundInv, Current
<1>2. Current \in ItemRec
  BY <1>1, NextItemFacts DEF Phases
<1>3. Current \in DOMAIN call.results
  BY <1>1 DEF Covered, Current
<1>4. call.results \in Maps(AnswerRec) /\ call.attempts \in Maps(AttemptRec)
  BY CallFields
<1>5. call.results[Current] \in AnswerRec /\ call.attempts[Current] \in AttemptRec
  BY <1>1, <1>3, <1>4, MapFacts
<1>6. call.results[Current].item = Current
  BY <1>3 DEF CallInv, RoundInv
<1> QED
  BY <1>1, <1>2, <1>5, <1>6 DEF Answered, Attempt

LEMMA SettleLeaseFacts ==
    ASSUME leases \subseteq LeaseRec, OneLease, NEW i \in ItemRec, call.results[i] \in AnswerRec
    PROVE  /\ SettleLease(i) \subseteq LeaseRec
           /\ \A l, m \in SettleLease(i) : l.ctx = m.ctx => l = m
<1> DEFINE r == call.results[i]
           dropped == leases \ LeaseOf(i.ctx)
           new == EstablishedLease(r)
<1>1. r.item \in ItemRec /\ r.worker \in Workers /\ r.generation \in Nat \ {0} /\ r.epoch \in Nat
  BY DEF AnswerRec
<1> HIDE DEF r
<1>2. new \in LeaseRec
  BY <1>1, AfterFacts DEF EstablishedLease, LeaseRec
<1> HIDE DEF new
<1>3. dropped \subseteq leases
  OBVIOUS
<1> HIDE DEF dropped
<1>4. \/ SettleLease(i) = InvalidateWorker(dropped, r.worker)
      \/ SettleLease(i) = SetLease(dropped, new)
      \/ SettleLease(i) = dropped
  BY DEF SettleLease, r, dropped, new
<1>5. CASE SettleLease(i) = InvalidateWorker(dropped, r.worker)
  BY <1>3, <1>5 DEF InvalidateWorker, OneLease
<1>6. CASE SettleLease(i) = SetLease(dropped, new)
  BY <1>2, <1>3, <1>6 DEF SetLease, OneLease
<1>7. CASE SettleLease(i) = dropped
  BY <1>3, <1>7 DEF OneLease
<1> QED
  BY <1>4, <1>5, <1>6, <1>7

LEMMA SettleIInv ==
    ASSUME IInv, Settle
    PROVE  IInv'
<1>1. /\ Types /\ OneLease /\ CallInv /\ call \in CallRec /\ call.pc = "collect" /\ call.waiting = {}
      /\ leases \subseteq LeaseRec
  BY DEF IInv, Types, Settle
<1>2. call' = NextItem("account") /\ leases' = SettleLease(Current)
      /\ UNCHANGED <<pool, answers, next, contexts>>
  BY DEF Settle
<1>3. call.todo \in DOMAIN call.pending /\ Current \in ItemRec /\ Answered \in AnswerRec
  BY <1>1, CurrentFacts
<1>4. leases' \subseteq LeaseRec /\ OneLease'
  BY <1>1, <1>2, <1>3, SettleLeaseFacts DEF Answered, OneLease
<1>5. /\ call' \in CallRec
      /\ call'.items = call.items /\ call'.pending = call.pending
      /\ call'.retry = call.retry /\ call'.rounds = call.rounds
      /\ call'.waiting = call.waiting /\ call'.results = call.results
      /\ call'.final = call.final /\ call'.attempts = call.attempts
      /\ \A k \in DOMAIN call.pending : k \in Nat /\ k >= 1
      /\ \/ call'.pc = "account" /\ call'.todo = 1 /\ 1 \in DOMAIN call.pending
         \/ /\ call'.pc = "collect" /\ call'.todo = call.todo + 1
            /\ call.todo + 1 \in DOMAIN call.pending
  BY <1>1, <1>2, <1>3, NextItemFacts DEF Phases
<1>6. /\ call'.pc \in {"collect", "account"} /\ call'.todo \in DOMAIN call'.pending
      /\ \A k \in DOMAIN call.pending : Left(k) /\ Left(k)'
  BY <1>1, <1>5 DEF Left
<1>7. RoundInv'
  BY <1>1, <1>5, <1>6 DEF CallInv, RoundInv, Covered
<1>8. CountInv'
  BY <1>1, <1>5 DEF CallInv, CountInv
<1>9. StateInv'
  BY <1>1, <1>5, <1>6 DEF CallInv, StateInv, Decided
<1>10. DistinctInv'
  <2>1. DOMAIN call.retry = {}
    BY <1>1 DEF CallInv, RoundInv
  <2> QED
    BY <1>1, <1>5, <1>6, <2>1 DEF CallInv, DistinctInv
<1>11. CallInv'
  BY <1>7, <1>8, <1>9, <1>10 DEF CallInv
<1> QED
  BY <1>1, <1>2, <1>4, <1>5, <1>11, CoordinatorIInv DEF Types

(* An item is accounted for: it will be tried again, or it is decided.     *)
LEMMA AccountCallInv ==
    ASSUME call \in CallRec, CallInv, call.pc = "account", call' \in CallRec,
           NEW att \in AttemptRec, NEW n, n = NextItem("round"),
           call'.pc = n.pc, call'.todo = n.todo,
           call'.items = call.items, call'.pending = call.pending, call'.rounds = call.rounds,
           call'.waiting = call.waiting, call'.results = call.results,
           DOMAIN call'.attempts = DOMAIN call.attempts, call'.attempts[Current] = att,
           \A i \in DOMAIN call.attempts : i # Current => call'.attempts[i] = call.attempts[i],
           \/ /\ att.state = "Retrying" /\ att.count = Attempt.count + 1 /\ att.count <= MaxRetries
              /\ call'.retry = Append(call.retry, Current) /\ call'.final = call.final
           \/ /\ att.state = IF Answered.status = "success" THEN "FinalSuccess" ELSE "FinalFault"
              /\ att.count >= Attempt.count
              /\ call'.retry = call.retry
              /\ call'.final = Recorded(call.final, Current, Answered)
    PROVE  CallInv'
<1>1. /\ call.waiting = {} /\ call.rounds \in Nat
      /\ call.retry \in Seq(ItemRec) /\ call.final \in Maps(AnswerRec)
  BY CallFields DEF CallInv, RoundInv
<1>2. /\ call.todo \in DOMAIN call.pending /\ Current \in ItemRec
      /\ Current \in DOMAIN call.attempts /\ Attempt \in AttemptRec
      /\ Answered \in AnswerRec /\ Answered.item = Current /\ Current = call.pending[call.todo]
  BY <1>1, CurrentFacts DEF Current
<1>3. /\ \A k \in DOMAIN call.pending : k \in Nat /\ k >= 1
      /\ \/ /\ n.pc = "round" /\ n.todo = 1 /\ 1 \in DOMAIN call.pending
            /\ \A k \in DOMAIN call.pending : k < call.todo \/ k = call.todo
         \/ /\ n.pc = call.pc /\ n.todo = call.todo + 1
            /\ call.todo + 1 \in DOMAIN call.pending
  BY <1>2, NextItemFacts DEF Phases
<1>4. /\ call'.pc \in {"account", "round"}
      /\ call'.pc = "account" => /\ call'.todo = call.todo + 1 /\ call'.todo \in DOMAIN call'.pending
      /\ call'.pc = "round" => call'.todo = 1
  BY <1>3
<1>5. \A k \in DOMAIN call.pending : Left(k) <=> k >= call.todo
  BY DEF Left
<1>6. \A k \in DOMAIN call.pending : Left(k)' <=> Left(k) /\ k # call.todo
  BY <1>2, <1>3, <1>4, <1>5 DEF Left
<1>7. /\ \A k \in DOMAIN call'.retry :
           \/ k \in DOMAIN call.retry /\ call'.retry[k] = call.retry[k]
           \/ /\ call'.retry[k] = Current /\ att.state = "Retrying"
              /\ att.count = Attempt.count + 1 /\ att.count <= MaxRetries
              /\ k = Len(call.retry) + 1
      /\ \A k \in DOMAIN call.retry : k \in DOMAIN call'.retry /\ call'.retry[k] = call.retry[k]
      /\ DOMAIN call.retry = 1..Len(call.retry) /\ Len(call.retry) \in Nat
  <2> DEFINE s == call.retry
             more == Append(s, Current)
  <2>1. s \in Seq(ItemRec) /\ DOMAIN s = 1..Len(s) /\ Len(s) \in Nat
    BY <1>1
  <2> HIDE DEF s
  <2>2. /\ \A k \in DOMAIN more :
             \/ k \in DOMAIN s /\ more[k] = s[k]
             \/ more[k] = Current /\ k = Len(s) + 1
        /\ \A k \in DOMAIN s : k \in DOMAIN more /\ more[k] = s[k]
    <3>1. Current \in ItemRec
      BY <1>2
    <3>2. DOMAIN more = 1..(Len(s) + 1) /\ more[Len(s) + 1] = Current
      BY <2>1, <3>1
    <3>3. \A k \in 1..Len(s) : more[k] = s[k]
      BY <2>1, <3>1
    <3> HIDE DEF more
    <3> QED
      BY <2>1, <3>2, <3>3
  <2> HIDE DEF more
  <2>3. \/ /\ att.state = "Retrying" /\ att.count = Attempt.count + 1 /\ att.count <= MaxRetries
           /\ call'.retry = more
        \/ call'.retry = s
    BY DEF s, more
  <2>4. CASE call'.retry = s
    BY <2>1, <2>4 DEF s
  <2>5. CASE /\ att.state = "Retrying" /\ att.count = Attempt.count + 1 /\ att.count <= MaxRetries
             /\ call'.retry = more
    BY <2>1, <2>2, <2>5 DEF s
  <2> QED
    BY <2>3, <2>4, <2>5
<1>8. \/ call'.final = call.final
      \/ /\ DOMAIN call'.final = DOMAIN call.final \cup {Current}
         /\ call'.final[Current] = Answered
         /\ \A i \in DOMAIN call.final : i # Current => call'.final[i] = call.final[i]
  <2> DEFINE f == call.final
  <2>1. f \in Maps(AnswerRec)
    BY <1>1
  <2> HIDE DEF f
  <2>2. /\ DOMAIN Recorded(f, Current, Answered) = DOMAIN f \cup {Current}
        /\ Recorded(f, Current, Answered)[Current] = Answered
        /\ \A i \in DOMAIN f : i # Current => Recorded(f, Current, Answered)[i] = f[i]
    BY DEF Recorded
  <2>3. call'.final = f \/ call'.final = Recorded(f, Current, Answered)
    BY DEF f
  <2> QED
    BY <2>2, <2>3 DEF f
<1>9. RoundInv'
  <2>1. \A k \in DOMAIN call'.retry : call'.retry[k] \in DOMAIN call'.attempts
    BY <1>2, <1>7 DEF CallInv, RoundInv
  <2>2. \A i \in DOMAIN call'.final : call'.final[i].item = i
    BY <1>2, <1>8 DEF CallInv, RoundInv
  <2>3. \A k \in DOMAIN call.pending : Covered(k)'
    BY DEF CallInv, RoundInv, Covered
  <2> QED
    BY <1>1, <1>4, <2>1, <2>2, <2>3 DEF CallInv, RoundInv
<1>10. \A i \in DOMAIN call.attempts :
         /\ call.attempts[i].count \in Nat /\ call'.attempts[i].count \in Nat
         /\ call'.attempts[i].count >= call.attempts[i].count
  <2>1. \A i \in DOMAIN call.attempts : call.attempts[i] \in AttemptRec
    BY CallFields, MapFacts
  <2> QED
    BY <1>2, <2>1 DEF AttemptRec, Attempt
<1>11. CountInv'
  <2>1. \A k \in DOMAIN call'.pending : call'.rounds <= call'.attempts[call'.pending[k]].count + 1
    BY <1>1, <1>10 DEF CallInv, RoundInv, CountInv
  <2>2. call.rounds <= Attempt.count + 1 /\ Attempt.count \in Nat
    BY <1>2 DEF CallInv, CountInv, Attempt, AttemptRec
  <2>3. ASSUME NEW k \in DOMAIN call'.retry
        PROVE  call'.rounds <= call'.attempts[call'.retry[k]].count
    <3>1. CASE k \in DOMAIN call.retry /\ call'.retry[k] = call.retry[k]
      <4>1. call.retry[k] \in DOMAIN call.attempts /\ call.rounds <= call.attempts[call.retry[k]].count
        BY <3>1 DEF CallInv, RoundInv, CountInv
      <4> QED
        BY <1>1, <1>10, <3>1, <4>1
    <3>2. CASE call'.retry[k] = Current /\ att.count = Attempt.count + 1
      BY <1>1, <2>2, <3>2
    <3> QED
      BY <1>7, <3>1, <3>2
  <2>4. call'.retry # <<>> => call'.rounds <= MaxRetries
    <3>1. call'.retry = call.retry \/ (att.count = Attempt.count + 1 /\ att.count <= MaxRetries)
      OBVIOUS
    <3> QED
      BY <1>1, <2>2, <3>1, DispatchAssumption DEF CallInv, CountInv
  <2> QED
    BY <2>1, <2>3, <2>4 DEF CallInv, CountInv
<1>12. StateInv'
  <2>1. ASSUME NEW i \in DOMAIN call.attempts, i # Current
        PROVE  \/ Decided(i)'
               \/ /\ Undecided(call'.attempts[i])
                  /\ \/ \E k \in DOMAIN call'.pending : Left(k)' /\ call'.pending[k] = i
                     \/ \E k \in DOMAIN call'.retry : call'.retry[k] = i
    <3>1. call'.attempts[i] = call.attempts[i]
      BY <2>1
    <3>2. CASE Decided(i)
      BY <1>8, <2>1, <3>1, <3>2 DEF Decided
    <3>3. CASE ~Decided(i)
      <4>1. /\ Undecided(call.attempts[i])
            /\ \/ \E k \in DOMAIN call.pending : Left(k) /\ call.pending[k] = i
               \/ \E k \in DOMAIN call.retry : call.retry[k] = i
        BY <3>3 DEF CallInv, StateInv
      <4>2. ASSUME NEW k \in DOMAIN call.pending, Left(k), call.pending[k] = i
            PROVE  Left(k)' /\ call'.pending[k] = i
        BY <1>2, <1>6, <2>1, <4>2
      <4> QED
        BY <1>7, <3>1, <4>1, <4>2
    <3> QED
      BY <3>2, <3>3
  <2>2. ASSUME NEW i \in DOMAIN call.attempts, i = Current
        PROVE  \/ Decided(i)'
               \/ /\ Undecided(call'.attempts[i])
                  /\ \E k \in DOMAIN call'.retry : call'.retry[k] = i
    <3>1. CASE /\ att.state = "Retrying"
               /\ call'.retry = Append(call.retry, Current)
      <4>1. Len(call.retry) + 1 \in DOMAIN call'.retry /\ call'.retry[Len(call.retry) + 1] = Current
        BY <1>1, <1>2, <3>1
      <4> QED
        BY <2>2, <3>1, <4>1 DEF Undecided
    <3>2. CASE /\ att.state = IF Answered.status = "success" THEN "FinalSuccess" ELSE "FinalFault"
               /\ call'.final = Recorded(call.final, Current, Answered)
      <4>1. Current \in DOMAIN call'.final /\ call'.final[Current] = Answered
        BY <3>2 DEF Recorded
      <4> QED
        BY <2>2, <3>2, <4>1 DEF Decided
    <3> QED
      BY <3>1, <3>2
  <2> QED
    BY <2>1, <2>2 DEF StateInv
<1>13. DistinctInv'
  <2> SUFFICES ASSUME Distinct(call.items)
               PROVE  /\ Distinct(call'.pending) /\ Distinct(call'.retry)
                      /\ \A k \in DOMAIN call.pending :
                           Left(k)' => Undecided(call'.attempts[call.pending[k]])
                      /\ \A j \in DOMAIN call'.retry :
                           /\ Undecided(call'.attempts[call'.retry[j]])
                           /\ call'.pc = "account" => \E k \in DOMAIN call.pending :
                                k < call'.todo /\ call.pending[k] = call'.retry[j]
    BY <1>4 DEF DistinctInv
  <2>1. /\ Distinct(call.pending) /\ Distinct(call.retry)
        /\ \A k \in DOMAIN call.pending : Left(k) => Undecided(call.attempts[call.pending[k]])
        /\ \A j \in DOMAIN call.retry :
             /\ Undecided(call.attempts[call.retry[j]])
             /\ \E k \in DOMAIN call.pending : k < call.todo /\ call.pending[k] = call.retry[j]
    BY DEF CallInv, DistinctInv
  <2>2. \A j \in DOMAIN call.retry : call.retry[j] # Current /\ call.retry[j] \in DOMAIN call.attempts
    <3>1. \A k \in DOMAIN call.pending : k < call.todo => call.pending[k] # Current
      BY <1>2, <1>3, <2>1 DEF Distinct
    <3> QED
      BY <2>1, <3>1 DEF CallInv, RoundInv
  <2>3. Distinct(call'.retry)
    BY <1>7, <2>1, <2>2 DEF Distinct
  <2>4. ASSUME NEW k \in DOMAIN call.pending, Left(k)'
        PROVE  Undecided(call'.attempts[call.pending[k]])
    <3>1. Left(k) /\ k # call.todo
      BY <1>6, <2>4
    <3>2. call.pending[k] # Current /\ call.pending[k] \in DOMAIN call.attempts
      BY <1>2, <2>1, <3>1 DEF Distinct, CallInv, RoundInv
    <3> QED
      BY <2>1, <3>1, <3>2
  <2>5. ASSUME NEW j \in DOMAIN call'.retry
        PROVE  /\ Undecided(call'.attempts[call'.retry[j]])
               /\ call'.pc = "account" => \E k \in DOMAIN call.pending :
                    k < call'.todo /\ call.pending[k] = call'.retry[j]
    <3>1. CASE j \in DOMAIN call.retry /\ call'.retry[j] = call.retry[j]
      <4>1. Undecided(call'.attempts[call'.retry[j]])
        BY <2>1, <2>2, <3>1
      <4>2. PICK k \in DOMAIN call.pending : k < call.todo /\ call.pending[k] = call.retry[j]
        BY <2>1, <3>1
      <4>3. call'.pc = "account" => k < call'.todo
        BY <1>2, <1>3, <1>4, <4>2
      <4> QED
        BY <3>1, <4>1, <4>2, <4>3
    <3>2. CASE call'.retry[j] = Current /\ att.state = "Retrying"
      <4>1. call'.pc = "account" => call.todo < call'.todo
        BY <1>2, <1>3, <1>4
      <4> QED
        BY <1>2, <3>2, <4>1 DEF Undecided
    <3> QED
      BY <1>7, <3>1, <3>2
  <2> QED
    BY <2>1, <2>3, <2>4, <2>5
<1> QED
  BY <1>9, <1>11, <1>12, <1>13 DEF CallInv

LEMMA RetryFacts ==
    ASSUME NEW a \in AttemptRec
    PROVE  /\ Retry(a) \in AttemptRec /\ Retry(a).count = a.count + 1
           /\ Retries(a) => Retry(a).state = "Retrying" /\ Retry(a).count <= MaxRetries
           /\ ~Retries(a) => Retry(a).state = "FinalFault"
<1>1. a.count \in Nat
  BY DEF AttemptRec
<1> QED
  BY <1>1 DEF Retry, Retries, AttemptRec

(* The attempt of the current item is replaced in its table.               *)
LEMMA AttemptsFacts ==
    ASSUME NEW f \in Maps(AttemptRec), NEW i \in DOMAIN f, NEW att \in AttemptRec
    PROVE  /\ [f EXCEPT ![i] = att] \in Maps(AttemptRec)
           /\ DOMAIN [f EXCEPT ![i] = att] = DOMAIN f
           /\ [f EXCEPT ![i] = att][i] = att
           /\ \A j \in DOMAIN f : j # i => [f EXCEPT ![i] = att][j] = f[j]
<1>1. DOMAIN f \in SUBSET ItemRec /\ \A j \in DOMAIN f : f[j] \in AttemptRec
  BY MapFacts
<1>2. f = [j \in DOMAIN f |-> f[j]]
  <2>1. PICK D \in SUBSET ItemRec : f \in [D -> AttemptRec]
    BY DEF Maps
  <2> QED
    BY <2>1
<1>3. [f EXCEPT ![i] = att] \in [DOMAIN f -> AttemptRec]
  BY <1>1, <1>2
<1>4. [f EXCEPT ![i] = att] \in Maps(AttemptRec)
  BY <1>1, <1>3, MakeMap
<1> QED
  BY <1>4

LEMMA AccountIInv ==
    ASSUME IInv, AccountSuccess \/ AccountFault
    PROVE  IInv'
<1>1. /\ Types /\ OneLease /\ CallInv /\ call \in CallRec /\ call.pc = "account"
      /\ UNCHANGED <<pool, answers, leases, next, contexts>>
  BY DEF IInv, Types, AccountSuccess, AccountFault, Accounting
<1>2. /\ call.waiting = {} /\ call.retry \in Seq(ItemRec) /\ call.final \in Maps(AnswerRec)
      /\ call.attempts \in Maps(AttemptRec)
  BY <1>1, CallFields DEF CallInv, RoundInv
<1>3. /\ call.todo \in DOMAIN call.pending /\ Current \in ItemRec
      /\ Current \in DOMAIN call.attempts /\ Attempt \in AttemptRec /\ Answered \in AnswerRec
      /\ Attempt = call.attempts[Current]
  BY <1>1, <1>2, CurrentFacts DEF Attempt
<1> DEFINE n == NextItem("round")
           decided == Recorded(call.final, Current, Answered)
           longer == Append(call.retry, Current)
<1>4. /\ n \in CallRec
      /\ n.items = call.items /\ n.pending = call.pending
      /\ n.retry = call.retry /\ n.rounds = call.rounds
      /\ n.waiting = call.waiting /\ n.results = call.results
      /\ n.final = call.final /\ n.attempts = call.attempts
  BY <1>1, <1>3, NextItemFacts DEF Phases
<1>5. longer \in Seq(ItemRec) /\ decided \in Maps(AnswerRec)
  <2>1. longer \in Seq(ItemRec)
    BY <1>2, <1>3
  <2> DEFINE f == call.final
  <2>2. f \in Maps(AnswerRec)
    BY <1>2
  <2> HIDE DEF f
  <2>3. Recorded(f, Current, Answered) \in Maps(AnswerRec)
    BY <1>3, <2>2, RecordedFacts
  <2> QED
    BY <2>1, <2>3 DEF f
<1> HIDE DEF n, decided, longer
<1>6. PICK att \in AttemptRec, ret \in Seq(ItemRec), fin \in Maps(AnswerRec) :
        /\ call' = [n EXCEPT !.attempts = [call.attempts EXCEPT ![Current] = att],
                             !.retry = ret, !.final = fin]
        /\ \/ /\ att.state = "Retrying" /\ att.count = Attempt.count + 1 /\ att.count <= MaxRetries
              /\ ret = longer /\ fin = call.final
           \/ /\ att.state = IF Answered.status = "success" THEN "FinalSuccess" ELSE "FinalFault"
              /\ att.count >= Attempt.count
              /\ ret = call.retry /\ fin = decided
  <2>1. CASE AccountSuccess
    <3> DEFINE att == [Attempt EXCEPT !.state = "FinalSuccess"]
    <3>1. att \in AttemptRec /\ att.state = "FinalSuccess" /\ att.count >= Attempt.count
      BY <1>3 DEF AttemptRec
    <3>2. Answered.status = "success"
      BY <2>1 DEF AccountSuccess
    <3>3. call' = [n EXCEPT !.attempts[Current].state = "FinalSuccess", !.final = decided]
      BY <1>4, <2>1 DEF AccountSuccess, n, decided
    <3>4. call' = [n EXCEPT !.attempts = [call.attempts EXCEPT ![Current] = att],
                            !.retry = call.retry, !.final = decided]
      BY <1>3, <1>4, <3>3 DEF CallRec
    <3> HIDE DEF att
    <3> QED
      BY <1>2, <1>5, <3>1, <3>2, <3>4
  <2>2. CASE AccountFault
    <3> DEFINE att == Retry(Attempt)
    <3>1. /\ att \in AttemptRec /\ att.count = Attempt.count + 1
          /\ Retries(Attempt) => att.state = "Retrying" /\ att.count <= MaxRetries
          /\ ~Retries(Attempt) => att.state = "FinalFault"
      BY <1>3, RetryFacts
    <3>2. Answered.status # "success" /\ Attempt.count \in Nat
      BY <1>3, <2>2 DEF AccountFault, AttemptRec
    <3>3. call' = [n EXCEPT !.attempts[Current] = att,
                            !.retry = IF Retries(Attempt) THEN longer ELSE call.retry,
                            !.final = IF Retries(Attempt) THEN call.final ELSE decided]
      BY <1>4, <2>2 DEF AccountFault, n, decided, longer
    <3> HIDE DEF att
    <3>4. call' = [n EXCEPT !.attempts = [call.attempts EXCEPT ![Current] = att],
                            !.retry = IF Retries(Attempt) THEN longer ELSE call.retry,
                            !.final = IF Retries(Attempt) THEN call.final ELSE decided]
      BY <1>4, <3>3 DEF CallRec
    <3>5. CASE Retries(Attempt)
      BY <1>2, <1>5, <3>1, <3>4, <3>5
    <3>6. CASE ~Retries(Attempt)
      <4>1. att \in AttemptRec /\ att.state = "FinalFault" /\ att.count >= Attempt.count
        BY <3>1, <3>2, <3>6
      <4>2. call' = [n EXCEPT !.attempts = [call.attempts EXCEPT ![Current] = att],
                              !.retry = call.retry, !.final = decided]
        BY <3>4, <3>6
      <4> QED
        BY <1>2, <1>5, <3>2, <4>1, <4>2
    <3> QED
      BY <3>5, <3>6
  <2> QED
    BY <2>1, <2>2
<1> DEFINE table == [call.attempts EXCEPT ![Current] = att]
<1>7. /\ table \in Maps(AttemptRec) /\ DOMAIN table = DOMAIN call.attempts /\ table[Current] = att
      /\ \A j \in DOMAIN call.attempts : j # Current => table[j] = call.attempts[j]
  <2> DEFINE f == call.attempts
  <2>1. f \in Maps(AttemptRec) /\ Current \in DOMAIN f
    BY <1>2, <1>3
  <2> HIDE DEF f
  <2>2. /\ [f EXCEPT ![Current] = att] \in Maps(AttemptRec)
        /\ DOMAIN [f EXCEPT ![Current] = att] = DOMAIN f
        /\ [f EXCEPT ![Current] = att][Current] = att
        /\ \A j \in DOMAIN f : j # Current => [f EXCEPT ![Current] = att][j] = f[j]
    BY <2>1, AttemptsFacts
  <2> QED
    BY <2>2 DEF f
<1> HIDE DEF table
<1>8. call' = [n EXCEPT !.attempts = table, !.retry = ret, !.final = fin]
  BY <1>6 DEF table
<1>9. /\ call' \in CallRec /\ call'.attempts = table /\ call'.retry = ret /\ call'.final = fin
      /\ call'.pc = n.pc /\ call'.todo = n.todo /\ call'.items = n.items
      /\ call'.pending = n.pending /\ call'.rounds = n.rounds /\ call'.waiting = n.waiting
      /\ call'.results = n.results
  BY <1>4, <1>7, <1>8 DEF CallRec
<1>10. /\ n = NextItem("round")
       /\ \/ /\ att.state = "Retrying" /\ att.count = Attempt.count + 1 /\ att.count <= MaxRetries
             /\ call'.retry = Append(call.retry, Current) /\ call'.final = call.final
          \/ /\ att.state = IF Answered.status = "success" THEN "FinalSuccess" ELSE "FinalFault"
             /\ att.count >= Attempt.count
             /\ call'.retry = call.retry
             /\ call'.final = Recorded(call.final, Current, Answered)
  BY <1>6, <1>9 DEF n, longer, decided
<1>11. CallInv'
  BY <1>1, <1>4, <1>7, <1>9, <1>10, AccountCallInv
<1> QED
  BY <1>1, <1>4, <1>9, <1>11, CoordinatorIInv DEF Types, OneLease

LEMMA AccountRaisesIInv ==
    ASSUME IInv, AccountRaises
    PROVE  IInv'
<1>1. /\ Types /\ OneLease /\ CallInv /\ call \in CallRec /\ call.pc = "account"
      /\ UNCHANGED <<pool, answers, leases, next, contexts>>
      /\ call' = [call EXCEPT !.pc = "raised"]
  BY DEF IInv, Types, AccountRaises, Accounting
<1>2. /\ call' \in CallRec /\ call'.pc = "raised"
      /\ call'.items = call.items /\ call'.pending = call.pending /\ call'.retry = call.retry
      /\ call'.rounds = call.rounds /\ call'.todo = call.todo /\ call'.waiting = call.waiting
      /\ call'.results = call.results /\ call'.final = call.final /\ call'.attempts = call.attempts
  BY <1>1 DEF CallRec, Phases
<1>3. ~Distinct(call.items)
  <2>1. call.todo \in DOMAIN call.pending /\ Left(call.todo)
    <3>1. call.todo \in Nat
      BY <1>1, CallFields
    <3> QED
      BY <1>1, <3>1 DEF CallInv, RoundInv, Left
  <2>2. ~Undecided(call.attempts[call.pending[call.todo]])
    BY DEF AccountRaises, Attempt, Current
  <2> QED
    BY <1>1, <2>1, <2>2 DEF CallInv, DistinctInv
<1>4. RoundInv'
  BY <1>1, <1>2 DEF CallInv, RoundInv
<1>5. CountInv'
  BY <1>1, <1>2 DEF CallInv, CountInv
<1>6. StateInv'
  BY <1>2 DEF StateInv
<1>7. DistinctInv'
  BY <1>2, <1>3 DEF DistinctInv
<1>8. CallInv'
  BY <1>4, <1>5, <1>6, <1>7 DEF CallInv
<1> QED
  BY <1>1, <1>2, <1>8, CoordinatorIInv DEF Types, OneLease

LEMMA RoundEndsIInv ==
    ASSUME IInv, RoundEnds
    PROVE  IInv'
<1>1. /\ Types /\ OneLease /\ CallInv /\ call \in CallRec /\ call.pc = "round"
      /\ UNCHANGED <<pool, answers, leases, next, contexts>>
  BY DEF IInv, Types, RoundEnds
<1>2. call.waiting = {} /\ call.todo = 1 /\ \A k \in DOMAIN call.pending : ~Left(k)
  BY <1>1 DEF CallInv, RoundInv, Left
<1>3. CASE call.retry = <<>>
  <2>1. call' = [call EXCEPT !.pc = "done"] /\ DOMAIN call.retry = {}
    BY <1>3 DEF RoundEnds
  <2>2. /\ call' \in CallRec /\ call'.pc = "done"
        /\ call'.items = call.items /\ call'.pending = call.pending /\ call'.retry = call.retry
        /\ call'.rounds = call.rounds /\ call'.todo = call.todo /\ call'.waiting = call.waiting
        /\ call'.results = call.results /\ call'.final = call.final
        /\ call'.attempts = call.attempts
    BY <1>1, <2>1 DEF CallRec, Phases
  <2>3. RoundInv'
    BY <1>1, <1>3, <2>2 DEF CallInv, RoundInv
  <2>4. CountInv'
    BY <1>1, <2>2 DEF CallInv, CountInv
  <2>5. StateInv'
    <3>1. \A i \in DOMAIN call.attempts : Decided(i)
      BY <1>1, <1>2, <2>1 DEF CallInv, StateInv
    <3> QED
      BY <2>2, <3>1 DEF StateInv, Decided
  <2>6. DistinctInv'
    BY <1>1, <2>1, <2>2 DEF CallInv, DistinctInv, Left
  <2>7. CallInv'
    BY <2>3, <2>4, <2>5, <2>6 DEF CallInv
  <2> QED
    BY <1>1, <2>2, <2>7, CoordinatorIInv DEF Types, OneLease
<1>4. CASE call.retry # <<>>
  <2>1. /\ call.retry \in Seq(ItemRec) /\ 1 \in DOMAIN call.retry
        /\ \A k \in DOMAIN call.retry : k \in Nat /\ k >= 1
        /\ call.rounds \in Nat /\ call.rounds + 1 \in Nat
    <3>1. call.retry \in Seq(ItemRec) /\ call.rounds \in Nat
      BY <1>1, CallFields
    <3> QED
      BY <1>4, <3>1
  <2>2. call.rounds <= MaxRetries /\ ~(call.rounds + 1 > MaxRetries + 2)
    BY <1>1, <1>4, <2>1, DispatchAssumption DEF CallInv, CountInv
  <2> DEFINE none == <<>>
             later == call.rounds + 1
  <2>3. /\ none \in Seq(ItemRec) /\ none = <<>> /\ DOMAIN none = {}
        /\ Nothing \in Maps(AnswerRec) /\ DOMAIN Nothing = {}
        /\ later \in Nat
    BY <2>1, NothingIsAMap
  <2> HIDE DEF none, later, Nothing
  <2>4. call' = [call EXCEPT !.pending = call.retry, !.retry = none, !.results = Nothing,
                             !.rounds = later, !.pc = "route"]
    BY <1>4, <2>2 DEF RoundEnds, none, later
  <2>5. /\ call' \in CallRec /\ call'.pc = "route" /\ call'.pending = call.retry
        /\ call'.retry = none /\ call'.results = Nothing /\ call'.rounds = later
        /\ call'.items = call.items /\ call'.todo = call.todo /\ call'.waiting = call.waiting
        /\ call'.final = call.final /\ call'.attempts = call.attempts
    BY <1>1, <2>1, <2>3, <2>4 DEF CallRec, Phases
  <2>6. RoundInv'
    <3>1. \A k \in DOMAIN call.retry : ~(k < call'.todo)
      BY <1>2, <2>1, <2>5
    <3> QED
      BY <1>1, <1>2, <2>1, <2>3, <2>5, <3>1 DEF CallInv, RoundInv
  <2>7. CountInv'
    <3>1. \A k \in DOMAIN call.retry : /\ call.rounds <= call.attempts[call.retry[k]].count
                                       /\ call.attempts[call.retry[k]].count \in Nat
      <4>1. \A k \in DOMAIN call.retry : call.attempts[call.retry[k]] \in AttemptRec
        BY <1>1, CallFields, MapFacts DEF CallInv, RoundInv
      <4> QED
        BY <1>1, <4>1 DEF CallInv, CountInv, AttemptRec
    <3>2. \A k \in DOMAIN call.retry : later <= call.attempts[call.retry[k]].count + 1
      BY <2>1, <3>1 DEF later
    <3>3. later <= MaxRetries + 1
      BY <2>1, <2>2, DispatchAssumption DEF later
    <3> QED
      BY <2>3, <2>5, <3>2, <3>3 DEF CountInv
  <2>8. StateInv'
    <3>1. \A i \in DOMAIN call.attempts :
            \/ Decided(i)
            \/ Undecided(call.attempts[i]) /\ \E k \in DOMAIN call.retry : call.retry[k] = i
      BY <1>1, <1>2 DEF CallInv, StateInv
    <3> QED
      BY <2>5, <3>1 DEF StateInv, Decided, Left
  <2>9. DistinctInv'
    BY <1>1, <2>3, <2>5 DEF CallInv, DistinctInv, Distinct
  <2>10. CallInv'
    BY <2>6, <2>7, <2>8, <2>9 DEF CallInv
  <2> QED
    BY <1>1, <2>5, <2>10, CoordinatorIInv DEF Types, OneLease
<1> QED
  BY <1>3, <1>4

-----------------------------------------------------------------------------
LEMMA NextIInv == IInv /\ [Next]_vars => IInv'
<1> SUFFICES ASSUME IInv, [Next]_vars PROVE IInv'
  OBVIOUS
<1>1. CASE UNCHANGED vars
  BY <1>1 DEF vars, IInv, Types, IdInv, HolderInv, OneLease, CallInv, RoundInv, CountInv,
              StateInv, DistinctInv, Covered, Left, Decided
<1>2. CASE Call
  BY <1>2, CallIInv
<1>3. CASE Close
  BY <1>3, CloseIInv
<1>4. CASE Coordinates
  BY <1>4, RouteHolderIInv, RouteBootstrapIInv, ReceiveIInv, TimesOutIInv, SettleIInv,
     AccountIInv, AccountRaisesIInv, RoundEndsIInv, ReturnIInv DEF Coordinates
<1>5. CASE \E w \in Workers : WorkerFaults(w) \/ WorkerSteps(w)
  BY <1>5, WorkerFaultsIInv, WorkerStepsIInv
<1> QED
  BY <1>1, <1>2, <1>3, <1>4, <1>5 DEF Next

(* The invariant that the following theorems rest on.                      *)
THEOREM Invariance == Spec => []IInv
BY InitIInv, NextIInv, PTL DEF Spec

(* Workers, answers, leases and the coordinator's call keep their types;   *)
(* there is one lease per context, and an answer that is expected is about *)
(* the item that is waited for (branch_worker_pool.py dispatch_work_items, *)
(* LeaseRegistry).                                                         *)
THEOREM TypeCorrect == Spec => []TypeOK
<1>1. IInv => TypeOK
  <2> SUFFICES ASSUME IInv PROVE TypeOK
    OBVIOUS
  <2>1. \A w \in Workers : pool[w].generation \in Nat \ {0} /\ pool[w].epoch \in Nat
    BY WorkerFields DEF IInv
  <2>2. \A a \in answers : a.status \in {"success", "fault", "tainting"}
    BY DEF IInv, Types, AnswerRec
  <2>3. /\ call.pc \in Phases
        /\ \A i \in DOMAIN call.attempts : call.attempts[i] \in AttemptRec
    BY CallFields, MapFacts DEF IInv, Types
  <2>4. \A i \in DOMAIN call.attempts :
          call.attempts[i].state \in {"Running", "Retrying", "FinalSuccess", "FinalFault"}
    BY <2>3 DEF AttemptRec
  <2> QED
    BY <2>1, <2>2, <2>3, <2>4 DEF IInv, IdInv, OneLease, TypeOK, Phases
<1> QED
  BY <1>1, Invariance, PTL

(* Whatever was answered late, lost with a respawn or retried, every       *)
(* WorkItem of a finished call has the result of its own execution and a   *)
(* final state that agrees with it (search_coordinator.py                  *)
(* _dispatch_work_items_until_final).                                      *)
THEOREM OwnResults == Spec => []ItemsEndWithTheirOwnResult
<1>1. IInv => ItemsEndWithTheirOwnResult
  <2> SUFFICES ASSUME IInv, call.pc = "done", NEW i \in ToSet(call.items)
               PROVE  /\ i \in DOMAIN call.final /\ call.final[i].item = i
                      /\ call.attempts[i].state =
                           (IF call.final[i].status = "success" THEN "FinalSuccess" ELSE "FinalFault")
    BY DEF ItemsEndWithTheirOwnResult
  <2>1. i \in DOMAIN call.attempts
    BY DEF ToSet, IInv, CallInv, RoundInv
  <2>2. DOMAIN call.retry = {} /\ \A k \in DOMAIN call.pending : ~Left(k)
    BY DEF IInv, CallInv, RoundInv, Left
  <2>3. Decided(i)
    BY <2>1, <2>2 DEF IInv, CallInv, StateInv
  <2> QED
    BY <2>3 DEF Decided, IInv, CallInv, RoundInv
<1> QED
  BY <1>1, Invariance, PTL

(* No item is dispatched in more than max_retries + 1 rounds, and the loop *)
(* raises only where two items share a work_id (search_coordinator.py      *)
(* _dispatch_work_items_until_final, fault_taxonomy.py decide_retry).      *)
THEOREM BoundedRetries == Spec => []RetriesAreBounded
<1>1. IInv => RetriesAreBounded
  BY DEF IInv, CallInv, CountInv, DistinctInv, RetriesAreBounded
<1> QED
  BY <1>1, Invariance, PTL

(* A Holder Step in a worker's queue is with the process that issued its   *)
(* lease, and where the worker admits it the engine stands at the item's   *)
(* context (branch_worker_pool.py _WorkerRuntime.execute, respawn_worker). *)
THEOREM HolderOnItsContext == Spec => []HolderStepsOnItsContext
<1>1. IInv => HolderStepsOnItsContext
  <2> SUFFICES ASSUME IInv, NEW w \in Workers, pool[w].inbox # <<>>,
                      Head(pool[w].inbox).mode = "holder_step"
               PROVE  LET r == Head(pool[w].inbox) IN
                      /\ r.lease.worker = w /\ r.lease.generation = pool[w].generation
                      /\ HolderAdmits(w, r) => pool[w].at = r.item.ctx
    BY DEF HolderStepsOnItsContext
  <2> DEFINE r == Head(pool[w].inbox)
  <2>1. pool[w].inbox \in Seq(RequestRec)
    BY WorkerFields DEF IInv
  <2>2. r \in RequestRec /\ 1 \in DOMAIN pool[w].inbox /\ r = pool[w].inbox[1]
    BY <2>1, HeadFacts
  <2>3. r.lease.worker = w /\ r.lease.generation = pool[w].generation
    BY <2>2 DEF IInv, HolderInv
  <2> HIDE DEF r
  <2>4. r.item.ctx # None
    BY <2>2, NotNone DEF RequestRec, ItemRec
  <2>5. HolderAdmits(w, r) => pool[w].at = r.item.ctx
    BY <2>4 DEF HolderAdmits, IInv, HolderInv
  <2> QED
    BY <2>3, <2>5 DEF r
<1> QED
  BY <1>1, Invariance, PTL

-----------------------------------------------------------------------------
(***************************************************************************)
(* AlcPool.  No lock spans a request's way from _submit to its caller, so  *)
(* what keeps the answers apart is that a request id is in one place at a  *)
(* time: with its submitter, in one input queue, on one thread, in the     *)
(* result queue, in one caller's hand, or in _ready_results.  That every   *)
(* thread is told to stop rests on the handles: a thread that is no        *)
(* worker's handle was told when it was abandoned, as long as a worker has *)
(* one caller.                                                             *)
(***************************************************************************)

ThreadRec == [worker : 1..NumThreads, in_queue : Seq(Nat), busy : Nat, alive : BOOLEAN]
Statuses == {"none", "success", "tainting", "task_timeout"}
ResultRec == [id : Nat, status : Statuses, worker : 0..NumThreads]
CallerRec ==
    [pc : {"idle", "put", "check", "get", "got", "late", "respawn", "spawn"},
     worker : 0..NumThreads, id : Nat, got : ResultRec, answer : ResultRec]

(* The pool's attributes keep their types, and no id is ahead of the       *)
(* counter it was drawn from.                                              *)
AlcTypeOK ==
    /\ threads \in Seq(ThreadRec)
    /\ handles \in [1..NumThreads -> DOMAIN threads]
    /\ respawned \in [1..NumThreads -> Nat]
    /\ results \in Seq(ResultRec)
    /\ requests \in [next : Nat, active : SUBSET Nat, ready : SUBSET ResultRec]
    /\ caller \in [Callers -> CallerRec]
    /\ closed \in BOOLEAN /\ shared \in BOOLEAN

-----------------------------------------------------------------------------
(* The places of a request id.                                             *)
Submitting(k) == \E c \in Callers : At(c, "put") /\ caller[c].id = k
Queued(k) ==
    \E i \in DOMAIN threads : \E j \in DOMAIN threads[i].in_queue : threads[i].in_queue[j] = k
Executing(k) == \E i \in DOMAIN threads : threads[i].busy = k
Posted(k) == \E j \in DOMAIN results : results[j].id = k
Held(k) == \E c \in Callers : At(c, "got") /\ caller[c].got.id = k
Parked(k) == \E r \in requests.ready : r.id = k

Id == Nat \ {NoRequest}

OnePlace ==
    \A k \in Id :
      /\ Submitting(k) => ~Queued(k) /\ ~Executing(k) /\ ~Posted(k) /\ ~Held(k) /\ ~Parked(k)
      /\ Queued(k) => ~Executing(k) /\ ~Posted(k) /\ ~Held(k) /\ ~Parked(k)
      /\ Executing(k) => ~Posted(k) /\ ~Held(k) /\ ~Parked(k)
      /\ Posted(k) => ~Held(k) /\ ~Parked(k)
      /\ Held(k) => ~Parked(k)

OneSubmitter ==
    \A c, d \in Callers : At(c, "put") /\ At(d, "put") /\ caller[c].id = caller[d].id => c = d
OneQueue ==
    \A i, j \in DOMAIN threads :
      \A m \in DOMAIN threads[i].in_queue, n \in DOMAIN threads[j].in_queue :
        threads[i].in_queue[m] = threads[j].in_queue[n] /\ threads[i].in_queue[m] # Told
        => i = j /\ m = n
OneThread ==
    \A i, j \in DOMAIN threads :
      threads[i].busy = threads[j].busy /\ threads[i].busy # NoRequest => i = j
OnePosted == \A m, n \in DOMAIN results : results[m].id = results[n].id => m = n
OneHolder ==
    \A c, d \in Callers :
      At(c, "got") /\ At(d, "got") /\ caller[c].got.id = caller[d].got.id => c = d
OneParked == \A r, q \in requests.ready : r.id = q.id => r = q

(* Every id on its way was drawn from the counter, and is an answer's only *)
(* after a thread executed it.                                             *)
DrawnInv ==
    /\ \A c \in Callers : caller[c].id <= requests.next
    /\ \A c \in Callers : At(c, "put") => caller[c].id # NoRequest
    /\ \A c \in Callers : At(c, "got") => caller[c].got.id \in 1..requests.next
    /\ \A i \in DOMAIN threads :
         /\ threads[i].busy <= requests.next
         /\ \A j \in DOMAIN threads[i].in_queue : threads[i].in_queue[j] <= requests.next
    /\ \A j \in DOMAIN results : results[j].id \in 1..requests.next
    /\ \A r \in requests.ready : r.id \in 1..requests.next
    /\ \A k \in requests.active : k \in 1..requests.next

(* A caller's answer is its own, and with it the caller has stopped        *)
(* waiting for the id.                                                     *)
AnswerInv ==
    \A c \in Callers :
      /\ caller[c].answer # NoResult => caller[c].answer.id = caller[c].id
      /\ caller[c].answer.status \notin {"none", "task_timeout"} =>
           caller[c].id \notin requests.active
      /\ \A r \in requests.ready :
           r.id = caller[c].id => caller[c].answer.status \in {"none", "task_timeout"}

-----------------------------------------------------------------------------
(* Threads and the workers they belong to.                                 *)
Busy(c) == ~At(c, "idle")
IsTold(i) == \E k \in DOMAIN threads[i].in_queue : threads[i].in_queue[k] = Told

(* What was asked of a worker runs under, and is answered by, its id.      *)
WorkerInv ==
    /\ \A w \in 1..NumThreads : threads[handles[w]].worker = w
    /\ \A c, d \in Callers : Busy(c) /\ Busy(d) /\ caller[c].id = caller[d].id => c = d
    /\ \A c \in Callers : Busy(c) =>
         /\ caller[c].worker \in 1..NumThreads
         /\ caller[c].id # NoRequest
         /\ \A i \in DOMAIN threads :
              /\ threads[i].busy = caller[c].id => threads[i].worker = caller[c].worker
              /\ \A j \in DOMAIN threads[i].in_queue :
                   threads[i].in_queue[j] = caller[c].id => threads[i].worker = caller[c].worker
         /\ \A j \in DOMAIN results :
              results[j].id = caller[c].id => results[j].worker = caller[c].worker
         /\ \A d \in Callers :
              At(d, "got") /\ caller[d].got.id = caller[c].id =>
                caller[d].got.worker = caller[c].worker
         /\ \A r \in requests.ready :
              r.id = caller[c].id => r.worker = caller[c].worker
StoppedInv ==
    /\ closed => \A c \in Callers : At(c, "idle")
    /\ ~shared =>
         /\ \A c, d \in Callers :
              Busy(c) /\ Busy(d) /\ caller[c].worker = caller[d].worker => c = d
         /\ \A i \in DOMAIN threads :
              threads[i].alive /\ (closed \/ \A w \in 1..NumThreads : handles[w] # i) => IsTold(i)
         /\ \A c \in Callers :
              At(c, "spawn") /\ threads[handles[caller[c].worker]].alive =>
                IsTold(handles[caller[c].worker])

FlowInv ==
    /\ OnePlace /\ OneSubmitter /\ OneQueue /\ OneThread
    /\ OnePosted /\ OneHolder /\ OneParked

AlcIInv == AlcTypeOK /\ DrawnInv /\ FlowInv /\ AnswerInv /\ WorkerInv /\ StoppedInv

-----------------------------------------------------------------------------
(* Threads and queues are sequences of records.                            *)
LEMMA ThreadFacts ==
    ASSUME AlcTypeOK
    PROVE  \A i \in DOMAIN threads :
             /\ threads[i] \in ThreadRec
             /\ threads[i].in_queue \in Seq(Nat)
             /\ DOMAIN threads[i].in_queue = 1..Len(threads[i].in_queue)
             /\ \A j \in DOMAIN threads[i].in_queue : threads[i].in_queue[j] \in Nat
             /\ threads[i].busy \in Nat /\ threads[i].alive \in BOOLEAN
             /\ threads[i].worker \in 1..NumThreads
  <1>1. \A i \in DOMAIN threads : threads[i] \in ThreadRec
    BY DEF AlcTypeOK
  <1> QED  BY <1>1 DEF ThreadRec

(* Replacing one thread's record.                                          *)
LEMMA UpdateThread ==
    ASSUME AlcTypeOK, NEW i \in DOMAIN threads, NEW x \in ThreadRec,
           threads' = [threads EXCEPT ![i] = x]
    PROVE  /\ threads' \in Seq(ThreadRec) /\ DOMAIN threads' = DOMAIN threads
           /\ threads'[i] = x
           /\ \A j \in DOMAIN threads : j # i => threads'[j] = threads[j]
  BY DEF AlcTypeOK

(* Putting a message on a queue appends it, and changes nothing else.      *)
LEMMA PutFacts ==
    ASSUME AlcTypeOK, NEW i \in DOMAIN threads, NEW m \in Nat, threads' = Put(i, m)
    PROVE  /\ threads' \in Seq(ThreadRec) /\ DOMAIN threads' = DOMAIN threads
           /\ \A j \in DOMAIN threads :
                /\ threads'[j].worker = threads[j].worker
                /\ threads'[j].busy = threads[j].busy
                /\ threads'[j].alive = threads[j].alive
                /\ \A p \in DOMAIN threads[j].in_queue :
                     /\ p \in DOMAIN threads'[j].in_queue
                     /\ threads'[j].in_queue[p] = threads[j].in_queue[p]
           /\ \E n \in Nat :
                /\ n \in DOMAIN threads'[i].in_queue /\ threads'[i].in_queue[n] = m
                /\ \A j \in DOMAIN threads :
                     \A p \in DOMAIN threads'[j].in_queue :
                       \/ p \in DOMAIN threads[j].in_queue
                          /\ threads'[j].in_queue[p] = threads[j].in_queue[p]
                       \/ j = i /\ p = n
  <1> DEFINE u == threads[i].in_queue
             q == Append(u, m)
             n == Len(u) + 1
             x == [threads[i] EXCEPT !.in_queue = q]
  <1>1. /\ u \in Seq(Nat) /\ Len(u) \in Nat /\ DOMAIN u = 1..Len(u)
        /\ q \in Seq(Nat) /\ Len(q) = n /\ DOMAIN q = 1..Len(q)
        /\ q[n] = m
        /\ \A p \in DOMAIN u : q[p] = u[p]
    BY ThreadFacts
  <1>2. threads' = [threads EXCEPT ![i] = x]
    BY DEF Put
  <1> HIDE DEF q, u
  <1>3. /\ n \in Nat /\ n \in DOMAIN q
        /\ \A p \in DOMAIN u : p \in DOMAIN q
        /\ \A p \in DOMAIN q : p \in DOMAIN u \/ p = n
    BY <1>1
  <1>4. x \in ThreadRec /\ x.in_queue = q /\ x.worker = threads[i].worker
        /\ x.busy = threads[i].busy /\ x.alive = threads[i].alive
    BY ThreadFacts, <1>1 DEF ThreadRec
  <1> HIDE DEF x, n
  <1>5. /\ threads' \in Seq(ThreadRec) /\ DOMAIN threads' = DOMAIN threads
        /\ threads'[i] = x
        /\ \A j \in DOMAIN threads : j # i => threads'[j] = threads[j]
    BY <1>2, <1>4, UpdateThread
  <1>6. ASSUME NEW j \in DOMAIN threads, NEW p \in DOMAIN threads'[j].in_queue
        PROVE  \/ p \in DOMAIN threads[j].in_queue
                  /\ threads'[j].in_queue[p] = threads[j].in_queue[p]
               \/ j = i /\ p = n
    <2>1. CASE j # i
      BY <1>5, <2>1
    <2>2. CASE j = i
      <3>1. threads'[j].in_queue = q /\ threads[j].in_queue = u
        BY <1>4, <1>5, <2>2 DEF u
      <3> QED  BY <1>1, <1>3, <2>2, <3>1
    <2> QED  BY <2>1, <2>2
  <1>7. n \in DOMAIN threads'[i].in_queue /\ threads'[i].in_queue[n] = m
    BY <1>1, <1>3, <1>4, <1>5
  <1>8. ASSUME NEW j \in DOMAIN threads
        PROVE  /\ threads'[j].worker = threads[j].worker
               /\ threads'[j].busy = threads[j].busy
               /\ threads'[j].alive = threads[j].alive
               /\ \A p \in DOMAIN threads[j].in_queue :
                    /\ p \in DOMAIN threads'[j].in_queue
                    /\ threads'[j].in_queue[p] = threads[j].in_queue[p]
    <2>1. CASE j # i
      BY <1>5, <2>1
    <2>2. CASE j = i
      <3>1. threads'[j].in_queue = q /\ threads[j].in_queue = u
        BY <1>4, <1>5, <2>2 DEF u
      <3> QED  BY <1>1, <1>3, <1>4, <1>5, <2>2, <3>1
    <2> QED  BY <2>1, <2>2
  <1> QED  BY <1>3, <1>5, <1>6, <1>7, <1>8

(* Taking a message off a queue.                                           *)
LEMMA TakeFacts ==
    ASSUME AlcTypeOK, NEW i \in DOMAIN threads, ThreadTakes(i)
    PROVE  LET q == threads[i].in_queue IN
           /\ q # <<>> /\ q[1] \in Nat /\ threads[i].alive /\ threads[i].busy = NoRequest
           /\ threads' \in Seq(ThreadRec) /\ DOMAIN threads' = DOMAIN threads
           /\ \A j \in DOMAIN threads :
                /\ threads'[j].worker = threads[j].worker
                /\ j # i => threads'[j] = threads[j]
           /\ threads'[i].busy = q[1]
           /\ threads'[i].alive <=> q[1] # Told
           /\ DOMAIN threads'[i].in_queue = 1..(Len(q) - 1)
           /\ 1 \in DOMAIN q
           /\ \A n \in DOMAIN threads'[i].in_queue :
                n + 1 \in DOMAIN q /\ threads'[i].in_queue[n] = q[n + 1]
           /\ \A n \in DOMAIN q : n # 1 =>
                n - 1 \in DOMAIN threads'[i].in_queue /\ threads'[i].in_queue[n - 1] = q[n]
  <1> DEFINE q == threads[i].in_queue
             t == Tail(q)
             b == q[1] # Told
             x == [threads[i] EXCEPT !.in_queue = t, !.busy = q[1], !.alive = b]
  <1>1. /\ q # <<>> /\ q \in Seq(Nat) /\ threads[i].alive /\ threads[i].busy = NoRequest
        /\ threads' = [threads EXCEPT ![i].in_queue = Tail(@), ![i].busy = Head(q),
                                      ![i].alive = Head(q) # Told]
    BY ThreadFacts DEF ThreadTakes
  <1>2. /\ Head(q) = q[1] /\ q[1] \in Nat /\ t \in Seq(Nat) /\ Len(t) = Len(q) - 1
        /\ 1 \in DOMAIN q /\ DOMAIN q = 1..Len(q) /\ DOMAIN t = 1..(Len(q) - 1)
        /\ \A n \in DOMAIN t : t[n] = q[n + 1]
    BY <1>1
  <1>3. threads' = [threads EXCEPT ![i] = x]
    BY <1>1, <1>2, ThreadFacts DEF ThreadRec
  <1>4. b \in BOOLEAN /\ (b <=> q[1] # Told)
    OBVIOUS
  <1> HIDE DEF b, t
  <1>5. /\ x \in ThreadRec /\ x.worker = threads[i].worker /\ x.busy = q[1] /\ x.alive = b
        /\ x.in_queue = t
    BY <1>2, <1>4, ThreadFacts DEF ThreadRec
  <1>6. Len(q) \in Nat
    BY <1>1
  <1>7. /\ \A n \in DOMAIN t : n + 1 \in DOMAIN q
        /\ \A n \in DOMAIN q : n # 1 => n - 1 \in DOMAIN t /\ t[n - 1] = q[n]
    <2> HIDE DEF q
    <2>1. \A n \in DOMAIN t : n + 1 \in DOMAIN q
      BY <1>2, <1>6
    <2>2. ASSUME NEW n \in DOMAIN q, n # 1
          PROVE  n - 1 \in DOMAIN t /\ t[n - 1] = q[n]
      <3>1. n \in 1..Len(q) /\ n - 1 \in 1..(Len(q) - 1) /\ (n - 1) + 1 = n
        BY <1>2, <1>6, <2>2
      <3>2. n - 1 \in DOMAIN t
        BY <1>2, <3>1
      <3>3. t[n - 1] = q[(n - 1) + 1]
        BY <1>2, <3>2
      <3> QED  BY <3>1, <3>2, <3>3
    <2> QED  BY <2>1, <2>2
  <1> HIDE DEF x, q
  <1>8. /\ threads' \in Seq(ThreadRec) /\ DOMAIN threads' = DOMAIN threads
        /\ threads'[i] = x
        /\ \A j \in DOMAIN threads : j # i => threads'[j] = threads[j]
    BY <1>3, <1>5, UpdateThread
  <1> QED  BY <1>1, <1>2, <1>4, <1>5, <1>7, <1>8 DEF q

(* A thread that answers goes back to its queue.                           *)
LEMMA AlcAnswerFacts ==
    ASSUME AlcTypeOK, NEW i \in DOMAIN threads, threads[i].busy # NoRequest,
           threads' = [threads EXCEPT ![i].busy = NoRequest]
    PROVE  /\ threads' \in Seq(ThreadRec) /\ DOMAIN threads' = DOMAIN threads
           /\ \A j \in DOMAIN threads :
                /\ threads'[j].worker = threads[j].worker
                /\ threads'[j].in_queue = threads[j].in_queue
                /\ threads'[j].alive = threads[j].alive
                /\ j # i => threads'[j] = threads[j]
           /\ threads'[i].busy = NoRequest
  <1> DEFINE x == [threads[i] EXCEPT !.busy = NoRequest]
  <1>1. threads' = [threads EXCEPT ![i] = x]
    OBVIOUS
  <1>2. /\ x \in ThreadRec /\ x.worker = threads[i].worker /\ x.in_queue = threads[i].in_queue
        /\ x.alive = threads[i].alive /\ x.busy = NoRequest
    BY ThreadFacts DEF ThreadRec, NoRequest
  <1> HIDE DEF x
  <1> QED  BY <1>1, <1>2, UpdateThread

(* A record of a caller, and what replacing it leaves alone.               *)
LEMMA CallerFacts ==
    ASSUME AlcTypeOK
    PROVE  \A c \in Callers :
             /\ caller[c] \in CallerRec
             /\ caller[c].worker \in 0..NumThreads /\ caller[c].id \in Nat
             /\ caller[c].got \in ResultRec /\ caller[c].answer \in ResultRec
  <1>1. \A c \in Callers : caller[c] \in CallerRec
    BY DEF AlcTypeOK
  <1> QED  BY <1>1 DEF CallerRec

LEMMA IdleFacts ==
    /\ NoResult \in ResultRec
    /\ IdleCaller \in CallerRec /\ IdleCaller.pc = "idle" /\ IdleCaller.id = NoRequest
    /\ IdleCaller.answer = NoResult
  <1>1. NoResult \in ResultRec
    BY AlcAssumption DEF ResultRec, Statuses, NoResult, NoRequest
  <1> QED  BY <1>1, AlcAssumption DEF IdleCaller, CallerRec, NoRequest

LEMMA UpdateCaller ==
    ASSUME AlcTypeOK, NEW c \in Callers, NEW x \in CallerRec,
           caller' = [caller EXCEPT ![c] = x]
    PROVE  /\ caller' \in [Callers -> CallerRec]
           /\ caller'[c] = x
           /\ \A d \in Callers : d # c => caller'[d] = caller[d]
  BY DEF AlcTypeOK

-----------------------------------------------------------------------------
LEMMA AlcInitIInv == AlcInit => AlcIInv
  <1> SUFFICES ASSUME AlcInit PROVE AlcIInv
    OBVIOUS
  <1> USE AlcAssumption
  <1>1. /\ DOMAIN threads = 1..NumThreads /\ DOMAIN handles = 1..NumThreads
        /\ \A i \in 1..NumThreads :
             /\ handles[i] = i /\ threads[i] = SpawnWorker(i) /\ threads[i].worker = i
             /\ threads[i].in_queue = <<>> /\ threads[i].busy = NoRequest
             /\ threads[i].alive = TRUE
        /\ \A i \in 1..NumThreads : DOMAIN threads[i].in_queue = {}
    BY DEF AlcInit, SpawnWorker
  <1>2. NoResult \in ResultRec
    BY DEF ResultRec, Statuses, NoResult, NoRequest
  <1>3. \A c \in Callers : /\ caller[c] \in CallerRec /\ caller[c].pc = "idle"
                           /\ caller[c].id = NoRequest /\ caller[c].answer = NoResult
    BY <1>2 DEF AlcInit, IdleCaller, CallerRec, NoRequest
  <1>4. \A c \in Callers : At(c, "idle") /\ ~At(c, "put") /\ ~At(c, "got") /\ ~At(c, "spawn")
    BY <1>3 DEF At
  <1>5. results = <<>> /\ requests.next = 0 /\ requests.active = {} /\ requests.ready = {}
        /\ DOMAIN results = {} /\ closed = FALSE /\ shared = FALSE
    BY DEF AlcInit
  <1>6. AlcTypeOK
    <2>1. \A i \in 1..NumThreads : SpawnWorker(i) \in ThreadRec
      BY DEF SpawnWorker, ThreadRec, NoRequest
    <2>2. threads \in Seq(ThreadRec)
      BY <1>1, <2>1 DEF AlcInit
    <2>3. caller \in [Callers -> CallerRec]
      BY <1>3 DEF AlcInit
    <2>4. requests \in [next : Nat, active : SUBSET Nat, ready : SUBSET ResultRec]
      BY DEF AlcInit
    <2>5. results \in Seq(ResultRec)
      BY <1>5
    <2>6. handles \in [1..NumThreads -> DOMAIN threads] /\ respawned \in [1..NumThreads -> Nat]
      BY <1>1 DEF AlcInit
    <2> QED  BY <1>5, <2>2, <2>3, <2>4, <2>5, <2>6 DEF AlcTypeOK
  <1>7. DrawnInv
    BY <1>1, <1>3, <1>4, <1>5 DEF DrawnInv, NoRequest
  <1>8. FlowInv
    BY <1>1, <1>4, <1>5 DEF FlowInv, OnePlace, OneSubmitter, OneQueue, OneThread, OnePosted,
       OneHolder, OneParked, Submitting, Queued, Executing, Posted, Held, Parked, Id
  <1>9. AnswerInv
    BY <1>3, <1>5 DEF AnswerInv, NoResult
  <1>10. WorkerInv /\ StoppedInv
    BY <1>1, <1>4, <1>5 DEF WorkerInv, StoppedInv, Busy
  <1> QED  BY <1>6, <1>7, <1>8, <1>9, <1>10 DEF AlcIInv

(* SubmitId: the new id is nowhere yet.                                    *)
LEMMA SubmitIdIInv ==
    ASSUME AlcIInv, NEW c \in Callers, NEW w \in DOMAIN handles, SubmitId(c, w)
    PROVE  AlcIInv'
  <1> DEFINE x == requests.next + 1
             y == [IdleCaller EXCEPT !.pc = "put", !.worker = w, !.id = x]
  <1>1. /\ AlcTypeOK /\ At(c, "idle") /\ ~closed /\ w \in 1..NumThreads
        /\ UNCHANGED <<threads, handles, respawned, results, closed>>
        /\ caller' = [caller EXCEPT ![c] = y]
        /\ requests' = [requests EXCEPT !.next = @ + 1, !.active = @ \cup {requests.next + 1}]
        /\ shared' = (shared \/ Waiting(w) # {})
    BY DEF SubmitId, AlcIInv, AlcTypeOK
  <1>2. x \in Id /\ x \in Nat /\ requests.next \in Nat
    BY <1>1 DEF AlcTypeOK, Id, NoRequest
  <1>3. /\ requests' \in [next : Nat, active : SUBSET Nat, ready : SUBSET ResultRec]
        /\ requests'.next = x /\ requests'.active = requests.active \cup {x}
        /\ requests'.ready = requests.ready
    BY <1>1, <1>2 DEF AlcTypeOK
  <1>5. /\ y \in CallerRec /\ y.pc = "put" /\ y.worker = w /\ y.id = x
        /\ y.answer = NoResult
    <2> HIDE DEF x
    <2>1. w \in 0..NumThreads
      BY <1>1, AlcAssumption
    <2> QED  BY <1>2, <2>1, IdleFacts DEF CallerRec
  <1> HIDE DEF y
  <1>6. /\ caller' \in [Callers -> CallerRec] /\ caller'[c] = y
        /\ \A d \in Callers : d # c => caller'[d] = caller[d]
    BY <1>1, <1>5, UpdateCaller
  <1> HIDE DEF x
  <1>7. AlcTypeOK'
    BY <1>1, <1>3, <1>6 DEF AlcTypeOK
  <1>8. x > requests.next /\ x # NoRequest
    BY <1>2 DEF x, NoRequest
  <1>9. DrawnInv'
    BY <1>1, <1>2, <1>3, <1>5, <1>6, <1>8, CallerFacts, ThreadFacts
    DEF DrawnInv, AlcIInv, At, x
  <1>10. /\ \A d \in Callers : caller[d].id # x /\ (At(d, "got") => caller[d].got.id # x)
         /\ ~Queued(x) /\ ~Executing(x) /\ ~Posted(x) /\ ~Held(x) /\ ~Parked(x)
         /\ x \notin requests.active
         /\ \A r \in requests.ready : r.id # x
    BY <1>1, <1>2, <1>8, CallerFacts, ThreadFacts
    DEF DrawnInv, AlcIInv, Queued, Executing, Posted, Held, Parked
  <1>11. /\ \A k \in Id : Submitting(k)' => Submitting(k) \/ k = x
         /\ \A k \in Id : /\ Queued(k)' <=> Queued(k)
                          /\ Executing(k)' <=> Executing(k)
                          /\ Posted(k)' <=> Posted(k)
                          /\ Held(k)' => Held(k)
                          /\ Parked(k)' <=> Parked(k)
    BY <1>1, <1>3, <1>5, <1>6
    DEF Submitting, Queued, Executing, Posted, Held, Parked, At
  <1>12. OnePlace'
    BY <1>10, <1>11 DEF AlcIInv, FlowInv, OnePlace
  <1>13. FlowInv'
    BY <1>1, <1>3, <1>5, <1>6, <1>10, <1>12
    DEF AlcIInv, FlowInv, OneSubmitter, OneQueue, OneThread, OnePosted, OneHolder, OneParked, At
  <1>14. AnswerInv'
    BY <1>3, <1>5, <1>6, <1>10 DEF AlcIInv, AnswerInv, NoResult
  <1>15. WorkerInv'
    BY <1>1, <1>3, <1>5, <1>6, <1>8, <1>10
    DEF AlcIInv, WorkerInv, Busy, At, Queued, Executing, Posted
  <1>16. StoppedInv'
    <2>1. closed' = FALSE /\ UNCHANGED IsTold(c)
      BY <1>1 DEF IsTold
    <2>2. ~shared' => ~shared /\ \A d \in Callers : Busy(d) => caller[d].worker # w
      BY <1>1 DEF Waiting, Busy
    <2>3. \A i \in DOMAIN threads : IsTold(i)' <=> IsTold(i)
      BY <1>1 DEF IsTold
    <2>4. \A d \in Callers : d # c => (Busy(d)' <=> Busy(d)) /\ (At(d, "spawn")' <=> At(d, "spawn"))
      BY <1>6 DEF Busy, At
    <2>5. ~At(c, "spawn")'
      BY <1>5, <1>6 DEF At
    <2>6. \A d \in Callers : At(d, "spawn") => handles[caller[d].worker] \in DOMAIN threads
      BY <1>1, CallerFacts DEF AlcIInv, WorkerInv, AlcTypeOK, Busy, At
    <2>7. ASSUME ~shared'
          PROVE  \A a, d \in Callers :
                   Busy(a)' /\ Busy(d)' /\ caller'[a].worker = caller'[d].worker => a = d
      BY <1>5, <1>6, <2>2, <2>4, <2>7 DEF AlcIInv, StoppedInv
    <2>8. ASSUME ~shared'
          PROVE  \A d \in Callers :
              At(d, "spawn")' /\ threads'[handles'[caller'[d].worker]].alive =>
                IsTold(handles[caller[d].worker])
      BY <1>1, <1>6, <2>2, <2>4, <2>5, <2>8 DEF AlcIInv, StoppedInv
    <2>9. ASSUME ~shared', NEW d \in Callers, At(d, "spawn")',
                 threads'[handles'[caller'[d].worker]].alive
          PROVE  IsTold(handles[caller[d].worker])'
      BY <1>1, <1>6, <2>3, <2>4, <2>5, <2>6, <2>8, <2>9 DEF IsTold
    <2> QED  BY <1>1, <2>1, <2>2, <2>3, <2>7, <2>9 DEF AlcIInv, StoppedInv
  <1> QED  BY <1>7, <1>9, <1>13, <1>14, <1>15, <1>16 DEF AlcIInv

(* A caller goes on to its next step.                                      *)
LEMMA PcFacts ==
    ASSUME AlcTypeOK, NEW c \in Callers,
           NEW p \in {"idle", "put", "check", "get", "got", "late", "respawn", "spawn"},
           caller' = [caller EXCEPT ![c].pc = p]
    PROVE  /\ caller' \in [Callers -> CallerRec]
           /\ caller'[c].pc = p /\ caller'[c].worker = caller[c].worker
           /\ caller'[c].id = caller[c].id /\ caller'[c].got = caller[c].got
           /\ caller'[c].answer = caller[c].answer
           /\ \A d \in Callers : d # c => caller'[d] = caller[d]
  <1> DEFINE x == [caller[c] EXCEPT !.pc = p]
  <1>1. caller' = [caller EXCEPT ![c] = x]
    OBVIOUS
  <1>2. /\ x \in CallerRec /\ x.pc = p /\ x.worker = caller[c].worker /\ x.id = caller[c].id
        /\ x.got = caller[c].got /\ x.answer = caller[c].answer
    BY CallerFacts DEF CallerRec
  <1> HIDE DEF x
  <1> QED  BY <1>1, <1>2, UpdateCaller

(* What a step must leave alone for the told threads to stay told.         *)
LEMMA StoppedKept ==
    ASSUME AlcIInv, closed' = closed, shared' = shared, handles' = handles,
           DOMAIN threads' = DOMAIN threads,
           \A i \in DOMAIN threads : threads'[i].alive => threads[i].alive,
           \A i \in DOMAIN threads : threads'[i].alive /\ IsTold(i) => IsTold(i)',
           \A d \in Callers :
             ~At(d, "idle")' => ~At(d, "idle") /\ caller'[d].worker = caller[d].worker,
           \A d \in Callers :
             At(d, "spawn")' =>
               At(d, "spawn") \/ \E h \in DOMAIN threads :
                                   h = handles[caller[d].worker] /\ IsTold(h)'
    PROVE  StoppedInv'
  <1>1. closed' => \A c \in Callers : At(c, "idle")'
    BY DEF AlcIInv, StoppedInv
  <1>2. ASSUME ~shared'
        PROVE  \A c, d \in Callers :
                 Busy(c)' /\ Busy(d)' /\ caller'[c].worker = caller'[d].worker => c = d
    BY <1>2 DEF AlcIInv, StoppedInv, Busy
  <1>3. ASSUME ~shared', NEW i \in DOMAIN threads, threads'[i].alive,
               closed \/ \A w \in 1..NumThreads : handles[w] # i
        PROVE  IsTold(i)'
    BY <1>3 DEF AlcIInv, StoppedInv
  <1>4. ASSUME ~shared', NEW c \in Callers, At(c, "spawn")',
               threads'[handles'[caller'[c].worker]].alive
        PROVE  IsTold(handles[caller[c].worker])'
    <2>1. At(c, "spawn")' => ~At(c, "idle")'
      BY DEF At
    <2>2. caller'[c].worker = caller[c].worker /\ caller[c].worker \in 1..NumThreads
      BY <1>4, <2>1 DEF AlcIInv, WorkerInv, Busy
    <2>3. PICK h \in DOMAIN threads : h = handles[caller[c].worker]
      BY <2>2 DEF AlcIInv, AlcTypeOK
    <2>4. h = handles'[caller'[c].worker]
      BY <2>2, <2>3
    <2>5. threads'[h].alive
      BY <1>4, <2>4
    <2>6. At(c, "spawn") => IsTold(h)'
      BY <1>4, <2>3, <2>5 DEF AlcIInv, StoppedInv
    <2>7. IsTold(h)'
      BY <1>4, <2>3, <2>6
    <2> QED  BY <2>4, <2>7 DEF IsTold
  <1> QED  BY <1>1, <1>2, <1>3, <1>4 DEF StoppedInv

(* SubmitPut: the id goes from the submitter's hand to its worker's queue. *)
LEMMA SubmitPutIInv ==
    ASSUME AlcIInv, NEW c \in Callers, SubmitPut(c)
    PROVE  AlcIInv'
  <1> DEFINE h == handles[caller[c].worker]
             x == caller[c].id
  <1>1. /\ AlcTypeOK /\ At(c, "put") /\ Busy(c)
        /\ UNCHANGED <<handles, respawned, results, requests, closed, shared>>
        /\ caller' = [caller EXCEPT ![c].pc = "check"]
        /\ threads' = Put(h, x)
    BY DEF SubmitPut, AlcIInv, At, Busy
  <1>2. h \in DOMAIN threads /\ threads[h].worker = caller[c].worker /\ x \in Id /\ x \in Nat
    BY <1>1, CallerFacts DEF AlcIInv, WorkerInv, AlcTypeOK, DrawnInv, Id
  <1>3. /\ caller' \in [Callers -> CallerRec]
        /\ caller'[c].pc = "check" /\ caller'[c].worker = caller[c].worker
        /\ caller'[c].id = x /\ caller'[c].got = caller[c].got
        /\ caller'[c].answer = caller[c].answer
        /\ \A d \in Callers : d # c => caller'[d] = caller[d]
    BY <1>1, PcFacts
  <1>4. /\ threads' \in Seq(ThreadRec) /\ DOMAIN threads' = DOMAIN threads
        /\ \A j \in DOMAIN threads :
             /\ threads'[j].worker = threads[j].worker
             /\ threads'[j].busy = threads[j].busy
             /\ threads'[j].alive = threads[j].alive
             /\ \A p \in DOMAIN threads[j].in_queue :
                  /\ p \in DOMAIN threads'[j].in_queue
                  /\ threads'[j].in_queue[p] = threads[j].in_queue[p]
    BY <1>1, <1>2, PutFacts
  <1> HIDE DEF h, x
  <1>5. PICK n \in Nat :
          /\ n \in DOMAIN threads'[h].in_queue /\ threads'[h].in_queue[n] = x
          /\ \A j \in DOMAIN threads :
               \A p \in DOMAIN threads'[j].in_queue :
                 \/ p \in DOMAIN threads[j].in_queue
                    /\ threads'[j].in_queue[p] = threads[j].in_queue[p]
                 \/ j = h /\ p = n
    BY <1>1, <1>2, PutFacts
  <1>6. \A j \in DOMAIN threads :
          \A p \in DOMAIN threads'[j].in_queue :
            \/ p \in DOMAIN threads[j].in_queue
               /\ threads'[j].in_queue[p] = threads[j].in_queue[p]
            \/ j = h /\ p = n /\ threads'[j].in_queue[p] = x
    BY <1>5
  <1>8. AlcTypeOK'
    BY <1>1, <1>3, <1>4 DEF AlcTypeOK
  <1>9. /\ \A d \in Callers : caller'[d].id = caller[d].id /\ caller'[d].got = caller[d].got
                              /\ caller'[d].answer = caller[d].answer
                              /\ caller'[d].worker = caller[d].worker
        /\ \A d \in Callers : At(d, "put")' => At(d, "put") /\ d # c
        /\ \A d \in Callers : (At(d, "got")' <=> At(d, "got")) /\ (Busy(d)' <=> Busy(d))
        /\ \A d \in Callers : At(d, "spawn")' <=> At(d, "spawn")
    BY <1>1, <1>3 DEF At, Busy, x
  <1>10. x <= requests.next
    BY <1>1 DEF AlcIInv, DrawnInv, x
  <1>11. DrawnInv'
    BY <1>1, <1>4, <1>6, <1>9, <1>10 DEF AlcIInv, DrawnInv
  <1>12. /\ \A k \in Id : Submitting(k)' => Submitting(k) /\ k # x
         /\ \A k \in Id : /\ Queued(k)' => Queued(k) \/ k = x
                          /\ Executing(k)' => Executing(k)
                          /\ Posted(k)' => Posted(k)
                          /\ Held(k)' => Held(k)
                          /\ Parked(k)' => Parked(k)
    <2>1. \A k \in Id : Submitting(k)' => Submitting(k) /\ k # x
      BY <1>1, <1>9 DEF AlcIInv, FlowInv, OneSubmitter, Submitting, x
    <2>2. \A k \in Id : Queued(k)' => Queued(k) \/ k = x
      BY <1>4, <1>6 DEF Queued
    <2>3. \A k \in Id : /\ Executing(k)' => Executing(k)
                        /\ Posted(k)' => Posted(k)
                        /\ Held(k)' => Held(k)
                        /\ Parked(k)' => Parked(k)
      BY <1>1, <1>4, <1>9 DEF Executing, Posted, Held, Parked
    <2> QED  BY <2>1, <2>2, <2>3
  <1>13. Submitting(x)
    BY <1>1 DEF Submitting, x
  <1>14. ~Queued(x) /\ OnePlace'
    BY <1>2, <1>12, <1>13 DEF AlcIInv, FlowInv, OnePlace
  <1>15. OneQueue'
    BY <1>2, <1>4, <1>6, <1>14 DEF AlcIInv, FlowInv, OneQueue, Queued
  <1>16. FlowInv'
    BY <1>1, <1>4, <1>9, <1>14, <1>15
    DEF AlcIInv, FlowInv, OneSubmitter, OneThread, OnePosted, OneHolder, OneParked
  <1>17. AnswerInv'
    BY <1>1, <1>9 DEF AlcIInv, AnswerInv
  <1>18. \A d \in Callers : caller[d].id = x /\ Busy(d) => caller[d].worker = caller[c].worker
    BY <1>1 DEF AlcIInv, WorkerInv, x
  <1>19. WorkerInv'
    <2>1. \A w \in 1..NumThreads : threads'[handles'[w]].worker = w
      BY <1>1, <1>4 DEF AlcIInv, WorkerInv, AlcTypeOK
    <2>2. \A a, d \in Callers :
            Busy(a)' /\ Busy(d)' /\ caller'[a].id = caller'[d].id => a = d
      BY <1>9 DEF AlcIInv, WorkerInv
    <2>3. ASSUME NEW d \in Callers, Busy(d)
          PROVE  /\ caller[d].worker \in 1..NumThreads /\ caller[d].id # NoRequest
                 /\ \A i \in DOMAIN threads :
                      /\ threads'[i].busy = caller[d].id => threads'[i].worker = caller[d].worker
                      /\ \A j \in DOMAIN threads'[i].in_queue :
                           threads'[i].in_queue[j] = caller[d].id =>
                             threads'[i].worker = caller[d].worker
      BY <1>2, <1>4, <1>6, <1>18, <2>3 DEF AlcIInv, WorkerInv
    <2>4. ASSUME NEW d \in Callers, Busy(d)
          PROVE  /\ \A j \in DOMAIN results :
                      results[j].id = caller[d].id => results[j].worker = caller[d].worker
                 /\ \A e \in Callers :
                      At(e, "got") /\ caller[e].got.id = caller[d].id =>
                        caller[e].got.worker = caller[d].worker
                 /\ \A r \in requests.ready :
                      r.id = caller[d].id => r.worker = caller[d].worker
      BY <2>4 DEF AlcIInv, WorkerInv
    <2> QED  BY <1>1, <1>4, <1>9, <2>1, <2>2, <2>3, <2>4 DEF WorkerInv
  <1>20. \A i \in DOMAIN threads : IsTold(i) => IsTold(i)'
    BY <1>4 DEF IsTold
  <1>21. StoppedInv'
    BY <1>1, <1>4, <1>9, <1>20, StoppedKept DEF Busy
  <1> QED  BY <1>8, <1>11, <1>16, <1>17, <1>19, <1>21 DEF AlcIInv

-----------------------------------------------------------------------------
(* Steps of a caller that leave the threads alone: the answers it moves    *)
(* are answers that were there.                                            *)
LEMMA CallerStep ==
    ASSUME AlcIInv, AlcTypeOK', DrawnInv', FlowInv', AnswerInv',
           UNCHANGED <<threads, handles, closed, shared>>,
           \A d \in Callers : Busy(d)' => /\ Busy(d) /\ caller'[d].worker = caller[d].worker
                                          /\ caller'[d].id = caller[d].id,
           \A d \in Callers : At(d, "spawn")' => At(d, "spawn"),
           \A j \in DOMAIN results' : \E m \in DOMAIN results : results'[j] = results[m],
           \A d \in Callers : At(d, "got")' =>
             \/ At(d, "got") /\ caller'[d].got = caller[d].got
             \/ \E m \in DOMAIN results : caller'[d].got = results[m],
           \A r \in requests'.ready :
             r \in requests.ready \/ \E d \in Callers : At(d, "got") /\ r = caller[d].got
    PROVE  AlcIInv'
  <1>1. StoppedInv'
    <2>1. \A i \in DOMAIN threads : IsTold(i) => IsTold(i)'
      BY DEF IsTold
    <2> QED  BY <2>1, StoppedKept DEF Busy
  <1>2. WorkerInv'
    <2>1. \A w \in 1..NumThreads : threads'[handles'[w]].worker = w
      BY DEF AlcIInv, WorkerInv
    <2>2. \A a, d \in Callers :
            Busy(a)' /\ Busy(d)' /\ caller'[a].id = caller'[d].id => a = d
      BY DEF AlcIInv, WorkerInv
    <2>3. ASSUME NEW d \in Callers, Busy(d)'
          PROVE  /\ caller'[d].worker \in 1..NumThreads /\ caller'[d].id # NoRequest
                 /\ \A i \in DOMAIN threads :
                      /\ threads[i].busy = caller'[d].id => threads[i].worker = caller'[d].worker
                      /\ \A j \in DOMAIN threads[i].in_queue :
                           threads[i].in_queue[j] = caller'[d].id =>
                             threads[i].worker = caller'[d].worker
      BY <2>3 DEF AlcIInv, WorkerInv
    <2>4. ASSUME NEW d \in Callers, Busy(d)'
          PROVE  /\ \A j \in DOMAIN results' :
                      results'[j].id = caller'[d].id => results'[j].worker = caller'[d].worker
                 /\ \A e \in Callers :
                      At(e, "got")' /\ caller'[e].got.id = caller'[d].id =>
                        caller'[e].got.worker = caller'[d].worker
                 /\ \A r \in requests'.ready :
                      r.id = caller'[d].id => r.worker = caller'[d].worker
      <3>1. /\ Busy(d) /\ caller'[d].worker = caller[d].worker /\ caller'[d].id = caller[d].id
        BY <2>4
      <3>2. /\ \A j \in DOMAIN results :
                 results[j].id = caller[d].id => results[j].worker = caller[d].worker
            /\ \A e \in Callers :
                 At(e, "got") /\ caller[e].got.id = caller[d].id =>
                   caller[e].got.worker = caller[d].worker
            /\ \A r \in requests.ready :
                 r.id = caller[d].id => r.worker = caller[d].worker
        BY <3>1 DEF AlcIInv, WorkerInv
      <3> QED  BY <3>1, <3>2
    <2> QED  BY <2>1, <2>2, <2>3, <2>4 DEF WorkerInv
  <1> QED  BY <1>1, <1>2 DEF AlcIInv

(* NothingParked, NextChunk, DeadlinePasses: only the caller's place in    *)
(* the loop changes.                                                       *)
LEMMA LoopIInv ==
    ASSUME AlcIInv, NEW c \in Callers, NEW p \in {"check", "get", "late"},
           At(c, "check") \/ At(c, "get"),
           caller' = [caller EXCEPT ![c].pc = p],
           UNCHANGED <<threads, handles, respawned, results, requests, closed, shared>>
    PROVE  AlcIInv'
  <1>1. AlcTypeOK
    BY DEF AlcIInv
  <1>2. /\ caller' \in [Callers -> CallerRec]
        /\ caller'[c].pc = p
        /\ \A d \in Callers : d # c => caller'[d] = caller[d]
        /\ \A d \in Callers : /\ caller'[d].id = caller[d].id /\ caller'[d].got = caller[d].got
                              /\ caller'[d].answer = caller[d].answer
                              /\ caller'[d].worker = caller[d].worker
    BY <1>1, PcFacts
  <1>3. \A d \in Callers : /\ At(d, "put")' <=> At(d, "put")
                           /\ At(d, "got")' <=> At(d, "got")
                           /\ At(d, "spawn")' <=> At(d, "spawn")
                           /\ Busy(d)' <=> Busy(d)
    BY <1>2 DEF At, Busy
  <1>4. AlcTypeOK'
    BY <1>1, <1>2 DEF AlcTypeOK
  <1>5. DrawnInv'
    BY <1>2, <1>3 DEF AlcIInv, DrawnInv
  <1>6. \A k \in Id : /\ Submitting(k)' => Submitting(k)
                      /\ Queued(k)' => Queued(k)
                      /\ Executing(k)' => Executing(k)
                      /\ Posted(k)' => Posted(k)
                      /\ Held(k)' => Held(k)
                      /\ Parked(k)' => Parked(k)
    BY <1>2, <1>3 DEF Submitting, Queued, Executing, Posted, Held, Parked
  <1>7. OnePlace'
    BY <1>6 DEF AlcIInv, FlowInv, OnePlace
  <1>8. FlowInv'
    BY <1>2, <1>3, <1>7
    DEF AlcIInv, FlowInv, OneSubmitter, OneQueue, OneThread, OnePosted, OneHolder, OneParked
  <1>9. AnswerInv'
    BY <1>2 DEF AlcIInv, AnswerInv
  <1> QED  BY <1>2, <1>3, <1>4, <1>5, <1>8, <1>9, CallerStep

(* GetResult: the head of the result queue goes into the caller's hand.    *)
LEMMA GetResultIInv ==
    ASSUME AlcIInv, NEW c \in Callers, GetResult(c)
    PROVE  AlcIInv'
  <1> DEFINE g == results[1]
             y == [caller[c] EXCEPT !.pc = "got", !.got = g]
  <1>1. /\ AlcTypeOK /\ At(c, "get") /\ results # <<>> /\ results' = Tail(results)
        /\ caller' = [caller EXCEPT ![c].pc = "got", ![c].got = Head(results)]
        /\ UNCHANGED <<threads, handles, respawned, requests, closed, shared>>
    BY DEF GetResult, AlcIInv
  <1>2. /\ results \in Seq(ResultRec) /\ Len(results) \in Nat
        /\ 1 \in DOMAIN results /\ Head(results) = g /\ g \in ResultRec
        /\ DOMAIN results = 1..Len(results)
        /\ Tail(results) \in Seq(ResultRec) /\ DOMAIN Tail(results) = 1..(Len(results) - 1)
        /\ \A n \in 1..(Len(results) - 1) : Tail(results)[n] = results[n + 1]
    BY <1>1 DEF AlcTypeOK
  <1>3. caller' = [caller EXCEPT ![c] = y]
    BY <1>1, <1>2
  <1> HIDE DEF g
  <1>4. /\ y \in CallerRec /\ y.pc = "got" /\ y.got = g /\ y.id = caller[c].id
        /\ y.worker = caller[c].worker /\ y.answer = caller[c].answer
    BY <1>1, <1>2, CallerFacts DEF CallerRec
  <1> HIDE DEF y
  <1>5. /\ caller' \in [Callers -> CallerRec]
        /\ caller'[c].pc = "got" /\ caller'[c].got = g
        /\ \A d \in Callers : d # c => caller'[d] = caller[d]
        /\ \A d \in Callers : /\ caller'[d].id = caller[d].id
                              /\ caller'[d].answer = caller[d].answer
                              /\ caller'[d].worker = caller[d].worker
    BY <1>1, <1>3, <1>4, UpdateCaller
  <1>6. \A j \in DOMAIN results' :
          j + 1 \in DOMAIN results /\ j + 1 # 1 /\ results'[j] = results[j + 1] /\ j \in Nat
    BY <1>1, <1>2
  <1>7. ASSUME NEW d \in Callers
        PROVE  /\ At(d, "put")' <=> At(d, "put")
               /\ At(d, "got")' => d = c \/ (At(d, "got") /\ caller'[d].got = caller[d].got)
               /\ At(d, "spawn")' <=> At(d, "spawn")
               /\ Busy(d)' <=> Busy(d)
    <2>1. CASE d # c
      BY <1>5, <2>1 DEF At, Busy
    <2>2. CASE d = c
      BY <1>1, <1>5, <2>2 DEF At, Busy
    <2> QED  BY <2>1, <2>2
  <1>8. AlcTypeOK'
    BY <1>1, <1>2, <1>5 DEF AlcTypeOK
  <1>9. g.id \in 1..requests.next /\ g.id \in Id
    <2>1. g.id \in 1..requests.next /\ requests.next \in Nat
      BY <1>1, <1>2 DEF AlcIInv, DrawnInv, g, AlcTypeOK
    <2> QED  BY <2>1 DEF Id, NoRequest
  <1>10. DrawnInv'
    BY <1>1, <1>5, <1>6, <1>7, <1>9 DEF AlcIInv, DrawnInv
  <1>11. Posted(g.id) /\ \A n \in DOMAIN results : n # 1 => results[n].id # g.id
    BY <1>2 DEF Posted, AlcIInv, FlowInv, OnePosted, g
  <1>12. \A k \in Id : /\ Submitting(k)' => Submitting(k)
                       /\ Queued(k)' => Queued(k)
                       /\ Executing(k)' => Executing(k)
                       /\ Posted(k)' => Posted(k) /\ k # g.id
                       /\ Held(k)' => Held(k) \/ k = g.id
                       /\ Parked(k)' => Parked(k)
    BY <1>1, <1>5, <1>6, <1>7, <1>11 DEF Submitting, Queued, Executing, Posted, Held, Parked
  <1>13. OnePlace' /\ ~Held(g.id)
    BY <1>9, <1>11, <1>12 DEF AlcIInv, FlowInv, OnePlace
  <1>14. OneHolder'
    BY <1>5, <1>7, <1>13 DEF AlcIInv, FlowInv, OneHolder, Held
  <1>15. OnePosted'
    BY <1>6 DEF AlcIInv, FlowInv, OnePosted
  <1>16. FlowInv'
    BY <1>1, <1>5, <1>7, <1>13, <1>14, <1>15
    DEF AlcIInv, FlowInv, OneSubmitter, OneQueue, OneThread, OneParked
  <1>17. AnswerInv'
    BY <1>1, <1>5 DEF AlcIInv, AnswerInv
  <1>18. \A d \in Callers : At(d, "got")' =>
             \/ At(d, "got") /\ caller'[d].got = caller[d].got
             \/ \E m \in DOMAIN results : caller'[d].got = results[m]
    BY <1>2, <1>5, <1>7 DEF g
  <1> QED  BY <1>1, <1>5, <1>6, <1>7, <1>8, <1>10, <1>16, <1>17, <1>18, CallerStep

(* A result ends a call.                                                   *)
LEMMA EndedFacts ==
    ASSUME AlcTypeOK, NEW c \in Callers, NEW r \in ResultRec, caller' = Ended(c, r)
    PROVE  /\ caller' \in [Callers -> CallerRec]
           /\ caller'[c].id = caller[c].id /\ caller'[c].answer = r
           /\ caller'[c].pc \in {"idle", "respawn"}
           /\ caller'[c].pc = "respawn" => caller'[c].worker = r.worker
           /\ \A d \in Callers : d # c => caller'[d] = caller[d]
  <1> DEFINE p == IF r.status = "tainting" THEN "respawn" ELSE "idle"
             w == IF r.status = "tainting" THEN r.worker ELSE 0
             y == [caller[c] EXCEPT !.pc = p, !.worker = w, !.answer = r, !.got = NoResult]
  <1>1. /\ p \in {"idle", "respawn"} /\ (p = "respawn" => w = r.worker)
        /\ w \in 0..NumThreads
    BY AlcAssumption DEF ResultRec
  <1>2. caller' = [caller EXCEPT ![c] = y]
    BY DEF Ended
  <1> HIDE DEF p, w
  <1>3. /\ y \in CallerRec /\ y.pc = p /\ y.worker = w /\ y.id = caller[c].id /\ y.answer = r
    BY <1>1, CallerFacts, IdleFacts DEF CallerRec
  <1> HIDE DEF y
  <1>4. /\ caller' \in [Callers -> CallerRec] /\ caller'[c] = y
        /\ \A d \in Callers : d # c => caller'[d] = caller[d]
    BY <1>2, <1>3, UpdateCaller
  <1> QED  BY <1>1, <1>3, <1>4

(* TakeParked and ReturnResult: c returns r, the answer to its request.    *)
LEMMA ReturnsOwn ==
    ASSUME AlcIInv, NEW c \in Callers, NEW r \in ResultRec,
           Busy(c), ~At(c, "put"), ~At(c, "spawn"), r.id = caller[c].id,
           r \in requests.ready \/ (At(c, "got") /\ r = caller[c].got),
           caller' = Ended(c, r),
           requests' = [requests EXCEPT !.ready = @ \ {r}, !.active = @ \ {r.id}],
           UNCHANGED <<threads, handles, respawned, results, closed, shared>>
    PROVE  AlcIInv'
  <1>1. /\ AlcTypeOK /\ caller' \in [Callers -> CallerRec]
        /\ caller'[c].id = caller[c].id /\ caller'[c].answer = r
        /\ caller'[c].pc \in {"idle", "respawn"}
        /\ caller'[c].pc = "respawn" => caller'[c].worker = r.worker
        /\ \A d \in Callers : d # c => caller'[d] = caller[d]
    BY EndedFacts DEF AlcIInv
  <1>2. /\ requests' \in [next : Nat, active : SUBSET Nat, ready : SUBSET ResultRec]
        /\ requests'.next = requests.next /\ requests'.active = requests.active \ {r.id}
        /\ requests'.ready = requests.ready \ {r}
    BY <1>1 DEF AlcTypeOK
  <1>3. r.worker = caller[c].worker /\ r.id \in Id
    <2>1. r.worker = caller[c].worker /\ r.id # NoRequest
      BY DEF AlcIInv, WorkerInv
    <2> QED  BY <1>1, <2>1, CallerFacts DEF Id
  <1>4. ASSUME NEW d \in Callers
        PROVE  /\ At(d, "put")' => At(d, "put") /\ d # c
               /\ At(d, "got")' => At(d, "got") /\ d # c
               /\ At(d, "spawn")' => At(d, "spawn") /\ d # c
               /\ Busy(d)' => Busy(d) /\ caller'[d].worker = caller[d].worker
               /\ caller'[d].id = caller[d].id
    <2>1. CASE d # c
      BY <1>1, <2>1 DEF At, Busy
    <2>2. CASE d = c
      BY <1>1, <1>3, <2>2 DEF At, Busy
    <2> QED  BY <2>1, <2>2
  <1>5. AlcTypeOK'
    BY <1>1, <1>2 DEF AlcTypeOK
  <1>6. DrawnInv'
    BY <1>1, <1>2, <1>4 DEF AlcIInv, DrawnInv
  <1>7. \A k \in Id : /\ Submitting(k)' => Submitting(k)
                      /\ Queued(k)' => Queued(k)
                      /\ Executing(k)' => Executing(k)
                      /\ Posted(k)' => Posted(k)
                      /\ Held(k)' => Held(k)
                      /\ Parked(k)' => Parked(k)
    BY <1>1, <1>2, <1>4 DEF Submitting, Queued, Executing, Posted, Held, Parked
  <1>8. OnePlace'
    BY <1>7 DEF AlcIInv, FlowInv, OnePlace
  <1>9. FlowInv'
    BY <1>1, <1>2, <1>4, <1>8
    DEF AlcIInv, FlowInv, OneSubmitter, OneQueue, OneThread, OnePosted, OneHolder, OneParked
  <1>10. \A q \in requests'.ready : q.id # r.id
    <2>1. CASE r \in requests.ready
      BY <1>2, <2>1 DEF AlcIInv, FlowInv, OneParked
    <2>2. CASE At(c, "got") /\ r = caller[c].got
      <3>1. Held(r.id)
        BY <2>2 DEF Held
      <3>2. ~Parked(r.id)
        BY <1>3, <3>1 DEF AlcIInv, FlowInv, OnePlace
      <3> QED  BY <1>2, <3>2 DEF Parked
    <2> QED  BY <2>1, <2>2
  <1>11. AnswerInv'
    BY <1>1, <1>2, <1>4, <1>10 DEF AlcIInv, AnswerInv
  <1>12. \A d \in Callers : At(d, "got")' => caller'[d].got = caller[d].got
    BY <1>1, <1>4
  <1> QED  BY <1>2, <1>4, <1>5, <1>6, <1>9, <1>11, <1>12, CallerStep

LEMMA TakeParkedIInv ==
    ASSUME AlcIInv, NEW c \in Callers, TakeParked(c)
    PROVE  AlcIInv'
  <1>1. PICK r \in requests.ready :
          /\ r.id = caller[c].id
          /\ requests' = [requests EXCEPT !.ready = @ \ {r}, !.active = @ \ {r.id}]
          /\ caller' = Ended(c, r)
    BY DEF TakeParked
  <1>2. /\ r \in ResultRec /\ At(c, "check")
        /\ UNCHANGED <<threads, handles, respawned, results, closed, shared>>
    BY DEF TakeParked, AlcIInv, AlcTypeOK
  <1>3. Busy(c) /\ ~At(c, "put") /\ ~At(c, "spawn")
    BY <1>2 DEF Busy, At
  <1> QED  BY <1>1, <1>2, <1>3, ReturnsOwn

LEMMA ReturnResultIInv ==
    ASSUME AlcIInv, NEW c \in Callers, ReturnResult(c)
    PROVE  AlcIInv'
  <1> DEFINE r == caller[c].got
  <1>1. /\ AlcTypeOK /\ At(c, "got") /\ r.id = caller[c].id /\ caller' = Ended(c, r)
        /\ requests' = [requests EXCEPT !.active = @ \ {caller[c].id}]
        /\ UNCHANGED <<threads, handles, respawned, results, closed, shared>>
    BY DEF ReturnResult, IsOwn, AlcIInv
  <1>2. r \in ResultRec /\ Busy(c) /\ ~At(c, "put") /\ ~At(c, "spawn")
    BY <1>1, CallerFacts DEF Busy, At
  <1>3. r \notin requests.ready
    <2>1. Held(r.id) /\ r.id \in Id
      BY <1>1, <1>2, CallerFacts DEF Held, AlcIInv, WorkerInv, Id
    <2>2. ~Parked(r.id)
      BY <2>1 DEF AlcIInv, FlowInv, OnePlace
    <2> QED  BY <2>2 DEF Parked
  <1>4. requests' = [requests EXCEPT !.ready = @ \ {r}, !.active = @ \ {r.id}]
    <2>1. requests.ready \ {r} = requests.ready
      BY <1>3
    <2> QED  BY <1>1, <2>1 DEF AlcTypeOK
  <1> HIDE DEF r
  <1>5. At(c, "got") /\ r = caller[c].got
    BY <1>1 DEF r
  <1> QED  BY <1>1, <1>2, <1>4, <1>5, ReturnsOwn

(* ExecuteTimesOut: c gives its request up.                                *)
LEMMA ExecuteTimesOutIInv ==
    ASSUME AlcIInv, NEW c \in Callers, ExecuteTimesOut(c)
    PROVE  AlcIInv'
  <1> DEFINE r == Result(caller[c].id, "task_timeout", caller[c].worker)
             y == [caller[c] EXCEPT !.pc = "respawn", !.answer = r]
  <1>1. /\ AlcTypeOK /\ At(c, "late")
        /\ requests' = [requests EXCEPT !.active = @ \ {caller[c].id}]
        /\ caller' = [caller EXCEPT ![c] = y]
        /\ UNCHANGED <<threads, handles, respawned, results, closed, shared>>
    BY DEF ExecuteTimesOut, AlcIInv
  <1>2. r \in ResultRec /\ r.id = caller[c].id /\ r.status = "task_timeout"
    BY <1>1, CallerFacts DEF Result, ResultRec, Statuses
  <1> HIDE DEF r
  <1>3. /\ y \in CallerRec /\ y.pc = "respawn" /\ y.worker = caller[c].worker
        /\ y.id = caller[c].id /\ y.answer = r
    BY <1>1, <1>2, CallerFacts DEF CallerRec
  <1> HIDE DEF y
  <1>4. /\ caller' \in [Callers -> CallerRec] /\ caller'[c] = y
        /\ \A d \in Callers : d # c => caller'[d] = caller[d]
    BY <1>1, <1>3, UpdateCaller
  <1>5. /\ requests' \in [next : Nat, active : SUBSET Nat, ready : SUBSET ResultRec]
        /\ requests'.next = requests.next /\ requests'.active \subseteq requests.active
        /\ requests'.ready = requests.ready
    BY <1>1 DEF AlcTypeOK
  <1>6. ASSUME NEW d \in Callers
        PROVE  /\ At(d, "put")' => At(d, "put")
               /\ At(d, "got")' => At(d, "got") /\ caller'[d].got = caller[d].got
               /\ At(d, "spawn")' => At(d, "spawn")
               /\ Busy(d)' => Busy(d)
               /\ caller'[d].worker = caller[d].worker
               /\ caller'[d].id = caller[d].id
    <2>1. CASE d # c
      BY <1>4, <2>1 DEF At, Busy
    <2>2. CASE d = c
      BY <1>1, <1>3, <1>4, <2>2 DEF At, Busy
    <2> QED  BY <2>1, <2>2
  <1>7. AlcTypeOK'
    BY <1>1, <1>4, <1>5 DEF AlcTypeOK
  <1>8. DrawnInv'
    BY <1>1, <1>5, <1>6 DEF AlcIInv, DrawnInv
  <1>9. \A k \in Id : /\ Submitting(k)' => Submitting(k)
                      /\ Queued(k)' => Queued(k)
                      /\ Executing(k)' => Executing(k)
                      /\ Posted(k)' => Posted(k)
                      /\ Held(k)' => Held(k)
                      /\ Parked(k)' => Parked(k)
    BY <1>1, <1>5, <1>6 DEF Submitting, Queued, Executing, Posted, Held, Parked
  <1>10. OnePlace'
    BY <1>9 DEF AlcIInv, FlowInv, OnePlace
  <1>11. FlowInv'
    BY <1>1, <1>5, <1>6, <1>10
    DEF AlcIInv, FlowInv, OneSubmitter, OneQueue, OneThread, OnePosted, OneHolder, OneParked
  <1>12. AnswerInv'
    BY <1>2, <1>3, <1>4, <1>5 DEF AlcIInv, AnswerInv
  <1> QED  BY <1>1, <1>5, <1>6, <1>7, <1>8, <1>11, <1>12, CallerStep

(* ParkResult: the answer of another caller is parked or discarded.        *)
LEMMA ParkResultIInv ==
    ASSUME AlcIInv, NEW c \in Callers, ParkResult(c)
    PROVE  AlcIInv'
  <1> DEFINE g == caller[c].got
             y == [caller[c] EXCEPT !.pc = "check", !.got = NoResult]
             ready == IF g.id \in requests.active THEN requests.ready \cup {g} ELSE requests.ready
  <1>1. /\ AlcTypeOK /\ At(c, "got") /\ caller' = [caller EXCEPT ![c] = y]
        /\ requests' = IF g.id \in requests.active
                       THEN [requests EXCEPT !.ready = @ \cup {g}] ELSE requests
        /\ UNCHANGED <<threads, handles, respawned, results, closed, shared>>
    BY DEF ParkResult, AlcIInv
  <1>2. g \in ResultRec /\ g.id \in Nat /\ g.id \in 1..requests.next
    BY <1>1, CallerFacts DEF ResultRec, AlcIInv, DrawnInv
  <1>3. /\ y \in CallerRec /\ y.pc = "check" /\ y.worker = caller[c].worker
        /\ y.id = caller[c].id /\ y.answer = caller[c].answer
    BY <1>1, IdleFacts, CallerFacts DEF CallerRec
  <1> HIDE DEF y
  <1>4. /\ caller' \in [Callers -> CallerRec] /\ caller'[c] = y
        /\ \A d \in Callers : d # c => caller'[d] = caller[d]
    BY <1>1, <1>3, UpdateCaller
  <1>5. /\ requests' \in [next : Nat, active : SUBSET Nat, ready : SUBSET ResultRec]
        /\ requests'.next = requests.next /\ requests'.active = requests.active
        /\ requests'.ready = ready
    BY <1>1, <1>2 DEF AlcTypeOK
  <1>6. ASSUME NEW d \in Callers
        PROVE  /\ At(d, "put")' => At(d, "put")
               /\ At(d, "got")' => At(d, "got") /\ d # c /\ caller'[d].got = caller[d].got
               /\ At(d, "spawn")' => At(d, "spawn")
               /\ Busy(d)' => Busy(d)
               /\ caller'[d].worker = caller[d].worker
               /\ caller'[d].id = caller[d].id
               /\ caller'[d].answer = caller[d].answer
    <2>1. CASE d # c
      BY <1>4, <2>1 DEF At, Busy
    <2>2. CASE d = c
      BY <1>1, <1>3, <1>4, <2>2 DEF At, Busy
    <2> QED  BY <2>1, <2>2
  <1>7. AlcTypeOK'
    BY <1>1, <1>4, <1>5 DEF AlcTypeOK
  <1>8. \A r \in ready : r \in requests.ready \/ (r = g /\ g.id \in requests.active)
    OBVIOUS
  <1>9. Held(g.id) /\ g.id \in Id
    BY <1>1, <1>2 DEF Held, Id, NoRequest
  <1>10. ~Parked(g.id)
    BY <1>9 DEF AlcIInv, FlowInv, OnePlace
  <1> HIDE DEF ready
  <1>11. DrawnInv'
    BY <1>1, <1>2, <1>5, <1>6, <1>8 DEF AlcIInv, DrawnInv
  <1>12. \A k \in Id : /\ Submitting(k)' => Submitting(k)
                       /\ Queued(k)' => Queued(k)
                       /\ Executing(k)' => Executing(k)
                       /\ Posted(k)' => Posted(k)
                       /\ Held(k)' => Held(k) /\ k # g.id
                       /\ Parked(k)' => Parked(k) \/ k = g.id
    <2>1. \A k \in Id : Held(k)' => Held(k) /\ k # g.id
      BY <1>1, <1>6 DEF Held, AlcIInv, FlowInv, OneHolder
    <2> QED  BY <2>1, <1>1, <1>5, <1>6, <1>8 DEF Submitting, Queued, Executing, Posted, Parked
  <1>13. OnePlace'
    BY <1>9, <1>12 DEF AlcIInv, FlowInv, OnePlace
  <1>14. OneParked'
    BY <1>5, <1>8, <1>10 DEF AlcIInv, FlowInv, OneParked, Parked
  <1>15. FlowInv'
    BY <1>1, <1>6, <1>13, <1>14
    DEF AlcIInv, FlowInv, OneSubmitter, OneQueue, OneThread, OnePosted, OneHolder
  <1>16. AnswerInv'
    BY <1>5, <1>6, <1>8 DEF AlcIInv, AnswerInv
  <1> QED  BY <1>1, <1>5, <1>6, <1>7, <1>8, <1>11, <1>15, <1>16, CallerStep

LEMMA RespawnRaisesIInv ==
    ASSUME AlcIInv, NEW c \in Callers, RespawnRaises(c)
    PROVE  AlcIInv'
  <1>1. /\ AlcTypeOK /\ At(c, "respawn") /\ caller' = [caller EXCEPT ![c] = IdleCaller]
        /\ UNCHANGED <<threads, handles, respawned, results, requests, closed, shared>>
    BY DEF RespawnRaises, AlcIInv
  <1>2. /\ caller' \in [Callers -> CallerRec] /\ caller'[c] = IdleCaller
        /\ \A d \in Callers : d # c => caller'[d] = caller[d]
    BY <1>1, IdleFacts, UpdateCaller
  <1>3. ASSUME NEW d \in Callers
        PROVE  /\ At(d, "put")' => At(d, "put") /\ d # c
               /\ At(d, "got")' => At(d, "got") /\ d # c
               /\ At(d, "spawn")' => At(d, "spawn") /\ d # c
               /\ Busy(d)' => Busy(d) /\ d # c
    <2>1. CASE d # c
      BY <1>2, <2>1 DEF At, Busy
    <2>2. CASE d = c
      BY <1>1, <1>2, <2>2, IdleFacts DEF At, Busy
    <2> QED  BY <2>1, <2>2
  <1>4. AlcTypeOK' /\ requests.next \in Nat
    BY <1>1, <1>2 DEF AlcTypeOK
  <1>5. DrawnInv'
    BY <1>1, <1>2, <1>3, <1>4, IdleFacts DEF AlcIInv, DrawnInv, NoRequest
  <1>6. \A k \in Id : /\ Submitting(k)' => Submitting(k)
                      /\ Queued(k)' => Queued(k)
                      /\ Executing(k)' => Executing(k)
                      /\ Posted(k)' => Posted(k)
                      /\ Held(k)' => Held(k)
                      /\ Parked(k)' => Parked(k)
    BY <1>1, <1>2, <1>3 DEF Submitting, Queued, Executing, Posted, Held, Parked
  <1>7. OnePlace'
    BY <1>6 DEF AlcIInv, FlowInv, OnePlace
  <1>8. FlowInv'
    BY <1>1, <1>2, <1>3, <1>7
    DEF AlcIInv, FlowInv, OneSubmitter, OneQueue, OneThread, OnePosted, OneHolder, OneParked
  <1>9. AnswerInv'
    BY <1>1, <1>2, IdleFacts DEF AlcIInv, AnswerInv, NoResult
  <1> QED  BY <1>1, <1>2, <1>3, <1>4, <1>5, <1>8, <1>9, CallerStep

-----------------------------------------------------------------------------
(* RespawnAbandons: the worker's thread is told to stop.                   *)
LEMMA RespawnAbandonsIInv ==
    ASSUME AlcIInv, NEW c \in Callers, RespawnAbandons(c)
    PROVE  AlcIInv'
  <1> DEFINE w == caller[c].worker
             h == handles[w]
  <1>1. /\ AlcTypeOK /\ At(c, "respawn") /\ Busy(c)
        /\ UNCHANGED <<handles, results, requests, closed, shared>>
        /\ respawned' = [respawned EXCEPT ![w] = @ + 1]
        /\ caller' = [caller EXCEPT ![c].pc = "spawn"]
        /\ threads' = Put(h, Told)
    BY DEF RespawnAbandons, AlcIInv, At, Busy
  <1>2. w \in 1..NumThreads /\ h \in DOMAIN threads /\ Told \in Nat
    BY <1>1 DEF AlcIInv, WorkerInv, AlcTypeOK, Told
  <1>3. /\ caller' \in [Callers -> CallerRec]
        /\ caller'[c].pc = "spawn"
        /\ \A d \in Callers : d # c => caller'[d] = caller[d]
        /\ \A d \in Callers : /\ caller'[d].id = caller[d].id /\ caller'[d].got = caller[d].got
                              /\ caller'[d].answer = caller[d].answer
                              /\ caller'[d].worker = caller[d].worker
    BY <1>1, PcFacts
  <1>4. /\ threads' \in Seq(ThreadRec) /\ DOMAIN threads' = DOMAIN threads
        /\ \A j \in DOMAIN threads :
             /\ threads'[j].worker = threads[j].worker
             /\ threads'[j].busy = threads[j].busy
             /\ threads'[j].alive = threads[j].alive
             /\ \A p \in DOMAIN threads[j].in_queue :
                  /\ p \in DOMAIN threads'[j].in_queue
                  /\ threads'[j].in_queue[p] = threads[j].in_queue[p]
    BY <1>1, <1>2, PutFacts
  <1> HIDE DEF h
  <1>5. PICK n \in Nat :
          /\ n \in DOMAIN threads'[h].in_queue /\ threads'[h].in_queue[n] = Told
          /\ \A j \in DOMAIN threads :
               \A p \in DOMAIN threads'[j].in_queue :
                 \/ p \in DOMAIN threads[j].in_queue
                    /\ threads'[j].in_queue[p] = threads[j].in_queue[p]
                 \/ j = h /\ p = n
    BY <1>1, <1>2, PutFacts
  <1>6. \A j \in DOMAIN threads :
          \A p \in DOMAIN threads'[j].in_queue :
            \/ p \in DOMAIN threads[j].in_queue
               /\ threads'[j].in_queue[p] = threads[j].in_queue[p]
            \/ threads'[j].in_queue[p] = Told
    BY <1>5
  <1>7. ASSUME NEW d \in Callers
        PROVE  /\ At(d, "put")' <=> At(d, "put")
               /\ At(d, "got")' <=> At(d, "got")
               /\ At(d, "spawn")' => At(d, "spawn") \/ d = c
               /\ Busy(d)' <=> Busy(d)
    <2>1. CASE d # c
      BY <1>3, <2>1 DEF At, Busy
    <2>2. CASE d = c
      BY <1>1, <1>3, <2>2 DEF At, Busy
    <2> QED  BY <2>1, <2>2
  <1>8. AlcTypeOK' /\ requests.next \in Nat
    BY <1>1, <1>2, <1>3, <1>4 DEF AlcTypeOK
  <1>9. DrawnInv'
    BY <1>1, <1>3, <1>4, <1>6, <1>7, <1>8 DEF AlcIInv, DrawnInv, Told
  <1>10. \A k \in Id : /\ Submitting(k)' => Submitting(k)
                       /\ Queued(k)' => Queued(k)
                       /\ Executing(k)' => Executing(k)
                       /\ Posted(k)' => Posted(k)
                       /\ Held(k)' => Held(k)
                       /\ Parked(k)' => Parked(k)
    <2>1. \A k \in Id : Queued(k)' => Queued(k)
      BY <1>4, <1>6 DEF Queued, Id, Told, NoRequest
    <2> QED  BY <2>1, <1>1, <1>3, <1>4, <1>7 DEF Submitting, Executing, Posted, Held, Parked
  <1>11. OnePlace'
    BY <1>10 DEF AlcIInv, FlowInv, OnePlace
  <1>12. OneQueue'
    BY <1>4, <1>6 DEF AlcIInv, FlowInv, OneQueue
  <1>13. FlowInv'
    BY <1>1, <1>3, <1>4, <1>7, <1>11, <1>12
    DEF AlcIInv, FlowInv, OneSubmitter, OneThread, OnePosted, OneHolder, OneParked
  <1>14. AnswerInv'
    BY <1>1, <1>3 DEF AlcIInv, AnswerInv
  <1>15. WorkerInv'
    <2>1. \A v \in 1..NumThreads : threads'[handles'[v]].worker = v
      BY <1>1, <1>4 DEF AlcIInv, WorkerInv, AlcTypeOK
    <2>2. \A a, d \in Callers :
            Busy(a)' /\ Busy(d)' /\ caller'[a].id = caller'[d].id => a = d
      BY <1>3, <1>7 DEF AlcIInv, WorkerInv
    <2>3. ASSUME NEW d \in Callers, Busy(d)
          PROVE  /\ caller[d].worker \in 1..NumThreads /\ caller[d].id # NoRequest
                 /\ \A i \in DOMAIN threads :
                      /\ threads'[i].busy = caller[d].id => threads'[i].worker = caller[d].worker
                      /\ \A j \in DOMAIN threads'[i].in_queue :
                           threads'[i].in_queue[j] = caller[d].id =>
                             threads'[i].worker = caller[d].worker
      BY <1>4, <1>6, <2>3 DEF AlcIInv, WorkerInv, Told, NoRequest
    <2>4. ASSUME NEW d \in Callers, Busy(d)
          PROVE  /\ \A j \in DOMAIN results :
                      results[j].id = caller[d].id => results[j].worker = caller[d].worker
                 /\ \A e \in Callers :
                      At(e, "got") /\ caller[e].got.id = caller[d].id =>
                        caller[e].got.worker = caller[d].worker
                 /\ \A r \in requests.ready :
                      r.id = caller[d].id => r.worker = caller[d].worker
      BY <2>4 DEF AlcIInv, WorkerInv
    <2> QED  BY <1>1, <1>3, <1>4, <1>7, <2>1, <2>2, <2>3, <2>4 DEF WorkerInv
  <1>16. StoppedInv'
    <2>1. \A i \in DOMAIN threads : IsTold(i) => IsTold(i)'
      BY <1>4 DEF IsTold
    <2>2. PICK i \in DOMAIN threads : i = h
      BY <1>2
    <2>3. IsTold(i)' /\ i = handles[caller[c].worker]
      BY <1>5, <2>2 DEF IsTold, h
    <2>4. \A d \in Callers :
             At(d, "spawn")' =>
               At(d, "spawn") \/ \E j \in DOMAIN threads :
                                   j = handles[caller[d].worker] /\ IsTold(j)'
      BY <1>7, <2>3
    <2> QED  BY <1>1, <1>3, <1>4, <1>7, <2>1, <2>4, StoppedKept DEF Busy
  <1> QED  BY <1>8, <1>9, <1>13, <1>14, <1>15, <1>16 DEF AlcIInv

(* RespawnSpawns: the new thread becomes the worker's handle, and the one  *)
(* it replaces was told to stop.                                           *)
LEMMA RespawnSpawnsIInv ==
    ASSUME AlcIInv, NEW c \in Callers, RespawnSpawns(c)
    PROVE  AlcIInv'
  <1> DEFINE w == caller[c].worker
             n == Len(threads) + 1
             s == SpawnWorker(w)
             y == [caller[c] EXCEPT !.pc = "idle", !.worker = 0]
  <1>1. /\ AlcTypeOK /\ At(c, "spawn") /\ Busy(c)
        /\ UNCHANGED <<respawned, results, requests, closed, shared>>
        /\ threads' = Append(threads, s)
        /\ handles' = [handles EXCEPT ![w] = n]
        /\ caller' = [caller EXCEPT ![c] = y]
    BY DEF RespawnSpawns, AlcIInv, At, Busy
  <1>2. w \in 1..NumThreads
    BY <1>1 DEF AlcIInv, WorkerInv
  <1>3. /\ s \in ThreadRec /\ s.worker = w /\ s.busy = NoRequest /\ s.alive = TRUE
        /\ s.in_queue = <<>> /\ DOMAIN s.in_queue = {}
    BY <1>2 DEF SpawnWorker, ThreadRec, NoRequest
  <1>4. /\ y \in CallerRec /\ y.pc = "idle" /\ y.id = caller[c].id
        /\ y.got = caller[c].got /\ y.answer = caller[c].answer
    <2>1. 0 \in 0..NumThreads
      BY AlcAssumption
    <2> QED  BY <1>1, <2>1, CallerFacts DEF CallerRec
  <1> HIDE DEF s, y
  <1>5. /\ threads' \in Seq(ThreadRec) /\ n \in Nat /\ n \notin DOMAIN threads
        /\ n \in DOMAIN threads' /\ threads'[n] = s
        /\ \A i \in DOMAIN threads : i \in DOMAIN threads' /\ threads'[i] = threads[i]
        /\ \A i \in DOMAIN threads' : i = n \/ i \in DOMAIN threads
    BY <1>1, <1>3 DEF AlcTypeOK
  <1> HIDE DEF n
  <1>6. /\ handles' \in [1..NumThreads -> DOMAIN threads'] /\ handles'[w] = n
        /\ \A v \in 1..NumThreads : v # w => handles'[v] = handles[v] /\ handles'[v] \in DOMAIN threads
    BY <1>1, <1>2, <1>5 DEF AlcTypeOK
  <1>7. /\ caller' \in [Callers -> CallerRec] /\ caller'[c] = y
        /\ \A d \in Callers : d # c => caller'[d] = caller[d]
    BY <1>1, <1>4, UpdateCaller
  <1>8. ASSUME NEW d \in Callers
        PROVE  /\ At(d, "put")' => At(d, "put") /\ d # c
               /\ At(d, "got")' => At(d, "got") /\ d # c
               /\ At(d, "spawn")' => At(d, "spawn") /\ d # c
               /\ Busy(d)' => Busy(d) /\ d # c /\ caller'[d].worker = caller[d].worker
               /\ caller'[d].id = caller[d].id /\ caller'[d].got = caller[d].got
               /\ caller'[d].answer = caller[d].answer
    <2>1. CASE d # c
      BY <1>7, <2>1 DEF At, Busy
    <2>2. CASE d = c
      BY <1>1, <1>4, <1>7, <2>2 DEF At, Busy
    <2> QED  BY <2>1, <2>2
  <1>9. AlcTypeOK' /\ requests.next \in Nat
    BY <1>1, <1>5, <1>6, <1>7 DEF AlcTypeOK
  <1>10. DrawnInv'
    <2>1. \A i \in DOMAIN threads' :
           /\ threads'[i].busy <= requests.next
           /\ \A j \in DOMAIN threads'[i].in_queue : threads'[i].in_queue[j] <= requests.next
      BY <1>3, <1>5, <1>9 DEF AlcIInv, DrawnInv, NoRequest
    <2> QED  BY <1>1, <1>8, <2>1 DEF AlcIInv, DrawnInv
  <1>11. \A k \in Id : /\ Submitting(k)' => Submitting(k)
                       /\ Queued(k)' => Queued(k)
                       /\ Executing(k)' => Executing(k)
                       /\ Posted(k)' => Posted(k)
                       /\ Held(k)' => Held(k)
                       /\ Parked(k)' => Parked(k)
    <2>1. \A k \in Id : (Queued(k)' => Queued(k)) /\ (Executing(k)' => Executing(k))
      BY <1>3, <1>5 DEF Queued, Executing, Id
    <2> QED  BY <2>1, <1>1, <1>8 DEF Submitting, Posted, Held, Parked
  <1>12. OnePlace'
    BY <1>11 DEF AlcIInv, FlowInv, OnePlace
  <1>13. OneQueue' /\ OneThread'
    BY <1>3, <1>5 DEF AlcIInv, FlowInv, OneQueue, OneThread
  <1>14. FlowInv'
    BY <1>1, <1>8, <1>12, <1>13
    DEF AlcIInv, FlowInv, OneSubmitter, OnePosted, OneHolder, OneParked
  <1>15. AnswerInv'
    BY <1>1, <1>8 DEF AlcIInv, AnswerInv
  <1>16. WorkerInv'
    <2>1. \A v \in 1..NumThreads : threads'[handles'[v]].worker = v
      BY <1>3, <1>5, <1>6 DEF AlcIInv, WorkerInv
    <2>2. \A a, d \in Callers :
            Busy(a)' /\ Busy(d)' /\ caller'[a].id = caller'[d].id => a = d
      BY <1>8 DEF AlcIInv, WorkerInv
    <2>3. ASSUME NEW d \in Callers, Busy(d)
          PROVE  /\ caller[d].worker \in 1..NumThreads /\ caller[d].id # NoRequest
                 /\ \A i \in DOMAIN threads' :
                      /\ threads'[i].busy = caller[d].id => threads'[i].worker = caller[d].worker
                      /\ \A j \in DOMAIN threads'[i].in_queue :
                           threads'[i].in_queue[j] = caller[d].id =>
                             threads'[i].worker = caller[d].worker
      BY <1>3, <1>5, <2>3 DEF AlcIInv, WorkerInv
    <2>4. ASSUME NEW d \in Callers, Busy(d)
          PROVE  /\ \A j \in DOMAIN results :
                      results[j].id = caller[d].id => results[j].worker = caller[d].worker
                 /\ \A e \in Callers :
                      At(e, "got") /\ caller[e].got.id = caller[d].id =>
                        caller[e].got.worker = caller[d].worker
                 /\ \A r \in requests.ready :
                      r.id = caller[d].id => r.worker = caller[d].worker
      BY <2>4 DEF AlcIInv, WorkerInv
    <2>5. ASSUME NEW d \in Callers, Busy(d)'
          PROVE  /\ Busy(d) /\ caller'[d].worker = caller[d].worker
                 /\ caller'[d].id = caller[d].id
      BY <1>8, <2>5
    <2>6. \A e \in Callers : At(e, "got")' => At(e, "got") /\ caller'[e].got = caller[e].got
      BY <1>8
    <2>7. \A d \in Callers : Busy(d)' =>
            /\ \A j \in DOMAIN results' :
                 results'[j].id = caller'[d].id => results'[j].worker = caller'[d].worker
            /\ \A e \in Callers :
                 At(e, "got")' /\ caller'[e].got.id = caller'[d].id =>
                   caller'[e].got.worker = caller'[d].worker
            /\ \A r \in requests'.ready :
                 r.id = caller'[d].id => r.worker = caller'[d].worker
      BY <1>1, <2>4, <2>5, <2>6
    <2>8. \A d \in Callers : Busy(d)' =>
            /\ caller'[d].worker \in 1..NumThreads /\ caller'[d].id # NoRequest
            /\ \A i \in DOMAIN threads' :
                 /\ threads'[i].busy = caller'[d].id => threads'[i].worker = caller'[d].worker
                 /\ \A j \in DOMAIN threads'[i].in_queue :
                      threads'[i].in_queue[j] = caller'[d].id =>
                        threads'[i].worker = caller'[d].worker
      BY <2>3, <2>5
    <2> QED  BY <2>1, <2>2, <2>7, <2>8 DEF WorkerInv
  <1>17. StoppedInv'
    <2>1. ~closed
      BY <1>1 DEF AlcIInv, StoppedInv, At
    <2>2. \A i \in DOMAIN threads : IsTold(i)' <=> IsTold(i)
      BY <1>5 DEF IsTold
    <2>3. ASSUME ~shared
          PROVE  \A a, d \in Callers :
                   Busy(a)' /\ Busy(d)' /\ caller'[a].worker = caller'[d].worker => a = d
      BY <1>8, <2>3 DEF AlcIInv, StoppedInv
    <2>4. PICK o \in DOMAIN threads : o = handles[w]
      BY <1>1, <1>2 DEF AlcTypeOK
    <2>5. ~shared /\ threads[o].alive => IsTold(o)
      <3>1. ~shared /\ threads[handles[w]].alive => IsTold(handles[w])
        BY <1>1 DEF AlcIInv, StoppedInv
      <3> QED  BY <2>4, <3>1 DEF IsTold
    <2>6. ASSUME ~shared, NEW i \in DOMAIN threads', threads'[i].alive,
                 \A v \in 1..NumThreads : handles'[v] # i
          PROVE  IsTold(i)'
      <3>1. i \in DOMAIN threads /\ threads[i].alive
        BY <1>2, <1>5, <1>6, <2>6
      <3>2. CASE i = o
        BY <2>2, <2>5, <2>6, <3>1, <3>2
      <3>3. CASE i # o
        <4>1. \A v \in 1..NumThreads : handles[v] # i
          BY <1>6, <2>4, <2>6, <3>3
        <4>2. IsTold(i)
          BY <2>6, <3>1, <4>1 DEF AlcIInv, StoppedInv
        <4> QED  BY <2>2, <3>1, <4>2
      <3> QED  BY <3>2, <3>3
    <2>7. ASSUME ~shared, NEW d \in Callers, At(d, "spawn")',
                 threads'[handles'[caller'[d].worker]].alive
          PROVE  IsTold(handles[caller[d].worker])'
      <3>1. At(d, "spawn") /\ d # c /\ Busy(d) /\ caller'[d].worker = caller[d].worker
        BY <1>8, <2>7 DEF Busy, At
      <3>2. caller[d].worker # w /\ caller[d].worker \in 1..NumThreads
        BY <1>1, <2>7, <3>1 DEF AlcIInv, StoppedInv, WorkerInv
      <3>3. PICK h \in DOMAIN threads : h = handles[caller[d].worker]
        BY <1>1, <3>2 DEF AlcTypeOK
      <3>4. h = handles'[caller'[d].worker]
        BY <1>6, <3>1, <3>2, <3>3
      <3>5. threads[h].alive
        BY <1>5, <2>7, <3>3, <3>4
      <3>6. IsTold(handles[caller[d].worker])
        BY <2>7, <3>1, <3>3, <3>5 DEF AlcIInv, StoppedInv
      <3>7. IsTold(h)
        BY <3>3, <3>6 DEF IsTold
      <3>8. IsTold(h)'
        BY <2>2, <3>7
      <3> QED  BY <3>4, <3>8 DEF IsTold
    <2> QED  BY <1>1, <2>1, <2>3, <2>6, <2>7 DEF StoppedInv
  <1> QED  BY <1>9, <1>10, <1>14, <1>15, <1>16, <1>17 DEF AlcIInv

-----------------------------------------------------------------------------
(* ThreadTakes: a request goes from a queue to its thread; the None ends   *)
(* the thread.                                                             *)
LEMMA ThreadTakesIInv ==
    ASSUME AlcIInv, NEW i \in DOMAIN threads, ThreadTakes(i)
    PROVE  AlcIInv'
  <1> DEFINE q == threads[i].in_queue
             m == q[1]
  <1>1. /\ AlcTypeOK /\ UNCHANGED <<handles, respawned, results, requests, caller, closed, shared>>
    BY DEF AlcIInv, ThreadTakes
  <1>2. /\ m \in Nat /\ threads[i].alive /\ threads[i].busy = NoRequest
        /\ threads' \in Seq(ThreadRec) /\ DOMAIN threads' = DOMAIN threads
        /\ \A j \in DOMAIN threads :
             /\ threads'[j].worker = threads[j].worker
             /\ j # i => threads'[j] = threads[j]
        /\ threads'[i].busy = m
        /\ threads'[i].alive <=> m # Told
        /\ 1 \in DOMAIN q
        /\ DOMAIN threads'[i].in_queue = 1..(Len(q) - 1)
        /\ \A n \in DOMAIN threads'[i].in_queue :
             n + 1 \in DOMAIN q /\ threads'[i].in_queue[n] = q[n + 1]
        /\ \A n \in DOMAIN q : n # 1 =>
             n - 1 \in DOMAIN threads'[i].in_queue /\ threads'[i].in_queue[n - 1] = q[n]
    BY <1>1, TakeFacts
  <1> HIDE DEF m
  <1>3. ASSUME NEW j \in DOMAIN threads, NEW n \in DOMAIN threads'[j].in_queue
        PROVE  \E p \in DOMAIN threads[j].in_queue :
                 /\ threads'[j].in_queue[n] = threads[j].in_queue[p]
                 /\ p = IF j = i THEN n + 1 ELSE n
    BY <1>2, <1>3
  <1>4. \A n \in DOMAIN threads'[i].in_queue : n \in Nat /\ n + 1 # 1
    <2>1. Len(q) \in Nat
      BY <1>1, ThreadFacts
    <2> QED  BY <1>2, <2>1
  <1>5. AlcTypeOK'
    BY <1>1, <1>2 DEF AlcTypeOK
  <1>6. DrawnInv'
    <2>1. m <= requests.next
      BY <1>2 DEF AlcIInv, DrawnInv, m
    <2>2. ASSUME NEW j \in DOMAIN threads
          PROVE  /\ threads'[j].busy <= requests.next
                 /\ \A n \in DOMAIN threads'[j].in_queue :
                      threads'[j].in_queue[n] <= requests.next
      <3>1. /\ threads[j].busy <= requests.next
            /\ \A n \in DOMAIN threads[j].in_queue : threads[j].in_queue[n] <= requests.next
        BY DEF AlcIInv, DrawnInv
      <3>2. threads'[j].busy <= requests.next
        BY <1>2, <2>1, <3>1
      <3> QED  BY <1>3, <3>1, <3>2
    <2> QED  BY <1>1, <1>2, <2>2 DEF AlcIInv, DrawnInv, At
  <1>7. m \in Id => Queued(m)
    BY <1>2 DEF Queued, m
  <1>8. \A k \in Id : /\ Submitting(k)' => Submitting(k)
                      /\ Queued(k)' => Queued(k) /\ k # m
                      /\ Executing(k)' => Executing(k) \/ k = m
                      /\ Posted(k)' => Posted(k)
                      /\ Held(k)' => Held(k)
                      /\ Parked(k)' => Parked(k)
    <2>1. ASSUME NEW k \in Id, Queued(k)'
          PROVE  Queued(k) /\ k # m
      <3>1. PICK j \in DOMAIN threads, n \in Nat :
              n \in DOMAIN threads'[j].in_queue /\ threads'[j].in_queue[n] = k
        <4>1. PICK j \in DOMAIN threads' :
                \E n \in DOMAIN threads'[j].in_queue : threads'[j].in_queue[n] = k
          BY <2>1 DEF Queued
        <4>2. DOMAIN threads'[j].in_queue \subseteq Nat
          <5>1. threads'[j] \in ThreadRec
            BY <1>2, <4>1
          <5>2. threads'[j].in_queue \in Seq(Nat)
            BY <5>1 DEF ThreadRec
          <5> QED  BY <5>2
        <4> QED  BY <1>2, <4>1, <4>2
      <3>2. PICK p \in DOMAIN threads[j].in_queue :
              /\ threads'[j].in_queue[n] = threads[j].in_queue[p]
              /\ p = IF j = i THEN n + 1 ELSE n
        BY <1>3, <3>1
      <3>3. Queued(k)
        BY <3>1, <3>2 DEF Queued
      <3>4. ~(j = i /\ p = 1)
        BY <1>4, <3>1, <3>2
      <3>5. k # m
        BY <1>2, <3>1, <3>2, <3>4 DEF AlcIInv, FlowInv, OneQueue, Id, NoRequest, Told, m
      <3> QED  BY <3>3, <3>5
    <2>2. \A k \in Id : Executing(k)' => Executing(k) \/ k = m
      BY <1>2 DEF Executing
    <2>3. \A k \in Id : /\ Submitting(k)' => Submitting(k)
                        /\ Posted(k)' => Posted(k)
                        /\ Held(k)' => Held(k)
                        /\ Parked(k)' => Parked(k)
      BY <1>1 DEF Submitting, Posted, Held, Parked, At
    <2> QED  BY <2>1, <2>2, <2>3
  <1>9. OnePlace' /\ (m \in Id => ~Executing(m))
    BY <1>7, <1>8 DEF AlcIInv, FlowInv, OnePlace
  <1>10. OneThread'
    BY <1>2, <1>9 DEF AlcIInv, FlowInv, OneThread, Executing, Id, NoRequest
  <1>11. OneQueue'
    <2> SUFFICES ASSUME NEW j \in DOMAIN threads, NEW k \in DOMAIN threads,
                        NEW n \in DOMAIN threads'[j].in_queue,
                        NEW p \in DOMAIN threads'[k].in_queue,
                        threads'[j].in_queue[n] = threads'[k].in_queue[p],
                        threads'[j].in_queue[n] # Told
                 PROVE  j = k /\ n = p
      BY <1>2 DEF OneQueue
    <2>1. PICK nn \in DOMAIN threads[j].in_queue :
              /\ threads'[j].in_queue[n] = threads[j].in_queue[nn]
              /\ nn = IF j = i THEN n + 1 ELSE n
      BY <1>3
    <2>2. PICK pp \in DOMAIN threads[k].in_queue :
              /\ threads'[k].in_queue[p] = threads[k].in_queue[pp]
              /\ pp = IF k = i THEN p + 1 ELSE p
      BY <1>3
    <2>3. j = k /\ nn = pp
      <3>1. /\ threads[j].in_queue[nn] = threads[k].in_queue[pp]
            /\ threads[j].in_queue[nn] # Told
        BY <2>1, <2>2
      <3>2. OneQueue
        BY DEF AlcIInv, FlowInv
      <3> QED  BY <3>1, <3>2 DEF OneQueue
    <2>4. CASE j = i
      BY <1>4, <2>1, <2>2, <2>3, <2>4
    <2>5. CASE j # i
      BY <2>1, <2>2, <2>3, <2>5
    <2> QED  BY <2>3, <2>4, <2>5
  <1>12. FlowInv'
    BY <1>1, <1>9, <1>10, <1>11
    DEF AlcIInv, FlowInv, OneSubmitter, OnePosted, OneHolder, OneParked, At
  <1>13. AnswerInv'
    BY <1>1 DEF AlcIInv, AnswerInv
  <1>14. WorkerInv'
    <2>1. \A v \in 1..NumThreads : threads'[handles'[v]].worker = v
      BY <1>1, <1>2 DEF AlcIInv, WorkerInv, AlcTypeOK
    <2>2. ASSUME NEW d \in Callers, Busy(d)
          PROVE  \A j \in DOMAIN threads :
                   /\ threads'[j].busy = caller[d].id => threads'[j].worker = caller[d].worker
                   /\ \A n \in DOMAIN threads'[j].in_queue :
                        threads'[j].in_queue[n] = caller[d].id =>
                          threads'[j].worker = caller[d].worker
      <3>1. \A j \in DOMAIN threads :
                   /\ threads[j].busy = caller[d].id => threads[j].worker = caller[d].worker
                   /\ \A n \in DOMAIN threads[j].in_queue :
                        threads[j].in_queue[n] = caller[d].id =>
                          threads[j].worker = caller[d].worker
        BY <2>2 DEF AlcIInv, WorkerInv
      <3> QED  BY <1>2, <1>3, <3>1 DEF m
    <2> QED  BY <1>1, <1>2, <2>1, <2>2 DEF AlcIInv, WorkerInv, Busy, At
  <1>15. StoppedInv'
    <2>1. ASSUME NEW j \in DOMAIN threads, threads'[j].alive, IsTold(j)
          PROVE  IsTold(j)'
      <3>1. CASE j # i
        BY <1>2, <2>1, <3>1 DEF IsTold
      <3>2. CASE j = i
        <4>1. PICK n \in DOMAIN q : q[n] = Told
          BY <2>1, <3>2 DEF IsTold
        <4>2. n # 1
          BY <1>2, <2>1, <3>2, <4>1 DEF m
        <4> QED  BY <1>2, <3>2, <4>1, <4>2 DEF IsTold
      <3> QED  BY <3>1, <3>2
    <2>2. \A d \in Callers : /\ At(d, "idle")' <=> At(d, "idle")
                             /\ At(d, "spawn")' <=> At(d, "spawn")
                             /\ caller'[d].worker = caller[d].worker
      BY <1>1 DEF At
    <2>3. \A j \in DOMAIN threads : threads'[j].alive => threads[j].alive
      BY <1>2
    <2> QED  BY <1>1, <1>2, <2>1, <2>2, <2>3, StoppedKept
  <1> QED  BY <1>5, <1>6, <1>12, <1>13, <1>14, <1>15 DEF AlcIInv

(* ThreadAnswers: a request goes from its thread to the result queue.      *)
LEMMA ThreadAnswersIInv ==
    ASSUME AlcIInv, NEW i \in DOMAIN threads, ThreadAnswers(i)
    PROVE  AlcIInv'
  <1> DEFINE x == threads[i].busy
             n == Len(results) + 1
  <1>1. /\ AlcTypeOK /\ x # NoRequest
        /\ UNCHANGED <<handles, respawned, requests, caller, closed, shared>>
        /\ threads' = [threads EXCEPT ![i].busy = NoRequest]
    BY DEF AlcIInv, ThreadAnswers
  <1>2. PICK status \in {"success", "tainting"} :
          results' = Append(results, Result(x, status, threads[i].worker))
    BY DEF ThreadAnswers
  <1> DEFINE r == Result(x, status, threads[i].worker)
  <1>3. /\ r \in ResultRec /\ r.id = x /\ r.worker = threads[i].worker /\ x \in Nat
    BY <1>1, ThreadFacts DEF Result, ResultRec, Statuses
  <1> HIDE DEF r
  <1>4. /\ threads' \in Seq(ThreadRec) /\ DOMAIN threads' = DOMAIN threads
        /\ \A j \in DOMAIN threads :
             /\ threads'[j].worker = threads[j].worker
             /\ threads'[j].in_queue = threads[j].in_queue
             /\ threads'[j].alive = threads[j].alive
             /\ j # i => threads'[j] = threads[j]
        /\ threads'[i].busy = NoRequest
    BY <1>1, AlcAnswerFacts
  <1>5. /\ results' \in Seq(ResultRec) /\ n \in Nat
        /\ \A j \in DOMAIN results' :
             (j = n /\ results'[j] = r) \/ (j \in DOMAIN results /\ results'[j] = results[j])
    <2>1. results \in Seq(ResultRec) /\ results' = Append(results, r) /\ Len(results) \in Nat
      BY <1>1, <1>2 DEF AlcTypeOK, r
    <2>2. /\ Append(results, r) \in Seq(ResultRec)
          /\ DOMAIN Append(results, r) = 1..(Len(results) + 1)
          /\ DOMAIN results = 1..Len(results)
          /\ Append(results, r)[Len(results) + 1] = r
          /\ \A j \in 1..Len(results) : Append(results, r)[j] = results[j]
      BY <1>3, <2>1
    <2> QED  BY <2>1, <2>2
  <1> HIDE DEF n
  <1>6. AlcTypeOK' /\ requests.next \in Nat
    BY <1>1, <1>4, <1>5 DEF AlcTypeOK
  <1>7. x \in 1..requests.next /\ x \in Id /\ Executing(x)
    BY <1>1, <1>3, <1>6 DEF AlcIInv, DrawnInv, Id, NoRequest, Executing
  <1> HIDE DEF x
  <1>8. DrawnInv'
    <2>1. \A j \in DOMAIN threads' :
            /\ threads'[j].busy <= requests.next
            /\ \A p \in DOMAIN threads'[j].in_queue : threads'[j].in_queue[p] <= requests.next
      BY <1>4, <1>6 DEF AlcIInv, DrawnInv, NoRequest
    <2>2. \A j \in DOMAIN results' : results'[j].id \in 1..requests.next
      BY <1>3, <1>5, <1>7 DEF AlcIInv, DrawnInv
    <2> QED  BY <1>1, <2>1, <2>2 DEF AlcIInv, DrawnInv, At
  <1>9. \A k \in Id : /\ Submitting(k)' => Submitting(k)
                      /\ Queued(k)' => Queued(k)
                      /\ Executing(k)' => Executing(k) /\ k # x
                      /\ Posted(k)' => Posted(k) \/ k = x
                      /\ Held(k)' => Held(k)
                      /\ Parked(k)' => Parked(k)
    <2>1. \A k \in Id : Executing(k)' => Executing(k) /\ k # x
      BY <1>1, <1>4 DEF Executing, Id, AlcIInv, FlowInv, OneThread, x
    <2>2. \A k \in Id : Posted(k)' => Posted(k) \/ k = x
      BY <1>3, <1>5 DEF Posted
    <2> QED  BY <1>1, <1>4, <2>1, <2>2 DEF Submitting, Queued, Held, Parked, At
  <1>10. OnePlace' /\ ~Posted(x)
    BY <1>7, <1>9 DEF AlcIInv, FlowInv, OnePlace
  <1>11. OnePosted'
    BY <1>3, <1>5, <1>10 DEF AlcIInv, FlowInv, OnePosted, Posted
  <1>12. OneThread' /\ OneQueue'
    BY <1>4 DEF AlcIInv, FlowInv, OneThread, OneQueue
  <1>13. FlowInv'
    BY <1>1, <1>10, <1>11, <1>12
    DEF AlcIInv, FlowInv, OneSubmitter, OneHolder, OneParked, At
  <1>14. AnswerInv'
    BY <1>1 DEF AlcIInv, AnswerInv
  <1>15. WorkerInv'
    <2>1. \A v \in 1..NumThreads : threads'[handles'[v]].worker = v
      BY <1>1, <1>4 DEF AlcIInv, WorkerInv, AlcTypeOK
    <2>2. ASSUME NEW d \in Callers, Busy(d)
          PROVE  /\ \A j \in DOMAIN threads :
                      /\ threads'[j].busy = caller[d].id => threads'[j].worker = caller[d].worker
                      /\ \A p \in DOMAIN threads'[j].in_queue :
                           threads'[j].in_queue[p] = caller[d].id =>
                             threads'[j].worker = caller[d].worker
                 /\ \A j \in DOMAIN results' :
                      results'[j].id = caller[d].id => results'[j].worker = caller[d].worker
      <3>1. /\ caller[d].id # NoRequest
            /\ \A j \in DOMAIN threads :
                 /\ threads[j].busy = caller[d].id => threads[j].worker = caller[d].worker
                 /\ \A p \in DOMAIN threads[j].in_queue :
                      threads[j].in_queue[p] = caller[d].id =>
                        threads[j].worker = caller[d].worker
            /\ \A j \in DOMAIN results :
                 results[j].id = caller[d].id => results[j].worker = caller[d].worker
        BY <2>2 DEF AlcIInv, WorkerInv
      <3>2. \A j \in DOMAIN results' :
                      results'[j].id = caller[d].id => results'[j].worker = caller[d].worker
        BY <1>3, <1>5, <3>1 DEF x
      <3> QED  BY <1>4, <3>1, <3>2
    <2> QED  BY <1>1, <1>4, <2>1, <2>2 DEF AlcIInv, WorkerInv, Busy, At
  <1>16. StoppedInv'
    <2>1. \A j \in DOMAIN threads : IsTold(j) => IsTold(j)'
      BY <1>4 DEF IsTold
    <2>2. \A d \in Callers : /\ At(d, "idle")' <=> At(d, "idle")
                             /\ At(d, "spawn")' <=> At(d, "spawn")
                             /\ caller'[d].worker = caller[d].worker
      BY <1>1 DEF At
    <2> QED  BY <1>1, <1>4, <2>1, <2>2, StoppedKept
  <1> QED  BY <1>6, <1>8, <1>13, <1>14, <1>15, <1>16 DEF AlcIInv

(* AlcClose: every handle's thread is told to stop; the abandoned ones     *)
(* were.                                                                   *)
LEMMA AlcCloseIInv ==
    ASSUME AlcIInv, AlcClose
    PROVE  AlcIInv'
  <1> DEFINE stops(i) == \E w \in DOMAIN handles : handles[w] = i
             q(i) == Append(threads[i].in_queue, Told)
             x(i) == [threads[i] EXCEPT !.in_queue = q(i)]
  <1>1. /\ AlcTypeOK /\ \A c \in Callers : At(c, "idle")
        /\ closed' = TRUE
        /\ UNCHANGED <<handles, respawned, results, requests, caller, shared>>
        /\ threads' = [i \in DOMAIN threads |-> IF stops(i) THEN x(i) ELSE threads[i]]
    BY DEF AlcIInv, AlcClose
  <1>2. ASSUME NEW i \in DOMAIN threads
        PROVE  /\ x(i) \in ThreadRec /\ x(i).worker = threads[i].worker
               /\ x(i).busy = threads[i].busy /\ x(i).alive = threads[i].alive
               /\ x(i).in_queue = q(i)
               /\ \A p \in DOMAIN q(i) : \/ p \in DOMAIN threads[i].in_queue
                                            /\ q(i)[p] = threads[i].in_queue[p]
                                         \/ q(i)[p] = Told
               /\ \E p \in DOMAIN q(i) : q(i)[p] = Told
    <2> DEFINE u == threads[i].in_queue
               v == Append(u, Told)
    <2>1. /\ u \in Seq(Nat) /\ Told \in Nat
      BY <1>1, ThreadFacts DEF Told
    <2> HIDE DEF u
    <2>2. /\ v \in Seq(Nat) /\ Len(u) \in Nat /\ DOMAIN v = 1..(Len(u) + 1)
          /\ DOMAIN u = 1..Len(u)
          /\ v[Len(u) + 1] = Told /\ \A p \in 1..Len(u) : v[p] = u[p]
      BY <2>1
    <2> HIDE DEF v
    <2>3. /\ \A p \in DOMAIN v : (p \in DOMAIN u /\ v[p] = u[p]) \/ v[p] = Told
          /\ \E p \in DOMAIN v : v[p] = Told
      BY <2>2
    <2>4. q(i) = v
      BY DEF u, v
    <2> HIDE DEF q
    <2>5. /\ x(i) \in ThreadRec /\ x(i).worker = threads[i].worker
          /\ x(i).busy = threads[i].busy /\ x(i).alive = threads[i].alive
          /\ x(i).in_queue = q(i)
      BY <1>1, <2>2, <2>4, ThreadFacts DEF ThreadRec
    <2> QED  BY <2>3, <2>4, <2>5 DEF u
  <1> HIDE DEF x, q
  <1>3. /\ threads' \in Seq(ThreadRec) /\ DOMAIN threads' = DOMAIN threads
    <2>1. \A i \in DOMAIN threads : (IF stops(i) THEN x(i) ELSE threads[i]) \in ThreadRec
      BY <1>1, <1>2, ThreadFacts
    <2>2. DOMAIN threads = 1..Len(threads) /\ Len(threads) \in Nat
      BY <1>1 DEF AlcTypeOK
    <2> HIDE DEF stops
    <2> QED  BY <1>1, <2>1, <2>2
  <1>4. ASSUME NEW i \in DOMAIN threads
        PROVE  /\ threads'[i].worker = threads[i].worker
               /\ threads'[i].busy = threads[i].busy
               /\ threads'[i].alive = threads[i].alive
               /\ \A p \in DOMAIN threads'[i].in_queue :
                    \/ p \in DOMAIN threads[i].in_queue
                       /\ threads'[i].in_queue[p] = threads[i].in_queue[p]
                    \/ threads'[i].in_queue[p] = Told
               /\ stops(i) => IsTold(i)'
               /\ ~stops(i) => threads'[i] = threads[i]
    <2>1. CASE stops(i)
      <3>1. threads'[i] = x(i)
        BY <1>1, <2>1
      <3> HIDE DEF stops
      <3> QED  BY <1>2, <2>1, <3>1 DEF IsTold
    <2>2. CASE ~stops(i)
      <3>1. threads'[i] = threads[i]
        BY <1>1, <2>2
      <3> HIDE DEF stops
      <3> QED  BY <2>2, <3>1
    <2> QED  BY <2>1, <2>2
  <1>5. AlcTypeOK' /\ requests.next \in Nat
    BY <1>1, <1>3 DEF AlcTypeOK
  <1> HIDE DEF stops
  <1>6. DrawnInv'
    BY <1>1, <1>3, <1>4, <1>5 DEF AlcIInv, DrawnInv, At, Told
  <1>7. \A k \in Id : /\ Submitting(k)' => Submitting(k)
                      /\ Queued(k)' => Queued(k)
                      /\ Executing(k)' => Executing(k)
                      /\ Posted(k)' => Posted(k)
                      /\ Held(k)' => Held(k)
                      /\ Parked(k)' => Parked(k)
    <2>1. \A k \in Id : (Queued(k)' => Queued(k)) /\ (Executing(k)' => Executing(k))
      BY <1>3, <1>4 DEF Queued, Executing, Id, Told, NoRequest
    <2> QED  BY <1>1, <2>1 DEF Submitting, Posted, Held, Parked, At
  <1>8. OnePlace'
    BY <1>7 DEF AlcIInv, FlowInv, OnePlace
  <1>9. OneQueue' /\ OneThread'
    BY <1>3, <1>4 DEF AlcIInv, FlowInv, OneQueue, OneThread
  <1>10. FlowInv'
    BY <1>1, <1>8, <1>9
    DEF AlcIInv, FlowInv, OneSubmitter, OnePosted, OneHolder, OneParked, At
  <1>11. AnswerInv'
    BY <1>1 DEF AlcIInv, AnswerInv
  <1>12. \A c \in Callers : At(c, "idle")' /\ ~Busy(c)' /\ ~At(c, "spawn")'
    BY <1>1 DEF At, Busy
  <1>13. WorkerInv'
    BY <1>1, <1>3, <1>4, <1>12 DEF AlcIInv, WorkerInv, AlcTypeOK
  <1>14. StoppedInv'
    <2>1. ASSUME ~shared, NEW i \in DOMAIN threads, threads'[i].alive
          PROVE  IsTold(i)'
      <3>1. CASE stops(i)
        BY <1>4, <3>1
      <3>2. CASE ~stops(i)
        <4>1. \A w \in 1..NumThreads : handles[w] # i
          BY <1>1, <3>2 DEF stops, AlcTypeOK
        <4>2. IsTold(i)
          BY <1>4, <2>1, <4>1 DEF AlcIInv, StoppedInv
        <4>3. threads'[i] = threads[i]
          BY <1>4, <3>2
        <4> QED  BY <4>2, <4>3 DEF IsTold
      <3> QED  BY <3>1, <3>2
    <2> QED  BY <1>1, <1>3, <1>12, <2>1 DEF StoppedInv
  <1> QED  BY <1>5, <1>6, <1>10, <1>11, <1>13, <1>14 DEF AlcIInv

-----------------------------------------------------------------------------
LEMMA AlcNextIInv == AlcIInv /\ [AlcNext]_alcVars => AlcIInv'
  <1> SUFFICES ASSUME AlcIInv, [AlcNext]_alcVars PROVE AlcIInv'
    OBVIOUS
  <1>1. ASSUME NEW c \in Callers, Executes(c) PROVE AlcIInv'
    <2>1. CASE NothingParked(c)
      BY <2>1, LoopIInv DEF NothingParked
    <2>2. CASE NextChunk(c)
      BY <2>2, LoopIInv DEF NextChunk
    <2>3. CASE DeadlinePasses(c)
      BY <2>3, LoopIInv DEF DeadlinePasses
    <2> QED  BY <1>1, <2>1, <2>2, <2>3, SubmitPutIInv, TakeParkedIInv, GetResultIInv,
                ExecuteTimesOutIInv, ParkResultIInv, ReturnResultIInv, RespawnRaisesIInv,
                RespawnAbandonsIInv, RespawnSpawnsIInv DEF Executes
  <1>2. CASE UNCHANGED alcVars
    BY <1>2 DEF alcVars, AlcIInv, AlcTypeOK, DrawnInv, FlowInv, OnePlace, OneSubmitter, OneQueue,
       OneThread, OnePosted, OneHolder, OneParked, AnswerInv, WorkerInv, StoppedInv, Busy, IsTold,
       At, Submitting, Queued, Executing, Posted, Held, Parked
  <1> QED  BY <1>1, <1>2, SubmitIdIInv, ThreadTakesIInv, ThreadAnswersIInv, AlcCloseIInv
           DEF AlcNext

THEOREM AlcInvariance == AlcSpec => []AlcIInv
  BY AlcInitIInv, AlcNextIInv, PTL DEF AlcSpec

(* However many callers share the result queue of an ALC pool, and however *)
(* late an abandoned thread answers, execute returns its own answer or a   *)
(* timeout, and no answer waits for two callers (alc_worker_pool.py        *)
(* execute, _ready_results).                                               *)
THEOREM AnswersAreOwn == AlcSpec => []AnswersReachTheirCaller
  <1>1. AlcIInv => AnswersReachTheirCaller
    BY DEF AlcIInv, FlowInv, OneParked, AnswerInv, AnswersReachTheirCaller
  <1> QED  BY <1>1, AlcInvariance, PTL

(* close reaches every thread the pool ever spawned, respawned ones and    *)
(* abandoned ones included, as long as no worker had two callers at once   *)
(* (alc_worker_pool.py respawn_worker, close).                             *)
THEOREM CloseStopsThreads == AlcSpec => []ThreadsAreStopped
  <1>1. AlcIInv => ThreadsAreStopped
    BY DEF AlcIInv, StoppedInv, IsTold, ThreadsAreStopped
  <1> QED  BY <1>1, AlcInvariance, PTL

-----------------------------------------------------------------------------

(* Whichever of the ways a process drives its workers by, the guarantees of *)
(* the batch (dispatch_work_items) and of execute hold of the composition,  *)
(* as the run of WorkerPools checks them.                                   *)
THEOREM BothDispatches ==
    PoolsSpec => [](/\ ItemsEndWithTheirOwnResult /\ RetriesAreBounded /\ HolderStepsOnItsContext
                    /\ AnswersReachTheirCaller /\ ThreadsAreStopped)
  <1>1. [PoolsNext]_poolsVars => [Next]_vars /\ [AlcNext]_alcVars
    BY DEF PoolsNext, poolsVars
  <1>2. PoolsInit => Init /\ AlcInit
    BY DEF PoolsInit
  <1>3. PoolsSpec => Spec /\ AlcSpec
    BY <1>1, <1>2, PTL DEF PoolsSpec, Spec, AlcSpec
  <1> QED  BY <1>3, OwnResults, BoundedRetries, HolderOnItsContext, AnswersAreOwn, CloseStopsThreads, PTL
=============================================================================
