-------------------------- MODULE WholeRunPoolProofs --------------------------
(***************************************************************************)
(* Proofs about WholeRunPool, for any number of workers, contexts, batches *)
(* and calls.                                                              *)
(*                                                                         *)
(* A Lease is a belief of the controller about a process it cannot see.    *)
(* What makes it true when the Holder Step runs is the order of things:    *)
(* request ids grow along every input queue (IdInv), an answer leaves      *)
(* nothing older behind it (AnswerInv), so when the results of a call are  *)
(* settled the leased worker's queue is empty; from then on whatever would *)
(* move that worker to the same context again goes through _route, which   *)
(* drops the slot's Leases first (LeaseInv, HolderInv).  A Lease issued by *)
(* an earlier item is not claimed to be true while a later item of the     *)
(* same context is still to be settled.                                    *)
(***************************************************************************)
EXTENDS WholeRunPool, TLAPS

ItemRec ==
    [ctx : Contexts \cup {NoContext}, kind : {"sub_branch", "continuation"}, resolve : BOOLEAN]
RequestRec ==
    [id : Nat, mode : {"bootstrap", "holder", "explore"}, item : ItemRec, lease : Lease]
Place == [ctx : Contexts \cup {NoContext}, by : Nat]
WorkerRec ==
    [proc : {"starting", "up", "dead"}, gen : Nat \ {0}, inbox : Seq(RequestRec),
     current : Contexts \cup {NoContext}, reached : Place]
Message ==
    [tag : {"ready", "startup_fault"}, slot : Slots] \cup [tag : {"answer"}, result : Result]
PendingRec == [id : Nat, slot : Slots]
CallRec ==
    [kind : {"none", "dispatch", "execute", "explore", "respawn"}, items : Seq(ItemRec),
     pin : Slots \cup {-1}, pending : Seq(PendingRec), results : Seq(Result),
     remaining : SUBSET Nat, index : Nat, hung : SUBSET Slots, target : Slots \cup {-1},
     settled : Nat]
AttemptRec ==
    [stage : {"none", "establish", "pair", "replay"}, ctx : Contexts \cup {NoContext},
     holder : Slots \cup {-1}]

Types ==
    /\ workers \in [Slots -> WorkerRec]
    /\ resq \in Seq(Message)
    /\ leases \in [Contexts -> Lease]
    /\ next_id \in Nat /\ boot_index \in Nat
    /\ pc \in {"idle", "route", "wait", "respawn", "ready"}
    /\ call \in CallRec
    /\ attempt \in AttemptRec
    /\ outcome \in {"none", "returned", "no_lease", "closed", "unpack", "startup", "empty"}

(* The call in progress.                                                   *)
CallInv ==
    /\ pc = "idle" => call = NoCall
    /\ DOMAIN call.results = DOMAIN call.items
    /\ call.remaining \subseteq DOMAIN call.pending
    /\ Len(call.pending) <= Len(call.items)
    /\ call.kind = "dispatch" => \A k \in DOMAIN call.items : call.items[k].ctx \in Contexts
    /\ pc = "route" =>
         /\ call.kind = "dispatch" /\ call.settled = 0
         /\ Len(call.pending) < Len(call.items)
    /\ pc \notin {"idle", "route"} /\ call.kind = "dispatch" =>
         Len(call.pending) = Len(call.items)
    /\ call.settled > 0 =>
         pc = "wait" /\ call.remaining = {} /\ call.kind = "dispatch"
    /\ pc = "ready" => call.target \in Slots /\ workers[call.target].inbox = <<>>

(* Request ids: the call's are the last ones drawn, those of a queue grow, *)
(* and the call's requests in a queue are still waited for.                *)
Base == next_id - Len(call.pending)
IdInv ==
    /\ Base \in Nat
    /\ \A k \in DOMAIN call.pending : call.pending[k].id = Base + k
    /\ \A s \in Slots : \A i \in DOMAIN workers[s].inbox :
         LET r == workers[s].inbox[i] IN
         /\ r.id \in 1..next_id
         /\ \A j \in DOMAIN workers[s].inbox : i < j => r.id < workers[s].inbox[j].id
         /\ r.id > Base =>
              /\ r.id - Base \in call.remaining
              /\ call.pending[r.id - Base].slot = s
              /\ call.items[r.id - Base] = r.item

(* Only the Main worker explores, and it is asked nothing else.            *)
ModeInv ==
    /\ \A s \in Slots : \A i \in DOMAIN workers[s].inbox :
         LET r == workers[s].inbox[i] IN
         /\ r.mode = "explore" <=> s = MAIN_WORKER_SLOT
         /\ r.mode # "explore" => r.item.ctx \in Contexts
    /\ workers[MAIN_WORKER_SLOT].current = NoContext
    /\ \A s \in Slots :
         workers[s].current # NoContext => workers[s].reached.ctx = workers[s].current

(* Answers, on their way or taken.                                         *)
LastOfItsContext(k) ==
    \A j \in DOMAIN call.pending : j > k => call.items[j].ctx # call.items[k].ctx
Fits(k, a) ==
    /\ call.pending[k].slot = a.slot
    /\ a.lease # NoLease /\ a.lease.gen = workers[a.slot].gen /\ LastOfItsContext(k) =>
         (call.items[k].ctx \in Contexts /\ workers[a.slot].current = call.items[k].ctx =>
            workers[a.slot].reached.by = a.lease.by)
IsAnswer(a) ==
    /\ a.id \in 1..next_id /\ a.slot \in Slots
    /\ a.lease # NoLease =>
         a.lease.slot = a.slot /\ a.slot \in BranchSlots /\ a.lease.gen \in 1..workers[a.slot].gen
    /\ \A i \in DOMAIN workers[a.slot].inbox : a.id < workers[a.slot].inbox[i].id
    /\ a.mode = "holder" /\ a.ok => a.own
    /\ a.id > Base => Fits(a.id - Base, a)
NotAnswered(a) == a.id = 0 /\ a.lease = NoLease /\ ~a.ok
AnswerInv ==
    /\ \A i \in DOMAIN resq : resq[i].tag = "answer" => IsAnswer(resq[i].result)
    /\ \A k \in DOMAIN call.results :
         \/ NotAnswered(call.results[k])
         \/ /\ k \in DOMAIN call.pending /\ call.results[k].id = call.pending[k].id
            /\ IsAnswer(call.results[k])

(* The controller's Leases, and those that Holder Steps carry.             *)
Establishes(r, c) == r.mode = "bootstrap" /\ ~r.item.resolve /\ r.item.ctx = c
Unsettled(c) ==
    call.settled > 0 /\ \E k \in DOMAIN call.items : k > call.settled /\ call.items[k].ctx = c
HoldsFor(w, l, c) ==
    /\ w.current = c => w.reached.by = l.by
    /\ \A i \in DOMAIN w.inbox : ~Establishes(w.inbox[i], c)
LeaseInv ==
    \A c \in Contexts : leases[c] # NoLease =>
      /\ leases[c].slot \in BranchSlots /\ leases[c].gen \in 1..workers[leases[c].slot].gen
      /\ leases[c].gen = workers[leases[c].slot].gen /\ ~Unsettled(c) =>
           HoldsFor(workers[leases[c].slot], leases[c], c)
HolderInv ==
    \A s \in Slots : \A i \in DOMAIN workers[s].inbox :
      LET r == workers[s].inbox[i] IN
      r.mode = "holder" =>
        /\ r.lease.slot = s /\ r.lease.gen = workers[s].gen
        /\ workers[s].current = r.item.ctx => workers[s].reached.by = r.lease.by
        /\ \A j \in DOMAIN workers[s].inbox :
             j < i => ~Establishes(workers[s].inbox[j], r.item.ctx)

(* run_choice_branch pins its Holder item to the slot of the Lease.        *)
HolderIs(s) == leases[attempt.ctx] = NoLease \/ leases[attempt.ctx].slot = s
AttemptInv ==
    /\ attempt.stage # "none" => user = "choice_runner" /\ attempt.ctx \in Contexts
    /\ call.pin # -1 => attempt.stage = "pair" /\ call.pin = attempt.holder
    /\ attempt.stage = "establish" =>
         /\ pc # "idle" /\ call.kind = "dispatch"
         /\ call.items = <<Item(attempt.ctx, "sub_branch", FALSE)>>
         /\ call.settled > 0 => HolderIs(call.results[1].slot)
    /\ attempt.stage = "pair" =>
         /\ pc \in {"idle", "route"} => HolderIs(attempt.holder)
         /\ pc # "idle" =>
              /\ call.kind = "dispatch"
              /\ call.items = <<Item(attempt.ctx, "continuation", TRUE),
                                Item(attempt.ctx, "sub_branch", TRUE)>>

IInv ==
    /\ Types /\ CallInv /\ IdInv /\ ModeInv /\ AnswerInv
    /\ LeaseInv /\ HolderInv /\ AttemptInv

-----------------------------------------------------------------------------
LEMMA SlotFacts ==
    /\ MAIN_WORKER_SLOT \in Slots /\ MAIN_WORKER_SLOT \notin BranchSlots
    /\ BranchSlots \subseteq Slots /\ Slots \subseteq Nat
    /\ -1 \notin Slots /\ -1 \notin BranchSlots
  BY PoolAssumption DEF MAIN_WORKER_SLOT, Slots, BranchSlots

LEMMA RecordFacts ==
    /\ NoLease \in Lease /\ NoLease.slot = -1
    /\ NoResult \in Result /\ NoResult.id = 0 /\ NoResult.lease = NoLease /\ ~NoResult.ok
    /\ NoItem \in ItemRec
    /\ NoAttempt \in AttemptRec /\ NoAttempt.stage = "none"
    /\ Nowhere \in Place
  <1>1. NoLease \in Lease /\ NoLease.slot = -1
    BY DEF NoLease, Lease
  <1>2. NoResult \in Result /\ NoResult.id = 0 /\ NoResult.lease = NoLease /\ ~NoResult.ok
    BY <1>1 DEF NoResult, Result
  <1> QED  BY <1>1, <1>2 DEF NoItem, ItemRec, NoAttempt, AttemptRec, Nowhere, Place

LEMMA NoCallFacts ==
    /\ NoCall \in CallRec /\ NoCall.pending = <<>> /\ NoCall.items = <<>>
    /\ NoCall.results = <<>> /\ NoCall.remaining = {} /\ NoCall.settled = 0
    /\ NoCall.kind = "none" /\ NoCall.pin = -1 /\ NoCall.hung = {}
    /\ Len(NoCall.pending) = 0 /\ Len(NoCall.items) = 0
    /\ DOMAIN NoCall.pending = {} /\ DOMAIN NoCall.items = {} /\ DOMAIN NoCall.results = {}
  BY DEF NoCall, CallRec

LEMMA WorkerFacts ==
    ASSUME Types
    PROVE  \A s \in Slots :
             /\ workers[s] \in WorkerRec /\ workers[s].gen \in Nat \ {0}
             /\ workers[s].inbox \in Seq(RequestRec)
             /\ Len(workers[s].inbox) \in Nat
             /\ DOMAIN workers[s].inbox = 1..Len(workers[s].inbox)
             /\ \A i \in DOMAIN workers[s].inbox : workers[s].inbox[i] \in RequestRec
             /\ workers[s].current \in Contexts \cup {NoContext} /\ workers[s].reached \in Place
  <1>1. \A s \in Slots : workers[s] \in WorkerRec
    BY DEF Types
  <1>2. \A s \in Slots : workers[s].inbox \in Seq(RequestRec)
    BY <1>1 DEF WorkerRec
  <1> QED  BY <1>1, <1>2 DEF WorkerRec

LEMMA CallFacts ==
    ASSUME Types
    PROVE  /\ call.items \in Seq(ItemRec) /\ Len(call.items) \in Nat
           /\ DOMAIN call.items = 1..Len(call.items)
           /\ \A k \in DOMAIN call.items : call.items[k] \in ItemRec
           /\ call.pending \in Seq(PendingRec) /\ Len(call.pending) \in Nat
           /\ DOMAIN call.pending = 1..Len(call.pending)
           /\ \A k \in DOMAIN call.pending : call.pending[k] \in PendingRec
           /\ call.results \in Seq(Result)
           /\ \A k \in DOMAIN call.results : call.results[k] \in Result
           /\ call.remaining \subseteq Nat /\ call.hung \subseteq Slots /\ call.settled \in Nat
           /\ call.index \in Nat /\ call.pin \in Slots \cup {-1}
  <1>1. call \in CallRec
    BY DEF Types
  <1>2. /\ call.items \in Seq(ItemRec) /\ call.pending \in Seq(PendingRec)
        /\ call.results \in Seq(Result) /\ call.remaining \subseteq Nat
        /\ call.hung \subseteq Slots /\ call.settled \in Nat
        /\ call.index \in Nat /\ call.pin \in Slots \cup {-1}
    BY <1>1 DEF CallRec
  <1> QED  BY <1>2

LEMMA FreshFacts ==
    ASSUME NEW g \in Nat \ {0}, NEW p \in {"starting", "up", "dead"}, NEW x,
           x = [Fresh(g) EXCEPT !.proc = p]
    PROVE  /\ x \in WorkerRec /\ x.gen = g /\ x.inbox = <<>> /\ DOMAIN x.inbox = {}
           /\ x.current = NoContext
  <1>1. <<>> \in Seq(RequestRec) /\ DOMAIN <<>> = {}
    OBVIOUS
  <1>2. NoContext \in Contexts \cup {NoContext} /\ Nowhere \in Place
    BY RecordFacts
  <1>3. x = [proc |-> p, gen |-> g, inbox |-> <<>>, current |-> NoContext, reached |-> Nowhere]
    BY DEF Fresh
  <1>4. x.gen = g /\ x.inbox = <<>> /\ x.current = NoContext
    BY <1>3
  <1>5. x \in WorkerRec
    <2>1. ASSUME NEW ib \in Seq(RequestRec), NEW c \in Contexts \cup {NoContext},
                 NEW pl \in Place
          PROVE  [proc |-> p, gen |-> g, inbox |-> ib, current |-> c, reached |-> pl] \in WorkerRec
      BY DEF WorkerRec
    <2>2. PICK ib \in Seq(RequestRec) : ib = <<>>
      BY <1>1
    <2>3. x = [proc |-> p, gen |-> g, inbox |-> ib, current |-> NoContext, reached |-> Nowhere]
      BY <1>3, <2>2, Zenon
    <2>4. [proc |-> p, gen |-> g, inbox |-> ib, current |-> NoContext, reached |-> Nowhere]
            \in WorkerRec
      BY <1>2, <2>1, <2>2
    <2> QED  BY <2>3, <2>4
  <1> QED  BY <1>1, <1>4, <1>5

LEMMA InitIInv == Init => IInv
  <1> SUFFICES ASSUME Init PROVE IInv
    OBVIOUS
  <1>1. \A s \in Slots :
          /\ workers[s] \in WorkerRec /\ workers[s].inbox = <<>> /\ workers[s].current = NoContext
          /\ DOMAIN workers[s].inbox = {}
    <2>1. ASSUME NEW s \in Slots PROVE workers[s] = [Fresh(1) EXCEPT !.proc = "up"]
      BY DEF Init
    <2> QED  BY <2>1, FreshFacts
  <1>2. workers \in [Slots -> WorkerRec]
    BY <1>1 DEF Init
  <1>3. leases \in [Contexts -> Lease] /\ \A c \in Contexts : leases[c] = NoLease
    BY RecordFacts DEF Init
  <1>4. Types
    BY <1>2, <1>3, RecordFacts, NoCallFacts DEF Init, Types
  <1>5. call = NoCall /\ pc = "idle" /\ attempt = NoAttempt /\ next_id = 0 /\ resq = <<>>
        /\ DOMAIN resq = {}
    BY DEF Init
  <1>6. CallInv /\ IdInv
    BY <1>1, <1>5, NoCallFacts DEF CallInv, IdInv, Base
  <1>7. ModeInv /\ HolderInv
    BY <1>1, SlotFacts DEF ModeInv, HolderInv
  <1>8. AnswerInv /\ LeaseInv
    BY <1>3, <1>5, NoCallFacts DEF AnswerInv, LeaseInv
  <1>9. AttemptInv
    BY <1>5, NoCallFacts, RecordFacts DEF AttemptInv
  <1> QED  BY <1>4, <1>6, <1>7, <1>8, <1>9 DEF IInv

-----------------------------------------------------------------------------
(* Steps that neither move a session nor answer: processes come up, die    *)
(* and are stopped.                                                        *)
LEMMA WorkersQuiet ==
    ASSUME IInv, workers' \in [Slots -> WorkerRec], resq' \in Seq(Message),
           \A s \in Slots :
             /\ workers'[s].gen = workers[s].gen /\ workers'[s].current = workers[s].current
             /\ workers'[s].reached = workers[s].reached
             /\ workers'[s].inbox = workers[s].inbox \/ workers'[s].inbox = <<>>,
           \A i \in DOMAIN resq' : resq'[i].tag = "answer" =>
             \E j \in DOMAIN resq : resq[j] = resq'[i],
           UNCHANGED <<leases, next_id, boot_index, pc, call, attempt, outcome, user>>
    PROVE  IInv'
  <1>1. Types'
    BY DEF IInv, Types
  <1>2. ASSUME NEW s \in Slots, NEW i \in DOMAIN workers'[s].inbox
        PROVE  workers'[s].inbox = workers[s].inbox /\ i \in DOMAIN workers[s].inbox
    <2>1. DOMAIN <<>> = {}
      OBVIOUS
    <2> QED  BY <1>2, <2>1
  <1>3. CallInv'
    BY DEF IInv, CallInv
  <1>4. IdInv'
    BY <1>2 DEF IInv, IdInv, Base
  <1>5. ModeInv'
    BY <1>2, SlotFacts DEF IInv, ModeInv
  <1>6. ASSUME NEW a, IsAnswer(a) PROVE IsAnswer(a)'
    BY <1>2, <1>6 DEF IsAnswer, Fits, LastOfItsContext, Base
  <1>7. AnswerInv'
    BY <1>6 DEF IInv, AnswerInv, NotAnswered
  <1>8. LeaseInv'
    <2>1. \A c \in Contexts : Unsettled(c)' <=> Unsettled(c)
      BY DEF Unsettled
    <2>2. ASSUME NEW c \in Contexts, leases[c] # NoLease
          PROVE  /\ leases[c].slot \in BranchSlots /\ leases[c].slot \in Slots
                 /\ leases[c].gen \in 1..workers'[leases[c].slot].gen
                 /\ leases[c].gen = workers'[leases[c].slot].gen /\ ~Unsettled(c) =>
                      HoldsFor(workers'[leases[c].slot], leases[c], c)
      <3>1. leases[c].slot \in BranchSlots /\ leases[c].slot \in Slots
        BY <2>2, SlotFacts DEF IInv, LeaseInv
      <3> QED  BY <1>2, <2>2, <3>1 DEF IInv, LeaseInv, HoldsFor
    <2> QED  BY <2>1, <2>2 DEF LeaseInv
  <1>9. HolderInv'
    BY <1>2 DEF IInv, HolderInv, Establishes
  <1>10. AttemptInv'
    BY DEF IInv, AttemptInv, HolderIs
  <1> QED  BY <1>1, <1>3, <1>4, <1>5, <1>7, <1>8, <1>9, <1>10 DEF IInv

-----------------------------------------------------------------------------
(* A worker takes its oldest request and answers it.                       *)
LEMMA WorkerAnswers ==
    ASSUME IInv, NEW s \in Slots, workers[s].inbox # <<>>,
           NEW r, r = Head(workers[s].inbox),
           NEW x \in WorkerRec, workers' = [workers EXCEPT ![s] = x],
           x.inbox = Tail(workers[s].inbox), x.gen = workers[s].gen,
           x.current # NoContext =>
             /\ r.mode # "explore" /\ x.current = r.item.ctx /\ ~r.item.resolve
             /\ x.reached.ctx = x.current /\ x.reached = Reach(workers[s], r)
             /\ r.mode = "holder" => workers[s].current = r.item.ctx,
           NEW a \in Result, resq' = Append(resq, [tag |-> "answer", result |-> a]),
           a.id = r.id, a.slot = s,
           a.lease # NoLease =>
             /\ r.mode # "explore" /\ a.lease.slot = s /\ a.lease.gen = workers[s].gen
             /\ a.lease.by = x.reached.by,
           a.mode = "holder" /\ a.ok => a.own,
           UNCHANGED <<leases, next_id, boot_index, pc, call, attempt, outcome, user>>
    PROVE  IInv'
  <1>0. workers \in [Slots -> WorkerRec] /\ resq \in Seq(Message) /\ Types
    BY DEF IInv, Types
  <1>1. /\ workers' \in [Slots -> WorkerRec] /\ workers'[s] = x
        /\ \A t \in Slots : t # s => workers'[t] = workers[t]
    BY <1>0
  <1>2. Types'
    <2>1. [tag |-> "answer", result |-> a] \in Message
      BY DEF Message
    <2>2. resq' \in Seq(Message)
      BY <1>0, <2>1
    <2> QED  BY <1>1, <2>2 DEF IInv, Types
  <1>3. /\ 1 \in DOMAIN workers[s].inbox /\ r = workers[s].inbox[1]
        /\ \A i \in DOMAIN x.inbox :
             i \in Nat /\ i + 1 \in DOMAIN workers[s].inbox /\ x.inbox[i] = workers[s].inbox[i + 1]
    <2>1. workers[s].inbox \in Seq(RequestRec)
      BY <1>0, WorkerFacts
    <2> QED  BY <2>1
  <1>4. ASSUME NEW t \in Slots, NEW i \in DOMAIN workers'[t].inbox
        PROVE  \E j \in DOMAIN workers[t].inbox :
                 /\ workers'[t].inbox[i] = workers[t].inbox[j]
                 /\ (t # s /\ j = i) \/ (t = s /\ j = i + 1)
    <2>1. CASE t = s
      <3>1. i \in DOMAIN x.inbox /\ workers'[t].inbox[i] = x.inbox[i]
        BY <1>1, <2>1
      <3> QED  BY <1>3, <2>1, <3>1
    <2>2. CASE t # s
      BY <1>1, <2>2
    <2> QED  BY <2>1, <2>2
  <1>5. /\ r.id \in 1..next_id
        /\ \A i \in DOMAIN x.inbox : r.id < x.inbox[i].id
        /\ r.id > Base =>
             /\ r.id - Base \in call.remaining
             /\ call.pending[r.id - Base].slot = s
             /\ call.items[r.id - Base] = r.item
    <2>1. \A i \in DOMAIN x.inbox : 1 < i + 1
      BY <1>3
    <2> QED  BY <1>3, <2>1 DEF IInv, IdInv
  <1>6. CallInv'
    <2>1. pc = "ready" => call.target # s
      BY DEF IInv, CallInv
    <2> QED  BY <1>1, <2>1 DEF IInv, CallInv
  <1>7. IdInv'
    <2>1. ASSUME NEW t \in Slots, NEW i \in DOMAIN workers'[t].inbox,
                 NEW j \in DOMAIN workers'[t].inbox, i < j
          PROVE  workers'[t].inbox[i].id < workers'[t].inbox[j].id
      <3>1. CASE t = s
        <4>1. i + 1 < j + 1 /\ workers'[t].inbox[i] = workers[t].inbox[i + 1]
              /\ workers'[t].inbox[j] = workers[t].inbox[j + 1]
              /\ i + 1 \in DOMAIN workers[t].inbox /\ j + 1 \in DOMAIN workers[t].inbox
          <5>1. i \in DOMAIN x.inbox /\ j \in DOMAIN x.inbox /\ workers'[t] = x
            BY <1>1, <3>1
          <5>2. i \in Nat /\ j \in Nat
            BY <1>3, <5>1
          <5>3. i + 1 < j + 1
            BY <2>1, <5>2
          <5>4. /\ x.inbox[i] = workers[s].inbox[i + 1] /\ i + 1 \in DOMAIN workers[s].inbox
                /\ x.inbox[j] = workers[s].inbox[j + 1] /\ j + 1 \in DOMAIN workers[s].inbox
            BY <1>3, <5>1
          <5> QED  BY <3>1, <5>1, <5>3, <5>4
        <4> QED  BY <4>1 DEF IInv, IdInv
      <3>2. CASE t # s
        BY <1>1, <2>1, <3>2 DEF IInv, IdInv
      <3> QED  BY <3>1, <3>2
    <2>2. Base' = Base
      BY DEF Base
    <2>3. ASSUME NEW t \in Slots, NEW i \in DOMAIN workers'[t].inbox, NEW q,
                 q = workers'[t].inbox[i]
          PROVE  /\ q.id \in 1..next_id
                 /\ q.id > Base =>
                      /\ q.id - Base \in call.remaining
                      /\ call.pending[q.id - Base].slot = t
                      /\ call.items[q.id - Base] = q.item
      <3>1. PICK j \in DOMAIN workers[t].inbox : q = workers[t].inbox[j]
        BY <1>4, <2>3
      <3> QED  BY <3>1 DEF IInv, IdInv
    <2>4. Base \in Nat /\ \A k \in DOMAIN call.pending : call.pending[k].id = Base + k
      BY DEF IInv, IdInv
    <2> QED  BY <2>1, <2>2, <2>3, <2>4 DEF IdInv
  <1>8. ASSUME x.current # NoContext PROVE s # MAIN_WORKER_SLOT
    BY <1>3, <1>8 DEF IInv, ModeInv
  <1>9. ModeInv'
    <2>1. workers'[MAIN_WORKER_SLOT].current = NoContext
      BY <1>1, <1>8, SlotFacts DEF IInv, ModeInv
    <2>2. ASSUME NEW t \in Slots, workers'[t].current # NoContext
          PROVE  workers'[t].reached.ctx = workers'[t].current
      BY <1>1, <2>2 DEF IInv, ModeInv
    <2> QED  BY <1>4, <2>1, <2>2 DEF IInv, ModeInv

  <1>10. ASSUME NEW b, IsAnswer(b) PROVE IsAnswer(b)'
    <2>1. b.id \in 1..next_id /\ b.slot \in Slots
      BY <1>10 DEF IsAnswer
    <2>2. \A i \in DOMAIN workers'[b.slot].inbox : b.id < workers'[b.slot].inbox[i].id
      BY <1>4, <1>10, <2>1 DEF IsAnswer
    <2>3. workers'[b.slot].gen = workers[b.slot].gen
      BY <1>1, <2>1
    <2>4. ASSUME b.id > Base PROVE Fits(b.id - Base, b)'
      <3> DEFINE k == b.id - Base
      <3>1. Fits(k, b)
        BY <1>10, <2>4 DEF IsAnswer
      <3>2. CASE b.slot # s
        BY <1>1, <2>1, <3>1, <3>2 DEF Fits, LastOfItsContext, Base
      <3>3. CASE b.slot = s
        <4>1. SUFFICES ASSUME LastOfItsContext(k), call.items[k].ctx \in Contexts,
                              x.current = call.items[k].ctx
                       PROVE  FALSE
          BY <1>1, <3>1, <3>3 DEF Fits, LastOfItsContext, Base
        <4>2. x.current # NoContext
          BY <4>1, PoolAssumption
        <4>3. b.id < r.id /\ Base \in Nat
          BY <1>3, <1>10, <3>3 DEF IsAnswer, IInv, IdInv
        <4>4. r.id - Base \in DOMAIN call.pending /\ r.id - Base > k
              /\ call.items[r.id - Base] = r.item
          BY <1>5, <2>1, <2>4, <4>3 DEF IInv, CallInv
        <4> QED  BY <4>1, <4>2, <4>4 DEF LastOfItsContext
      <3> QED  BY <3>2, <3>3
    <2> QED  BY <1>10, <2>1, <2>2, <2>3, <2>4 DEF IsAnswer, Base
  <1>11. IsAnswer(a)'
    <2>1. s \in BranchSlots \/ r.mode = "explore"
      BY <1>3 DEF IInv, ModeInv, Slots
    <2>2. a.lease # NoLease => a.lease.gen \in 1..workers'[s].gen
      BY <1>0, <1>1, WorkerFacts
    <2>3. Base' = Base
      BY DEF Base
    <2>4. a.id > Base => Fits(a.id - Base, a)'
      BY <1>1, <1>5, <2>3 DEF Fits
    <2>5. \A i \in DOMAIN workers'[a.slot].inbox : a.id < workers'[a.slot].inbox[i].id
      BY <1>1, <1>5
    <2> QED  BY <1>5, <2>1, <2>2, <2>3, <2>4, <2>5 DEF IsAnswer
  <1>12. AnswerInv'
    <2>1. \A i \in DOMAIN resq' :
            resq'[i] = [tag |-> "answer", result |-> a] \/ \E j \in DOMAIN resq : resq[j] = resq'[i]
      BY <1>0
    <2>2. \A i \in DOMAIN resq' : resq'[i].tag = "answer" =>
            resq'[i].result = a \/ \E j \in DOMAIN resq : resq[j] = resq'[i]
      BY <2>1
    <2> QED  BY <1>10, <1>11, <2>2 DEF IInv, AnswerInv, NotAnswered
  <1>13. ASSUME NEW c \in Contexts, x.current = c, ~Establishes(r, c)
         PROVE  workers[s].current = c /\ x.reached = workers[s].reached
    <2>1. c # NoContext
      BY PoolAssumption
    <2>2. r.mode # "bootstrap" /\ r.mode # "explore"
      BY <1>13, <2>1 DEF Establishes
    <2>3. r \in RequestRec
      BY <1>0, <1>3, WorkerFacts
    <2>4. r.mode = "holder"
      BY <2>2, <2>3 DEF RequestRec
    <2> QED  BY <1>13, <2>1, <2>4 DEF Reach
  <1>14. LeaseInv'
    <2>1. \A c \in Contexts : Unsettled(c)' <=> Unsettled(c)
      BY DEF Unsettled
    <2>2. ASSUME NEW c \in Contexts, leases[c] # NoLease
          PROVE  /\ leases[c].slot \in BranchSlots
                 /\ leases[c].gen \in 1..workers'[leases[c].slot].gen
                 /\ leases[c].gen = workers'[leases[c].slot].gen /\ ~Unsettled(c) =>
                      HoldsFor(workers'[leases[c].slot], leases[c], c)
      <3>1. /\ leases[c].slot \in BranchSlots /\ leases[c].slot \in Slots
            /\ leases[c].gen \in 1..workers[leases[c].slot].gen
            /\ leases[c].gen = workers[leases[c].slot].gen /\ ~Unsettled(c) =>
                 HoldsFor(workers[leases[c].slot], leases[c], c)
        BY <2>2, SlotFacts DEF IInv, LeaseInv
      <3>2. CASE leases[c].slot # s
        BY <1>1, <3>1, <3>2
      <3>3. CASE leases[c].slot = s
        <4>1. HoldsFor(workers[s], leases[c], c) => HoldsFor(x, leases[c], c)
          BY <1>3, <1>13 DEF HoldsFor
        <4> QED  BY <1>1, <3>1, <3>3, <4>1
      <3> QED  BY <3>2, <3>3
    <2>3. leases' = leases
      OBVIOUS
    <2> QED  BY <2>1, <2>2, <2>3 DEF LeaseInv
  <1>15. HolderInv'
    <2>1. SUFFICES ASSUME NEW t \in Slots, NEW i \in DOMAIN workers'[t].inbox,
                          NEW q, q = workers'[t].inbox[i], q.mode = "holder"
                   PROVE  /\ q.lease.slot = t /\ q.lease.gen = workers'[t].gen
                          /\ workers'[t].current = q.item.ctx =>
                               workers'[t].reached.by = q.lease.by
                          /\ \A j \in DOMAIN workers'[t].inbox :
                               j < i => ~Establishes(workers'[t].inbox[j], q.item.ctx)
      BY DEF HolderInv, Establishes
    <2>2. CASE t # s
      BY <1>1, <2>1, <2>2 DEF IInv, HolderInv
    <2>3. CASE t = s
      <3>1. i + 1 \in DOMAIN workers[s].inbox /\ q = workers[s].inbox[i + 1] /\ 1 < i + 1
        <4>1. i \in DOMAIN x.inbox /\ q = x.inbox[i]
          BY <1>1, <2>1, <2>3
        <4>2. i \in Nat
          BY <1>3, <4>1
        <4> QED  BY <1>3, <4>1, <4>2
      <3>2. /\ q.lease.slot = s /\ q.lease.gen = workers[s].gen
            /\ workers[s].current = q.item.ctx => workers[s].reached.by = q.lease.by
            /\ \A j \in DOMAIN workers[s].inbox :
                 j < i + 1 => ~Establishes(workers[s].inbox[j], q.item.ctx)
        BY <2>1, <3>1 DEF IInv, HolderInv
      <3>3. q.item.ctx \in Contexts /\ ~Establishes(r, q.item.ctx)
        BY <1>3, <2>1, <3>1, <3>2 DEF IInv, ModeInv
      <3>4. ASSUME NEW j \in DOMAIN x.inbox, j < i PROVE ~Establishes(x.inbox[j], q.item.ctx)
        <4>1. i \in Nat /\ j \in Nat
          BY <1>1, <1>3, <2>1, <2>3
        <4>2. j + 1 < i + 1
          BY <3>4, <4>1
        <4> QED  BY <1>3, <3>2, <4>2
      <3> QED  BY <1>1, <1>13, <2>3, <3>2, <3>3, <3>4
    <2> QED  BY <2>2, <2>3
  <1>16. AttemptInv'
    BY DEF IInv, AttemptInv, HolderIs
  <1> QED  BY <1>2, <1>6, <1>7, <1>9, <1>12, <1>14, <1>15, <1>16 DEF IInv

LEMMA WorkerStartsOrDies ==
    ASSUME IInv, NEW s \in Slots, WorkerStarts(s) \/ WorkerDies(s)
    PROVE  IInv'
  <1>1. /\ workers \in [Slots -> WorkerRec] /\ workers[s] \in WorkerRec /\ resq \in Seq(Message)
        /\ <<>> \in Seq(RequestRec)
    BY DEF IInv, Types
  <1>2. PICK p \in {"starting", "up", "dead"}, ib \in Seq(RequestRec) :
          /\ workers' = [workers EXCEPT ![s] = [workers[s] EXCEPT !.proc = p, !.inbox = ib]]
          /\ ib = workers[s].inbox \/ ib = <<>>
    <2>1. workers[s].inbox \in Seq(RequestRec)
      BY <1>1 DEF WorkerRec
    <2>2. CASE WorkerStarts(s)
      <3>1. PICK p \in {"starting", "up", "dead"} : workers' = [workers EXCEPT ![s].proc = p]
        BY <2>2 DEF WorkerStarts
      <3>2. [workers[s] EXCEPT !.proc = p] = [workers[s] EXCEPT !.proc = p, !.inbox = workers[s].inbox]
        BY <1>1 DEF WorkerRec
      <3> QED  BY <2>1, <3>1, <3>2
    <2>3. CASE WorkerDies(s)
      BY <1>1, <2>3 DEF WorkerDies
    <2> QED  BY <2>2, <2>3
  <1> DEFINE x == [workers[s] EXCEPT !.proc = p, !.inbox = ib]
  <1>3. /\ x \in WorkerRec /\ x.gen = workers[s].gen /\ x.current = workers[s].current
        /\ x.reached = workers[s].reached /\ x.inbox = ib
    BY <1>1 DEF WorkerRec
  <1>4. workers' = [workers EXCEPT ![s] = x]
    BY <1>2
  <1> HIDE DEF x
  <1>5. workers' \in [Slots -> WorkerRec] /\ workers'[s] = x
        /\ \A t \in Slots : t # s => workers'[t] = workers[t]
    BY <1>1, <1>3, <1>4
  <1>6. /\ resq' \in Seq(Message)
        /\ \A i \in DOMAIN resq' : resq'[i].tag = "answer" => \E j \in DOMAIN resq : resq[j] = resq'[i]
    <2>1. CASE resq' = resq
      BY <1>1, <2>1
    <2>2. CASE resq' = Append(resq, Ready(s)) \/ resq' = Append(resq, StartupFault(s))
      <3>1. PICK m \in Message : m.tag # "answer" /\ resq' = Append(resq, m)
        <4>1. /\ Ready(s) \in Message /\ Ready(s).tag # "answer"
              /\ StartupFault(s) \in Message /\ StartupFault(s).tag # "answer"
          BY DEF Message, Ready, StartupFault
        <4> HIDE DEF Ready, StartupFault
        <4> QED  BY <2>2, <4>1
      <3> QED  BY <1>1, <3>1
    <2> QED  BY <2>1, <2>2 DEF WorkerStarts, WorkerDies, Post
  <1>7. \A t \in Slots :
          /\ workers'[t].gen = workers[t].gen /\ workers'[t].current = workers[t].current
          /\ workers'[t].reached = workers[t].reached
          /\ workers'[t].inbox = workers[t].inbox \/ workers'[t].inbox = <<>>
    BY <1>2, <1>3, <1>5
  <1>8. UNCHANGED <<leases, next_id, boot_index, pc, call, attempt, outcome, user>>
    BY DEF WorkerStarts, WorkerDies, Controller
  <1> QED  BY <1>5, <1>6, <1>7, <1>8, WorkersQuiet

LEMMA CloseIInv ==
    ASSUME IInv, Close
    PROVE  IInv'
  <1>1. \A s \in Slots : workers[s] \in WorkerRec
    BY DEF IInv, Types
  <1>2. ASSUME NEW s \in Slots
        PROVE  /\ workers'[s] \in WorkerRec
               /\ workers'[s].gen = workers[s].gen /\ workers'[s].current = workers[s].current
               /\ workers'[s].reached = workers[s].reached
               /\ workers'[s].inbox = <<>>
    <2>1. workers'[s] = [workers[s] EXCEPT !.proc = "dead", !.inbox = <<>>]
      BY DEF Close
    <2>2. workers[s] \in WorkerRec /\ <<>> \in Seq(RequestRec)
      BY <1>1
    <2> QED  BY <2>1, <2>2 DEF WorkerRec
  <1>3. workers' \in [Slots -> WorkerRec]
    <2>1. workers' = [s \in Slots |-> workers'[s]]
      BY DEF Close
    <2> QED  BY <1>2, <2>1
  <1>4. /\ resq' \in Seq(Message)
        /\ \A i \in DOMAIN resq' : resq'[i].tag = "answer" => \E j \in DOMAIN resq : resq[j] = resq'[i]
    BY DEF IInv, Types, Close
  <1>5. UNCHANGED <<leases, next_id, boot_index, pc, call, attempt, outcome, user>>
    BY DEF Close, Counters
  <1> QED  BY <1>2, <1>3, <1>4, <1>5, WorkersQuiet

LEMMA WorkerExploresIInv ==
    ASSUME IInv, NEW s \in Slots, WorkerExplores(s)
    PROVE  IInv'
  <1> DEFINE w == workers[s]
             r == Head(w.inbox)
             x == [w EXCEPT !.inbox = Tail(@), !.reached = Nowhere]
  <1>1. /\ workers \in [Slots -> WorkerRec] /\ w \in WorkerRec /\ w.inbox \in Seq(RequestRec)
        /\ w.inbox # <<>> /\ r.mode = "explore" /\ Nowhere \in Place
    BY RecordFacts DEF IInv, Types, WorkerRec, WorkerExplores
  <1>2. r \in RequestRec /\ Tail(w.inbox) \in Seq(RequestRec) /\ 1 \in DOMAIN w.inbox /\ r = w.inbox[1]
    BY <1>1
  <1>3. w.current = NoContext
    BY <1>1, <1>2 DEF IInv, ModeInv
  <1>4. /\ x \in WorkerRec /\ x.gen = w.gen /\ x.current = NoContext /\ x.inbox = Tail(w.inbox)
    BY <1>1, <1>2, <1>3 DEF WorkerRec
  <1>5. workers' = [workers EXCEPT ![s] = x]
    BY <1>1 DEF WorkerExplores
  <1>6. PICK ok \in BOOLEAN, own \in BOOLEAN :
          own /\ resq' = Append(resq, Answer(s, r, ok, NoLease, own))
    BY DEF WorkerExplores, Post
  <1>7. PICK a \in Result :
          /\ Answer(s, r, ok, NoLease, own) = [tag |-> "answer", result |-> a]
          /\ a.id = r.id /\ a.slot = s /\ a.lease = NoLease /\ a.own = own
    <2> HIDE DEF r
    <2> DEFINE b == [id |-> r.id, ok |-> ok, slot |-> s, lease |-> NoLease, mode |-> r.mode,
                     own |-> own]
    <2>1. b \in Result
      BY <1>2, <1>6, RecordFacts DEF Result, RequestRec
    <2> QED  BY <2>1 DEF Answer
  <1>8. UNCHANGED <<leases, next_id, boot_index, pc, call, attempt, outcome, user>>
    BY DEF WorkerExplores, Controller
  <1> HIDE DEF x, r
  <1> QED  BY <1>1, <1>4, <1>5, <1>6, <1>7, <1>8, WorkerAnswers DEF r

LEMMA WorkerExecutesIInv ==
    ASSUME IInv, NEW s \in Slots, WorkerExecutes(s)
    PROVE  IInv'
  <1> DEFINE w == workers[s]
             r == Head(w.inbox)
             e == [ctx |-> r.item.ctx, by |-> IF r.mode = "holder" THEN r.lease.by ELSE r.id]
             l == [slot |-> s, gen |-> w.gen, by |-> Reach(w, r).by]
             faulted == [w EXCEPT !.inbox = Tail(@), !.current = NoContext, !.reached = Nowhere]
  <1>1. /\ workers \in [Slots -> WorkerRec] /\ w \in WorkerRec /\ w.inbox \in Seq(RequestRec)
        /\ w.inbox # <<>> /\ r.mode # "explore" /\ Nowhere \in Place
        /\ w.gen \in Nat /\ w.reached \in Place
    BY RecordFacts DEF IInv, Types, WorkerRec, WorkerExecutes
  <1>2. r \in RequestRec /\ Tail(w.inbox) \in Seq(RequestRec) /\ 1 \in DOMAIN w.inbox /\ r = w.inbox[1]
    BY <1>1
  <1>3. PICK ok \in BOOLEAN, own \in BOOLEAN :
          /\ Reach(w, r) = e => own
          /\ \/ /\ Admits(w, r)
                /\ workers' = [workers EXCEPT ![s] = Settled(w, r)]
                /\ resq' = Append(resq, Answer(s, r, ok, IF r.item.resolve THEN NoLease ELSE l, own))
             \/ /\ ~ok
                /\ workers' = [workers EXCEPT ![s] = faulted]
                /\ resq' = Append(resq, Answer(s, r, ok, NoLease, own))
    <2> DEFINE own == Reach(w, r) = e
    <2>1. \/ /\ Admits(w, r)
             /\ workers' = [workers EXCEPT ![s] = Settled(w, r)]
             /\ resq' = Append(resq, Answer(s, r, TRUE, IF r.item.resolve THEN NoLease ELSE l, own))
          \/ /\ workers' = [workers EXCEPT ![s] = faulted]
             /\ resq' = Append(resq, Answer(s, r, FALSE, NoLease, own))
      BY DEF WorkerExecutes, Post
    <2>2. own \in BOOLEAN
      OBVIOUS
    <2>3. Reach(w, r) = e => own
      OBVIOUS
    <2> HIDE DEF own, l, faulted, e, r
    <2> QED  BY <2>1, <2>2, <2>3
  <1>4. UNCHANGED <<leases, next_id, boot_index, pc, call, attempt, outcome, user>>
    BY DEF WorkerExecutes, Controller
  <1>5. r.item \in ItemRec /\ r.id \in Nat /\ r.item.ctx \in Contexts /\ r.item.resolve \in BOOLEAN
        /\ r.item.ctx # NoContext
    <2>1. r.item \in ItemRec /\ r.id \in Nat
      BY <1>2 DEF RequestRec
    <2>2. r.item.ctx \in Contexts
      BY <1>1, <1>2 DEF IInv, ModeInv
    <2> HIDE DEF r
    <2> QED  BY <2>1, <2>2, PoolAssumption DEF ItemRec
  <1>6. Reach(w, r) \in Place
    <2> HIDE DEF r, w
    <2> QED  BY <1>1, <1>5 DEF Reach, Place
  <1>7. l \in Lease
    <2> HIDE DEF r, w
    <2> QED  BY <1>1, <1>6 DEF Lease, Place
  <1>8. CASE /\ ~ok
             /\ workers' = [workers EXCEPT ![s] = faulted]
             /\ resq' = Append(resq, Answer(s, r, ok, NoLease, own))
    <2>1. /\ faulted \in WorkerRec /\ faulted.gen = w.gen /\ faulted.current = NoContext
          /\ faulted.inbox = Tail(w.inbox)
      BY <1>1, <1>2 DEF WorkerRec
    <2> HIDE DEF faulted, e, l, r
    <2>3. PICK a \in Result :
            /\ Answer(s, r, ok, NoLease, own) = [tag |-> "answer", result |-> a]
            /\ a.id = r.id /\ a.slot = s /\ a.lease = NoLease /\ a.ok = ok
      <3> DEFINE b == [id |-> r.id, ok |-> ok, slot |-> s, lease |-> NoLease, mode |-> r.mode,
                       own |-> own]
      <3>1. b \in Result
        BY <1>2, <1>3, RecordFacts DEF Result, RequestRec
      <3> QED  BY <3>1 DEF Answer
    <2> QED  BY <1>1, <1>4, <1>8, <2>1, <2>3, WorkerAnswers DEF r
  <1>9. CASE /\ Admits(w, r)
             /\ workers' = [workers EXCEPT ![s] = Settled(w, r)]
             /\ resq' = Append(resq, Answer(s, r, ok, IF r.item.resolve THEN NoLease ELSE l, own))
    <2>1. PICK x \in WorkerRec :
            /\ x = Settled(w, r) /\ x.gen = w.gen /\ x.inbox = Tail(w.inbox)
            /\ x.current # NoContext =>
                 ~r.item.resolve /\ x.current = r.item.ctx /\ x.reached = Reach(w, r)
            /\ ~r.item.resolve => x.reached = Reach(w, r)
      <3> DEFINE cur == IF r.item.resolve THEN NoContext ELSE r.item.ctx
                 rea == IF r.item.resolve THEN Nowhere ELSE Reach(w, r)
                 x == [w EXCEPT !.inbox = Tail(@), !.current = cur, !.reached = rea]
      <3>1. cur \in Contexts \cup {NoContext} /\ rea \in Place
        BY <1>1, <1>5, <1>6
      <3>2. /\ cur # NoContext => ~r.item.resolve /\ cur = r.item.ctx /\ rea = Reach(w, r)
            /\ ~r.item.resolve => rea = Reach(w, r)
        OBVIOUS
      <3>3. x = Settled(w, r)
        BY DEF Settled
      <3> HIDE DEF cur, rea
      <3>4. x \in WorkerRec /\ x.gen = w.gen /\ x.inbox = Tail(w.inbox)
            /\ x.current = cur /\ x.reached = rea
        BY <1>1, <1>2, <3>1 DEF WorkerRec
      <3> HIDE DEF x
      <3> QED  BY <3>2, <3>3, <3>4
    <2>2. r.mode = "holder" => w.current = r.item.ctx
      BY <1>9 DEF Admits
    <2>3. r.mode = "holder" => Reach(w, r) = w.reached
      BY DEF Reach
    <2>4. x.current # NoContext => x.reached.ctx = x.current
      <3>1. r.mode = "bootstrap" \/ r.mode = "holder"
        BY <1>1, <1>2 DEF RequestRec
      <3>2. r.mode = "bootstrap" => Reach(w, r).ctx = r.item.ctx
        BY DEF Reach
      <3>3. r.mode = "holder" => w.reached.ctx = w.current
        BY <1>5, <2>2 DEF IInv, ModeInv
      <3> HIDE DEF r, w
      <3> QED  BY <2>1, <2>2, <2>3, <3>1, <3>2, <3>3
    <2>5. r.mode = "holder" => Reach(w, r) = e
      <3>1. r.mode = "holder" => w.reached.by = r.lease.by
        BY <1>2, <2>2 DEF IInv, HolderInv
      <3>2. r.mode = "holder" => w.reached.ctx = r.item.ctx
        BY <1>5, <2>2 DEF IInv, ModeInv
      <3>3. r.mode = "holder" => e = [ctx |-> r.item.ctx, by |-> r.lease.by]
        OBVIOUS
      <3> HIDE DEF r, w, e
      <3> QED  BY <1>1, <2>3, <3>1, <3>2, <3>3 DEF Place
    <2>6. PICK m \in Lease : m = (IF r.item.resolve THEN NoLease ELSE l)
      BY <1>7, RecordFacts
    <2>7. m # NoLease => m.slot = s /\ m.gen = w.gen /\ m.by = x.reached.by
      <3>1. m # NoLease => m = l /\ ~r.item.resolve
        BY <2>6
      <3> HIDE DEF r, w
      <3> QED  BY <2>1, <3>1
    <2> HIDE DEF e, l, r
    <2>8. PICK a \in Result :
            /\ Answer(s, r, ok, m, own) = [tag |-> "answer", result |-> a]
            /\ a.id = r.id /\ a.slot = s /\ a.lease = m /\ a.mode = r.mode
            /\ a.own = own
      <3> DEFINE b == [id |-> r.id, ok |-> ok, slot |-> s, lease |-> m, mode |-> r.mode,
                       own |-> own]
      <3>1. b \in Result
        BY <1>2, <1>3, <2>6 DEF Result, RequestRec
      <3> QED  BY <3>1 DEF Answer
    <2>9. a.mode = "holder" => a.own
      BY <1>3, <2>5, <2>8
    <2>10. workers' = [workers EXCEPT ![s] = x]
           /\ resq' = Append(resq, [tag |-> "answer", result |-> a])
      BY <1>9, <2>1, <2>6, <2>8
    <2>11. x.current # NoContext =>
             /\ r.mode # "explore" /\ x.current = r.item.ctx /\ ~r.item.resolve
             /\ x.reached.ctx = x.current /\ x.reached = Reach(w, r)
             /\ r.mode = "holder" => w.current = r.item.ctx
      BY <1>1, <2>1, <2>2, <2>4
    <2>12. a.lease # NoLease =>
             /\ r.mode # "explore" /\ a.lease.slot = s /\ a.lease.gen = w.gen
             /\ a.lease.by = x.reached.by
      BY <1>1, <2>7, <2>8
    <2>13. r = Head(w.inbox)
      BY DEF r
    <2>14. /\ w.inbox # <<>> /\ x.inbox = Tail(w.inbox) /\ x.gen = w.gen
           /\ a.id = r.id /\ a.slot = s /\ (a.mode = "holder" /\ a.ok => a.own)
      BY <1>1, <2>1, <2>8, <2>9
    <2>15. x \in WorkerRec /\ a \in Result
      BY <2>1, <2>8
    <2> QED  BY <1>4, <2>10, <2>11, <2>12, <2>13, <2>14, <2>15, WorkerAnswers, Zenon
  <1> QED  BY <1>3, <1>8, <1>9

-----------------------------------------------------------------------------
(* A call opens, or ends, or the caller gives up: there are no requests of *)
(* the call any more, and no Lease is being settled.                       *)
LEMMA NoRequests ==
    ASSUME IInv, Types', CallInv', AttemptInv',
           call'.pending = <<>>, call'.settled = 0,
           \A k \in DOMAIN call'.results : call'.results[k] = NoResult,
           \A c \in Contexts : ~Unsettled(c),
           \A c \in Contexts : leases'[c] = leases[c] \/ leases'[c] = NoLease,
           \A i \in DOMAIN resq' : \E j \in DOMAIN resq : resq[j] = resq'[i],
           UNCHANGED <<workers, next_id>>
    PROVE  IInv'
  <1>1. next_id \in Nat /\ Base' = next_id /\ DOMAIN call'.pending = {}
    <2>1. Len(<<>>) = 0 /\ DOMAIN <<>> = {}
      OBVIOUS
    <2> QED  BY <2>1 DEF IInv, Types, Base
  <1>2. IdInv'
    <2>1. ASSUME NEW s \in Slots, NEW i \in DOMAIN workers[s].inbox
          PROVE  /\ workers[s].inbox[i].id \in 1..next_id
                 /\ ~(workers[s].inbox[i].id > next_id)
                 /\ \A j \in DOMAIN workers[s].inbox :
                      i < j => workers[s].inbox[i].id < workers[s].inbox[j].id
      BY <1>1 DEF IInv, IdInv
    <2> QED  BY <1>1, <2>1 DEF IdInv
  <1>3. ModeInv' /\ HolderInv'
    BY DEF IInv, ModeInv, HolderInv, Establishes
  <1>4. ASSUME NEW a, IsAnswer(a) PROVE IsAnswer(a)'
    <2>1. a.id \in 1..next_id /\ ~(a.id > next_id)
      BY <1>1, <1>4 DEF IsAnswer
    <2> QED  BY <1>1, <1>4, <2>1 DEF IsAnswer
  <1>5. AnswerInv'
    <2>1. \A k \in DOMAIN call'.results : NotAnswered(call'.results[k])
      BY RecordFacts DEF NotAnswered
    <2> QED  BY <1>4, <2>1 DEF IInv, AnswerInv, NotAnswered
  <1>6. LeaseInv'
    BY DEF IInv, LeaseInv
  <1> QED  BY <1>2, <1>3, <1>5, <1>6 DEF IInv

LEMMA AppendFacts ==
    ASSUME NEW S, NEW q \in Seq(S), NEW e \in S
    PROVE  /\ Append(q, e) \in Seq(S) /\ Len(Append(q, e)) = Len(q) + 1
           /\ DOMAIN Append(q, e) = 1..(Len(q) + 1) /\ Append(q, e)[Len(q) + 1] = e
           /\ \A i \in DOMAIN q : i \in DOMAIN Append(q, e) /\ Append(q, e)[i] = q[i]
           /\ \A i \in DOMAIN Append(q, e) : i \in DOMAIN q \/ i = Len(q) + 1
  OBVIOUS

(* A request is sent.                                                      *)
SentTo(s, r) ==
    /\ r.id = next_id + 1 /\ next_id' = next_id + 1 /\ resq' = resq
    /\ \A t \in Slots :
         /\ workers'[t].gen = workers[t].gen /\ workers'[t].current = workers[t].current
         /\ workers'[t].reached = workers[t].reached
         /\ \A i \in DOMAIN workers'[t].inbox :
              \/ i \in DOMAIN workers[t].inbox /\ workers'[t].inbox[i] = workers[t].inbox[i]
              \/ t = s /\ i = Len(workers[s].inbox) + 1 /\ workers'[t].inbox[i] = r

LEMMA SendFacts ==
    ASSUME Types, NEW s \in Slots, NEW r \in RequestRec, Send(s, r), r.id = next_id + 1, resq' = resq
    PROVE  workers' \in [Slots -> WorkerRec] /\ next_id' \in Nat /\ SentTo(s, r)
  <1> DEFINE x == [workers[s] EXCEPT !.inbox = Append(@, r)]
  <1>1. /\ workers \in [Slots -> WorkerRec] /\ workers[s] \in WorkerRec
        /\ workers[s].inbox \in Seq(RequestRec)
    BY WorkerFacts DEF Types
  <1>2. /\ x \in WorkerRec /\ x.gen = workers[s].gen /\ x.current = workers[s].current
        /\ x.reached = workers[s].reached /\ x.inbox = Append(workers[s].inbox, r)
    <2>1. PICK ib \in Seq(RequestRec) : ib = Append(workers[s].inbox, r)
      BY <1>1, AppendFacts
    <2>2. x = [workers[s] EXCEPT !.inbox = ib]
      BY <2>1
    <2> HIDE DEF x
    <2> QED  BY <1>1, <2>1, <2>2 DEF WorkerRec
  <1>3. workers' = [workers EXCEPT ![s] = x] /\ next_id' = next_id + 1 /\ next_id \in Nat
    BY <1>1 DEF Send, Types
  <1> HIDE DEF x
  <1>4. /\ workers' \in [Slots -> WorkerRec] /\ workers'[s] = x
        /\ \A t \in Slots : t # s => workers'[t] = workers[t]
    BY <1>1, <1>2, <1>3
  <1>5. \A i \in DOMAIN x.inbox :
          \/ i \in DOMAIN workers[s].inbox /\ x.inbox[i] = workers[s].inbox[i]
          \/ i = Len(workers[s].inbox) + 1 /\ x.inbox[i] = r
    BY <1>1, <1>2, AppendFacts
  <1>6. next_id' = next_id + 1 /\ next_id' \in Nat
    BY <1>3
  <1>7. ASSUME NEW t \in Slots
        PROVE  /\ workers'[t].gen = workers[t].gen /\ workers'[t].current = workers[t].current
               /\ workers'[t].reached = workers[t].reached
               /\ \A i \in DOMAIN workers'[t].inbox :
                    \/ i \in DOMAIN workers[t].inbox /\ workers'[t].inbox[i] = workers[t].inbox[i]
                    \/ t = s /\ i = Len(workers[s].inbox) + 1 /\ workers'[t].inbox[i] = r
    BY <1>2, <1>4, <1>5
  <1> QED  BY <1>4, <1>6, <1>7 DEF SentTo

EntersCall(s, r) ==
    /\ call'.pending = Append(call.pending, [id |-> next_id + 1, slot |-> s])
    /\ call'.remaining = call.remaining \cup {Len(call.pending) + 1}
    /\ call'.settled = 0
    /\ \A k \in DOMAIN call.pending : call'.items[k] = call.items[k]
    /\ r.item = call'.items[Len(call.pending) + 1]
    /\ \A k \in DOMAIN call'.results :
         \/ call'.results[k] = NoResult
         \/ k \in DOMAIN call.results /\ call'.results[k] = call.results[k]
LeasesShrink == \A c \in Contexts : leases'[c] = leases[c] \/ leases'[c] = NoLease
IsRouted(s, r) ==
    /\ r.mode = "explore" <=> s = MAIN_WORKER_SLOT
    /\ r.mode # "explore" => r.item.ctx \in Contexts
    /\ r.mode = "bootstrap" /\ ~r.item.resolve => \A c \in Contexts : leases'[c].slot # s
    /\ r.mode = "holder" =>
         /\ r.lease = leases[r.item.ctx] /\ r.lease # NoLease
         /\ r.lease.slot = s /\ r.lease.gen = workers[s].gen

LEMMA SendIInv ==
    ASSUME IInv, Types', CallInv', AttemptInv', pc \in {"idle", "route"},
           NEW s \in Slots, NEW r \in RequestRec,
           SentTo(s, r), EntersCall(s, r), LeasesShrink, IsRouted(s, r)
    PROVE  IInv'
  <1>0. Types /\ workers \in [Slots -> WorkerRec] /\ next_id \in Nat
        /\ workers[s].inbox \in Seq(RequestRec) /\ workers[s] \in WorkerRec
    BY WorkerFacts DEF IInv, Types
  <1>1. /\ Len(call.pending) \in Nat /\ call.pending \in Seq(PendingRec)
        /\ DOMAIN call.pending = 1..Len(call.pending)
    BY <1>0, CallFacts
  <1> DEFINE p == [id |-> next_id + 1, slot |-> s]
             n == Len(call.pending)
  <1>2. p \in PendingRec /\ p.id = next_id + 1 /\ p.slot = s
    BY <1>0 DEF PendingRec
  <1>3. /\ Len(call'.pending) = n + 1 /\ DOMAIN call'.pending = 1..(n + 1)
        /\ call'.pending[n + 1] = p
        /\ \A k \in DOMAIN call.pending : call'.pending[k] = call.pending[k]
    <2>1. call'.pending = Append(call.pending, p)
      BY DEF EntersCall
    <2> HIDE DEF p
    <2> QED  BY <1>1, <1>2, <2>1, AppendFacts
  <1>4. Base' = Base /\ Base \in Nat /\ Base + n = next_id
    <2>1. Base \in Nat
      BY DEF IInv, IdInv
    <2>2. next_id' = next_id + 1
      BY DEF SentTo
    <2> QED  BY <1>0, <1>1, <1>3, <2>1, <2>2 DEF Base
  <1>5. /\ call'.remaining = call.remaining \cup {n + 1} /\ r.item = call'.items[n + 1]
        /\ \A k \in DOMAIN call.pending : call'.items[k] = call.items[k]
    BY DEF EntersCall
  <1>6. r.id = next_id + 1 /\ next_id' = next_id + 1
    BY DEF SentTo
  <1> HIDE DEF p
  <1>8. ASSUME NEW t \in Slots
        PROVE  /\ workers'[t].gen = workers[t].gen /\ workers'[t].current = workers[t].current
               /\ workers'[t].reached = workers[t].reached
               /\ \A i \in DOMAIN workers'[t].inbox :
                    \/ i \in DOMAIN workers[t].inbox /\ workers'[t].inbox[i] = workers[t].inbox[i]
                    \/ t = s /\ i = Len(workers[s].inbox) + 1 /\ workers'[t].inbox[i] = r
    BY DEF SentTo
  <1>9. \A t \in Slots : \A i \in DOMAIN workers[t].inbox :
          i \in Nat /\ i <= Len(workers[t].inbox) /\ workers[t].inbox[i].id \in 1..next_id
    BY <1>0, WorkerFacts DEF IInv, IdInv
  <1>10. ASSUME NEW t \in Slots, NEW i \in DOMAIN workers'[t].inbox, NEW q,
                q = workers'[t].inbox[i]
         PROVE  /\ q.id \in 1..(next_id + 1)
                /\ \A j \in DOMAIN workers'[t].inbox : i < j => q.id < workers'[t].inbox[j].id
                /\ q.id > Base =>
                     /\ q.id - Base \in call'.remaining
                     /\ call'.pending[q.id - Base].slot = t
                     /\ call'.items[q.id - Base] = q.item
    <2>1. CASE i \in DOMAIN workers[t].inbox /\ q = workers[t].inbox[i]
      <3>1. q.id \in 1..next_id
        BY <1>9, <2>1
      <3>2. ASSUME NEW j \in DOMAIN workers'[t].inbox, i < j PROVE q.id < workers'[t].inbox[j].id
        <4>1. CASE j \in DOMAIN workers[t].inbox /\ workers'[t].inbox[j] = workers[t].inbox[j]
          BY <2>1, <3>2, <4>1 DEF IInv, IdInv
        <4>2. CASE workers'[t].inbox[j] = r
          BY <1>0, <1>6, <3>1, <4>2
        <4> QED  BY <1>8, <4>1, <4>2
      <3>3. ASSUME q.id > Base
            PROVE  /\ q.id - Base \in call'.remaining
                   /\ call'.pending[q.id - Base].slot = t
                   /\ call'.items[q.id - Base] = q.item
        <4>1. /\ q.id - Base \in call.remaining
              /\ call.pending[q.id - Base].slot = t
              /\ call.items[q.id - Base] = q.item
          BY <2>1, <3>3 DEF IInv, IdInv
        <4>2. q.id - Base \in DOMAIN call.pending
          BY <4>1 DEF IInv, CallInv
        <4> QED  BY <1>3, <1>5, <4>1, <4>2
      <3>4. q.id \in 1..(next_id + 1)
        BY <1>0, <3>1
      <3> QED  BY <3>2, <3>3, <3>4
    <2>2. CASE t = s /\ i = Len(workers[s].inbox) + 1 /\ q = r
      <3>1. \A j \in DOMAIN workers'[t].inbox : ~(i < j)
        BY <1>0, <1>8, <1>9, <2>2
      <3>2. r.id - Base = n + 1
        BY <1>0, <1>1, <1>4, <1>6
      <3>3. r.id \in 1..(next_id + 1)
        BY <1>0, <1>6
      <3> QED  BY <1>2, <1>3, <1>5, <2>2, <3>1, <3>2, <3>3
    <2> QED  BY <1>8, <1>10, <2>1, <2>2
  <1>11. IdInv'
    <2>1. \A k \in DOMAIN call'.pending : call'.pending[k].id = Base + k
      <3>1. ASSUME NEW k \in DOMAIN call'.pending PROVE call'.pending[k].id = Base + k
        <4>1. CASE k \in DOMAIN call.pending
          BY <1>3, <4>1 DEF IInv, IdInv
        <4>2. CASE k = n + 1
          <5>1. Base + (n + 1) = next_id + 1
            BY <1>0, <1>1, <1>4
          <5> QED  BY <1>2, <1>3, <4>2, <5>1
        <4> QED  BY <1>1, <1>3, <4>1, <4>2
      <3> QED  BY <3>1
    <2>2. ASSUME NEW t \in Slots, NEW i \in DOMAIN workers'[t].inbox, NEW q,
                 q = workers'[t].inbox[i]
          PROVE  /\ q.id \in 1..next_id'
                 /\ \A j \in DOMAIN workers'[t].inbox : i < j => q.id < workers'[t].inbox[j].id
                 /\ q.id > Base' =>
                      /\ q.id - Base' \in call'.remaining
                      /\ call'.pending[q.id - Base'].slot = t
                      /\ call'.items[q.id - Base'] = q.item
      <3>1. next_id' = next_id + 1 /\ Base' = Base
        BY <1>4, <1>6
      <3>2. /\ q.id \in 1..(next_id + 1)
            /\ \A j \in DOMAIN workers'[t].inbox : i < j => q.id < workers'[t].inbox[j].id
            /\ q.id > Base =>
                 /\ q.id - Base \in call'.remaining
                 /\ call'.pending[q.id - Base].slot = t
                 /\ call'.items[q.id - Base] = q.item
        BY <1>10, <2>2
      <3> QED  BY <3>1, <3>2
    <2> QED  BY <1>4, <2>1, <2>2 DEF IdInv

  <1>12. ModeInv'
    <2>1. ASSUME NEW t \in Slots, NEW i \in DOMAIN workers'[t].inbox, NEW q,
                 q = workers'[t].inbox[i]
          PROVE  /\ q.mode = "explore" <=> t = MAIN_WORKER_SLOT
                 /\ q.mode # "explore" => q.item.ctx \in Contexts
      BY <1>8, <2>1 DEF IInv, ModeInv, IsRouted
    <2> QED  BY <1>8, <2>1, SlotFacts DEF IInv, ModeInv
  <1>13. ASSUME NEW a, IsAnswer(a) PROVE IsAnswer(a)'
    <2>1. a.id \in 1..next_id /\ a.slot \in Slots /\ a.id \in 1..(next_id + 1)
      BY <1>0, <1>13 DEF IsAnswer
    <2>2. ASSUME NEW i \in DOMAIN workers'[a.slot].inbox
          PROVE  a.id < workers'[a.slot].inbox[i].id
      <3>1. CASE i \in DOMAIN workers[a.slot].inbox /\ workers'[a.slot].inbox[i] = workers[a.slot].inbox[i]
        BY <1>13, <3>1 DEF IsAnswer
      <3>2. CASE workers'[a.slot].inbox[i] = r
        BY <1>0, <1>6, <2>1, <3>2
      <3> QED  BY <1>8, <2>1, <3>1, <3>2
    <2>3. ASSUME a.id > Base PROVE Fits(a.id - Base, a)'
      <3>1. PICK k : k = a.id - Base
        OBVIOUS
      <3>2. Fits(k, a) /\ k \in DOMAIN call.pending
        BY <1>0, <1>1, <1>4, <1>13, <2>1, <2>3, <3>1 DEF IsAnswer
      <3>3. LastOfItsContext(k)' => LastOfItsContext(k)
        BY <1>1, <1>3, <1>5, <3>2 DEF LastOfItsContext
      <3>4. Fits(k, a)'
        BY <1>3, <1>5, <1>8, <2>1, <3>2, <3>3 DEF Fits
      <3> QED  BY <1>4, <3>1, <3>4 DEF Fits, LastOfItsContext
    <2>4. a.lease # NoLease =>
            a.lease.slot = a.slot /\ a.slot \in BranchSlots /\ a.lease.gen \in 1..workers'[a.slot].gen
      BY <1>8, <1>13, <2>1 DEF IsAnswer
    <2>5. a.mode = "holder" /\ a.ok => a.own
      BY <1>13 DEF IsAnswer
    <2> QED  BY <1>4, <1>6, <2>1, <2>2, <2>3, <2>4, <2>5 DEF IsAnswer
  <1>14. AnswerInv'
    <2>1. ASSUME NEW k \in DOMAIN call'.results
          PROVE  \/ NotAnswered(call'.results[k])
                 \/ /\ k \in DOMAIN call'.pending /\ call'.results[k].id = call'.pending[k].id
                    /\ \E a : a = call'.results[k] /\ IsAnswer(a)
      <3>1. CASE call'.results[k] = NoResult
        BY <3>1, RecordFacts DEF NotAnswered
      <3>2. CASE k \in DOMAIN call.results /\ call'.results[k] = call.results[k]
        BY <1>1, <1>3, <3>2 DEF IInv, AnswerInv
      <3> QED  BY <3>1, <3>2 DEF EntersCall
    <2>2. resq' = resq
      BY DEF SentTo
    <2> QED  BY <1>13, <2>1, <2>2 DEF IInv, AnswerInv, NotAnswered
  <1>15. ASSUME NEW c \in Contexts PROVE ~Unsettled(c) /\ ~Unsettled(c)'
    <2>1. call.settled = 0
      <3>1. call.settled \in Nat
        BY <1>0, CallFacts
      <3> QED  BY <3>1 DEF IInv, CallInv
    <2> QED  BY <2>1 DEF Unsettled, EntersCall
  <1>16. LeaseInv'
    <2>1. ASSUME NEW c \in Contexts, leases'[c] # NoLease
          PROVE  /\ leases'[c].slot \in BranchSlots
                 /\ leases'[c].gen \in 1..workers'[leases'[c].slot].gen
                 /\ leases'[c].gen = workers'[leases'[c].slot].gen =>
                      HoldsFor(workers'[leases'[c].slot], leases'[c], c)
      <3>1. leases'[c] = leases[c]
        BY <2>1 DEF LeasesShrink
      <3> DEFINE t == leases[c].slot
      <3>2. /\ t \in BranchSlots /\ t \in Slots /\ leases[c].gen \in 1..workers[t].gen
            /\ leases[c].gen = workers[t].gen => HoldsFor(workers[t], leases[c], c)
        BY <1>15, <2>1, <3>1, SlotFacts DEF IInv, LeaseInv
      <3>3. t = s => ~Establishes(r, c)
        BY <3>1 DEF Establishes, IsRouted
      <3> HIDE DEF t
      <3>4. HoldsFor(workers[t], leases[c], c) => HoldsFor(workers'[t], leases[c], c)
        BY <1>8, <3>2, <3>3 DEF HoldsFor
      <3>5. workers'[t].gen = workers[t].gen
        BY <1>8, <3>2
      <3> QED  BY <3>1, <3>2, <3>4, <3>5 DEF t
    <2> QED  BY <1>15, <2>1 DEF LeaseInv
  <1>17. HolderInv'
    <2>1. ASSUME NEW t \in Slots, NEW i \in DOMAIN workers'[t].inbox, NEW q,
                 q = workers'[t].inbox[i], q.mode = "holder"
          PROVE  /\ q.lease.slot = t /\ q.lease.gen = workers'[t].gen
                 /\ workers'[t].current = q.item.ctx => workers'[t].reached.by = q.lease.by
                 /\ \A j \in DOMAIN workers'[t].inbox :
                      j < i => ~Establishes(workers'[t].inbox[j], q.item.ctx)
      <3>1. CASE i \in DOMAIN workers[t].inbox /\ q = workers[t].inbox[i]
        <4>1. /\ q.lease.slot = t /\ q.lease.gen = workers[t].gen
              /\ workers[t].current = q.item.ctx => workers[t].reached.by = q.lease.by
              /\ \A j \in DOMAIN workers[t].inbox :
                   j < i => ~Establishes(workers[t].inbox[j], q.item.ctx)
          BY <2>1, <3>1 DEF IInv, HolderInv
        <4>2. \A j \in DOMAIN workers'[t].inbox :
                j < i => j \in DOMAIN workers[t].inbox /\ workers'[t].inbox[j] = workers[t].inbox[j]
          BY <1>0, <1>8, <1>9, <3>1
        <4> QED  BY <1>8, <4>1, <4>2
      <3>2. CASE t = s /\ i = Len(workers[s].inbox) + 1 /\ q = r
        <4>1. r.item.ctx \in Contexts
          BY <2>1, <3>2 DEF IsRouted
        <4>2. HoldsFor(workers[s], r.lease, r.item.ctx)
          BY <1>15, <2>1, <3>2, <4>1 DEF IInv, LeaseInv, IsRouted
        <4>3. \A j \in DOMAIN workers'[t].inbox :
                j < i => j \in DOMAIN workers[t].inbox /\ workers'[t].inbox[j] = workers[t].inbox[j]
          BY <1>0, <1>8, <1>9, <3>2
        <4> QED  BY <1>8, <2>1, <3>2, <4>2, <4>3 DEF HoldsFor, IsRouted
      <3> QED  BY <1>8, <2>1, <3>1, <3>2
    <2> QED  BY <2>1 DEF HolderInv, Establishes
  <1> QED  BY <1>11, <1>12, <1>14, <1>16, <1>17 DEF IInv

-----------------------------------------------------------------------------
(* A call goes on with the requests it has: an answer is taken, or a       *)
(* worker that owes one is replaced.                                       *)
OldOrReplaced ==
    \A t \in Slots :
      \/ workers'[t] = workers[t]
      \/ /\ DOMAIN workers'[t].inbox = {} /\ workers'[t].gen = workers[t].gen + 1
         /\ workers'[t].current = NoContext
SameRequests ==
    /\ call'.pending = call.pending /\ call'.items = call.items /\ next_id' = next_id
    /\ call.settled = 0 /\ call'.settled = 0
    /\ \A i \in DOMAIN resq' : \E j \in DOMAIN resq : resq[j] = resq'[i]
StillOwed ==
    \A t \in Slots : \A i \in DOMAIN workers'[t].inbox :
      workers'[t].inbox[i].id > Base => workers'[t].inbox[i].id - Base \in call'.remaining
ResultsAreAnswers ==
    \A k \in DOMAIN call'.results :
      \/ NotAnswered(call'.results[k])
      \/ /\ k \in DOMAIN call.pending /\ call'.results[k].id = call.pending[k].id
         /\ \E a : a = call'.results[k] /\ IsAnswer(a)

LEMMA ProgressIInv ==
    ASSUME IInv, Types', CallInv', AttemptInv',
           OldOrReplaced, SameRequests, StillOwed, ResultsAreAnswers, LeasesShrink
    PROVE  IInv'
  <1>1. /\ Base' = Base /\ call'.pending = call.pending /\ call'.items = call.items
        /\ next_id' = next_id /\ Types
    BY DEF SameRequests, Base, IInv
  <1>2. ASSUME NEW t \in Slots, NEW i \in DOMAIN workers'[t].inbox
        PROVE  workers'[t] = workers[t]
    BY <1>2 DEF OldOrReplaced
  <1>3. IdInv'
    <2>1. ASSUME NEW t \in Slots, NEW i \in DOMAIN workers'[t].inbox, NEW q,
                 q = workers'[t].inbox[i]
          PROVE  /\ q.id \in 1..next_id
                 /\ \A j \in DOMAIN workers'[t].inbox : i < j => q.id < workers'[t].inbox[j].id
                 /\ q.id > Base =>
                      /\ q.id - Base \in call'.remaining
                      /\ call.pending[q.id - Base].slot = t
                      /\ call.items[q.id - Base] = q.item
      <3>1. workers'[t] = workers[t]
        BY <1>2
      <3>2. q.id > Base => q.id - Base \in call'.remaining
        BY <2>1 DEF StillOwed
      <3> QED  BY <2>1, <3>1, <3>2 DEF IInv, IdInv
    <2>2. Base \in Nat /\ \A k \in DOMAIN call.pending : call.pending[k].id = Base + k
      BY DEF IInv, IdInv
    <2> QED  BY <1>1, <2>1, <2>2 DEF IdInv
  <1>4. ModeInv'
    <2>1. \A t \in Slots : workers'[t].current # NoContext => workers'[t] = workers[t]
      BY DEF OldOrReplaced
    <2> QED  BY <1>2, <2>1, SlotFacts DEF IInv, ModeInv
  <1>5. ASSUME NEW a, IsAnswer(a) PROVE IsAnswer(a)'
    <2>1. a.id \in 1..next_id /\ a.slot \in Slots
      BY <1>5 DEF IsAnswer
    <2>2. \A i \in DOMAIN workers'[a.slot].inbox : a.id < workers'[a.slot].inbox[i].id
      BY <1>2, <1>5, <2>1 DEF IsAnswer
    <2>3. workers[a.slot].gen \in Nat
      BY <1>1, <2>1, WorkerFacts
    <2>4. a.lease # NoLease =>
            /\ a.lease.slot = a.slot /\ a.slot \in BranchSlots
            /\ a.lease.gen \in 1..workers'[a.slot].gen
            /\ a.lease.gen = workers'[a.slot].gen => workers'[a.slot] = workers[a.slot]
      <3>1. a.lease # NoLease =>
              /\ a.lease.slot = a.slot /\ a.slot \in BranchSlots
              /\ a.lease.gen \in 1..workers[a.slot].gen
        BY <1>5 DEF IsAnswer
      <3> QED  BY <2>1, <2>3, <3>1 DEF OldOrReplaced
    <2>5. ASSUME a.id > Base PROVE Fits(a.id - Base, a)'
      <3>1. PICK k : k = a.id - Base
        OBVIOUS
      <3>2. Fits(k, a)
        BY <1>5, <2>5, <3>1 DEF IsAnswer
      <3>3. LastOfItsContext(k)' <=> LastOfItsContext(k)
        BY <1>1 DEF LastOfItsContext
      <3>4. Fits(k, a)'
        BY <1>1, <2>4, <3>2, <3>3 DEF Fits
      <3> QED  BY <1>1, <3>1, <3>4 DEF Fits, LastOfItsContext
    <2> QED  BY <1>1, <1>5, <2>1, <2>2, <2>4, <2>5 DEF IsAnswer
  <1>6. AnswerInv'
    <2>1. \A i \in DOMAIN resq' : \E j \in DOMAIN resq : resq[j] = resq'[i]
      BY DEF SameRequests
    <2> QED  BY <1>1, <1>5, <2>1 DEF IInv, AnswerInv, NotAnswered, ResultsAreAnswers
  <1>7. ASSUME NEW c \in Contexts PROVE ~Unsettled(c) /\ ~Unsettled(c)'
    BY DEF Unsettled, SameRequests
  <1>8. LeaseInv'
    <2>1. ASSUME NEW c \in Contexts, leases'[c] # NoLease
          PROVE  /\ leases'[c].slot \in BranchSlots
                 /\ leases'[c].gen \in 1..workers'[leases'[c].slot].gen
                 /\ leases'[c].gen = workers'[leases'[c].slot].gen =>
                      HoldsFor(workers'[leases'[c].slot], leases'[c], c)
      <3>1. leases'[c] = leases[c]
        BY <2>1 DEF LeasesShrink
      <3> DEFINE t == leases[c].slot
      <3>2. /\ t \in BranchSlots /\ t \in Slots /\ leases[c].gen \in 1..workers[t].gen
            /\ leases[c].gen = workers[t].gen => HoldsFor(workers[t], leases[c], c)
        BY <1>7, <2>1, <3>1, SlotFacts DEF IInv, LeaseInv
      <3> HIDE DEF t
      <3>3. workers[t].gen \in Nat
        BY <1>1, <3>2, WorkerFacts
      <3>4. CASE workers'[t] = workers[t]
        BY <3>1, <3>2, <3>4 DEF t
      <3>5. CASE workers'[t].gen = workers[t].gen + 1
        BY <3>1, <3>2, <3>3, <3>5 DEF t
      <3> QED  BY <3>2, <3>4, <3>5 DEF OldOrReplaced
    <2> QED  BY <1>7, <2>1 DEF LeaseInv
  <1>9. HolderInv'
    BY <1>2 DEF IInv, HolderInv, Establishes
  <1> QED  BY <1>3, <1>4, <1>6, <1>8, <1>9 DEF IInv

-----------------------------------------------------------------------------
(* The calls.                                                              *)
LEMMA EnterFacts ==
    ASSUME IInv, NEW d \in CallRec, Enter(d)
    PROVE  /\ call' \in CallRec /\ call'.kind = d.kind /\ call'.items = d.items
           /\ call'.pin = d.pin /\ call'.pending = d.pending /\ call'.remaining = d.remaining
           /\ call'.hung = d.hung /\ call'.settled = d.settled
           /\ DOMAIN call'.results = DOMAIN call'.items
           /\ \A k \in DOMAIN call'.results : call'.results[k] = NoResult
           /\ pc = "idle" /\ call = NoCall
  <1> DEFINE f == [i \in DOMAIN d.items |-> NoResult]
  <1>1. f \in Seq(Result) /\ DOMAIN f = DOMAIN d.items /\ \A k \in DOMAIN f : f[k] = NoResult
    <2>1. d.items \in Seq(ItemRec)
      BY DEF CallRec
    <2> QED  BY <2>1, RecordFacts
  <1>2. pc = "idle" /\ call = NoCall /\ boot_index \in Nat
    BY DEF Enter, IInv, CallInv, Types
  <1>3. call' = [d EXCEPT !.index = boot_index, !.results = f]
    BY DEF Enter
  <1> HIDE DEF f
  <1>4. /\ call' \in CallRec /\ call'.kind = d.kind /\ call'.items = d.items
        /\ call'.pin = d.pin /\ call'.pending = d.pending /\ call'.remaining = d.remaining
        /\ call'.hung = d.hung /\ call'.settled = d.settled /\ call'.results = f
    BY <1>1, <1>2, <1>3 DEF CallRec
  <1> QED  BY <1>1, <1>2, <1>4

LEMMA NothingPending == \E none \in Seq(PendingRec) : none = <<>> /\ Len(none) = 0 /\ DOMAIN none = {}
  <1>1. <<>> \in Seq(PendingRec) /\ Len(<<>>) = 0 /\ DOMAIN <<>> = {}
    OBVIOUS
  <1> QED  BY <1>1

LEMMA DispatchFacts ==
    ASSUME IInv, NEW items \in Seq(ItemRec), NEW pin \in Slots \cup {-1}, Dispatch(items, pin),
           \A k \in DOMAIN items : items[k].ctx \in Contexts
    PROVE  /\ call' \in CallRec /\ call'.kind = "dispatch" /\ call'.items = items
           /\ call'.pin = pin /\ call'.pending = <<>> /\ call'.settled = 0
           /\ \A k \in DOMAIN call'.results : call'.results[k] = NoResult
           /\ CallInv' /\ pc' \in {"route", "wait"} /\ pc = "idle" /\ call = NoCall
           /\ (items # <<>> => pc' = "route")
           /\ UNCHANGED <<workers, resq, next_id, boot_index, outcome, user>>
  <1>1. /\ pc = "idle" /\ pc' = (IF items = <<>> THEN "wait" ELSE "route")
        /\ UNCHANGED <<workers, resq, next_id, boot_index, outcome, user>>
        /\ boot_index \in Nat
    BY DEF Dispatch, Enter, Processes, IInv, Types
  <1>2. PICK none \in Seq(PendingRec) : none = <<>> /\ Len(none) = 0 /\ DOMAIN none = {}
    BY NothingPending
  <1>3. /\ call' \in CallRec /\ call'.kind = "dispatch" /\ call'.items = items
        /\ call'.pin = pin /\ call'.pending = none /\ call'.remaining = {} /\ call'.settled = 0
        /\ DOMAIN call'.results = DOMAIN items
        /\ \A k \in DOMAIN call'.results : call'.results[k] = NoResult
    <2> DEFINE d == [NoCall EXCEPT !.kind = "dispatch", !.items = items, !.pin = pin]
    <2>1. /\ d \in CallRec /\ d.kind = "dispatch" /\ d.items = items /\ d.pin = pin
          /\ d.pending = NoCall.pending /\ d.remaining = NoCall.remaining
          /\ d.settled = NoCall.settled
      BY NoCallFacts DEF CallRec
    <2>2. Enter(d)
      BY DEF Dispatch
    <2> HIDE DEF d
    <2> QED  BY <1>2, <2>1, <2>2, EnterFacts, NoCallFacts
  <1>4. CallInv'
    <2>1. Len(items) \in Nat /\ (items = <<>> => Len(items) = 0) /\ (items # <<>> => Len(items) > 0)
      OBVIOUS
    <2> QED  BY <1>1, <1>2, <1>3, <2>1 DEF CallInv
  <1>5. call = NoCall
    BY <1>1 DEF IInv, CallInv
  <1> QED  BY <1>1, <1>2, <1>3, <1>4, <1>5

LEMMA DispatchIInv ==
    ASSUME IInv, NEW items \in Seq(ItemRec), NEW pin \in Slots \cup {-1}, Dispatch(items, pin),
           \A k \in DOMAIN items : items[k].ctx \in Contexts,
           attempt' \in AttemptRec, AttemptInv', leases' \in [Contexts -> Lease], LeasesShrink
    PROVE  IInv'
  <1>1. /\ call' \in CallRec /\ call'.pending = <<>> /\ call'.settled = 0
        /\ \A k \in DOMAIN call'.results : call'.results[k] = NoResult
        /\ CallInv' /\ pc' \in {"route", "wait"} /\ call = NoCall
        /\ UNCHANGED <<workers, resq, next_id, boot_index, outcome, user>>
    BY DispatchFacts
  <1>2. Types'
    BY <1>1 DEF IInv, Types
  <1>3. \A c \in Contexts : ~Unsettled(c)
    BY <1>1, NoCallFacts DEF Unsettled
  <1>4. \A i \in DOMAIN resq' : \E j \in DOMAIN resq : resq[j] = resq'[i]
    BY <1>1
  <1> QED  BY <1>1, <1>2, <1>3, <1>4, NoRequests DEF LeasesShrink

LEMMA ItemFacts ==
    ASSUME NEW c \in Contexts, NEW k \in {"sub_branch", "continuation"}, NEW r \in BOOLEAN
    PROVE  Item(c, k, r) \in ItemRec /\ Item(c, k, r).ctx = c /\ Item(c, k, r).kind = k
           /\ Item(c, k, r).resolve = r
  BY DEF Item, ItemRec

LEMMA ChoiceRunnerIInv ==
    ASSUME IInv,
           (\E c \in Contexts : Establish(c)) \/ ResolvePair \/ DeterminismReplay
    PROVE  IInv'
  <1>0. /\ leases \in [Contexts -> Lease] /\ attempt \in AttemptRec
        /\ attempt.ctx \in Contexts \cup {NoContext} /\ attempt.holder \in Slots \cup {-1}
    BY DEF IInv, Types, AttemptRec
  <1>1. ASSUME NEW c \in Contexts, Establish(c) PROVE IInv'
    <2> DEFINE i == Item(c, "sub_branch", FALSE)
    <2>1. i \in ItemRec /\ i.ctx = c
      BY ItemFacts
    <2>2. /\ user = "choice_runner" /\ attempt' = [stage |-> "establish", ctx |-> c, holder |-> -1]
          /\ leases' = [d \in Contexts |-> NoLease] /\ Dispatch(<<i>>, -1)
      BY <1>1 DEF Establish
    <2> HIDE DEF i
    <2>3. <<i>> \in Seq(ItemRec) /\ <<i>> # <<>> /\ \A k \in DOMAIN <<i>> : <<i>>[k].ctx \in Contexts
      BY <2>1
    <2>4. /\ call'.kind = "dispatch" /\ call'.items = <<i>> /\ call'.pin = -1
          /\ call'.settled = 0 /\ pc' = "route" /\ user' = user
      BY <2>2, <2>3, DispatchFacts
    <2>5. /\ attempt' \in AttemptRec /\ attempt'.stage = "establish" /\ attempt'.ctx = c
      BY <2>2 DEF AttemptRec
    <2>6. AttemptInv'
      BY <2>2, <2>4, <2>5 DEF AttemptInv, i
    <2>7. leases' \in [Contexts -> Lease] /\ LeasesShrink
      BY <2>2, RecordFacts DEF LeasesShrink
    <2> QED  BY <2>2, <2>3, <2>5, <2>6, <2>7, DispatchIInv
  <1>2. ASSUME ResolvePair PROVE IInv'
    <2> DEFINE h == Item(attempt.ctx, "continuation", TRUE)
               i == Item(attempt.ctx, "sub_branch", TRUE)
    <2>1. attempt.stage = "pair" /\ attempt.ctx \in Contexts /\ user = "choice_runner"
      BY <1>2 DEF ResolvePair, IInv, AttemptInv
    <2>2. h \in ItemRec /\ h.ctx = attempt.ctx /\ i \in ItemRec /\ i.ctx = attempt.ctx
      BY <2>1, ItemFacts
    <2>3. attempt' = attempt /\ leases' = leases /\ Dispatch(<<h, i>>, attempt.holder)
      BY <1>2 DEF ResolvePair
    <2> HIDE DEF h, i
    <2>4. /\ <<h, i>> \in Seq(ItemRec) /\ <<h, i>> # <<>>
          /\ \A k \in DOMAIN <<h, i>> : <<h, i>>[k].ctx \in Contexts
      BY <2>1, <2>2
    <2>5. /\ call'.kind = "dispatch" /\ call'.items = <<h, i>> /\ call'.pin = attempt.holder
          /\ call'.settled = 0 /\ pc' = "route" /\ user' = user /\ pc = "idle"
      BY <1>0, <2>3, <2>4, DispatchFacts
    <2>6. AttemptInv'
      BY <2>1, <2>3, <2>5 DEF IInv, AttemptInv, HolderIs, h, i
    <2>7. leases' \in [Contexts -> Lease] /\ LeasesShrink /\ attempt' \in AttemptRec
      BY <1>0, <2>3 DEF LeasesShrink
    <2> QED  BY <1>0, <2>3, <2>4, <2>6, <2>7, DispatchIInv
  <1>3. ASSUME DeterminismReplay PROVE IInv'
    <2> DEFINE i == Item(attempt.ctx, "sub_branch", TRUE)
    <2>1. attempt.stage = "replay" /\ attempt.ctx \in Contexts /\ user = "choice_runner"
      BY <1>3 DEF DeterminismReplay, IInv, AttemptInv
    <2>2. i \in ItemRec /\ i.ctx = attempt.ctx
      BY <2>1, ItemFacts
    <2>3. attempt' = attempt /\ leases' = leases /\ Dispatch(<<i>>, -1)
      BY <1>3 DEF DeterminismReplay
    <2> HIDE DEF i
    <2>4. <<i>> \in Seq(ItemRec) /\ <<i>> # <<>> /\ \A k \in DOMAIN <<i>> : <<i>>[k].ctx \in Contexts
      BY <2>1, <2>2
    <2>5. /\ call'.kind = "dispatch" /\ call'.items = <<i>> /\ call'.pin = -1
          /\ call'.settled = 0 /\ pc' = "route" /\ user' = user
      BY <2>3, <2>4, DispatchFacts
    <2>6. AttemptInv'
      BY <2>1, <2>3, <2>5 DEF AttemptInv
    <2>7. leases' \in [Contexts -> Lease] /\ LeasesShrink /\ attempt' \in AttemptRec
      BY <1>0, <2>3 DEF LeasesShrink
    <2> QED  BY <2>3, <2>4, <2>6, <2>7, DispatchIInv
  <1> QED  BY <1>1, <1>2, <1>3

LEMMA BatchIInv ==
    ASSUME IInv,
           (\E b \in BeamBatches : DispatchBeam(b)) \/ (\E b \in DirectBatches : DispatchDirect(b))
    PROVE  IInv'
  <1>1. PICK items \in Seq(ItemRec) :
          /\ Dispatch(items, -1) /\ \A k \in DOMAIN items : items[k].ctx \in Contexts
          /\ user # "choice_runner" /\ attempt' = attempt /\ leases' = leases
    <2>1. ASSUME NEW b \in BeamBatches, DispatchBeam(b)
          PROVE  \E items \in Seq(ItemRec) :
                   /\ Dispatch(items, -1) /\ \A k \in DOMAIN items : items[k].ctx \in Contexts
                   /\ user # "choice_runner" /\ attempt' = attempt /\ leases' = leases
      <3> DEFINE items == [i \in DOMAIN b |-> Item(b[i], "sub_branch", TRUE)]
      <3>1. b \in Seq(Contexts)
        BY PoolAssumption
      <3>2. \A i \in DOMAIN b :
              Item(b[i], "sub_branch", TRUE) \in ItemRec /\ Item(b[i], "sub_branch", TRUE).ctx \in Contexts
        BY <3>1 DEF Item, ItemRec
      <3>3. items \in Seq(ItemRec) /\ \A k \in DOMAIN items : items[k].ctx \in Contexts
        <4>1. PICK n \in Nat : DOMAIN b = 1..n
          BY <3>1
        <4>2. /\ items = [i \in 1..n |-> items[i]]
              /\ \A i \in 1..n : items[i] \in ItemRec /\ items[i].ctx \in Contexts
          BY <3>2, <4>1
        <4> HIDE DEF items
        <4> QED  BY <4>2
      <3> QED  BY <2>1, <3>3 DEF DispatchBeam
    <2>2. ASSUME NEW b \in DirectBatches, DispatchDirect(b)
          PROVE  \E items \in Seq(ItemRec) :
                   /\ Dispatch(items, -1) /\ \A k \in DOMAIN items : items[k].ctx \in Contexts
                   /\ user # "choice_runner" /\ attempt' = attempt /\ leases' = leases
      <3> DEFINE D == [ctx : Contexts, kind : {"sub_branch", "continuation"}, resolve : BOOLEAN]
      <3>1. \A d \in D : d \in ItemRec /\ d.ctx \in Contexts
        BY DEF ItemRec
      <3>2. b \in Seq(D)
        BY PoolAssumption
      <3> HIDE DEF D
      <3>3. b \in Seq(ItemRec) /\ \A k \in DOMAIN b : b[k].ctx \in Contexts
        BY <3>1, <3>2
      <3> QED  BY <2>2, <3>3 DEF DispatchDirect
    <2> QED  BY <2>1, <2>2
  <1>2. /\ leases' \in [Contexts -> Lease] /\ LeasesShrink /\ attempt' \in AttemptRec
        /\ attempt.stage = "none"
    BY <1>1 DEF IInv, Types, AttemptInv, LeasesShrink
  <1>3. call'.pin = -1
    BY <1>1, DispatchFacts
  <1>4. AttemptInv'
    BY <1>1, <1>2, <1>3 DEF AttemptInv
  <1> QED  BY <1>1, <1>2, <1>4, DispatchIInv

LEMMA NothingToBranchOnIInv ==
    ASSUME IInv, NothingToBranchOn
    PROVE  IInv'
  <1>1. /\ pc = "idle" /\ call = NoCall /\ attempt' = NoAttempt
        /\ UNCHANGED <<workers, resq, leases, next_id, boot_index, pc, call, outcome>>
    BY DEF NothingToBranchOn, Processes, IInv, CallInv
  <1>2. Types' /\ CallInv' /\ AttemptInv'
    <2>1. Types'
      BY <1>1, RecordFacts DEF IInv, Types
    <2>2. CallInv'
      BY <1>1 DEF IInv, CallInv
    <2> QED  BY <1>1, <2>1, <2>2, RecordFacts, NoCallFacts DEF AttemptInv
  <1>3. \A c \in Contexts : ~Unsettled(c)
    BY <1>1, NoCallFacts DEF Unsettled
  <1> QED  BY <1>1, <1>2, <1>3, NoCallFacts, NoRequests

LEMMA RespawnByCallerIInv ==
    ASSUME IInv, NEW s \in Slots, RespawnByCaller(s)
    PROVE  IInv'
  <1> DEFINE d == [NoCall EXCEPT !.kind = "respawn", !.hung = {s}]
  <1>1. /\ d \in CallRec /\ d.kind = "respawn" /\ d.items = NoCall.items /\ d.pin = NoCall.pin
        /\ d.pending = NoCall.pending /\ d.remaining = NoCall.remaining
        /\ d.settled = NoCall.settled
    BY NoCallFacts DEF CallRec
  <1>2. Enter(d) /\ user = "direct" /\ pc' = "respawn"
        /\ UNCHANGED <<workers, resq, leases, next_id, boot_index, attempt, outcome, user>>
    BY DEF RespawnByCaller, Processes
  <1> HIDE DEF d
  <1>3. /\ call' \in CallRec /\ call'.kind = "respawn" /\ call'.items = <<>> /\ call'.pin = -1
        /\ call'.pending = <<>> /\ call'.remaining = {} /\ call'.settled = 0
        /\ DOMAIN call'.results = DOMAIN call'.items
        /\ \A k \in DOMAIN call'.results : call'.results[k] = NoResult
        /\ call = NoCall
    BY <1>1, <1>2, EnterFacts, NoCallFacts
  <1>4. Types' /\ CallInv' /\ AttemptInv'
    <2>1. Types'
      BY <1>2, <1>3 DEF IInv, Types
    <2>2. CallInv'
      BY <1>2, <1>3 DEF CallInv
    <2>3. attempt.stage = "none"
      BY <1>2 DEF IInv, AttemptInv
    <2> QED  BY <1>2, <1>3, <2>1, <2>2, <2>3 DEF AttemptInv
  <1>5. \A c \in Contexts : ~Unsettled(c)
    BY <1>3, NoCallFacts DEF Unsettled
  <1> QED  BY <1>2, <1>3, <1>4, <1>5, NoRequests

(* execute and explore send their only request as they open the call.      *)
LEMMA OneRequest ==
    ASSUME IInv, NEW d \in CallRec, Enter(d), NEW s \in Slots, NEW r \in RequestRec,
           d.kind \in {"execute", "explore"}, d.pin = -1, d.settled = 0,
           d.items = <<r.item>>, d.remaining = {1},
           d.pending = <<[id |-> next_id + 1, slot |-> s]>>,
           r.id = next_id + 1, r.mode \in {"bootstrap", "explore"},
           r.mode = "explore" <=> s = MAIN_WORKER_SLOT,
           r.mode # "explore" => r.item.ctx \in Contexts /\ r.item.resolve,
           Send(s, r), pc' = "wait", attempt.stage = "none",
           UNCHANGED <<resq, leases, boot_index, attempt, outcome, user>>
    PROVE  IInv'
  <1>1. /\ call' \in CallRec /\ call'.kind = d.kind /\ call'.items = d.items
        /\ call'.pin = d.pin /\ call'.pending = d.pending /\ call'.remaining = d.remaining
        /\ call'.settled = d.settled
        /\ DOMAIN call'.results = DOMAIN call'.items
        /\ \A k \in DOMAIN call'.results : call'.results[k] = NoResult
        /\ pc = "idle" /\ call = NoCall
    BY EnterFacts
  <1>2. Types
    BY DEF IInv
  <1>3. SentTo(s, r) /\ workers' \in [Slots -> WorkerRec] /\ next_id' \in Nat
    BY <1>2, SendFacts
  <1>4. Types'
    BY <1>1, <1>2, <1>3 DEF IInv, Types
  <1> DEFINE p == [id |-> next_id + 1, slot |-> s]
             i == r.item
  <1>5. Len(<<i>>) = 1 /\ Len(<<p>>) = 1 /\ DOMAIN <<i>> = {1} /\ DOMAIN <<p>> = {1} /\ <<i>>[1] = i
        /\ Append(<<>>, p) = <<p>>
    <2> HIDE DEF p, i
    <2> QED  OBVIOUS
  <1>6. call'.pending = <<p>> /\ call'.items = <<i>> /\ call'.remaining = {1} /\ call'.settled = 0
        /\ call'.kind # "dispatch" /\ call'.pin = -1
    BY <1>1
  <1> HIDE DEF p, i
  <1>7. CallInv'
    BY <1>1, <1>5, <1>6 DEF CallInv
  <1>8. AttemptInv'
    BY <1>6 DEF AttemptInv
  <1>9. EntersCall(s, r)
    <2>1. call.pending = <<>> /\ Len(call.pending) = 0 /\ DOMAIN call.pending = {} /\ call.remaining = {}
      BY <1>1, NoCallFacts
    <2>2. call'.pending = Append(call.pending, [id |-> next_id + 1, slot |-> s])
      BY <1>5, <1>6, <2>1 DEF p
    <2>3. r.item = call'.items[1]
      BY <1>5, <1>6 DEF i
    <2> QED  BY <1>1, <1>6, <2>1, <2>2, <2>3 DEF EntersCall
  <1>10. LeasesShrink /\ IsRouted(s, r)
    BY DEF LeasesShrink, IsRouted
  <1> QED  BY <1>1, <1>3, <1>4, <1>7, <1>8, <1>9, <1>10, SendIInv

LEMMA ExecuteIInv ==
    ASSUME IInv, NEW s \in BranchSlots, NEW c \in Contexts, Execute(s, c)
    PROVE  IInv'
  <1> DEFINE i == Item(c, "sub_branch", TRUE)
             r == [id |-> next_id + 1, mode |-> "bootstrap", item |-> i, lease |-> NoLease]
             p == [id |-> next_id + 1, slot |-> s]
             d == [NoCall EXCEPT !.kind = "execute", !.items = <<i>>, !.remaining = {1},
                                 !.pending = <<p>>]
  <1>1. /\ user = "direct" /\ Enter(d) /\ Send(s, r) /\ pc' = "wait"
        /\ UNCHANGED <<resq, leases, boot_index, attempt, outcome, user>>
    BY DEF Execute
  <1>2. i \in ItemRec /\ i.ctx = c /\ i.resolve
    BY DEF Item, ItemRec
  <1>3. next_id \in Nat /\ s \in Slots /\ s # MAIN_WORKER_SLOT /\ attempt.stage = "none"
    BY <1>1, SlotFacts DEF IInv, Types, AttemptInv
  <1> HIDE DEF i
  <1>4. r \in RequestRec /\ r.id = next_id + 1 /\ r.mode = "bootstrap" /\ r.item = i
    BY <1>2, <1>3, RecordFacts DEF RequestRec
  <1>5. p \in PendingRec
    BY <1>3 DEF PendingRec
  <1>6. /\ d \in CallRec /\ d.kind = "execute" /\ d.items = <<i>> /\ d.remaining = {1}
        /\ d.pending = <<p>> /\ d.pin = -1 /\ d.settled = 0
    <2> HIDE DEF p
    <2>1. <<i>> \in Seq(ItemRec) /\ <<p>> \in Seq(PendingRec) /\ {1} \in SUBSET Nat
      BY <1>2, <1>5
    <2>2. PICK ii \in Seq(ItemRec), pp \in Seq(PendingRec) : ii = <<i>> /\ pp = <<p>>
      BY <2>1
    <2>3. d = [NoCall EXCEPT !.kind = "execute", !.items = ii, !.remaining = {1}, !.pending = pp]
      BY <2>2
    <2> HIDE DEF d
    <2> QED  BY <2>1, <2>2, <2>3, NoCallFacts DEF CallRec
  <1> HIDE DEF d, r
  <1> QED  BY <1>1, <1>2, <1>3, <1>4, <1>6, OneRequest

LEMMA ExploreIInv ==
    ASSUME IInv, Explore
    PROVE  IInv'
  <1> DEFINE s == MAIN_WORKER_SLOT
             r == [id |-> next_id + 1, mode |-> "explore", item |-> NoItem, lease |-> NoLease]
             p == [id |-> next_id + 1, slot |-> s]
             d == [NoCall EXCEPT !.kind = "explore", !.remaining = {1}, !.items = <<NoItem>>,
                                 !.pending = <<p>>]
  <1>1. /\ attempt.stage = "none" /\ Enter(d) /\ Send(s, r) /\ pc' = "wait"
        /\ UNCHANGED <<resq, leases, boot_index, attempt, outcome, user>>
    BY DEF Explore
  <1>2. next_id \in Nat /\ s \in Slots /\ NoItem \in ItemRec
    BY SlotFacts, RecordFacts DEF IInv, Types
  <1>3. r \in RequestRec /\ r.id = next_id + 1 /\ r.mode = "explore" /\ r.item = NoItem
    BY <1>2, RecordFacts DEF RequestRec
  <1>4. p \in PendingRec
    BY <1>2 DEF PendingRec
  <1>5. /\ d \in CallRec /\ d.kind = "explore" /\ d.items = <<NoItem>> /\ d.remaining = {1}
        /\ d.pending = <<p>> /\ d.pin = -1 /\ d.settled = 0
    <2> HIDE DEF p
    <2>1. <<NoItem>> \in Seq(ItemRec) /\ <<p>> \in Seq(PendingRec) /\ {1} \in SUBSET Nat
      BY <1>2, <1>4
    <2>2. PICK ii \in Seq(ItemRec), pp \in Seq(PendingRec) : ii = <<NoItem>> /\ pp = <<p>>
      BY <2>1
    <2>3. d = [NoCall EXCEPT !.kind = "explore", !.remaining = {1}, !.items = ii, !.pending = pp]
      BY <2>2
    <2> HIDE DEF d
    <2> QED  BY <2>1, <2>2, <2>3, NoCallFacts DEF CallRec
  <1> HIDE DEF d, r
  <1> QED  BY <1>1, <1>2, <1>3, <1>5, OneRequest

-----------------------------------------------------------------------------
(* An exception ends the call.                                             *)
LEMMA RaiseIInv ==
    ASSUME IInv, NEW why \in {"no_lease", "closed", "unpack", "startup", "empty"}, Raise(why),
           call.settled = 0, leases' \in [Contexts -> Lease], LeasesShrink,
           resq' \in Seq(Message),
           \A i \in DOMAIN resq' : \E j \in DOMAIN resq : resq[j] = resq'[i],
           UNCHANGED <<workers, next_id, boot_index>>
    PROVE  IInv'
  <1>1. outcome' = why /\ pc' = "idle" /\ call' = NoCall /\ attempt' = NoAttempt
    BY DEF Raise
  <1>2. Types'
    BY <1>1, RecordFacts, NoCallFacts DEF IInv, Types
  <1>3. CallInv' /\ AttemptInv'
    BY <1>1, RecordFacts, NoCallFacts DEF CallInv, AttemptInv
  <1>4. \A c \in Contexts : ~Unsettled(c)
    BY DEF Unsettled
  <1> QED  BY <1>1, <1>2, <1>3, <1>4, NoCallFacts, NoRequests DEF LeasesShrink

LEMMA NotSettling ==
    ASSUME IInv, pc # "wait" \/ call.remaining # {}
    PROVE  call.settled = 0
  <1>1. call.settled \in Nat
    BY CallFacts DEF IInv
  <1> QED  BY <1>1 DEF IInv, CallInv

LEMMA TailFacts ==
    ASSUME resq \in Seq(Message), resq # <<>>, resq' = Tail(resq)
    PROVE  /\ resq' \in Seq(Message) /\ 1 \in DOMAIN resq /\ Head(resq) = resq[1]
           /\ Head(resq) \in Message
           /\ \A i \in DOMAIN resq' : \E j \in DOMAIN resq : resq[j] = resq'[i]
  <1>1. \A i \in DOMAIN Tail(resq) : i + 1 \in DOMAIN resq /\ Tail(resq)[i] = resq[i + 1]
    OBVIOUS
  <1> QED  BY <1>1

(* What the registry drops.                                                *)
LEMMA DropFacts ==
    ASSUME leases \in [Contexts -> Lease], NEW s, NEW g, NEW c,
           \/ leases' = leases \/ leases' = InvalidateWorker(leases, s)
           \/ leases' = InvalidateGeneration(leases, s, g)
           \/ leases' = [leases EXCEPT ![c] = NoLease]
    PROVE  leases' \in [Contexts -> Lease] /\ LeasesShrink
  BY RecordFacts DEF InvalidateWorker, InvalidateGeneration, LeasesShrink

LEMMA SubmitClosedIInv ==
    ASSUME IInv, SubmitClosed
    PROVE  IInv'
  <1> DEFINE c == call.items[Len(call.pending) + 1].ctx
  <1>1. PICK s : \/ leases' = leases \/ leases' = InvalidateWorker(leases, s)
                 \/ leases' = [leases EXCEPT ![c] = NoLease]
    BY DEF SubmitClosed
  <1> HIDE DEF c
  <1>2. leases \in [Contexts -> Lease] /\ resq \in Seq(Message)
    BY DEF IInv, Types
  <1>3. leases' \in [Contexts -> Lease] /\ LeasesShrink
    BY <1>1, <1>2, DropFacts
  <1>4. pc = "route" /\ Raise("closed") /\ UNCHANGED <<workers, resq, next_id, boot_index>>
    BY DEF SubmitClosed, Processes
  <1>5. call.settled = 0
    BY <1>4, NotSettling
  <1>6. resq' \in Seq(Message) /\ \A i \in DOMAIN resq' : \E j \in DOMAIN resq : resq[j] = resq'[i]
    BY <1>2, <1>4
  <1> QED  BY <1>3, <1>4, <1>5, <1>6, RaiseIInv

-----------------------------------------------------------------------------
(* Routing.                                                                *)
LEMMA SubmittedFacts ==
    ASSUME IInv, NEW s \in Slots, NEW ix \in Nat, pc = "route",
           call' = [Submitted(s) EXCEPT !.index = ix], pc' = AfterRouting,
           NEW r, r.item = call.items[Len(call.pending) + 1]
    PROVE  /\ call' \in CallRec /\ CallInv' /\ EntersCall(s, r)
           /\ call'.kind = call.kind /\ call'.items = call.items /\ call'.pin = call.pin
           /\ call'.settled = 0 /\ pc' \in {"route", "wait"}
           /\ Len(call.pending) + 1 \in DOMAIN call.items
           /\ r.item \in ItemRec /\ r.item.ctx \in Contexts
  <1> DEFINE n == Len(call.pending)
             p == [id |-> next_id + 1, slot |-> s]
             pp == Append(call.pending, p)
             rr == call.remaining \cup {n + 1}
  <1>1. /\ Types /\ call \in CallRec /\ next_id \in Nat /\ n \in Nat
        /\ call.pending \in Seq(PendingRec) /\ call.items \in Seq(ItemRec)
        /\ Len(call.items) \in Nat /\ DOMAIN call.items = 1..Len(call.items)
        /\ DOMAIN call.pending = 1..n /\ call.remaining \subseteq Nat
    BY CallFacts DEF IInv, Types
  <1>2. /\ call.kind = "dispatch" /\ call.settled = 0 /\ n < Len(call.items)
        /\ DOMAIN call.results = DOMAIN call.items /\ call.remaining \subseteq DOMAIN call.pending
        /\ \A k \in DOMAIN call.items : call.items[k].ctx \in Contexts
    BY DEF IInv, CallInv
  <1>3. p \in PendingRec
    BY <1>1 DEF PendingRec
  <1>4. call' = [call EXCEPT !.pending = pp, !.remaining = rr, !.index = ix]
    BY <1>1 DEF Submitted, CallRec
  <1> HIDE DEF p
  <1>5. /\ pp \in Seq(PendingRec) /\ Len(pp) = n + 1 /\ DOMAIN pp = 1..(n + 1)
        /\ rr \in SUBSET Nat /\ rr \subseteq 1..(n + 1)
    <2>1. pp \in Seq(PendingRec) /\ Len(pp) = n + 1 /\ DOMAIN pp = 1..(n + 1)
      BY <1>1, <1>3, AppendFacts
    <2> QED  BY <1>1, <1>2, <2>1
  <1> HIDE DEF pp, rr
  <1>6. /\ call' \in CallRec /\ call'.kind = call.kind /\ call'.items = call.items
        /\ call'.pin = call.pin /\ call'.settled = call.settled /\ call'.results = call.results
        /\ call'.pending = pp /\ call'.remaining = rr
    BY <1>1, <1>4, <1>5 DEF CallRec
  <1>7. pc' = (IF n + 1 = Len(call.items) THEN "wait" ELSE "route")
    BY DEF AfterRouting
  <1>8. CallInv'
    <2>1. n + 1 <= Len(call.items) /\ (n + 1 # Len(call.items) => n + 1 < Len(call.items))
      BY <1>1, <1>2
    <2> QED  BY <1>2, <1>5, <1>6, <1>7, <2>1 DEF CallInv
  <1>9. EntersCall(s, r)
    BY <1>2, <1>6 DEF EntersCall, pp, rr, p
  <1>10. n + 1 \in DOMAIN call.items
    BY <1>1, <1>2
  <1>11. r.item \in ItemRec /\ r.item.ctx \in Contexts
    BY <1>1, <1>2, <1>10, CallFacts
  <1> QED  BY <1>2, <1>6, <1>7, <1>8, <1>9, <1>10, <1>11

(* The Leases of the attempt only go while its call is under way.          *)
LEMMA AttemptKept ==
    ASSUME IInv, pc # "idle", pc' # "idle", pc' = "route" => pc = "route", LeasesShrink,
           call'.kind = call.kind, call'.items = call.items, call'.pin = call.pin,
           call'.settled = 0, UNCHANGED <<attempt, user>>
    PROVE  AttemptInv'
  <1>1. /\ attempt.stage # "none" => user = "choice_runner" /\ attempt.ctx \in Contexts
        /\ call.pin # -1 => attempt.stage = "pair" /\ call.pin = attempt.holder
        /\ attempt.stage = "establish" =>
             /\ call.kind = "dispatch"
             /\ call.items = <<Item(attempt.ctx, "sub_branch", FALSE)>>
        /\ attempt.stage = "pair" =>
             /\ (pc = "route" => HolderIs(attempt.holder)) /\ call.kind = "dispatch"
             /\ call.items = <<Item(attempt.ctx, "continuation", TRUE),
                               Item(attempt.ctx, "sub_branch", TRUE)>>
    BY DEF IInv, AttemptInv
  <1>2. attempt.stage = "pair" /\ pc = "route" => HolderIs(attempt.holder)'
    BY <1>1 DEF HolderIs, LeasesShrink
  <1>3. attempt' = attempt /\ user' = user /\ ~(call'.settled > 0) /\ pc' # "idle"
    OBVIOUS
  <1>4. CASE attempt.stage = "none"
    BY <1>1, <1>3, <1>4 DEF AttemptInv
  <1>5. CASE attempt.stage = "establish"
    BY <1>1, <1>3, <1>5 DEF AttemptInv
  <1>6. CASE attempt.stage = "pair"
    BY <1>1, <1>2, <1>3, <1>6 DEF AttemptInv
  <1>7. CASE attempt.stage \notin {"none", "establish", "pair"}
    BY <1>1, <1>3, <1>7 DEF AttemptInv
  <1> QED  BY <1>4, <1>5, <1>6, <1>7

LEMMA RouteBootstrapIInv ==
    ASSUME IInv, NEW s \in BranchSlots, RouteBootstrap(s)
    PROVE  IInv'
  <1> DEFINE i == call.items[Len(call.pending) + 1]
             r == [id |-> next_id + 1, mode |-> "bootstrap", item |-> i, lease |-> NoLease]
  <1>1. /\ pc = "route" /\ pc' = AfterRouting /\ Send(s, r)
        /\ call' = [Submitted(s) EXCEPT !.index = @ + 1]
        /\ leases' = (IF s \in LeasedSlots THEN InvalidateWorker(leases, s) ELSE leases)
        /\ UNCHANGED <<resq, boot_index, attempt, outcome, user>>
    BY DEF RouteBootstrap, Counters
  <1>2. s \in Slots /\ s # MAIN_WORKER_SLOT /\ s # -1
    BY SlotFacts
  <1>3. Types /\ leases \in [Contexts -> Lease] /\ next_id \in Nat /\ call \in CallRec
    BY DEF IInv, Types
  <1>4. PICK ix \in Nat : call' = [Submitted(s) EXCEPT !.index = ix]
    <2>1. call.index \in Nat /\ Submitted(s).index = call.index
      BY <1>3 DEF Submitted, CallRec
    <2>2. call' = [Submitted(s) EXCEPT !.index = call.index + 1]
      BY <1>1, <2>1
    <2>3. call.index + 1 \in Nat
      BY <2>1
    <2> QED  BY <2>2, <2>3, Zenon
  <1>5. r.item = i /\ r.id = next_id + 1 /\ r.mode = "bootstrap"
    OBVIOUS
  <1> HIDE DEF r
  <1>6. /\ call' \in CallRec /\ CallInv' /\ EntersCall(s, r)
        /\ call'.kind = call.kind /\ call'.items = call.items /\ call'.pin = call.pin
        /\ call'.settled = 0 /\ pc' \in {"route", "wait"}
        /\ r.item \in ItemRec /\ r.item.ctx \in Contexts
    BY <1>1, <1>2, <1>4, <1>5, SubmittedFacts
  <1>7. r \in RequestRec
    <2> HIDE DEF i
    <2> QED  BY <1>3, <1>5, <1>6, RecordFacts DEF RequestRec, r
  <1>8. leases' \in [Contexts -> Lease] /\ LeasesShrink /\ \A c \in Contexts : leases'[c].slot # s
    <2>1. CASE s \in LeasedSlots
      BY <1>1, <1>2, <1>3, <2>1, RecordFacts DEF InvalidateWorker, LeasesShrink
    <2>2. CASE s \notin LeasedSlots
      BY <1>1, <1>2, <1>3, <2>2 DEF LeasedSlots, LeasesShrink
    <2> QED  BY <2>1, <2>2
  <1>9. SentTo(s, r) /\ workers' \in [Slots -> WorkerRec] /\ next_id' \in Nat
    BY <1>1, <1>2, <1>3, <1>5, <1>7, SendFacts
  <1>10. Types'
    BY <1>1, <1>3, <1>6, <1>8, <1>9 DEF Types
  <1>11. AttemptInv'
    BY <1>1, <1>6, <1>8, AttemptKept
  <1>12. IsRouted(s, r)
    BY <1>2, <1>5, <1>6, <1>8 DEF IsRouted
  <1> QED  BY <1>1, <1>2, <1>6, <1>7, <1>8, <1>9, <1>10, <1>11, <1>12, SendIInv

LEMMA RouteHolderIInv ==
    ASSUME IInv, RouteHolder
    PROVE  IInv'
  <1> DEFINE i == call.items[Len(call.pending) + 1]
             l == leases[i.ctx]
             s == IF call.pin # -1 THEN call.pin ELSE l.slot
             r == [id |-> next_id + 1, mode |-> "holder", item |-> i, lease |-> l]
  <1>1. /\ pc = "route" /\ UNCHANGED <<resq, boot_index, user>>
        /\ \/ /\ IsValidFor(l, s) /\ Send(s, r) /\ call' = Submitted(s) /\ pc' = AfterRouting
              /\ UNCHANGED <<leases, attempt, outcome>>
           \/ /\ leases' = [leases EXCEPT ![i.ctx] = NoLease] /\ Raise("no_lease")
              /\ UNCHANGED <<workers, next_id>>
    BY DEF RouteHolder, Counters
  <1>2. Types /\ leases \in [Contexts -> Lease] /\ next_id \in Nat /\ call \in CallRec
        /\ resq \in Seq(Message)
    BY DEF IInv, Types
  <1>3. /\ Len(call.pending) + 1 \in DOMAIN call.items /\ i \in ItemRec /\ i.ctx \in Contexts
    <2>1. Len(call.pending) \in Nat /\ Len(call.items) \in Nat /\ DOMAIN call.items = 1..Len(call.items)
      BY <1>2, CallFacts
    <2>2. Len(call.pending) + 1 \in DOMAIN call.items
      BY <1>1, <2>1 DEF IInv, CallInv
    <2> QED  BY <1>1, <1>2, <2>2, CallFacts DEF IInv, CallInv
  <1>4. CASE /\ leases' = [leases EXCEPT ![i.ctx] = NoLease] /\ Raise("no_lease")
             /\ UNCHANGED <<workers, next_id>>
    <2> HIDE DEF i
    <2>1. leases' \in [Contexts -> Lease] /\ LeasesShrink
      BY <1>2, <1>4, DropFacts
    <2>2. call.settled = 0
      BY <1>1, NotSettling
    <2>3. resq' \in Seq(Message) /\ \A j \in DOMAIN resq' : \E k \in DOMAIN resq : resq[k] = resq'[j]
      BY <1>1, <1>2
    <2> QED  BY <1>1, <1>4, <2>1, <2>2, <2>3, RaiseIInv
  <1>5. CASE /\ IsValidFor(l, s) /\ Send(s, r) /\ call' = Submitted(s) /\ pc' = AfterRouting
             /\ UNCHANGED <<leases, attempt, outcome>>
    <2>1. l \in Lease /\ l # NoLease /\ l.gen = workers[s].gen
      BY <1>2, <1>3, <1>5 DEF IsValidFor
    <2>2. l.slot \in BranchSlots
      BY <1>3, <2>1 DEF IInv, LeaseInv
    <2>3. s = l.slot
      <3>1. CASE call.pin # -1
        <4>1. attempt.stage = "pair" /\ call.pin = attempt.holder
          BY <3>1 DEF IInv, AttemptInv
        <4>2. /\ call.items = <<Item(attempt.ctx, "continuation", TRUE),
                                Item(attempt.ctx, "sub_branch", TRUE)>>
              /\ HolderIs(attempt.holder)
          BY <1>1, <4>1 DEF IInv, AttemptInv
        <4>3. i.ctx = attempt.ctx
          BY <1>3, <4>2 DEF Item
        <4> QED  BY <2>1, <3>1, <4>1, <4>2, <4>3 DEF HolderIs
      <3>2. CASE call.pin = -1
        BY <3>2
      <3> QED  BY <3>1, <3>2
    <2>4. s \in Slots /\ s # MAIN_WORKER_SLOT
      BY <2>2, <2>3, SlotFacts
    <2>5. r.item = i /\ r.id = next_id + 1 /\ r.mode = "holder" /\ r.lease = l
      OBVIOUS
    <2> HIDE DEF r, s, l
    <2>6. PICK ix \in Nat : call' = [Submitted(s) EXCEPT !.index = ix]
      <3>1. call.index \in Nat
        BY <1>2 DEF CallRec
      <3>2. Submitted(s) = [Submitted(s) EXCEPT !.index = call.index]
        BY <1>2 DEF Submitted, CallRec
      <3> QED  BY <1>5, <3>1, <3>2
    <2>7. /\ call' \in CallRec /\ CallInv' /\ EntersCall(s, r)
          /\ call'.kind = call.kind /\ call'.items = call.items /\ call'.pin = call.pin
          /\ call'.settled = 0 /\ pc' \in {"route", "wait"}
      BY <1>1, <1>5, <2>4, <2>5, <2>6, SubmittedFacts
    <2>8. r \in RequestRec
      <3> HIDE DEF i
      <3> QED  BY <1>2, <1>3, <2>1 DEF RequestRec, r
    <2>9. SentTo(s, r) /\ workers' \in [Slots -> WorkerRec] /\ next_id' \in Nat
      BY <1>1, <1>2, <1>5, <2>4, <2>5, <2>8, SendFacts
    <2>10. LeasesShrink
      BY <1>5 DEF LeasesShrink
    <2>11. Types'
      BY <1>1, <1>2, <1>5, <2>7, <2>9 DEF Types
    <2>12. AttemptInv'
      BY <1>1, <1>5, <2>7, <2>10, AttemptKept
    <2>13. IsRouted(s, r)
      BY <1>3, <2>1, <2>3, <2>4, <2>5 DEF IsRouted, l
    <2> QED  BY <1>1, <2>4, <2>7, <2>8, <2>9, <2>10, <2>11, <2>12, <2>13, SendIInv
  <1> QED  BY <1>1, <1>4, <1>5

-----------------------------------------------------------------------------
(* Waiting.                                                                *)
LEMMA ReceiveIInv ==
    ASSUME IInv, Receive
    PROVE  IInv'
  <1> DEFINE m == Head(resq)
  <1>1. /\ pc = "wait" /\ call.remaining # {} /\ resq # <<>> /\ resq' = Tail(resq)
        /\ UNCHANGED <<workers, leases, next_id, boot_index, user>>
    BY DEF Receive, Waiting, Counters
  <1>2. Types /\ leases \in [Contexts -> Lease] /\ resq \in Seq(Message) /\ call \in CallRec
    BY DEF IInv, Types
  <1>3. /\ resq' \in Seq(Message) /\ 1 \in DOMAIN resq /\ m = resq[1] /\ m \in Message
        /\ \A i \in DOMAIN resq' : \E j \in DOMAIN resq : resq[j] = resq'[i]
    BY <1>1, <1>2, TailFacts
  <1>4. call.settled = 0
    BY <1>1, NotSettling
  <1>5. leases' \in [Contexts -> Lease] /\ LeasesShrink
    BY <1>1, <1>2 DEF LeasesShrink
  <1>6. CASE m.tag # "answer"
    <2>1. Raise("unpack")
      BY <1>6 DEF Receive
    <2> QED  BY <1>1, <1>3, <1>4, <1>5, <2>1, RaiseIInv
  <1>7. CASE m.tag = "answer"
    <2> DEFINE E == Expected(m)
               a == m.result
               f == [k \in DOMAIN call.results |-> IF k \in E THEN a ELSE call.results[k]]
               R == call.remaining \ E
    <2>1. call' = [call EXCEPT !.remaining = R, !.results = f]
          /\ UNCHANGED <<pc, attempt, outcome>>
      BY <1>7 DEF Receive
    <2>2. a \in Result /\ IsAnswer(a)
      <3>1. a \in Result
        BY <1>3, <1>7 DEF Message
      <3>2. IsAnswer(resq[1].result)
        BY <1>3, <1>7 DEF IInv, AnswerInv
      <3> QED  BY <1>3, <3>1, <3>2
    <2>3. E \subseteq DOMAIN call.pending /\ \A k \in E : call.pending[k].id = a.id
      BY DEF Expected, IInv, CallInv
    <2> HIDE DEF E, a
    <2>4. /\ f \in Seq(Result) /\ DOMAIN f = DOMAIN call.results
          /\ \A k \in DOMAIN f : (k \in E /\ f[k] = a) \/ f[k] = call.results[k]
      <3>1. call.results \in Seq(Result) /\ \A k \in DOMAIN call.results : call.results[k] \in Result
        BY <1>2, CallFacts
      <3>2. PICK n \in Nat : DOMAIN call.results = 1..n
        BY <3>1
      <3>3. f = [k \in 1..n |-> f[k]] /\ DOMAIN f = 1..n /\ \A k \in 1..n : f[k] \in Result
        BY <2>2, <3>1, <3>2
      <3>4. \A k \in DOMAIN f : (k \in E /\ f[k] = a) \/ f[k] = call.results[k]
        OBVIOUS
      <3> HIDE DEF f
      <3>5. f \in Seq(Result)
        BY <3>2, <3>3
      <3> QED  BY <3>2, <3>3, <3>4, <3>5
    <2>5. R \in SUBSET Nat /\ R \subseteq call.remaining
      BY <1>2, CallFacts
    <2> HIDE DEF f, R
    <2>6. /\ call' \in CallRec /\ call'.kind = call.kind /\ call'.items = call.items
          /\ call'.pin = call.pin /\ call'.settled = call.settled /\ call'.results = f
          /\ call'.pending = call.pending /\ call'.remaining = R /\ call'.hung = call.hung
          /\ call'.target = call.target
      BY <1>2, <2>1, <2>4, <2>5 DEF CallRec
    <2>7. Types'
      BY <1>1, <1>3, <1>5, <2>1, <2>6 DEF IInv, Types
    <2>8. CallInv'
      BY <1>1, <1>4, <2>1, <2>4, <2>5, <2>6 DEF IInv, CallInv
    <2>9. AttemptInv'
      BY <1>1, <1>4, <1>5, <2>1, <2>6, AttemptKept
    <2>10. SameRequests /\ OldOrReplaced
      BY <1>1, <1>3, <1>4, <2>6 DEF SameRequests, OldOrReplaced
    <2>11. StillOwed
      <3>1. ASSUME NEW t \in Slots, NEW i \in DOMAIN workers[t].inbox, NEW q,
                   q = workers[t].inbox[i], q.id > Base
            PROVE  q.id - Base \in R
        <4>1. q.id - Base \in call.remaining /\ call.pending[q.id - Base].slot = t
              /\ call.pending[q.id - Base].id = Base + (q.id - Base)
              /\ q.id \in Nat /\ Base \in Nat
          BY <3>1 DEF IInv, IdInv, CallInv
        <4>2. ASSUME q.id - Base \in E PROVE FALSE
          <5>1. a.id = q.id
            BY <2>3, <4>1, <4>2
          <5>2. a.slot = t
            BY <2>2, <3>1, <4>1, <5>1 DEF IsAnswer, Fits
          <5>3. a.id < q.id
            BY <2>2, <3>1, <5>2 DEF IsAnswer
          <5> QED  BY <4>1, <5>1, <5>3
        <4> QED  BY <4>1, <4>2 DEF R
      <3> QED  BY <1>1, <2>6, <3>1 DEF StillOwed
    <2>12. ResultsAreAnswers
      <3>1. ASSUME NEW k \in DOMAIN f
            PROVE  \/ NotAnswered(f[k])
                   \/ /\ k \in DOMAIN call.pending /\ f[k].id = call.pending[k].id
                      /\ IsAnswer(f[k])
        <4>1. CASE k \in E /\ f[k] = a
          BY <2>2, <2>3, <4>1
        <4>2. CASE f[k] = call.results[k]
          BY <2>4, <4>2 DEF IInv, AnswerInv
        <4> QED  BY <2>4, <4>1, <4>2
      <3> QED  BY <2>6, <3>1 DEF ResultsAreAnswers
    <2> QED  BY <1>5, <2>7, <2>8, <2>9, <2>10, <2>11, <2>12, ProgressIInv
  <1> QED  BY <1>6, <1>7

(* The results stay as they are.                                           *)
LEMMA ResultsKept ==
    ASSUME IInv, call'.results = call.results, NEW k \in DOMAIN call'.results
    PROVE  \/ NotAnswered(call'.results[k])
           \/ /\ k \in DOMAIN call.pending /\ call'.results[k].id = call.pending[k].id
              /\ \E a : a = call'.results[k] /\ IsAnswer(a)
  BY DEF IInv, AnswerInv

LEMMA OwedKept ==
    ASSUME IInv, NEW t \in Slots, NEW i \in DOMAIN workers[t].inbox, workers[t].inbox[i].id > Base
    PROVE  /\ workers[t].inbox[i].id - Base \in call.remaining
           /\ call.pending[workers[t].inbox[i].id - Base].slot = t
  BY DEF IInv, IdInv

LEMMA TimesOutIInv ==
    ASSUME IInv, TimesOut
    PROVE  IInv'
  <1>1. /\ pc = "wait" /\ call.remaining # {}
        /\ UNCHANGED <<workers, resq, leases, next_id, boot_index, user>>
    BY DEF TimesOut, Waiting, Processes
  <1>2. /\ Types /\ leases \in [Contexts -> Lease] /\ resq \in Seq(Message) /\ call \in CallRec
        /\ workers \in [Slots -> WorkerRec]
    BY DEF IInv, Types
  <1>3. call.settled = 0 /\ leases' \in [Contexts -> Lease] /\ LeasesShrink
        /\ resq' \in Seq(Message) /\ \A i \in DOMAIN resq' : \E j \in DOMAIN resq : resq[j] = resq'[i]
    BY <1>1, <1>2, NotSettling DEF LeasesShrink
  <1>4. CASE Raise("empty")
    BY <1>1, <1>3, <1>4, RaiseIInv
  <1>5. CASE /\ pc' = "respawn"
             /\ call' = [call EXCEPT !.hung = {call.pending[k].slot : k \in call.remaining}]
             /\ UNCHANGED <<attempt, outcome>>
    <2> DEFINE H == {call.pending[k].slot : k \in call.remaining}
    <2>1. H \in SUBSET Slots
      BY <1>2, CallFacts DEF IInv, CallInv, PendingRec
    <2> HIDE DEF H
    <2>2. /\ call' \in CallRec /\ call'.kind = call.kind /\ call'.items = call.items
          /\ call'.pin = call.pin /\ call'.settled = call.settled /\ call'.results = call.results
          /\ call'.pending = call.pending /\ call'.remaining = call.remaining
      BY <1>2, <1>5, <2>1 DEF CallRec, H
    <2>3. Types'
      BY <1>1, <1>3, <1>5, <2>2 DEF IInv, Types
    <2>4. CallInv'
      BY <1>1, <1>3, <1>5, <2>2 DEF IInv, CallInv
    <2>5. AttemptInv'
      BY <1>1, <1>3, <1>5, <2>2, AttemptKept
    <2>6. SameRequests /\ OldOrReplaced
      BY <1>1, <1>3, <2>2 DEF SameRequests, OldOrReplaced
    <2>7. StillOwed
      BY <1>1, <2>2, OwedKept DEF StillOwed
    <2>8. ResultsAreAnswers
      BY <2>2, ResultsKept DEF ResultsAreAnswers
    <2> QED  BY <1>3, <2>3, <2>4, <2>5, <2>6, <2>7, <2>8, ProgressIInv
  <1> QED  BY <1>4, <1>5 DEF TimesOut

LEMMA RespawnIInv ==
    ASSUME IInv, NEW s \in Slots, Respawn(s)
    PROVE  IInv'
  <1>1. /\ pc = "respawn" /\ s \in call.hung /\ pc' = "ready"
        /\ workers' = [workers EXCEPT ![s] = Fresh(workers[s].gen + 1)]
        /\ call' = [call EXCEPT !.target = s]
        /\ UNCHANGED <<resq, leases, next_id, boot_index, attempt, outcome, user>>
    BY DEF Respawn, Counters
  <1>2. /\ Types /\ leases \in [Contexts -> Lease] /\ resq \in Seq(Message) /\ call \in CallRec
        /\ workers \in [Slots -> WorkerRec] /\ workers[s].gen \in Nat \ {0}
    BY WorkerFacts DEF IInv, Types
  <1>3. PICK g \in Nat \ {0}, p \in {"starting", "up", "dead"} :
          g = workers[s].gen + 1 /\ p = "starting"
    BY <1>2
  <1>4. Fresh(g) = [Fresh(g) EXCEPT !.proc = p]
    BY <1>3 DEF Fresh
  <1>5. PICK x : x = Fresh(g)
    OBVIOUS
  <1>6. /\ x \in WorkerRec /\ x.gen = g /\ x.inbox = <<>> /\ DOMAIN x.inbox = {}
        /\ x.current = NoContext
    BY <1>3, <1>4, <1>5, FreshFacts
  <1>7. /\ workers' \in [Slots -> WorkerRec] /\ workers'[s] = x
        /\ \A t \in Slots : t # s => workers'[t] = workers[t]
    BY <1>1, <1>2, <1>3, <1>5, <1>6
  <1>8. call.settled = 0 /\ leases' \in [Contexts -> Lease] /\ LeasesShrink
        /\ resq' \in Seq(Message) /\ \A i \in DOMAIN resq' : \E j \in DOMAIN resq : resq[j] = resq'[i]
    BY <1>1, <1>2, NotSettling DEF LeasesShrink
  <1>9. /\ call' \in CallRec /\ call'.kind = call.kind /\ call'.items = call.items
        /\ call'.pin = call.pin /\ call'.settled = call.settled /\ call'.results = call.results
        /\ call'.pending = call.pending /\ call'.remaining = call.remaining
        /\ call'.target = s
    BY <1>1, <1>2 DEF CallRec
  <1>10. Types'
    BY <1>1, <1>7, <1>8, <1>9 DEF IInv, Types
  <1>11. CallInv'
    BY <1>1, <1>6, <1>7, <1>8, <1>9 DEF IInv, CallInv
  <1>12. AttemptInv'
    BY <1>1, <1>8, <1>9, AttemptKept
  <1>13. SameRequests
    BY <1>1, <1>8, <1>9 DEF SameRequests
  <1>14. OldOrReplaced
    BY <1>3, <1>6, <1>7 DEF OldOrReplaced
  <1>15. StillOwed
    BY <1>6, <1>7, <1>9, OwedKept DEF StillOwed
  <1>16. ResultsAreAnswers
    BY <1>9, ResultsKept DEF ResultsAreAnswers
  <1> QED  BY <1>8, <1>10, <1>11, <1>12, <1>13, <1>14, <1>15, <1>16, ProgressIInv

LEMMA ReadyTimesOutIInv ==
    ASSUME IInv, ReadyTimesOut
    PROVE  IInv'
  <1>1. /\ pc = "ready" /\ Raise("empty")
        /\ UNCHANGED <<workers, resq, leases, next_id, boot_index, user>>
    BY DEF ReadyTimesOut, Processes
  <1>2. call.settled = 0 /\ leases' \in [Contexts -> Lease] /\ LeasesShrink
        /\ resq' \in Seq(Message) /\ \A i \in DOMAIN resq' : \E j \in DOMAIN resq : resq[j] = resq'[i]
    BY <1>1, NotSettling DEF LeasesShrink, IInv, Types
  <1> QED  BY <1>1, <1>2, RaiseIInv

LEMMA AwaitReadyIInv ==
    ASSUME IInv, AwaitReady
    PROVE  IInv'
  <1> DEFINE m == Head(resq)
  <1>1. /\ pc = "ready" /\ resq # <<>> /\ resq' = Tail(resq)
        /\ UNCHANGED <<workers, next_id, boot_index, user>>
    BY DEF AwaitReady, Counters
  <1>2. /\ Types /\ leases \in [Contexts -> Lease] /\ resq \in Seq(Message) /\ call \in CallRec
        /\ workers \in [Slots -> WorkerRec] /\ call.target \in Slots
    BY <1>1 DEF IInv, Types, CallInv
  <1>3. /\ resq' \in Seq(Message) /\ call.settled = 0
        /\ \A i \in DOMAIN resq' : \E j \in DOMAIN resq : resq[j] = resq'[i]
    BY <1>1, <1>2, TailFacts, NotSettling
  <1>4. \/ (\E why \in {"no_lease", "closed", "unpack", "startup", "empty"} : Raise(why))
             /\ UNCHANGED leases
        \/ Respawned
        \/ UNCHANGED <<leases, call, pc, attempt, outcome>>
    BY DEF AwaitReady
  <1>5. CASE (\E why \in {"no_lease", "closed", "unpack", "startup", "empty"} : Raise(why))
             /\ UNCHANGED leases
    <2>1. leases' \in [Contexts -> Lease] /\ LeasesShrink
      BY <1>2, <1>5 DEF LeasesShrink
    <2> QED  BY <1>1, <1>3, <1>5, <2>1, RaiseIInv
  <1>6. CASE UNCHANGED <<leases, call, pc, attempt, outcome>>
    <2>1. leases' \in [Contexts -> Lease] /\ LeasesShrink /\ leases' = leases
          /\ call' = call /\ pc' = pc /\ attempt' = attempt /\ outcome' = outcome
      BY <1>2, <1>6 DEF LeasesShrink
    <2>2. Types' /\ CallInv' /\ AttemptInv'
      <3>1. Types'
        BY <1>1, <1>3, <2>1 DEF IInv, Types
      <3>2. CallInv'
        BY <1>1, <2>1 DEF IInv, CallInv
      <3> QED  BY <1>1, <1>3, <2>1, <3>1, <3>2, AttemptKept
    <2>3. SameRequests /\ OldOrReplaced
      BY <1>1, <1>3, <2>1 DEF SameRequests, OldOrReplaced
    <2>4. StillOwed
      BY <1>1, <2>1, OwedKept DEF StillOwed
    <2>5. ResultsAreAnswers
      BY <2>1, ResultsKept DEF ResultsAreAnswers
    <2> QED  BY <2>1, <2>2, <2>3, <2>4, <2>5, ProgressIInv
  <1>7. CASE Respawned
    <2> DEFINE s == call.target
               O == {k \in call.remaining : call.pending[k].slot = s}
               left == call.hung \ {s}
               none == [NoResult EXCEPT !.slot = s]
               f == [k \in DOMAIN call.results |-> IF k \in O THEN none ELSE call.results[k]]
               R == call.remaining \ O
    <2>1. /\ leases' = InvalidateGeneration(leases, s, workers[s].gen - 1)
          /\ call' = [call EXCEPT !.remaining = R, !.hung = left, !.target = -1, !.results = f]
          /\ pc' = (IF left # {} THEN "respawn" ELSE "wait")
          /\ UNCHANGED <<attempt, outcome>>
      BY <1>7 DEF Respawned
    <2>2. leases' \in [Contexts -> Lease] /\ LeasesShrink
      BY <1>2, <2>1, DropFacts
    <2>3. none \in Result /\ NotAnswered(none)
      BY <1>2, RecordFacts DEF Result, NotAnswered, NoResult
    <2>4. R \in SUBSET Nat /\ R \subseteq call.remaining /\ left \in SUBSET Slots
          /\ \A k \in call.remaining : k \notin R => call.pending[k].slot = s
      BY <1>2, CallFacts
    <2> HIDE DEF none, O
    <2>5. /\ f \in Seq(Result) /\ DOMAIN f = DOMAIN call.results
          /\ \A k \in DOMAIN f : f[k] = none \/ f[k] = call.results[k]
      <3>1. call.results \in Seq(Result) /\ \A k \in DOMAIN call.results : call.results[k] \in Result
        BY <1>2, CallFacts
      <3>2. PICK n \in Nat : DOMAIN call.results = 1..n
        BY <3>1
      <3>3. f = [k \in 1..n |-> f[k]] /\ DOMAIN f = 1..n /\ \A k \in 1..n : f[k] \in Result
        BY <2>3, <3>1, <3>2
      <3>4. \A k \in DOMAIN f : f[k] = none \/ f[k] = call.results[k]
        OBVIOUS
      <3> HIDE DEF f
      <3>5. f \in Seq(Result)
        BY <3>2, <3>3
      <3> QED  BY <3>2, <3>3, <3>4, <3>5
    <2> HIDE DEF f, R, left
    <2>6. /\ call' \in CallRec /\ call'.kind = call.kind /\ call'.items = call.items
          /\ call'.pin = call.pin /\ call'.settled = call.settled /\ call'.results = f
          /\ call'.pending = call.pending /\ call'.remaining = R
      BY <1>2, <2>1, <2>4, <2>5 DEF CallRec
    <2>7. pc' \in {"respawn", "wait"}
      BY <2>1
    <2>8. Types'
      BY <1>1, <1>3, <2>1, <2>2, <2>6, <2>7 DEF IInv, Types
    <2>9. CallInv'
      BY <1>1, <1>3, <2>4, <2>5, <2>6, <2>7 DEF IInv, CallInv
    <2>10. AttemptInv'
      BY <1>1, <1>3, <2>1, <2>2, <2>6, <2>7, AttemptKept
    <2>11. SameRequests /\ OldOrReplaced
      BY <1>1, <1>3, <2>6 DEF SameRequests, OldOrReplaced
    <2>12. StillOwed
      <3>1. DOMAIN workers[s].inbox = {}
        BY <1>1 DEF IInv, CallInv
      <3> QED  BY <1>1, <2>4, <2>6, <3>1, OwedKept DEF StillOwed
    <2>13. ResultsAreAnswers
      <3>1. ASSUME NEW k \in DOMAIN f
            PROVE  \/ NotAnswered(f[k])
                   \/ /\ k \in DOMAIN call.pending /\ f[k].id = call.pending[k].id
                      /\ IsAnswer(f[k])
        <4>1. CASE f[k] = none
          BY <2>3, <4>1
        <4>2. CASE f[k] = call.results[k]
          BY <2>5, <4>2 DEF IInv, AnswerInv
        <4> QED  BY <2>5, <4>1, <4>2
      <3> QED  BY <2>6, <3>1 DEF ResultsAreAnswers
    <2> QED  BY <2>2, <2>8, <2>9, <2>10, <2>11, <2>12, <2>13, ProgressIInv
  <1> QED  BY <1>4, <1>5, <1>6, <1>7

-----------------------------------------------------------------------------
(* Settling and returning.                                                 *)
LEMMA SettleLeaseFacts ==
    ASSUME leases \in [Contexts -> Lease], NEW c \in Contexts, NEW a \in Result,
           leases' = SettleLease(leases, c, a)
    PROVE  /\ leases' \in [Contexts -> Lease]
           /\ \A d \in Contexts : d # c => leases'[d] = leases[d] \/ leases'[d] = NoLease
           /\ leases'[c] = NoLease \/ (a.ok /\ a.lease # NoLease /\ leases'[c] = a.lease)
  <1>1. a.lease \in Lease
    BY DEF Result
  <1> DEFINE T == [leases EXCEPT ![c] = NoLease]
  <1>2. /\ T \in [Contexts -> Lease] /\ T[c] = NoLease
        /\ \A d \in Contexts : d # c => T[d] = leases[d]
    BY RecordFacts
  <1>3. \/ a.ok /\ a.lease # NoLease /\ leases' = [T EXCEPT ![c] = a.lease]
        \/ leases' = InvalidateWorker(T, a.slot)
        \/ leases' = T
    BY DEF SettleLease
  <1> HIDE DEF T
  <1> QED  BY <1>1, <1>2, <1>3, RecordFacts DEF InvalidateWorker

LEMMA SettleIInv ==
    ASSUME IInv, Settle
    PROVE  IInv'
  <1> DEFINE k == call.settled + 1
             c == call.items[k].ctx
             a == call.results[k]
  <1>1. /\ pc = "wait" /\ call.remaining = {} /\ call.kind = "dispatch"
        /\ call.settled < Len(call.items)
        /\ leases' = SettleLease(leases, c, a) /\ call' = [call EXCEPT !.settled = k]
        /\ UNCHANGED <<workers, resq, next_id, boot_index, pc, attempt, outcome, user>>
    BY DEF Settle, Answered, ToSettle, Processes, Counters
  <1>2. Types /\ leases \in [Contexts -> Lease] /\ call \in CallRec /\ call.settled \in Nat
        /\ Len(call.items) \in Nat /\ DOMAIN call.items = 1..Len(call.items)
        /\ Len(call.pending) \in Nat /\ DOMAIN call.pending = 1..Len(call.pending)
    BY CallFacts DEF IInv, Types
  <1>3. /\ k \in Nat /\ k > 0 /\ k \in DOMAIN call.items /\ k \in DOMAIN call.pending
        /\ k \in DOMAIN call.results
        /\ c \in Contexts /\ a \in Result /\ Len(call.pending) = Len(call.items)
    <2>1. k \in Nat /\ k > 0 /\ k \in DOMAIN call.items
      BY <1>1, <1>2
    <2>2. Len(call.pending) = Len(call.items) /\ DOMAIN call.results = DOMAIN call.items
      BY <1>1 DEF IInv, CallInv
    <2>3. c \in Contexts
      BY <1>1, <2>1 DEF IInv, CallInv
    <2> HIDE DEF k
    <2> QED  BY <1>2, <2>1, <2>2, <2>3, CallFacts
  <1> HIDE DEF k
  <1>4. /\ call' \in CallRec /\ call'.kind = call.kind /\ call'.items = call.items
        /\ call'.pin = call.pin /\ call'.settled = k /\ call'.results = call.results
        /\ call'.pending = call.pending /\ call'.remaining = {}
    BY <1>1, <1>2, <1>3 DEF CallRec
  <1>5. /\ leases' \in [Contexts -> Lease]
        /\ \A d \in Contexts : d # c => leases'[d] = leases[d] \/ leases'[d] = NoLease
        /\ leases'[c] = NoLease \/ (a.ok /\ a.lease # NoLease /\ leases'[c] = a.lease)
    <2> HIDE DEF a, c
    <2> QED  BY <1>1, <1>2, <1>3, SettleLeaseFacts
  <1>6. ASSUME a.ok
        PROVE  IsAnswer(a) /\ a.id = Base + k /\ Base \in Nat /\ a.id - Base = k /\ a.id > Base
    <2>1. IsAnswer(a) /\ a.id = call.pending[k].id
      BY <1>3, <1>6 DEF IInv, AnswerInv, NotAnswered
    <2>2. call.pending[k].id = Base + k /\ Base \in Nat
      BY <1>3 DEF IInv, IdInv
    <2> HIDE DEF a
    <2> QED  BY <1>3, <2>1, <2>2
  <1>7. Types'
    BY <1>1, <1>4, <1>5 DEF IInv, Types
  <1>8. CallInv'
    BY <1>1, <1>4 DEF IInv, CallInv
  <1>9. Base' = Base
    BY <1>1, <1>4 DEF Base
  <1>10. IdInv'
    <2>1. call'.remaining = call.remaining /\ next_id' = next_id /\ workers' = workers
      BY <1>1, <1>4
    <2> QED  BY <1>4, <1>9, <2>1 DEF IInv, IdInv
  <1>11. ModeInv' /\ HolderInv'
    BY <1>1 DEF IInv, ModeInv, HolderInv, Establishes
  <1>12. ASSUME NEW b, IsAnswer(b) PROVE IsAnswer(b)'
    <2>1. \A j : LastOfItsContext(j)' <=> LastOfItsContext(j)
      BY <1>4 DEF LastOfItsContext
    <2>2. \A j : Fits(j, b)' <=> Fits(j, b)
      BY <1>1, <1>4, <2>1 DEF Fits
    <2> QED  BY <1>1, <1>9, <1>12, <2>2 DEF IsAnswer
  <1>13. AnswerInv'
    BY <1>1, <1>4, <1>12 DEF IInv, AnswerInv, NotAnswered
  <1>14. LeaseInv'
    <2>1. ASSUME NEW d \in Contexts, leases'[d] # NoLease
          PROVE  /\ leases'[d].slot \in BranchSlots
                 /\ leases'[d].gen \in 1..workers[leases'[d].slot].gen
                 /\ leases'[d].gen = workers[leases'[d].slot].gen /\ ~Unsettled(d)' =>
                      HoldsFor(workers[leases'[d].slot], leases'[d], d)
      <3>1. CASE d # c
        <4>1. leases'[d] = leases[d]
          BY <1>5, <2>1, <3>1
        <4>2. Unsettled(d) => Unsettled(d)'
          <5>1. SUFFICES ASSUME Unsettled(d) PROVE Unsettled(d)'
            OBVIOUS
          <5>2. PICK j \in DOMAIN call.items : j > call.settled /\ call.items[j].ctx = d
            BY <5>1 DEF Unsettled
          <5>3. j # k
            BY <3>1, <5>2
          <5>4. j > k
            BY <1>2, <5>2, <5>3 DEF k
          <5> QED  BY <1>3, <1>4, <5>2, <5>4 DEF Unsettled
        <4> QED  BY <2>1, <4>1, <4>2 DEF IInv, LeaseInv
      <3>2. CASE d = c
        <4>1. a.ok /\ a.lease # NoLease /\ leases'[d] = a.lease
          BY <1>5, <2>1, <3>2
        <4>2. IsAnswer(a) /\ Fits(k, a)
          BY <1>6, <4>1 DEF IsAnswer
        <4>3. /\ a.lease.slot = a.slot /\ a.slot \in BranchSlots /\ a.slot \in Slots
              /\ a.lease.gen \in 1..workers[a.slot].gen
          BY <4>1, <4>2, SlotFacts DEF IsAnswer
        <4>4. ASSUME a.lease.gen = workers[a.slot].gen, ~Unsettled(d)'
              PROVE  HoldsFor(workers[a.slot], a.lease, d)
          <5>1. LastOfItsContext(k)
            <6>1. SUFFICES ASSUME NEW j \in DOMAIN call.pending, j > k, call.items[j].ctx = c
                           PROVE  FALSE
              BY DEF LastOfItsContext
            <6>2. Unsettled(d)'
              BY <1>2, <1>3, <1>4, <3>2, <6>1 DEF Unsettled
            <6> QED  BY <4>4, <6>2
          <5>2. workers[a.slot].current = d => workers[a.slot].reached.by = a.lease.by
            BY <1>3, <3>2, <4>1, <4>2, <4>4, <5>1 DEF Fits
          <5>3. ASSUME NEW i \in DOMAIN workers[a.slot].inbox PROVE FALSE
            <6>1. a.id < workers[a.slot].inbox[i].id
              BY <4>2 DEF IsAnswer
            <6>2. workers[a.slot].inbox[i].id \in Nat
              BY <4>3 DEF IInv, IdInv
            <6>3. workers[a.slot].inbox[i].id > Base
              BY <1>3, <1>6, <4>1, <6>1, <6>2
            <6> QED  BY <1>1, <4>3, <6>3, OwedKept
          <5> QED  BY <5>2, <5>3 DEF HoldsFor
        <4> QED  BY <4>1, <4>3, <4>4
      <3> QED  BY <3>1, <3>2
    <2>2. workers' = workers
      BY <1>1
    <2> QED  BY <2>1, <2>2 DEF LeaseInv
  <1>15. AttemptInv'
    <2>1. /\ attempt.stage # "none" => user = "choice_runner" /\ attempt.ctx \in Contexts
          /\ call.pin # -1 => attempt.stage = "pair" /\ call.pin = attempt.holder
          /\ attempt.stage = "establish" => call.items = <<Item(attempt.ctx, "sub_branch", FALSE)>>
          /\ attempt.stage = "pair" =>
               call.items = <<Item(attempt.ctx, "continuation", TRUE),
                              Item(attempt.ctx, "sub_branch", TRUE)>>
      BY <1>1 DEF IInv, AttemptInv
    <2>2. ASSUME attempt.stage = "establish" PROVE HolderIs(call.results[1].slot)'
      <3>1. k = 1 /\ c = attempt.ctx
        BY <1>3, <2>1, <2>2 DEF Item
      <3>2. leases'[c] = NoLease \/ leases'[c].slot = a.slot
        BY <1>5, <1>6 DEF IsAnswer
      <3> QED  BY <1>1, <1>4, <3>1, <3>2 DEF HolderIs
    <2>3. attempt' = attempt /\ user' = user /\ pc' = "wait"
      BY <1>1
    <2>4. CASE attempt.stage = "establish"
      BY <1>1, <1>4, <2>1, <2>2, <2>3, <2>4 DEF AttemptInv
    <2>5. CASE attempt.stage = "pair"
      BY <1>1, <1>4, <2>1, <2>3, <2>5 DEF AttemptInv
    <2>6. CASE attempt.stage \notin {"establish", "pair"}
      BY <1>4, <2>1, <2>3, <2>6 DEF AttemptInv
    <2> QED  BY <2>4, <2>5, <2>6
  <1> QED  BY <1>7, <1>8, <1>10, <1>11, <1>13, <1>14, <1>15 DEF IInv

LEMMA ReturnIInv ==
    ASSUME IInv, Return
    PROVE  IInv'
  <1>1. /\ pc = "wait" /\ call.remaining = {} /\ ~ToSettle /\ pc' = "idle" /\ outcome' = "returned"
        /\ call' = NoCall
        /\ \/ call.kind = "dispatch" /\ boot_index' = call.index /\ attempt' = NextStage
           \/ call.kind # "dispatch" /\ boot_index' = boot_index /\ attempt' = attempt
        /\ UNCHANGED <<workers, resq, leases, next_id, user>>
    BY DEF Return, Answered, Processes, Counters
  <1>2. /\ Types /\ call.settled \in Nat /\ Len(call.items) \in Nat /\ attempt \in AttemptRec
        /\ DOMAIN call.items = 1..Len(call.items) /\ call.index \in Nat /\ boot_index \in Nat
    BY CallFacts DEF IInv, Types
  <1>3. \A c \in Contexts : ~Unsettled(c)
    BY <1>1, <1>2 DEF Unsettled, ToSettle, IInv, CallInv
  <1>4. attempt' \in AttemptRec /\ AttemptInv'
    <2>0. call'.pin = -1 /\ call'.settled = 0
      BY <1>1, NoCallFacts
    <2>1. CASE attempt' = NoAttempt
      BY <1>1, <2>0, <2>1, RecordFacts DEF AttemptInv
    <2>2. CASE call.kind # "dispatch" /\ attempt' = attempt
      <3>1. attempt.stage # "establish" /\ attempt.stage # "pair"
        BY <1>1, <2>2 DEF IInv, AttemptInv
      <3>2. attempt.stage # "none" => user = "choice_runner" /\ attempt.ctx \in Contexts
        BY DEF IInv, AttemptInv
      <3> QED  BY <1>1, <1>2, <2>0, <2>2, <3>1, <3>2 DEF AttemptInv
    <2>3. CASE /\ call.kind = "dispatch" /\ attempt.stage = "establish"
               /\ attempt' = [attempt EXCEPT !.stage = "pair", !.holder = call.results[1].slot]
      <3>1. /\ call.items = <<Item(attempt.ctx, "sub_branch", FALSE)>>
            /\ user = "choice_runner" /\ attempt.ctx \in Contexts
        BY <2>3 DEF IInv, AttemptInv
      <3>2. 1 \in DOMAIN call.items /\ Len(call.items) = 1
        BY <3>1
      <3>3. call.settled > 0
        BY <1>1, <1>2, <2>3, <3>2 DEF ToSettle
      <3>4. HolderIs(call.results[1].slot)
        BY <2>3, <3>3 DEF IInv, AttemptInv
      <3>5. call.results[1].slot \in Slots \cup {-1}
        <4>1. call.results[1] \in Result
          BY <1>2, <3>2, CallFacts DEF IInv, CallInv
        <4> QED  BY <4>1 DEF Result
      <3>6. /\ attempt' \in AttemptRec /\ attempt'.stage = "pair" /\ attempt'.ctx = attempt.ctx
            /\ attempt'.holder = call.results[1].slot
        BY <1>2, <2>3, <3>5 DEF AttemptRec
      <3>7. HolderIs(attempt.holder)'
        BY <1>1, <3>4, <3>6 DEF HolderIs
      <3> QED  BY <1>1, <2>0, <3>1, <3>6, <3>7 DEF AttemptInv
    <2>4. CASE attempt.stage = "pair" /\ attempt' = [attempt EXCEPT !.stage = "replay"]
      <3>1. user = "choice_runner" /\ attempt.ctx \in Contexts
        BY <2>4 DEF IInv, AttemptInv
      <3>2. attempt' \in AttemptRec /\ attempt'.stage = "replay" /\ attempt'.ctx = attempt.ctx
        BY <1>2, <2>4 DEF AttemptRec
      <3> QED  BY <1>1, <2>0, <3>1, <3>2 DEF AttemptInv
    <2> QED  BY <1>1, <2>1, <2>2, <2>3, <2>4 DEF NextStage
  <1>5. Types'
    BY <1>1, <1>2, <1>4, NoCallFacts DEF Types
  <1>6. CallInv'
    BY <1>1, NoCallFacts DEF CallInv
  <1> QED  BY <1>1, <1>3, <1>4, <1>5, <1>6, NoCallFacts, NoRequests

-----------------------------------------------------------------------------
LEMMA StepIInv ==
    ASSUME IInv, Step
    PROVE  IInv'
  BY RouteBootstrapIInv, RouteHolderIInv, SubmitClosedIInv, ReceiveIInv, TimesOutIInv,
     RespawnIInv, AwaitReadyIInv, ReadyTimesOutIInv, SettleIInv, ReturnIInv DEF Step

LEMMA StutterIInv ==
    ASSUME IInv, UNCHANGED vars
    PROVE  IInv'
  <1>1. UNCHANGED <<workers, resq, leases, next_id, boot_index, pc, call, attempt, outcome, user>>
    BY DEF vars
  <1>2. workers' \in [Slots -> WorkerRec] /\ resq' \in Seq(Message)
    BY <1>1 DEF IInv, Types
  <1> QED  BY <1>1, <1>2, WorkersQuiet

LEMMA NextIInv ==
    ASSUME IInv, [Next]_vars
    PROVE  IInv'
  <1>1. CASE UNCHANGED vars
    BY <1>1, StutterIInv
  <1>2. CASE Step
    BY <1>2, StepIInv
  <1>3. ASSUME NEW s \in Slots, Worker(s) \/ WorkerDies(s) PROVE IInv'
    BY <1>3, WorkerStartsOrDies, WorkerExecutesIInv, WorkerExploresIInv DEF Worker
  <1>4. CASE (\E c \in Contexts : Establish(c)) \/ ResolvePair \/ DeterminismReplay
    BY <1>4, ChoiceRunnerIInv
  <1>5. CASE (\E b \in BeamBatches : DispatchBeam(b)) \/ (\E b \in DirectBatches : DispatchDirect(b))
    BY <1>5, BatchIInv
  <1>6. CASE NothingToBranchOn \/ Explore \/ Close
    BY <1>6, NothingToBranchOnIInv, ExploreIInv, CloseIInv
  <1>7. ASSUME NEW s \in BranchSlots, NEW c \in Contexts, Execute(s, c) PROVE IInv'
    BY <1>7, ExecuteIInv
  <1>8. ASSUME NEW s \in Slots, RespawnByCaller(s) PROVE IInv'
    BY <1>8, RespawnByCallerIInv
  <1> QED  BY <1>1, <1>2, <1>3, <1>4, <1>5, <1>6, <1>7, <1>8 DEF Next

(* The inductive invariant holds in every reachable state.                 *)
THEOREM Invariance == Spec => []IInv
  <1>1. Init => IInv
    BY InitIInv
  <1>2. IInv /\ [Next]_vars => IInv'
    BY NextIInv
  <1> QED  BY <1>1, <1>2, PTL DEF Spec

(* Every worker, Lease, message and pending request keeps its shape, and   *)
(* no input queue of a worker holds two requests with one request_id.      *)
THEOREM TypeCorrect == Spec => []TypeOK
  <1>1. IInv => TypeOK
    <2> SUFFICES ASSUME IInv PROVE TypeOK
      OBVIOUS
    <2>1. Types
      BY DEF IInv
    <2>2. ASSUME NEW s \in Slots
          PROVE  /\ workers[s].proc \in {"starting", "up", "dead"}
                 /\ workers[s].gen \in Nat \ {0}
                 /\ workers[s].current \in Contexts \cup {NoContext}
      BY <2>1 DEF Types, WorkerRec
    <2>3. ASSUME NEW s \in Slots, NEW i \in DOMAIN workers[s].inbox,
                 NEW j \in DOMAIN workers[s].inbox, i # j
          PROVE  workers[s].inbox[i].id # workers[s].inbox[j].id
      <3>1. i \in Nat /\ j \in Nat
        BY <2>1, WorkerFacts
      <3>2. workers[s].inbox[i].id \in Nat /\ workers[s].inbox[j].id \in Nat
        BY DEF IInv, IdInv
      <3>3. (i < j => workers[s].inbox[i].id < workers[s].inbox[j].id)
            /\ (j < i => workers[s].inbox[j].id < workers[s].inbox[i].id)
        BY DEF IInv, IdInv
      <3> QED  BY <2>3, <3>1, <3>2, <3>3
    <2>4. \A i \in DOMAIN resq : resq[i].tag = "answer" => resq[i].result \in Result
      <3>1. \A i \in DOMAIN resq : resq[i] \in Message
        BY <2>1 DEF Types
      <3>2. \A m \in Message : m.tag = "answer" => m.result \in Result
        BY DEF Message
      <3> QED  BY <3>1, <3>2
    <2>5. /\ call.remaining \subseteq DOMAIN call.pending
          /\ \A k \in DOMAIN call.results : call.results[k] \in Result
      BY <2>1, CallFacts DEF IInv, CallInv
    <2>6. attempt.stage \in {"none", "establish", "pair", "replay"}
      BY <2>1 DEF Types, AttemptRec
    <2> QED  BY <2>1, <2>2, <2>3, <2>4, <2>5, <2>6 DEF TypeOK, Types
  <1> QED  BY <1>1, Invariance, PTL

(* A Holder Step that reports success ran on the position its Lease was    *)
(* issued for, whatever was reused, killed or respawned in between         *)
(* (_route, _WorkerRuntime.execute, respawn_worker).                       *)
THEOREM HolderRunsOnItsReach == Spec => []HolderStepsOnItsOwnReach
  <1>1. IInv => HolderStepsOnItsOwnReach
    BY DEF IInv, AnswerInv, IsAnswer, NotAnswered, HolderStepsOnItsOwnReach, Answers
  <1> QED  BY <1>1, Invariance, PTL

(* A retained context is where the session stands, and a Holder Step is    *)
(* only ever on its way to the very process that issued its Lease          *)
(* (LeaseRegistry, respawn_worker).                                        *)
THEOREM LeaseSoundness == Spec => []LeasesAreSound
  <1>1. IInv => LeasesAreSound
    BY DEF IInv, ModeInv, HolderInv, LeasesAreSound
  <1> QED  BY <1>1, Invariance, PTL

(* The late answer of a call that timed out is never taken for an answer   *)
(* of a later one (the expected-id check of dispatch_choice_work_items).   *)
THEOREM AnswersAreTheCalls == Spec => []AnswersBelongToTheCall
  <1>1. IInv => AnswersBelongToTheCall
    BY DEF IInv, AnswerInv, NotAnswered, AnswersBelongToTheCall
  <1> QED  BY <1>1, Invariance, PTL
=============================================================================
