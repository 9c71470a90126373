------------------------- MODULE BranchManagerProofs -------------------------
(***************************************************************************)
(* Proofs about BranchManager, for any number of Branches and workers, any *)
(* limit on active Branches and any limit on respawns.                     *)
(*                                                                         *)
(* BaseInv holds of every behaviour.  PollInv is about one poll: what it   *)
(* still has to send is queued, and a slot names a Branch that is running  *)
(* on its worker; so an answer finds a running Branch or is discarded, and *)
(* a Branch that has ended stays ended.  CascadeInv is about the graph     *)
(* that cancel_branches walks: a Branch that still matters, because it is  *)
(* not released or has children of its own, is listed by the Branch it was *)
(* submitted under.                                                        *)
(*                                                                         *)
(* RunInv and LeaseInv relate the manager's beliefs to the workers: one    *)
(* running Branch on a worker, nothing else in its queue, and a valid      *)
(* lease names what an otherwise free worker retains or what the Branch    *)
(* running there came to consume.  They hold as long as no poll starts     *)
(* over a Branch that an earlier one left running, which a refused respawn *)
(* makes possible.                                                         *)
(***************************************************************************)
EXTENDS BranchManager, FiniteSetTheorems, TLAPS

Request == [branch : Branches, mode : {"holder_step", "bootstrap_step"}]
Message == [branch : Branches, outcome : Outcomes, worker : Workers, generation : Nat \ {0}]
LateRequest == [branch : Branches, worker : Workers, generation : Nat \ {0}]
WorkerState ==
    [generation : Nat \ {0}, inbox : Seq(Request), retained : Branches \cup {NoBranch}]
RealLease == [worker : Workers, generation : Nat \ {0}]

PollPhases == {"dispatching", "waiting", "expiring"}

Types ==
    /\ records \in [Branches -> BranchRecord]
    /\ leases \in [Branches -> RealLease \cup {NoLease}]
    /\ workers \in [Workers -> WorkerState]
    /\ abandoned \in SUBSET LateRequest
    /\ results \in Seq(Message)
    /\ pc \in PollPhases \cup {"idle", "cancelling", "releasing", "closed"}
    /\ op \in {"none", "cancel", "release", "quarantine", "close"}
    /\ admitted \in Seq(Branches) /\ waiting \in Seq(Branches)
    /\ slots \in [Workers -> Branches \cup {Free}]
    /\ todo \in Seq(Branches) /\ visited \in SUBSET Branches
    /\ lineage \in [Branches -> Branches \cup {NoBranch}]

(* Branches are numbered in the order of their submission.                 *)
KnownInv ==
    \E n \in 0..MaxSerial : \A b \in Branches : records[b].state # "absent" <=> b <= n

PollInv ==
    /\ \A i \in DOMAIN waiting : records[waiting[i]].state = "queued"
    /\ \A i, j \in DOMAIN waiting : waiting[i] = waiting[j] => i = j
    /\ \A w \in Workers : slots[w] # Free =>
         records[slots[w]].state = "running" /\ records[slots[w]].worker = w
    /\ pc \notin PollPhases => waiting = <<>> /\ \A w \in Workers : slots[w] = Free
    /\ \A b \in Branches :
         /\ records[b].state = "running" => records[b].worker \in Workers
         /\ records[b].kind = "continuation" => records[b].context # NoBranch

Matters(b) == records[b].state \notin {"absent", "released"} \/ records[b].children # {}

CascadeInv ==
    \A b \in Branches :
      lineage[b] # NoBranch =>
        /\ records[lineage[b]].state # "absent"
        /\ Matters(b) => b \in records[lineage[b]].children

(* Whatever is still to be visited was submitted.                          *)
AgendaInv ==
    /\ \A i \in DOMAIN admitted : admitted[i] \in Known
    /\ \A i \in DOMAIN todo : todo[i] \in Known
    /\ \A b \in Branches : records[b].children \subseteq Known

BaseInv == Types /\ KnownInv /\ PollInv /\ CascadeInv /\ AgendaInv

Runs(b, w) == records[b].state = "running" /\ records[b].worker = w

OneRunner == \A a, b \in Branches, w \in Workers : Runs(a, w) /\ Runs(b, w) => a = b

(* A worker has at most one request, that of the Branch running on it; a   *)
(* Holder Step finds its context.                                          *)
QueueOK(w) ==
    /\ Len(workers[w].inbox) <= 1
    /\ \A i \in DOMAIN workers[w].inbox :
         /\ Runs(workers[w].inbox[i].branch, w)
         /\ workers[w].inbox[i].mode = "holder_step" =>
              workers[w].retained = records[workers[w].inbox[i].branch].context

(* An answer to a Branch that is still running comes from its worker, as   *)
(* it is now, and the worker has done nothing since.                       *)
AnswerOK(m) ==
    /\ records[m.branch].state \notin {"absent", "queued"}
    /\ records[m.branch].state = "running" =>
         /\ records[m.branch].worker = m.worker
         /\ m.generation = workers[m.worker].generation
         /\ workers[m.worker].inbox = <<>>
         /\ m.outcome = "pending" => workers[m.worker].retained = m.branch

RunInv ==
    /\ OneRunner
    /\ \A w \in Workers : QueueOK(w)
    /\ \A i \in DOMAIN results : AnswerOK(results[i])
    /\ \A r \in abandoned : records[r.branch].state \notin {"absent", "queued", "running"}

(* The lease on the context of b, when w is the worker it names.           *)
LeaseOK(b, w) ==
    /\ \A a \in Branches : Runs(a, w) => records[a].context = b
    /\ (\A a \in Branches : ~Runs(a, w)) => workers[w].retained = b

LeaseInv == \A b \in Branches : IsValid(leases[b]) => LeaseOK(b, leases[b].worker)

-----------------------------------------------------------------------------
(* Sequences and sets of Branches                                          *)

(* What RemoveAt leaves, and in which order.                               *)
LEMMA RemoveAtProps ==
    ASSUME NEW T, NEW s \in Seq(T), NEW i \in 1..Len(s)
    PROVE  /\ RemoveAt(s, i) \in Seq(T)
           /\ Len(RemoveAt(s, i)) = Len(s) - 1
           /\ \A j \in 1..(Len(s) - 1) : RemoveAt(s, i)[j] = IF j < i THEN s[j] ELSE s[j + 1]
<1> DEFINE f == SubSeq(s, 1, i - 1)
           g == SubSeq(s, i + 1, Len(s))
<1>1. f \in Seq(T) /\ Len(f) = i - 1 /\ \A j \in 1..(i - 1) : f[j] = s[j]
  OBVIOUS
<1>2. g \in Seq(T) /\ Len(g) = Len(s) - i /\ \A j \in 1..(Len(s) - i) : g[j] = s[i + j]
  OBVIOUS
<1>3. RemoveAt(s, i) = f \o g
  BY DEF RemoveAt
<1> HIDE DEF f, g
<1>4. f \o g \in Seq(T) /\ Len(f \o g) = Len(s) - 1
      /\ \A j \in 1..(Len(s) - 1) : (f \o g)[j] = IF j <= i - 1 THEN f[j] ELSE g[j - (i - 1)]
  <2>1. f \in Seq(T) /\ g \in Seq(T)
    BY <1>1, <1>2
  <2>2. f \o g \in Seq(T) /\ Len(f \o g) = Len(f) + Len(g)
        /\ \A j \in 1..(Len(f) + Len(g)) : (f \o g)[j] = IF j <= Len(f) THEN f[j] ELSE g[j - Len(f)]
    BY <2>1
  <2> QED
    BY <1>1, <1>2, <2>2
<1>5. ASSUME NEW j \in 1..(Len(s) - 1)
      PROVE  (f \o g)[j] = IF j < i THEN s[j] ELSE s[j + 1]
  <2>1. CASE j < i
    BY <1>1, <1>4, <2>1
  <2>2. CASE ~(j < i)
    <3>1. j - (i - 1) \in 1..(Len(s) - i) /\ i + (j - (i - 1)) = j + 1
      BY <2>2
    <3> QED
      BY <1>2, <1>4, <2>2, <3>1
  <2> QED
    BY <2>1, <2>2
<1> QED
  BY <1>3, <1>4, <1>5

(* What is left of a sequence without repetitions, without one element.    *)
LEMMA RemovedOnce ==
    ASSUME NEW s \in Seq(Branches), NEW i \in 1..Len(s),
           \A j, k \in DOMAIN s : s[j] = s[k] => j = k
    PROVE  /\ RemoveAt(s, i) \in Seq(Branches)
           /\ \A j \in DOMAIN RemoveAt(s, i) :
                \E k \in DOMAIN s : RemoveAt(s, i)[j] = s[k] /\ s[k] # s[i]
           /\ \A j, k \in DOMAIN RemoveAt(s, i) : RemoveAt(s, i)[j] = RemoveAt(s, i)[k] => j = k
<1> DEFINE r == RemoveAt(s, i)
           at(j) == IF j < i THEN j ELSE j + 1
<1>1. /\ r \in Seq(Branches) /\ Len(r) = Len(s) - 1
      /\ \A j \in 1..(Len(s) - 1) : r[j] = IF j < i THEN s[j] ELSE s[j + 1]
  BY RemoveAtProps
<1> HIDE DEF r
<1>2. DOMAIN s = 1..Len(s) /\ DOMAIN r = 1..(Len(s) - 1) /\ Len(s) \in Nat
  BY <1>1
<1>3. \A j \in DOMAIN r : at(j) \in DOMAIN s /\ at(j) # i /\ r[j] = s[at(j)]
  BY <1>1, <1>2
<1>4. \A j, k \in DOMAIN r : at(j) = at(k) => j = k
  BY <1>2
<1> HIDE DEF at
<1> QED
  BY <1>1, <1>2, <1>3, <1>4 DEF r

LEMMA FrontLast ==
    ASSUME NEW s \in Seq(Branches), s # <<>>
    PROVE  Front(s) \in Seq(Branches) /\ Last(s) \in Branches
<1>1. Len(s) \in 1..Len(s) /\ Len(s) - 1 \in Nat
  OBVIOUS
<1> QED
  BY <1>1 DEF Front, Last

LEMMA BranchFacts ==
    /\ NoBranch \notin Branches /\ Free \notin Branches /\ NoBranch = 0 /\ Free = 0
    /\ Branches \subseteq Nat /\ MaxSerial \in Nat
BY BranchAssumption DEF Branches, NoBranch, Free

LEMMA AscendingProps ==
    ASSUME NEW S \in SUBSET Branches, NEW q \in Ascending(S)
    PROVE  /\ q \in Seq(Branches)
           /\ \A i \in DOMAIN q : q[i] \in S
           /\ \A i, j \in DOMAIN q : q[i] = q[j] => i = j
<1>1. IsFiniteSet(Branches)
  BY BranchAssumption, FS_Interval DEF Branches
<1>2. Cardinality(S) \in Nat
  BY <1>1, FS_Subset, FS_CardinalityType
<1>3. q \in [1..Cardinality(S) -> S]
      /\ \A i, j \in 1..Cardinality(S) : i < j => q[i] < q[j]
  BY DEF Ascending
<1>4. \A i \in 1..Cardinality(S) : q[i] \in Nat
  BY <1>3, BranchFacts
<1>5. q \in Seq(Branches) /\ DOMAIN q = 1..Cardinality(S)
  BY <1>2, <1>3
<1>6. \A i, j \in 1..Cardinality(S) : q[i] = q[j] => i = j
  BY <1>2, <1>3, <1>4
<1> QED
  BY <1>3, <1>5, <1>6

(* Submission takes the first number that was never used.                  *)
LEMMA NewBranch ==
    ASSUME Types, KnownInv, Cardinality(Known) < MaxSerial
    PROVE  LET b == Cardinality(Known) + 1 IN
           /\ b \in Branches /\ records[b].state = "absent"
           /\ \A c \in Branches : c <= b <=> records[c].state # "absent" \/ c = b
<1>1. PICK n \in 0..MaxSerial : \A b \in Branches : records[b].state # "absent" <=> b <= n
  BY DEF KnownInv
<1>2. Known = 1..n
  BY <1>1, BranchAssumption DEF Known, Branches
<1>3. Cardinality(Known) = n
  <2>1. Cardinality(1..n) = IF 1 > n THEN 0 ELSE n - 1 + 1
    BY <1>1, FS_Interval
  <2> QED
    BY <1>1, <1>2, <2>1, BranchAssumption
<1> QED
  BY <1>1, <1>3, BranchAssumption DEF Branches

-----------------------------------------------------------------------------
(* BaseInv                                                                 *)

LEMMA InitBase == Init => BaseInv
<1> SUFFICES ASSUME Init PROVE BaseInv
  OBVIOUS
<1>1. /\ Absent \in BranchRecord /\ Absent.state = "absent" /\ Absent.children = {}
      /\ Absent.kind = "sub_branch"
  BY DEF Absent, BranchRecord, States, Kinds
<1>2. Types
  BY <1>1 DEF Init, Types, WorkerState, PollPhases
<1>3. KnownInv
  BY <1>1, BranchAssumption DEF Init, KnownInv, Branches
<1>4. PollInv
  BY <1>1 DEF Init, PollInv
<1>5. CascadeInv /\ AgendaInv
  BY <1>1 DEF Init, CascadeInv, AgendaInv
<1> QED
  BY <1>2, <1>3, <1>4, <1>5 DEF BaseInv

(* A step that plans no visit to a Branch that is not known.               *)
AgendaStep ==
    \/ admitted' = admitted /\ todo' = todo
    \/ /\ \A i \in DOMAIN admitted' : admitted'[i] \in Known
       /\ \A i \in DOMAIN todo' : todo'[i] \in Known

(* A step that leaves the records alone, and either goes on with the poll  *)
(* as it was or is done with it.                                           *)
LEMMA QuietBase ==
    ASSUME BaseInv, Types', AgendaStep, records' = records, lineage' = lineage,
           \/ waiting' = waiting /\ slots' = slots /\ (pc' \in PollPhases <=> pc \in PollPhases)
           \/ waiting' = <<>> /\ \A w \in Workers : slots'[w] = Free
    PROVE  BaseInv'
<1>1. KnownInv' /\ CascadeInv'
  BY DEF BaseInv, KnownInv, CascadeInv, Matters
<1>2. PollInv'
  BY DEF BaseInv, PollInv
<1>3. AgendaInv'
  BY DEF BaseInv, AgendaInv, AgendaStep, Known
<1> QED
  BY <1>1, <1>2, <1>3 DEF BaseInv

(* A step that moves states, and no edge of the cascade graph.             *)
LEMMA StatesBase ==
    ASSUME BaseInv, Types', PollInv', AgendaStep, lineage' = lineage,
           \A b \in Branches :
             /\ records'[b].state = "absent" <=> records[b].state = "absent"
             /\ records[b].state = "released" => records'[b].state = "released"
             /\ records'[b].children = records[b].children
    PROVE  BaseInv'
<1>1. KnownInv'
  <2>1. PICK n \in 0..MaxSerial : \A b \in Branches : records[b].state # "absent" <=> b <= n
    BY DEF BaseInv, KnownInv
  <2>2. \A b \in Branches : records'[b].state # "absent" <=> b <= n
    BY <2>1
  <2> QED
    BY <2>2 DEF KnownInv
<1>2. CascadeInv'
  <2>1. \A b \in Branches : lineage[b] \in Branches \cup {NoBranch}
    BY DEF BaseInv, Types
  <2>2. ASSUME NEW b \in Branches, lineage[b] # NoBranch
        PROVE  /\ records'[lineage[b]].state # "absent"
               /\ Matters(b)' => b \in records'[lineage[b]].children
    <3>1. Matters(b)' => Matters(b)
      BY DEF Matters
    <3> QED
      BY <2>1, <2>2, <3>1 DEF BaseInv, CascadeInv
  <2> QED
    BY <2>2 DEF CascadeInv
<1>3. AgendaInv'
  <2>1. Known' = Known
    BY DEF Known
  <2> QED
    BY <2>1 DEF BaseInv, AgendaInv, AgendaStep
<1> QED
  BY <1>1, <1>2, <1>3 DEF BaseInv

(* The part of c's record that the pool depends on does not change.        *)
Kept(c) ==
    /\ records'[c].state = records[c].state /\ records'[c].worker = records[c].worker
    /\ records'[c].context = records[c].context /\ records'[c].result = records[c].result

(* What submitting a Branch changes.                                       *)
Submitted(b) ==
    /\ records[b].state = "absent" /\ records'[b].state = "queued"
    /\ \A c \in Branches \ {b} : Kept(c)
    /\ UNCHANGED <<leases, workers, abandoned, results>>

LEMMA SubmitBase ==
    ASSUME BaseInv, NEW p \in Branches \cup {NoBranch}, NEW c \in Branches \cup {NoBranch},
           NEW k \in Kinds, Submit(p, c, k)
    PROVE  BaseInv' /\ \E b \in Branches : Submitted(b)
<1> DEFINE b == Cardinality(Known) + 1
           new == [Absent EXCEPT !.state = "queued", !.parent = p, !.context = c, !.kind = k]
<1>1. Types /\ KnownInv /\ PollInv /\ CascadeInv
  BY DEF BaseInv
<1>2. /\ b \in Branches /\ records[b].state = "absent"
      /\ \A d \in Branches : d <= b <=> records[d].state # "absent" \/ d = b
  BY <1>1, NewBranch DEF Submit
<1>3. new \in BranchRecord /\ new.state = "queued" /\ new.children = {}
      /\ (new.kind = "continuation" => new.context # NoBranch)
  BY DEF Absent, BranchRecord, States, ActiveStates, Kinds, Submit
<1>4. p # NoBranch => p \in Branches /\ records[p].state = "completed"
  BY DEF Submit, Extensible, InState
<1>5. /\ records' = [r \in Branches |->
                        CASE r = b -> new
                          [] r = p -> [records[r] EXCEPT !.children = @ \cup {b}]
                          [] OTHER -> records[r]]
      /\ lineage' = [lineage EXCEPT ![b] = p]
      /\ pc = "idle"
      /\ UNCHANGED <<leases, pool, pc, poll, agenda>>
  BY DEF Submit
<1> HIDE DEF b, new
<1>6. p # b
  BY <1>2, <1>4, BranchFacts
<1>7. /\ records'[b] = new
      /\ \A r \in Branches : r # b =>
           /\ records'[r] \in BranchRecord
           /\ records'[r].state = records[r].state
           /\ records'[r].worker = records[r].worker
           /\ records'[r].kind = records[r].kind /\ records'[r].context = records[r].context
           /\ records'[r].result = records[r].result
           /\ records[r].children \subseteq records'[r].children
           /\ records'[r].children \subseteq records[r].children \cup {b}
           /\ r # p => records'[r].children = records[r].children
           /\ r = p => b \in records'[r].children
  <2>1. \A r \in Branches : records[r] \in BranchRecord
    BY <1>1 DEF Types
  <2>2. records'[b] = new
    BY <1>2, <1>5, <1>6
  <2>3. ASSUME NEW r \in Branches, r # b, r # p
        PROVE  records'[r] = records[r]
    BY <1>5, <2>3
  <2>4. ASSUME p \in Branches
        PROVE  records'[p] = [records[p] EXCEPT !.children = @ \cup {b}]
    BY <1>5, <1>6, <2>4
  <2>5. ASSUME p \in Branches
        PROVE  /\ records'[p] \in BranchRecord
               /\ records'[p].state = records[p].state /\ records'[p].worker = records[p].worker
               /\ records'[p].kind = records[p].kind /\ records'[p].context = records[p].context
               /\ records'[p].result = records[p].result
               /\ records'[p].children = records[p].children \cup {b}
    <3>1. records[p] \in BranchRecord
      BY <2>1, <2>5
    <3> QED
      BY <1>2, <2>4, <2>5, <3>1 DEF BranchRecord
  <2> QED
    BY <2>1, <2>2, <2>3, <2>5
<1>8. Types'
  <2>1. records' \in [Branches -> BranchRecord]
    <3>1. records' = [r \in Branches |-> records'[r]]
      BY <1>5
    <3>2. \A r \in Branches : records'[r] \in BranchRecord
      BY <1>3, <1>7
    <3> QED
      BY <3>1, <3>2
  <2>2. lineage' \in [Branches -> Branches \cup {NoBranch}]
    BY <1>1, <1>5 DEF Types
  <2> QED
    BY <1>1, <1>5, <2>1, <2>2 DEF Types, pool, poll, agenda
<1>9. KnownInv'
  <2>1. b \in 0..MaxSerial
    BY <1>2, BranchAssumption DEF Branches
  <2>2. \A d \in Branches : records'[d].state # "absent" <=> d <= b
    BY <1>2, <1>3, <1>7
  <2> QED
    BY <2>1, <2>2 DEF KnownInv
<1>10. PollInv'
  <2>1. waiting = <<>> /\ \A w \in Workers : slots[w] = Free
    BY <1>1, <1>5 DEF PollInv, PollPhases
  <2>2. \A r \in Branches :
          /\ records'[r].state = "running" => records'[r].worker \in Workers
          /\ records'[r].kind = "continuation" => records'[r].context # NoBranch
    BY <1>1, <1>3, <1>7 DEF PollInv
  <2> QED
    BY <1>5, <2>1, <2>2 DEF PollInv, poll
<1>11. CascadeInv'
  <2>1. \A r \in Branches : lineage[r] \in Branches \cup {NoBranch}
    BY <1>1 DEF Types
  <2>2. ASSUME NEW r \in Branches, lineage'[r] # NoBranch
        PROVE  /\ records'[lineage'[r]].state # "absent"
               /\ Matters(r)' => r \in records'[lineage'[r]].children
    <3>1. CASE r = b
      <4>1. lineage'[r] = p
        BY <1>1, <1>2, <1>5, <3>1 DEF Types
      <4> QED
        BY <1>4, <1>6, <1>7, <2>2, <3>1, <4>1
    <3>2. CASE r # b
      <4>1. lineage'[r] = lineage[r]
        BY <1>1, <1>5, <3>2 DEF Types
      <4>2. lineage[r] \in Branches /\ records[lineage[r]].state # "absent"
            /\ (Matters(r) => r \in records[lineage[r]].children)
        BY <1>1, <2>1, <2>2, <4>1 DEF CascadeInv
      <4>3. lineage[r] # b
        BY <1>2, <4>2
      <4>4. Matters(r)' => Matters(r)
        BY <1>4, <1>7, <3>2, BranchFacts DEF Matters
      <4> QED
        BY <1>7, <4>1, <4>2, <4>3, <4>4
    <3> QED
      BY <3>1, <3>2
  <2> QED
    BY <2>2 DEF CascadeInv
<1>12. AgendaInv'
  <2>1. Known \subseteq Known' /\ b \in Known'
    BY <1>2, <1>3, <1>7 DEF Known
  <2>2. \A r \in Branches : records'[r].children \subseteq records[r].children \cup {b}
    BY <1>3, <1>7
  <2> QED
    BY <1>5, <2>1, <2>2 DEF BaseInv, AgendaInv, poll, agenda
<1>13. Submitted(b)
  BY <1>2, <1>3, <1>5, <1>7 DEF Submitted, Kept, pool
<1> QED
  BY <1>2, <1>8, <1>9, <1>10, <1>11, <1>12, <1>13 DEF BaseInv

LEMMA PollBeginBase ==
    ASSUME BaseInv, NEW S \in SUBSET InState("queued"), PollBegin(S)
    PROVE  BaseInv'
<1>1. Types /\ KnownInv /\ PollInv /\ CascadeInv
  BY DEF BaseInv
<1>2. S \in SUBSET Branches /\ \A b \in S : records[b].state = "queued"
  BY DEF InState
<1>3. /\ admitted' \in Ascending(S) /\ waiting' = admitted' /\ pc' = "dispatching"
      /\ slots' = [w \in Workers |-> Free]
      /\ UNCHANGED <<records, leases, pool, agenda, lineage>>
  BY DEF PollBegin
<1>4. PICK q \in Ascending(S) : admitted' = q
  BY <1>3
<1>5. /\ q \in Seq(Branches) /\ \A i \in DOMAIN q : q[i] \in S
      /\ \A i, j \in DOMAIN q : q[i] = q[j] => i = j
  BY <1>2, AscendingProps
<1>6. Types'
  BY <1>1, <1>3, <1>4, <1>5 DEF Types, pool, agenda, PollPhases
<1>7. PollInv'
  BY <1>1, <1>2, <1>3, <1>4, <1>5 DEF PollInv, PollPhases
<1>8. AgendaStep
  <2>1. S \subseteq Known
    BY <1>2 DEF Known
  <2> QED
    BY <1>3, <1>4, <1>5, <2>1 DEF AgendaStep, BaseInv, AgendaInv, agenda
<1> QED
  BY <1>1, <1>3, <1>6, <1>7, <1>8, StatesBase

(* What sending Branch b to worker w changes, Branch by Branch and worker  *)
(* by worker.                                                              *)
Sent(b, w, mode) ==
    /\ \A c \in Branches \ {b} : records'[c] = records[c]
    /\ records'[b] \in BranchRecord
    /\ records'[b].state = "running" /\ records'[b].worker = w
    /\ records'[b].generation = workers[w].generation
    /\ records'[b].context = records[b].context /\ records'[b].kind = records[b].kind
    /\ records'[b].children = records[b].children
    /\ records'[b].result = records[b].result
    /\ \A v \in Workers \ {w} : workers'[v] = workers[v] /\ slots'[v] = slots[v]
    /\ workers'[w] \in WorkerState
    /\ workers'[w].generation = workers[w].generation
    /\ workers'[w].retained = workers[w].retained
    /\ workers'[w].inbox = Append(workers[w].inbox, [branch |-> b, mode |-> mode])
    /\ slots'[w] = b
    /\ UNCHANGED <<abandoned, results, pc, admitted, agenda, lineage>>

LEMMA SendEffect ==
    ASSUME BaseInv, NEW i \in 1..Len(waiting), NEW w \in Workers,
           NEW mode \in {"holder_step", "bootstrap_step"}, SendTo(i, w, mode)
    PROVE  /\ waiting[i] \in Branches /\ records[waiting[i]].state = "queued"
           /\ Sent(waiting[i], w, mode)
           /\ records' \in [Branches -> BranchRecord] /\ workers' \in [Workers -> WorkerState]
           /\ slots' \in [Workers -> Branches \cup {Free}]
           /\ waiting' = RemoveAt(waiting, i)
<1> DEFINE b == waiting[i]
           req == [branch |-> b, mode |-> mode]
<1>1. Types /\ PollInv
  BY DEF BaseInv
<1>2. b \in Branches /\ records[b].state = "queued"
  BY <1>1 DEF Types, PollInv
<1>3. /\ records' = [records EXCEPT ![b].state = "running", ![b].worker = w,
                                    ![b].generation = workers[w].generation]
      /\ workers' = [workers EXCEPT ![w].inbox = Append(@, req)]
      /\ slots' = [slots EXCEPT ![w] = b]
      /\ waiting' = RemoveAt(waiting, i)
      /\ UNCHANGED <<abandoned, results, pc, admitted, agenda, lineage>>
  BY DEF SendTo
<1> HIDE DEF b
<1>4. req \in Request
  BY <1>2 DEF Request
<1> HIDE DEF req
<1>5. records \in [Branches -> BranchRecord] /\ workers \in [Workers -> WorkerState]
      /\ slots \in [Workers -> Branches \cup {Free}] /\ records[b] \in BranchRecord
      /\ workers[w] \in WorkerState
  BY <1>1, <1>2 DEF Types
<1>6. workers[w].generation \in Nat /\ Append(workers[w].inbox, req) \in Seq(Request)
  BY <1>4, <1>5 DEF WorkerState
<1>7. /\ \A c \in Branches \ {b} : records'[c] = records[c]
      /\ records'[b] = [records[b] EXCEPT !.state = "running", !.worker = w,
                                          !.generation = workers[w].generation]
      /\ records' \in [Branches -> BranchRecord]
  <2>1. [records[b] EXCEPT !.state = "running", !.worker = w,
                           !.generation = workers[w].generation] \in BranchRecord
    BY <1>5, <1>6 DEF BranchRecord, States, ActiveStates
  <2> QED
    BY <1>2, <1>3, <1>5, <2>1
<1>8. /\ records'[b] \in BranchRecord
      /\ records'[b].state = "running" /\ records'[b].worker = w
      /\ records'[b].generation = workers[w].generation
      /\ records'[b].context = records[b].context /\ records'[b].kind = records[b].kind
      /\ records'[b].children = records[b].children
      /\ records'[b].result = records[b].result
  BY <1>2, <1>5, <1>7 DEF BranchRecord
<1>9. /\ \A v \in Workers \ {w} : workers'[v] = workers[v]
      /\ workers'[w] = [workers[w] EXCEPT !.inbox = Append(workers[w].inbox, req)]
      /\ workers' \in [Workers -> WorkerState]
  <2>1. [workers[w] EXCEPT !.inbox = Append(workers[w].inbox, req)] \in WorkerState
    BY <1>5, <1>6 DEF WorkerState
  <2> QED
    BY <1>3, <1>5, <2>1
<1>10. /\ workers'[w] \in WorkerState
       /\ workers'[w].generation = workers[w].generation
       /\ workers'[w].retained = workers[w].retained
       /\ workers'[w].inbox = Append(workers[w].inbox, req)
  BY <1>5, <1>9 DEF WorkerState
<1>11. /\ \A v \in Workers \ {w} : slots'[v] = slots[v]
       /\ slots'[w] = b /\ slots' \in [Workers -> Branches \cup {Free}]
  BY <1>2, <1>3, <1>5
<1> QED
  BY <1>2, <1>3, <1>7, <1>8, <1>9, <1>10, <1>11 DEF Sent, b, req

LEMMA SendBase ==
    ASSUME BaseInv, NEW i \in 1..Len(waiting), NEW w \in Workers,
           NEW mode \in {"holder_step", "bootstrap_step"}, SendTo(i, w, mode),
           pc = "dispatching", slots[w] = Free,
           leases' \in [Branches -> RealLease \cup {NoLease}]
    PROVE  BaseInv'
<1>1. Types /\ PollInv
  BY DEF BaseInv
<1>2. PICK b \in Branches :
        /\ b = waiting[i] /\ records[b].state = "queued" /\ Sent(b, w, mode)
        /\ records' \in [Branches -> BranchRecord] /\ workers' \in [Workers -> WorkerState]
        /\ slots' \in [Workers -> Branches \cup {Free}]
        /\ waiting' = RemoveAt(waiting, i)
  BY SendEffect
<1>3. waiting \in Seq(Branches) /\ \A j, k \in DOMAIN waiting : waiting[j] = waiting[k] => j = k
  BY <1>1 DEF Types, PollInv
<1>4. /\ waiting' \in Seq(Branches)
      /\ \A j \in DOMAIN waiting' : \E k \in DOMAIN waiting : waiting'[j] = waiting[k] /\ waiting[k] # b
      /\ \A j, k \in DOMAIN waiting' : waiting'[j] = waiting'[k] => j = k
  BY <1>2, <1>3, RemovedOnce
<1>5. Types'
  BY <1>1, <1>2, <1>4 DEF Types, Sent, agenda
<1>6. PollInv'
  <2>1. \A j \in DOMAIN waiting' : records'[waiting'[j]].state = "queued"
    <3>1. \A k \in DOMAIN waiting : waiting[k] \in Branches /\ records[waiting[k]].state = "queued"
      BY <1>1 DEF Types, PollInv
    <3> QED
      BY <1>2, <1>4, <3>1 DEF Sent
  <2>2. \A v \in Workers : slots'[v] # Free =>
          records'[slots'[v]].state = "running" /\ records'[slots'[v]].worker = v
    <3>1. \A v \in Workers : slots[v] # Free => slots[v] \in Branches /\ slots[v] # b
      BY <1>1, <1>2 DEF Types, PollInv
    <3> QED
      BY <1>1, <1>2, <3>1 DEF Sent, PollInv
  <2>3. \A c \in Branches :
          /\ records'[c].state = "running" => records'[c].worker \in Workers
          /\ records'[c].kind = "continuation" => records'[c].context # NoBranch
    BY <1>1, <1>2 DEF Sent, PollInv
  <2> QED
    BY <1>2, <1>4, <2>1, <2>2, <2>3 DEF PollInv, PollPhases, Sent
<1> QED
  BY <1>2, <1>5, <1>6, StatesBase DEF Sent, AgendaStep, agenda

(* The two ways an item of the scan is sent.                               *)
LEMMA DispatchSends ==
    ASSUME BaseInv,
           \/ \E i \in 1..Len(waiting) : DispatchHolderStep(i)
           \/ \E i \in 1..Len(waiting), w \in Workers : DispatchBootstrap(i, w)
    PROVE  \E i \in 1..Len(waiting), w \in Workers, mode \in {"holder_step", "bootstrap_step"} :
             /\ SendTo(i, w, mode) /\ pc = "dispatching" /\ slots[w] = Free
             /\ leases' \in [Branches -> RealLease \cup {NoLease}]
             /\ mode = "holder_step" =>
                  /\ leases' = leases
                  /\ records[waiting[i]].context \in Branches
                  /\ IsValid(leases[records[waiting[i]].context])
                  /\ leases[records[waiting[i]].context].worker = w
             /\ mode = "bootstrap_step" =>
                  \A c \in Branches :
                    leases'[c] = NoLease \/ (leases'[c] = leases[c] /\ leases[c].worker # w)
<1>1. Types /\ PollInv
  BY DEF BaseInv
<1>2. leases \in [Branches -> RealLease \cup {NoLease}]
  BY <1>1 DEF Types
<1>3. ASSUME NEW i \in 1..Len(waiting), DispatchHolderStep(i)
      PROVE  \E w \in Workers :
               /\ SendTo(i, w, "holder_step") /\ pc = "dispatching" /\ slots[w] = Free
               /\ leases' = leases
               /\ records[waiting[i]].context \in Branches
               /\ IsValid(leases[records[waiting[i]].context])
               /\ leases[records[waiting[i]].context].worker = w
  <2> DEFINE l == LeaseFor(waiting[i])
             c == records[waiting[i]].context
  <2>1. /\ IsValid(l) /\ SendTo(i, l.worker, "holder_step") /\ leases' = leases
        /\ pc = "dispatching" /\ ~Deferred(waiting[i])
    BY <1>3 DEF DispatchHolderStep, StopsAt
  <2>2. l = leases[c] /\ records[waiting[i]].kind = "continuation"
    BY <2>1 DEF LeaseFor, IsValid
  <2>3. waiting[i] \in Branches /\ records[waiting[i]] \in BranchRecord
    BY <1>1 DEF Types
  <2>4. c \in Branches \cup {NoBranch}
    BY <2>3 DEF BranchRecord
  <2>5. l.worker \in FreeWorkers
    BY <2>1 DEF Deferred
  <2>6. l.worker \in Workers /\ slots[l.worker] = Free
    BY <2>5 DEF FreeWorkers, Busy
  <2>7. c # NoBranch
    BY <1>1, <2>3, <2>2 DEF PollInv
  <2> QED
    BY <2>1, <2>2, <2>4, <2>6, <2>7
<1>4. ASSUME NEW i \in 1..Len(waiting), NEW w \in Workers, DispatchBootstrap(i, w)
      PROVE  /\ SendTo(i, w, "bootstrap_step") /\ pc = "dispatching" /\ slots[w] = Free
             /\ leases' \in [Branches -> RealLease \cup {NoLease}]
             /\ \A c \in Branches :
                  leases'[c] = NoLease \/ (leases'[c] = leases[c] /\ leases[c].worker # w)
  <2>1. w \in FreeWorkers
    BY <1>4 DEF DispatchBootstrap, BootstrapCandidates
  <2>2. leases' = [c \in Branches |-> IF leases[c].worker = w THEN NoLease ELSE leases[c]]
    BY <1>4 DEF DispatchBootstrap, InvalidateWorker
  <2> QED
    BY <1>2, <1>4, <2>1, <2>2 DEF FreeWorkers, Busy, DispatchBootstrap, StopsAt
<1> QED
  BY <1>2, <1>3, <1>4

LEMMA DispatchBase ==
    ASSUME BaseInv,
           \/ \E i \in 1..Len(waiting) : DispatchHolderStep(i)
           \/ \E i \in 1..Len(waiting), w \in Workers : DispatchBootstrap(i, w)
    PROVE  BaseInv'
BY DispatchSends, SendBase

LEMMA QuarantineBase ==
    ASSUME BaseInv, DispatchRaises \/ \E w \in Workers : ExpireRaises(w)
    PROVE  BaseInv'
<1>1. Quarantine /\ UNCHANGED <<records, leases, pool, lineage>>
  BY DEF DispatchRaises, ExpireRaises
<1>2. waiting' = <<>> /\ slots' = [w \in Workers |-> Free] /\ admitted' = admitted
      /\ pc' = "cancelling" /\ op' = "quarantine" /\ todo' = admitted /\ visited' = {}
  BY <1>1 DEF Quarantine, LeavePoll
<1>3. Types'
  BY <1>1, <1>2 DEF BaseInv, Types, pool
<1>4. AgendaStep
  BY <1>2 DEF AgendaStep, BaseInv, AgendaInv
<1> QED
  BY <1>1, <1>2, <1>3, <1>4, QuietBase

LEMMA PhaseBase ==
    ASSUME BaseInv, DispatchDone \/ ExpiredDone
    PROVE  BaseInv'
<1>1. UNCHANGED <<records, leases, pool, poll, agenda, lineage>>
      /\ pc \in PollPhases
      /\ (pc' \in PollPhases \/ (pc' = "idle" /\ Busy = {} /\ waiting = <<>>))
  BY DEF DispatchDone, ExpiredDone, PollPhases
<1>2. Types'
  BY <1>1 DEF BaseInv, Types, pool, poll, agenda
<1>3. CASE pc' \in PollPhases
  BY <1>1, <1>2, <1>3, QuietBase DEF poll, agenda, AgendaStep
<1>4. CASE pc' = "idle" /\ Busy = {} /\ waiting = <<>>
  <2>1. \A w \in Workers : slots[w] = Free
    BY <1>4 DEF Busy
  <2> QED
    BY <1>1, <1>2, <1>4, <2>1, QuietBase DEF poll, agenda, AgendaStep
<1> QED
  BY <1>1, <1>3, <1>4

LEMMA StrayBase ==
    ASSUME BaseInv, DiscardStray \/ \E r \in abandoned : AbandonedAnswers(r)
    PROVE  BaseInv'
<1>1. CASE DiscardStray
  <2>1. Types'
    BY <1>1 DEF DiscardStray, BaseInv, Types, poll, agenda
  <2> QED
    BY <1>1, <2>1, QuietBase DEF DiscardStray, poll, agenda, AgendaStep
<1>2. ASSUME NEW r \in abandoned, AbandonedAnswers(r)
      PROVE  BaseInv'
  <2> DEFINE m == [branch |-> r.branch, outcome |-> "pending", worker |-> r.worker,
                   generation |-> r.generation]
  <2>1. r \in LateRequest
    BY DEF BaseInv, Types
  <2>2. m \in Message
    BY <2>1 DEF LateRequest, Message, Outcomes
  <2>3. results' = Append(results, m) /\ abandoned' = abandoned \ {r}
    BY <1>2 DEF AbandonedAnswers, Answer
  <2> HIDE DEF m
  <2>4. results' \in Seq(Message) /\ abandoned' \in SUBSET LateRequest
    BY <2>2, <2>3 DEF BaseInv, Types
  <2>5. Types'
    BY <1>2, <2>4 DEF AbandonedAnswers, BaseInv, Types, poll, agenda
  <2> QED
    BY <1>2, <2>5, QuietBase DEF AbandonedAnswers, poll, agenda, AgendaStep
<1> QED
  BY <1>1, <1>2

(* What the worker w executing its oldest request changes.                 *)
Executed(w, r, outcome) ==
    /\ r \in Request /\ r = Head(workers[w].inbox) /\ workers[w].inbox # <<>>
    /\ (r.mode = "holder_step" /\ workers[w].retained # records[r.branch].context) =>
         outcome = "fault"
    /\ \A v \in Workers \ {w} : workers'[v] = workers[v]
    /\ workers'[w].generation = workers[w].generation
    /\ workers'[w].inbox = Tail(workers[w].inbox)
    /\ workers'[w].retained = IF outcome = "pending" THEN r.branch ELSE NoBranch
    /\ results' = Append(results, [branch |-> r.branch, outcome |-> outcome, worker |-> w,
                                   generation |-> workers[w].generation])
    /\ UNCHANGED <<records, leases, abandoned, pc, poll, agenda, lineage>>

LEMMA ExecuteBase ==
    ASSUME BaseInv, NEW w \in Workers, NEW outcome \in Outcomes, WorkerExecutes(w, outcome)
    PROVE  BaseInv' /\ \E r \in Request : Executed(w, r, outcome)
<1> DEFINE r == Head(workers[w].inbox)
           m == [branch |-> r.branch, outcome |-> outcome, worker |-> w,
                 generation |-> workers[w].generation]
           n == [workers[w] EXCEPT !.inbox = Tail(@),
                                   !.retained = IF outcome = "pending" THEN r.branch ELSE NoBranch]
<1>1. workers \in [Workers -> WorkerState] /\ workers[w] \in WorkerState
      /\ results \in Seq(Message)
  BY DEF BaseInv, Types
<1>2. workers[w].inbox \in Seq(Request) /\ workers[w].inbox # <<>>
      /\ workers[w].generation \in Nat \ {0}
  BY <1>1 DEF WorkerState, WorkerExecutes
<1>3. r \in Request /\ Tail(workers[w].inbox) \in Seq(Request)
  BY <1>2
<1>4. /\ workers' = [workers EXCEPT ![w] = n] /\ results' = Append(results, m)
      /\ UNCHANGED <<records, leases, abandoned, pc, poll, agenda, lineage>>
      /\ ((r.mode = "holder_step" /\ workers[w].retained # records[r.branch].context) =>
           outcome = "fault")
  BY <1>1 DEF WorkerExecutes, Answer
<1> HIDE DEF r
<1>5. m \in Message /\ r.branch \in Branches
  BY <1>2, <1>3 DEF Message, Request
<1>6. n \in WorkerState
  BY <1>1, <1>3, <1>5 DEF WorkerState
<1>7. n.generation = workers[w].generation /\ n.inbox = Tail(workers[w].inbox)
      /\ n.retained = IF outcome = "pending" THEN r.branch ELSE NoBranch
  BY <1>1 DEF WorkerState
<1> HIDE DEF n
<1>8. workers' \in [Workers -> WorkerState] /\ workers'[w] = n
      /\ \A v \in Workers \ {w} : workers'[v] = workers[v]
  BY <1>1, <1>4, <1>6
<1>9. results' \in Seq(Message)
  BY <1>1, <1>4, <1>5
<1>10. BaseInv'
  <2>1. Types'
    BY <1>4, <1>8, <1>9 DEF BaseInv, Types, poll, agenda
  <2> QED
    BY <1>4, <2>1, QuietBase DEF poll, agenda, AgendaStep
<1>11. Executed(w, r, outcome)
  BY <1>2, <1>3, <1>4, <1>7, <1>8 DEF Executed, r
<1> QED
  BY <1>3, <1>10, <1>11

(* What _finish changes: the record of b, and no lease that the Branch has *)
(* consumed or whose worker has failed survives.                           *)
Finished(b, outcome, w, generation) ==
    /\ \A c \in Branches \ {b} : records'[c] = records[c]
    /\ records'[b].state = IF outcome = "fault" THEN "faulted" ELSE "completed"
    /\ records'[b].result = outcome
    /\ records'[b].worker = records[b].worker
    /\ records'[b].context = records[b].context /\ records'[b].kind = records[b].kind
    /\ records'[b].children = records[b].children
    /\ \A c \in Branches :
         \/ leases'[c] = NoLease
         \/ /\ outcome = "pending" /\ c = b
            /\ leases'[c] = [worker |-> w, generation |-> generation]
         \/ /\ leases'[c] = leases[c] /\ c # records[b].context
            /\ outcome = "fault" => leases[c].worker # w

LEMMA FinishEffect ==
    ASSUME BaseInv, NEW b \in Branches, NEW outcome \in Outcomes, NEW w \in Workers,
           NEW generation \in Nat \ {0}, Finish(b, outcome, w, generation)
    PROVE  /\ Finished(b, outcome, w, generation)
           /\ records' \in [Branches -> BranchRecord]
           /\ leases' \in [Branches -> RealLease \cup {NoLease}]
<1> DEFINE n == [records[b] EXCEPT !.result = outcome,
                                   !.state = IF outcome = "fault" THEN "faulted" ELSE "completed"]
           consumed == [c \in Branches |-> IF c = records[b].context THEN NoLease ELSE leases[c]]
           own == [worker |-> w, generation |-> generation]
<1>1. records \in [Branches -> BranchRecord] /\ records[b] \in BranchRecord
      /\ leases \in [Branches -> RealLease \cup {NoLease}]
  BY DEF BaseInv, Types
<1>2. records' = [records EXCEPT ![b] = n]
  BY <1>1 DEF Finish
<1>3. /\ n \in BranchRecord /\ n.result = outcome
      /\ n.state = IF outcome = "fault" THEN "faulted" ELSE "completed"
      /\ n.worker = records[b].worker /\ n.context = records[b].context
      /\ n.kind = records[b].kind /\ n.children = records[b].children
  BY <1>1 DEF BranchRecord, States, ActiveStates
<1> HIDE DEF n
<1>4. records' \in [Branches -> BranchRecord] /\ records'[b] = n
      /\ \A c \in Branches \ {b} : records'[c] = records[c]
  BY <1>1, <1>2, <1>3
<1>5. own \in RealLease
  BY DEF RealLease
<1>6. consumed \in [Branches -> RealLease \cup {NoLease}]
      /\ \A c \in Branches :
           consumed[c] = NoLease \/ (consumed[c] = leases[c] /\ c # records[b].context)
  BY <1>1
<1>7. leases' = CASE outcome = "pending" -> [consumed EXCEPT ![b] = own]
                  [] outcome = "fault" -> InvalidateWorker(consumed, w)
                  [] OTHER -> consumed
  BY DEF Finish
<1> HIDE DEF consumed, own
<1>8. CASE outcome = "pending"
  <2>1. leases' = [consumed EXCEPT ![b] = own]
    BY <1>7, <1>8
  <2>2. leases' \in [Branches -> RealLease \cup {NoLease}]
        /\ \A c \in Branches : leases'[c] = IF c = b THEN own ELSE consumed[c]
    BY <1>5, <1>6, <2>1
  <2> QED
    BY <1>3, <1>4, <1>6, <1>8, <2>2 DEF Finished, own
<1>9. CASE outcome = "fault"
  <2>1. leases' = [c \in Branches |-> IF consumed[c].worker = w THEN NoLease ELSE consumed[c]]
    BY <1>7, <1>9 DEF InvalidateWorker
  <2>2. leases' \in [Branches -> RealLease \cup {NoLease}]
        /\ \A c \in Branches :
             leases'[c] = NoLease \/ (leases'[c] = consumed[c] /\ consumed[c].worker # w)
    BY <1>6, <2>1
  <2> QED
    BY <1>3, <1>4, <1>6, <1>9, <2>2 DEF Finished
<1>10. CASE outcome \notin {"pending", "fault"}
  <2>1. leases' = consumed
    BY <1>7, <1>10
  <2> QED
    BY <1>3, <1>4, <1>6, <1>10, <2>1 DEF Finished
<1> QED
  BY <1>8, <1>9, <1>10

(* The poll after one of its slots, that of worker w, is done with.        *)
LEMMA FinishBase ==
    ASSUME BaseInv, Types', NEW w \in Workers, slots[w] # Free,
           NEW outcome \in Outcomes, NEW v, NEW generation,
           Finished(slots[w], outcome, v, generation),
           \A u \in Workers : slots'[u] = IF u = w THEN Free ELSE slots[u],
           waiting' = waiting, lineage' = lineage, pc' \in PollPhases, AgendaStep
    PROVE  BaseInv'
<1>1. PICK b \in Branches : b = slots[w]
  BY DEF BaseInv, Types
<1>2. Finished(b, outcome, v, generation) /\ records[b].state = "running"
  BY <1>1 DEF BaseInv, PollInv
<1>3. PollInv'
  <2>1. \A i \in DOMAIN waiting : waiting[i] \in Branches /\ waiting[i] # b
    BY <1>2 DEF BaseInv, Types, PollInv
  <2>2. \A u \in Workers \ {w} : slots[u] # Free => slots[u] \in Branches /\ slots[u] # b
    BY <1>1 DEF BaseInv, Types, PollInv
  <2>3. \A i \in DOMAIN waiting' : records'[waiting'[i]].state = "queued"
    BY <1>2, <2>1 DEF Finished, BaseInv, PollInv
  <2>4. \A u \in Workers : slots'[u] # Free =>
          records'[slots'[u]].state = "running" /\ records'[slots'[u]].worker = u
    BY <1>2, <2>2 DEF Finished, BaseInv, PollInv
  <2>5. \A c \in Branches :
          /\ records'[c].state = "running" => records'[c].worker \in Workers
          /\ records'[c].kind = "continuation" => records'[c].context # NoBranch
    BY <1>2 DEF Finished, BaseInv, PollInv
  <2> QED
    BY <2>3, <2>4, <2>5 DEF BaseInv, PollInv
<1> QED
  BY <1>2, <1>3, StatesBase DEF Finished

(* Receive finishes the Branch of one slot, and only that slot is freed.   *)
LEMMA ReceiveEffect ==
    ASSUME BaseInv, Receive
    PROVE  \E w \in Workers, m \in Message :
             /\ m = Head(results) /\ results # <<>> /\ m.branch = slots[w] /\ slots[w] # Free
             /\ m.branch \in Branches
             /\ \A u \in Workers : slots'[u] = IF u = w THEN Free ELSE slots[u]
             /\ Finished(m.branch, m.outcome, m.worker, m.generation)
             /\ Types' /\ results' = Tail(results) /\ pc' = "dispatching"
             /\ UNCHANGED <<workers, abandoned, admitted, waiting, agenda, lineage>>
<1>1. Types /\ PollInv
  BY DEF BaseInv
<1>2. PICK m \in Message : m = Head(results) /\ results # <<>> /\ Expected(m)
  BY <1>1 DEF Receive, Types
<1>3. m.branch \in Branches /\ m.outcome \in Outcomes /\ m.worker \in Workers
      /\ m.generation \in Nat \ {0}
  BY DEF Message
<1>4. PICK w \in Workers : slots[w] = m.branch
  BY <1>2 DEF Expected
<1>5. slots[w] # Free
  BY <1>3, <1>4, BranchFacts
<1>6. /\ slots' = [u \in Workers |-> IF slots[u] = m.branch THEN Free ELSE slots[u]]
      /\ Finish(m.branch, m.outcome, m.worker, m.generation)
      /\ results' = Tail(results) /\ pc' = "dispatching"
      /\ UNCHANGED <<workers, abandoned, admitted, waiting, agenda, lineage>>
  BY <1>2 DEF Receive
<1>7. \A u \in Workers : slots[u] = m.branch => u = w
  BY <1>1, <1>4, <1>5 DEF PollInv
<1>8. \A u \in Workers : slots'[u] = IF u = w THEN Free ELSE slots[u]
  BY <1>4, <1>6, <1>7
<1>9. /\ Finished(m.branch, m.outcome, m.worker, m.generation)
      /\ records' \in [Branches -> BranchRecord]
      /\ leases' \in [Branches -> RealLease \cup {NoLease}]
  BY <1>3, <1>6, FinishEffect
<1>10. Types'
  <2>1. slots' \in [Workers -> Branches \cup {Free}] /\ results' \in Seq(Message)
    BY <1>1, <1>2, <1>6 DEF Types
  <2> QED
    BY <1>1, <1>6, <1>9, <2>1 DEF Types, agenda, PollPhases
<1> QED
  BY <1>2, <1>3, <1>4, <1>5, <1>6, <1>8, <1>9, <1>10

LEMMA ReceiveBase ==
    ASSUME BaseInv, Receive
    PROVE  BaseInv'
<1>1. PICK w \in Workers, m \in Message :
             /\ m.branch = slots[w] /\ slots[w] # Free
             /\ \A u \in Workers : slots'[u] = IF u = w THEN Free ELSE slots[u]
             /\ Finished(m.branch, m.outcome, m.worker, m.generation)
             /\ Types' /\ pc' = "dispatching"
             /\ UNCHANGED <<workers, abandoned, admitted, waiting, agenda, lineage>>
  BY ReceiveEffect
<1>2. m.outcome \in Outcomes
  BY DEF Message
<1> QED
  BY <1>1, <1>2, FinishBase DEF PollPhases, agenda, AgendaStep

(* What replacing worker w changes in the pool.                            *)
Renewed(w) ==
    /\ \A v \in Workers \ {w} : workers'[v] = workers[v]
    /\ workers'[w].inbox = <<>> /\ workers'[w].retained = NoBranch
    /\ \A r \in abandoned' :
         r \in abandoned \/ \E i \in DOMAIN workers[w].inbox : r.branch = workers[w].inbox[i].branch

LEMMA ReplacedEffect ==
    ASSUME BaseInv, NEW w \in Workers, Replaced(w)
    PROVE  /\ Renewed(w) /\ workers' \in [Workers -> WorkerState]
           /\ abandoned' \in SUBSET LateRequest
<1> DEFINE n == [generation |-> workers[w].generation + 1, inbox |-> <<>>, retained |-> NoBranch]
           late(r) == [branch |-> r.branch, worker |-> w, generation |-> workers[w].generation]
<1>1. workers \in [Workers -> WorkerState] /\ workers[w] \in WorkerState
      /\ abandoned \in SUBSET LateRequest
  BY DEF BaseInv, Types
<1>2. workers[w].generation \in Nat \ {0} /\ workers[w].inbox \in Seq(Request)
  BY <1>1 DEF WorkerState
<1>3. workers' = [workers EXCEPT ![w] = n]
      /\ abandoned' = abandoned \cup {late(r) : r \in ToSet(workers[w].inbox)}
  BY DEF Replaced
<1>4. n \in WorkerState /\ n.inbox = <<>> /\ n.retained = NoBranch
  BY <1>2 DEF WorkerState
<1> HIDE DEF n
<1>5. \A r \in ToSet(workers[w].inbox) :
        /\ r \in Request /\ \E i \in DOMAIN workers[w].inbox : r = workers[w].inbox[i]
  BY <1>2 DEF ToSet
<1>6. \A r \in Request : late(r) \in LateRequest /\ late(r).branch = r.branch
  BY <1>2 DEF Request, LateRequest
<1> HIDE DEF late
<1> QED
  BY <1>1, <1>3, <1>4, <1>5, <1>6 DEF Renewed

LEMMA ExpireEffect ==
    ASSUME BaseInv, NEW w \in Workers, Expire(w)
    PROVE  /\ slots[w] \in Branches /\ slots[w] # Free
           /\ Renewed(w) /\ Finished(slots[w], "fault", w, workers[w].generation)
           /\ \A u \in Workers : slots'[u] = IF u = w THEN Free ELSE slots[u]
           /\ Types' /\ pc' = "expiring"
           /\ UNCHANGED <<results, admitted, waiting, agenda, lineage>>
<1>1. Types
  BY DEF BaseInv
<1>2. slots[w] \in Branches /\ slots[w] # Free
  BY <1>1 DEF Expire, MayExpire, Busy, Types
<1>3. workers[w].generation \in Nat \ {0}
  BY <1>1 DEF Types, WorkerState
<1>4. /\ Replaced(w) /\ Finish(slots[w], "fault", w, workers[w].generation)
      /\ slots' = [slots EXCEPT ![w] = Free] /\ pc' = "expiring"
      /\ UNCHANGED <<results, admitted, waiting, agenda, lineage>>
  BY DEF Expire
<1>5. /\ Finished(slots[w], "fault", w, workers[w].generation)
      /\ records' \in [Branches -> BranchRecord]
      /\ leases' \in [Branches -> RealLease \cup {NoLease}]
  BY <1>2, <1>3, <1>4, FinishEffect DEF Outcomes
<1>6. /\ Renewed(w) /\ workers' \in [Workers -> WorkerState]
      /\ abandoned' \in SUBSET LateRequest
  BY <1>4, ReplacedEffect
<1>7. slots' \in [Workers -> Branches \cup {Free}]
      /\ \A u \in Workers : slots'[u] = IF u = w THEN Free ELSE slots[u]
  BY <1>1, <1>4 DEF Types
<1>8. Types'
  BY <1>1, <1>4, <1>5, <1>6, <1>7 DEF Types, agenda, PollPhases
<1> QED
  BY <1>2, <1>4, <1>5, <1>6, <1>7, <1>8

LEMMA ExpireBase ==
    ASSUME BaseInv, NEW w \in Workers, Expire(w)
    PROVE  BaseInv'
<1>1. /\ slots[w] # Free /\ Finished(slots[w], "fault", w, workers[w].generation)
      /\ \A u \in Workers : slots'[u] = IF u = w THEN Free ELSE slots[u]
      /\ Types' /\ pc' = "expiring"
      /\ UNCHANGED <<results, admitted, waiting, agenda, lineage>>
  BY ExpireEffect
<1> QED
  BY <1>1, FinishBase DEF PollPhases, Outcomes, agenda, AgendaStep

(* The steps of cancel_branches, release_branches and close_all that only  *)
(* move through their agenda.                                              *)
LEMMA AgendaBase ==
    ASSUME BaseInv,
           \/ \E b \in Branches : CancelBegin(b) \/ ReleaseBegin(b)
           \/ CloseAll \/ CancelDone \/ CancelRaises \/ ReleaseDone \/ ReleaseRaises
    PROVE  BaseInv'
<1>1. Types /\ AgendaInv
  BY DEF BaseInv
<1>2. Known \in SUBSET Branches
  BY DEF Known
<1>3. /\ UNCHANGED <<records, leases, pool, poll, lineage>>
      /\ pc \in {"idle", "cancelling", "releasing"}
      /\ pc' \in {"idle", "cancelling", "releasing", "closed"}
      /\ op' \in {"none", "cancel", "release", "quarantine", "close"}
      /\ visited' = {}
      /\ \/ todo' = <<>> \/ todo' = admitted \/ (\E b \in Known : todo' = <<b>>)
         \/ todo' \in Ascending(Known)
  <2>1. ASSUME NEW b \in Branches, CancelBegin(b) \/ ReleaseBegin(b)
        PROVE  <1>3!2 /\ <1>3!1 /\ <1>3!3 /\ <1>3!4 /\ <1>3!5 /\ <1>3!6
    BY <2>1 DEF CancelBegin, ReleaseBegin, Start
  <2>2. CASE CloseAll
    BY <2>2 DEF CloseAll, Start
  <2>3. CASE CancelDone
    BY <1>1, <2>3 DEF CancelDone, EndOperation, Ended, Types
  <2>4. CASE CancelRaises
    BY <1>1, <2>4 DEF CancelRaises, EndOperation, Ended, Types
  <2>5. CASE ReleaseDone \/ ReleaseRaises
    BY <2>5 DEF ReleaseDone, ReleaseRaises, EndOperation, Ended
  <2> QED
    BY <2>1, <2>2, <2>3, <2>4, <2>5
<1>4. todo' \in Seq(Branches) /\ \A i \in DOMAIN todo' : todo'[i] \in Known
  <2>1. CASE todo' \in Ascending(Known)
    <3>1. PICK q \in Ascending(Known) : todo' = q
      BY <2>1
    <3> QED
      BY <1>2, <3>1, AscendingProps
  <2>2. ASSUME NEW b \in Known, todo' = <<b>>
        PROVE  todo' \in Seq(Branches) /\ \A i \in DOMAIN todo' : todo'[i] \in Known
    BY <1>2, <2>2
  <2>3. CASE todo' = <<>>
    BY <2>3
  <2>4. CASE todo' = admitted
    BY <1>1, <2>4 DEF Types, AgendaInv
  <2> QED
    BY <1>3, <2>1, <2>2, <2>3, <2>4
<1>5. Types'
  BY <1>1, <1>3, <1>4 DEF Types, pool, poll, PollPhases
<1>6. AgendaStep
  BY <1>1, <1>3, <1>4 DEF AgendaStep, AgendaInv, poll
<1> QED
  BY <1>3, <1>5, <1>6, QuietBase DEF poll, PollPhases

(* What giving up Branch b changes outside its record.                     *)
GivenUp(b) ==
    \/ LET w == records[b].worker IN
       /\ records[b].state = "running" /\ w \in Workers /\ Renewed(w)
       /\ \A c \in Branches :
            leases'[c] = NoLease \/ (leases'[c] = leases[c] /\ leases[c].worker # w)
    \/ /\ records[b].state # "running" /\ workers' = workers /\ abandoned' = abandoned
       /\ \A c \in Branches : leases'[c] \in {NoLease, leases[c]}

LEMMA DiscardEffect ==
    ASSUME BaseInv, NEW b \in Branches, Discard(b)
    PROVE  /\ GivenUp(b)
           /\ workers' \in [Workers -> WorkerState] /\ abandoned' \in SUBSET LateRequest
           /\ leases' \in [Branches -> RealLease \cup {NoLease}]
<1>1. Types /\ PollInv
  BY DEF BaseInv
<1>2. leases \in [Branches -> RealLease \cup {NoLease}]
  BY <1>1 DEF Types
<1>3. CASE records[b].state = "running"
  <2>1. records[b].worker \in Workers
    BY <1>1, <1>3 DEF PollInv
  <2>2. Replaced(records[b].worker) /\ leases' = InvalidateWorker(leases, records[b].worker)
    BY <1>3 DEF Discard, MustRespawn
  <2>3. /\ Renewed(records[b].worker) /\ workers' \in [Workers -> WorkerState]
        /\ abandoned' \in SUBSET LateRequest
    BY <2>1, <2>2, ReplacedEffect
  <2>4. leases' = [c \in Branches |->
                     IF leases[c].worker = records[b].worker THEN NoLease ELSE leases[c]]
    BY <2>2 DEF InvalidateWorker
  <2>5. /\ leases' \in [Branches -> RealLease \cup {NoLease}]
        /\ \A c \in Branches :
             leases'[c] = NoLease \/ (leases'[c] = leases[c] /\ leases[c].worker # records[b].worker)
    BY <1>2, <2>4
  <2> QED
    BY <1>3, <2>1, <2>3, <2>5 DEF GivenUp
<1>4. CASE records[b].state # "running"
  <2>1. leases' = InvalidateLease(b) /\ workers' = workers /\ abandoned' = abandoned
    BY <1>4 DEF Discard, MustRespawn
  <2>2. leases' = leases \/ leases' = [leases EXCEPT ![b] = NoLease]
    BY <2>1 DEF InvalidateLease
  <2>3. leases' \in [Branches -> RealLease \cup {NoLease}]
        /\ \A c \in Branches : leases'[c] \in {NoLease, leases[c]}
    BY <1>2, <2>2
  <2> QED
    BY <1>1, <1>4, <2>1, <2>3 DEF GivenUp, Types
<1> QED
  BY <1>3, <1>4

(* What a visit of cancel_branches changes: nothing but its agenda, or the *)
(* Branch it visits.                                                       *)
Cancels(b) ==
    /\ GivenUp(b)
    /\ \A c \in Branches \ {b} : records'[c] = records[c]
    /\ records'[b].children = records[b].children
    /\ records'[b].kind = records[b].kind /\ records'[b].context = records[b].context
    /\ records'[b].result \in {records[b].result, "none"}
    /\ records'[b].state \in {"cancelled", "released"}
    /\ records[b].state = "released" => records'[b].state = "released"

LEMMA CancelEffect ==
    ASSUME BaseInv, CancelVisit
    PROVE  /\ \/ records' = records /\ leases' = leases /\ workers' = workers /\ abandoned' = abandoned
              \/ \E b \in Known : Cancels(b)
           /\ Types' /\ AgendaStep /\ pc = "cancelling"
           /\ UNCHANGED <<results, pc, op, poll, lineage>>
<1>1. Types /\ AgendaInv
  BY DEF BaseInv
<1>2. todo \in Seq(Branches) /\ todo # <<>> /\ DOMAIN todo = 1..Len(todo)
      /\ \A i \in 1..Len(todo) : todo[i] \in Known
  BY <1>1 DEF Types, AgendaInv, CancelVisit
<1>3. PICK b \in Known : b = Last(todo)
  BY <1>2 DEF Last
<1>4. /\ Front(todo) \in Seq(Branches)
      /\ \A i \in DOMAIN Front(todo) : Front(todo)[i] \in Known
  <2>1. Front(todo) \in Seq(Branches) /\ Len(Front(todo)) = Len(todo) - 1
        /\ \A i \in 1..(Len(todo) - 1) : Front(todo)[i] = todo[i]
    BY <1>2 DEF Front
  <2> QED
    BY <1>2, <2>1
<1>5. pc = "cancelling" /\ UNCHANGED <<results, pc, op, poll, lineage>>
  BY DEF CancelVisit
<1>6. CASE b \in visited
  <2>1. todo' = Front(todo) /\ UNCHANGED <<records, leases, workers, abandoned, visited>>
    BY <1>3, <1>6 DEF CancelVisit
  <2>2. Types'
    BY <1>1, <1>4, <1>5, <2>1 DEF Types, poll
  <2>3. AgendaStep
    BY <1>1, <1>4, <1>5, <2>1 DEF AgendaStep, AgendaInv, poll
  <2> QED
    BY <1>5, <2>1, <2>2, <2>3
<1>7. CASE b \notin visited
  <2>1. PICK q \in Ascending(records[b].children) : todo' = Front(todo) \o q
    BY <1>3, <1>7 DEF CancelVisit
  <2>2. visited' = visited \cup {b} /\ Discard(b) /\ records' = Cancelled(b)
    BY <1>3, <1>7 DEF CancelVisit
  <2>3. b \in Branches /\ records[b].state # "absent" /\ Known \subseteq Branches
    BY DEF Known
  <2>4. records[b].children \in SUBSET Branches /\ records[b].children \subseteq Known
    BY <1>1, <2>3 DEF AgendaInv
  <2>5. q \in Seq(Branches) /\ \A i \in DOMAIN q : q[i] \in Known
    BY <2>4, AscendingProps
  <2>6. todo' \in Seq(Branches) /\ \A i \in DOMAIN todo' : todo'[i] \in Known
    BY <1>4, <2>1, <2>5
  <2>7. /\ GivenUp(b)
        /\ workers' \in [Workers -> WorkerState] /\ abandoned' \in SUBSET LateRequest
        /\ leases' \in [Branches -> RealLease \cup {NoLease}]
    BY <2>2, <2>3, DiscardEffect
  <2>8. records \in [Branches -> BranchRecord] /\ records[b] \in BranchRecord
    BY <1>1, <2>3 DEF Types
  <2>9. /\ records' \in [Branches -> BranchRecord]
        /\ \A c \in Branches \ {b} : records'[c] = records[c]
        /\ records'[b].children = records[b].children
        /\ records'[b].kind = records[b].kind /\ records'[b].context = records[b].context
        /\ records'[b].result \in {records[b].result, "none"}
        /\ records'[b].state \in {"cancelled", "released"}
        /\ records[b].state = "released" => records'[b].state = "released"
    <3>1. CASE records[b].state \in {"cancelled", "released"}
      <4>1. records' = records
        BY <2>2, <3>1 DEF Cancelled
      <4> QED
        BY <2>8, <3>1, <4>1
    <3>2. CASE records[b].state \notin {"cancelled", "released"}
      <4> DEFINE n == [records[b] EXCEPT !.state = "cancelled", !.result = "none"]
      <4>1. records' = [records EXCEPT ![b] = n]
        BY <2>2, <2>8, <3>2 DEF Cancelled
      <4>2. n \in BranchRecord /\ n.state = "cancelled" /\ n.result = "none"
            /\ n.children = records[b].children /\ n.kind = records[b].kind
            /\ n.context = records[b].context
        BY <2>8 DEF BranchRecord, States
      <4> HIDE DEF n
      <4> QED
        BY <2>3, <2>8, <3>2, <4>1, <4>2
    <3> QED
      BY <3>1, <3>2
  <2>10. Types'
    BY <1>1, <1>5, <2>2, <2>3, <2>6, <2>7, <2>9 DEF Types, poll
  <2>11. AgendaStep
    BY <1>1, <1>5, <2>6 DEF AgendaStep, AgendaInv, poll
  <2>12. Cancels(b)
    BY <2>7, <2>9 DEF Cancels
  <2> QED
    BY <1>5, <2>10, <2>11, <2>12
<1> QED
  BY <1>6, <1>7

LEMMA CancelBase ==
    ASSUME BaseInv, CancelVisit
    PROVE  BaseInv'
<1>1. Types' /\ AgendaStep /\ pc = "cancelling" /\ UNCHANGED <<results, pc, op, poll, lineage>>
  BY CancelEffect
<1>2. waiting' = <<>> /\ \A w \in Workers : slots'[w] = Free
  BY <1>1 DEF BaseInv, PollInv, PollPhases, poll
<1>3. CASE records' = records
  BY <1>1, <1>2, <1>3, QuietBase
<1>4. ASSUME NEW b \in Known, Cancels(b)
      PROVE  BaseInv'
  <2>1. b \in Branches /\ records[b].state # "absent"
    BY DEF Known
  <2>2. PollInv'
    BY <1>2, <1>4, <2>1 DEF BaseInv, PollInv, Cancels
  <2> QED
    BY <1>1, <1>4, <2>1, <2>2, StatesBase DEF Cancels
<1> QED
  BY <1>3, <1>4, CancelEffect

(* What leaves the cascade graph with b: released Branches, each a leaf or *)
(* the parent of nothing but one that leaves it too.                       *)
LEMMA PrunableProps ==
    ASSUME NEW recs, NEW b \in Branches, NEW c \in Prunable(recs, b)
    PROVE  /\ recs[c].state = "released"
           /\ \/ recs[c].children = {}
              \/ \E k \in Prunable(recs, b) : recs[c].children = {k} /\ recs[k].parent = c
<1> DEFINE G == Prunable(recs, b)
           leaf == {d \in {b} : recs[d].state = "released" /\ recs[d].children = {}}
           follows(k, d) == /\ recs[d].state = "released" /\ recs[d].children = {k}
                            /\ recs[k].parent = d
           S == {d \in G : /\ recs[d].state = "released"
                           /\ recs[d].children = {} \/ \E k \in G : follows(k, d)}
<1>1. G = {d \in Branches : \A T \in SUBSET Branches :
             /\ leaf \subseteq T
             /\ \A k \in T, e \in Branches : follows(k, e) => e \in T
             => d \in T}
  BY DEF Prunable
<1>2. leaf \subseteq G /\ leaf \subseteq Branches
  BY <1>1
<1>3. \A k \in G, e \in Branches : follows(k, e) => e \in G
  BY <1>1
<1>4. S \in SUBSET Branches
  BY <1>1
<1>5. leaf \subseteq S
  BY <1>2
<1>6. \A k \in S, e \in Branches : follows(k, e) => e \in S
  BY <1>3
<1> HIDE DEF S, leaf, follows, G
<1>7. c \in S
  BY <1>1, <1>4, <1>5, <1>6 DEF G
<1> QED
  BY <1>7 DEF S, follows, G

(* What a visit of release_branches changes: the record it compacts, and   *)
(* edges of the graph to Branches that no longer matter.                   *)
Releases(b) ==
    /\ GivenUp(b)
    /\ \A c \in Branches :
         /\ records'[c].children \subseteq records[c].children
         /\ \A d \in records[c].children \ records'[c].children : ~Matters(d)'
         /\ c # b =>
              /\ records'[c].state = records[c].state /\ records'[c].worker = records[c].worker
              /\ records'[c].generation = records[c].generation
              /\ records'[c].kind = records[c].kind /\ records'[c].context = records[c].context
              /\ records'[c].result = records[c].result
    /\ records'[b].state = "released" /\ records'[b].kind = "sub_branch"
    /\ records'[b].result = "none"

LEMMA ReleaseRecords ==
    ASSUME Types, NEW b \in Branches, GivenUp(b), records' = Pruned(Compacted(b), b)
    PROVE  records' \in [Branches -> BranchRecord] /\ Releases(b)
<1> DEFINE recs == Compacted(b)
           gone == Prunable(recs, b)
           kept(c) == {k \in recs[c].children : ~(k \in gone /\ recs[k].parent = c)}
           up(c) == IF c \in gone THEN NoBranch ELSE recs[c].parent
           tomb == [Absent EXCEPT !.state = "released",
                                  !.parent = records[b].parent,
                                  !.children = {c \in records[b].children :
                                     records[c].state # "released" \/ records[c].children # {}}]
<1>1. records \in [Branches -> BranchRecord] /\ records[b] \in BranchRecord
  BY DEF Types
<1>2. records[b].parent \in Branches \cup {NoBranch} /\ records[b].children \in SUBSET Branches
  BY <1>1 DEF BranchRecord
<1>3. /\ tomb \in BranchRecord /\ tomb.state = "released" /\ tomb.kind = "sub_branch"
      /\ tomb.result = "none"
      /\ tomb.children = {c \in records[b].children :
                            records[c].state # "released" \/ records[c].children # {}}
  BY <1>2 DEF Absent, BranchRecord, States, Kinds
<1>4. recs = [records EXCEPT ![b] = tomb]
  BY DEF Compacted
<1> HIDE DEF tomb
<1>5. recs \in [Branches -> BranchRecord] /\ recs[b] = tomb
      /\ \A c \in Branches : c # b => recs[c] = records[c]
  BY <1>1, <1>3, <1>4
<1>6. records' = [c \in Branches |-> [recs[c] EXCEPT !.parent = up(c), !.children = kept(c)]]
  BY DEF Pruned
<1>7. \A c \in gone : c \in Branches /\ recs[c].state = "released"
        /\ (recs[c].children = {} \/ \E k \in gone : recs[c].children = {k} /\ recs[k].parent = c)
  <2>1. gone \subseteq Branches
    BY DEF Prunable
  <2> QED
    BY <2>1, PrunableProps
<1> HIDE DEF recs, gone
<1>8. ASSUME NEW c \in Branches
      PROVE  /\ records'[c] \in BranchRecord
             /\ records'[c].state = recs[c].state /\ records'[c].worker = recs[c].worker
             /\ records'[c].generation = recs[c].generation
             /\ records'[c].kind = recs[c].kind /\ records'[c].context = recs[c].context
             /\ records'[c].result = recs[c].result
             /\ records'[c].children = kept(c)
  <2>1. recs[c] \in BranchRecord
    BY <1>5
  <2>2. kept(c) \in SUBSET Branches /\ up(c) \in Branches \cup {NoBranch}
    BY <2>1 DEF BranchRecord
  <2>3. records'[c] = [recs[c] EXCEPT !.parent = up(c), !.children = kept(c)]
    BY <1>6
  <2> HIDE DEF kept, up
  <2> QED
    BY <2>1, <2>2, <2>3 DEF BranchRecord
<1>9. records' \in [Branches -> BranchRecord]
  <2>1. records' = [c \in Branches |-> records'[c]]
    BY <1>6
  <2> QED
    BY <1>8, <2>1
<1>10. \A c \in Branches : records'[c].children \subseteq recs[c].children
  BY <1>8
<1>11. \A c \in Branches : recs[c].children \subseteq records[c].children
  BY <1>3, <1>5
<1>12. ASSUME NEW c \in Branches, NEW d \in records[c].children \ records'[c].children
       PROVE  ~Matters(d)'
  <2>1. records[c].children \in SUBSET Branches
    BY <1>1 DEF BranchRecord
  <2>2. d \in Branches
    BY <2>1
  <2>3. CASE d \notin recs[c].children
    <3>1. c = b /\ records[d].state = "released" /\ records[d].children = {}
      BY <1>3, <1>5, <2>3
    <3>2. recs[d].state = "released" /\ recs[d].children = {}
      BY <1>3, <1>5, <2>2, <3>1
    <3> QED
      BY <1>8, <1>10, <2>2, <3>2 DEF Matters
  <2>4. CASE d \in recs[c].children
    <3>1. d \in gone
      BY <1>8, <2>4
    <3>2. records'[d].state = "released"
      BY <1>7, <1>8, <3>1
    <3>3. records'[d].children = {}
      BY <1>7, <1>8, <3>1
    <3> QED
      BY <3>2, <3>3 DEF Matters
  <2> QED
    BY <2>3, <2>4
<1>13. ASSUME NEW c \in Branches, c # b
       PROVE  /\ records'[c].state = records[c].state /\ records'[c].worker = records[c].worker
              /\ records'[c].generation = records[c].generation
              /\ records'[c].kind = records[c].kind /\ records'[c].context = records[c].context
              /\ records'[c].result = records[c].result
  BY <1>5, <1>8, <1>13
<1>14. records'[b].state = "released" /\ records'[b].kind = "sub_branch" /\ records'[b].result = "none"
  BY <1>3, <1>5, <1>8
<1> QED
  BY <1>9, <1>10, <1>11, <1>12, <1>13, <1>14 DEF Releases

LEMMA ReleaseEffect ==
    ASSUME BaseInv, ReleaseVisit
    PROVE  /\ \E b \in Known : Releases(b)
           /\ Types' /\ AgendaStep /\ pc = "releasing"
           /\ UNCHANGED <<results, pc, op, poll, visited, lineage>>
<1>1. Types /\ AgendaInv
  BY DEF BaseInv
<1>2. todo \in Seq(Branches) /\ todo # <<>> /\ DOMAIN todo = 1..Len(todo)
      /\ \A i \in 1..Len(todo) : todo[i] \in Known
  BY <1>1 DEF Types, AgendaInv, ReleaseVisit
<1>3. PICK b \in Known : b = Head(todo)
  BY <1>2
<1>4. /\ Tail(todo) \in Seq(Branches)
      /\ \A i \in DOMAIN Tail(todo) : Tail(todo)[i] \in Known
  <2>1. Tail(todo) \in Seq(Branches) /\ Len(Tail(todo)) = Len(todo) - 1
        /\ \A i \in 1..(Len(todo) - 1) : Tail(todo)[i] = todo[i + 1]
    BY <1>2
  <2> QED
    BY <1>2, <2>1
<1>5. /\ Discard(b) /\ records' = Pruned(Compacted(b), b) /\ todo' = Tail(todo)
      /\ pc = "releasing" /\ UNCHANGED <<results, pc, op, poll, visited, lineage>>
  BY <1>3 DEF ReleaseVisit
<1>6. b \in Branches
  BY DEF Known
<1>7. /\ GivenUp(b)
      /\ workers' \in [Workers -> WorkerState] /\ abandoned' \in SUBSET LateRequest
      /\ leases' \in [Branches -> RealLease \cup {NoLease}]
  BY <1>5, <1>6, DiscardEffect
<1>8. records' \in [Branches -> BranchRecord] /\ Releases(b)
  BY <1>1, <1>5, <1>6, <1>7, ReleaseRecords
<1>9. Types'
  BY <1>1, <1>4, <1>5, <1>7, <1>8 DEF Types, poll
<1>10. AgendaStep
  BY <1>1, <1>4, <1>5 DEF AgendaStep, AgendaInv, poll
<1> QED
  BY <1>5, <1>8, <1>9, <1>10

LEMMA ReleaseBase ==
    ASSUME BaseInv, ReleaseVisit
    PROVE  BaseInv'
<1>1. PICK b \in Known : Releases(b)
  BY ReleaseEffect
<1>2. /\ Types' /\ AgendaStep /\ pc = "releasing"
      /\ UNCHANGED <<results, pc, op, poll, visited, lineage>>
  BY ReleaseEffect
<1>3. b \in Branches /\ records[b].state # "absent"
  BY DEF Known
<1>4. Types /\ PollInv /\ CascadeInv /\ AgendaInv
  BY DEF BaseInv
<1>5. /\ \A c \in Branches :
           /\ records'[c].children \subseteq records[c].children
           /\ \A d \in records[c].children \ records'[c].children : ~Matters(d)'
      /\ \A c \in Branches : c # b =>
           /\ records'[c].state = records[c].state /\ records'[c].worker = records[c].worker
           /\ records'[c].kind = records[c].kind /\ records'[c].context = records[c].context
      /\ records'[b].state = "released" /\ records'[b].kind = "sub_branch"
  BY <1>1 DEF Releases
<1>6. Known' = Known
  BY <1>3, <1>5 DEF Known
<1>7. KnownInv'
  <2>1. PICK n \in 0..MaxSerial : \A c \in Branches : records[c].state # "absent" <=> c <= n
    BY DEF BaseInv, KnownInv
  <2>2. \A c \in Branches : records'[c].state # "absent" <=> c <= n
    BY <1>3, <1>5, <2>1
  <2> QED
    BY <2>2 DEF KnownInv
<1>8. PollInv'
  <2>1. waiting' = <<>> /\ \A w \in Workers : slots'[w] = Free
    BY <1>2, <1>4 DEF PollInv, PollPhases, poll
  <2> QED
    BY <1>4, <1>5, <2>1 DEF PollInv
<1>9. CascadeInv'
  <2>1. \A c \in Branches : lineage[c] \in Branches \cup {NoBranch}
    BY <1>4 DEF Types
  <2>2. ASSUME NEW c \in Branches, lineage[c] # NoBranch
        PROVE  /\ records'[lineage[c]].state # "absent"
               /\ Matters(c)' => c \in records'[lineage[c]].children
    <3>1. lineage[c] \in Branches
      BY <2>1, <2>2
    <3>2. Matters(c)' => Matters(c)
      BY <1>3, <1>5 DEF Matters
    <3>3. /\ records[lineage[c]].state # "absent"
          /\ Matters(c) => c \in records[lineage[c]].children
      BY <1>4, <2>2 DEF CascadeInv
    <3> QED
      BY <1>5, <3>1, <3>2, <3>3
  <2> QED
    BY <1>2, <2>2 DEF CascadeInv
<1>10. AgendaInv'
  BY <1>4, <1>5, <1>6, <1>2 DEF AgendaInv, AgendaStep
<1> QED
  BY <1>2, <1>7, <1>8, <1>9, <1>10 DEF BaseInv

-----------------------------------------------------------------------------
(* What the steps of the manager and its workers do, as far as records,    *)
(* leases, workers and answers are concerned.                              *)

Quiet ==
    /\ UNCHANGED <<records, leases, workers, abandoned>>
    /\ results' = results \/ (results # <<>> /\ results' = Tail(results))

Dispatched(b, w, mode) ==
    /\ records[b].state = "queued" /\ Sent(b, w, mode)
    /\ pc = "dispatching" /\ slots[w] = Free
    /\ mode = "holder_step" =>
         /\ leases' = leases
         /\ records[b].context \in Branches
         /\ IsValid(leases[records[b].context])
         /\ leases[records[b].context].worker = w
    /\ mode = "bootstrap_step" =>
         \A c \in Branches :
           leases'[c] = NoLease \/ (leases'[c] = leases[c] /\ leases[c].worker # w)

Received(b, m) ==
    /\ m = Head(results) /\ results # <<>> /\ results' = Tail(results)
    /\ m.branch = b /\ records[b].state = "running"
    /\ Finished(b, m.outcome, m.worker, m.generation)
    /\ UNCHANGED <<workers, abandoned>>

(* A timeout, a cancel or a release: Branch b ends, and so does its worker *)
(* if b was running.                                                       *)
Stopped(b) ==
    /\ GivenUp(b)
    /\ \A c \in Branches \ {b} : Kept(c)
    /\ records[b].state # "absent"
    /\ records'[b].state \in {"faulted", "cancelled", "released"}
    /\ records'[b].state = "faulted" => records[b].state = "running"
    /\ records[b].state = "released" => records'[b].state = "released"
    /\ records[b].state = "running" \/ records'[b].result \in {records[b].result, "none"}
    /\ results' = results

Steps ==
    \/ Quiet
    \/ \E b \in Branches : Submitted(b) \/ Stopped(b)
    \/ \E b \in Branches, w \in Workers, mode \in {"holder_step", "bootstrap_step"} :
         Dispatched(b, w, mode)
    \/ \E w \in Workers, outcome \in Outcomes : \E r \in Request : Executed(w, r, outcome)
    \/ \E r \in abandoned : AbandonedAnswers(r)
    \/ \E b \in Branches, m \in Message : Received(b, m)

LEMMA DispatchSteps ==
    ASSUME BaseInv,
           \/ \E i \in 1..Len(waiting) : DispatchHolderStep(i)
           \/ \E i \in 1..Len(waiting), w \in Workers : DispatchBootstrap(i, w)
    PROVE  Steps
<1>1. PICK i \in 1..Len(waiting), w \in Workers, mode \in {"holder_step", "bootstrap_step"} :
             /\ SendTo(i, w, mode) /\ pc = "dispatching" /\ slots[w] = Free
             /\ mode = "holder_step" =>
                  /\ leases' = leases
                  /\ records[waiting[i]].context \in Branches
                  /\ IsValid(leases[records[waiting[i]].context])
                  /\ leases[records[waiting[i]].context].worker = w
             /\ mode = "bootstrap_step" =>
                  \A c \in Branches :
                    leases'[c] = NoLease \/ (leases'[c] = leases[c] /\ leases[c].worker # w)
  BY DispatchSends
<1>2. /\ waiting[i] \in Branches /\ records[waiting[i]].state = "queued"
      /\ Sent(waiting[i], w, mode)
  BY <1>1, SendEffect
<1>3. Dispatched(waiting[i], w, mode)
  BY <1>1, <1>2 DEF Dispatched
<1> QED
  BY <1>2, <1>3 DEF Steps

LEMMA ReceiveSteps ==
    ASSUME BaseInv, Receive
    PROVE  Steps
<1>1. PICK w \in Workers, m \in Message :
             /\ m = Head(results) /\ results # <<>> /\ m.branch = slots[w] /\ slots[w] # Free
             /\ m.branch \in Branches
             /\ Finished(m.branch, m.outcome, m.worker, m.generation)
             /\ results' = Tail(results)
             /\ UNCHANGED <<workers, abandoned, admitted, waiting, agenda, lineage>>
  BY ReceiveEffect
<1>2. records[m.branch].state = "running"
  BY <1>1 DEF BaseInv, PollInv
<1>3. Received(m.branch, m)
  BY <1>1, <1>2 DEF Received
<1> QED
  BY <1>1, <1>3 DEF Steps

LEMMA ExpireSteps ==
    ASSUME BaseInv, NEW w \in Workers, Expire(w)
    PROVE  Steps
<1>1. /\ slots[w] \in Branches /\ slots[w] # Free
      /\ Renewed(w) /\ Finished(slots[w], "fault", w, workers[w].generation)
      /\ UNCHANGED <<results, admitted, waiting, agenda, lineage>>
  BY ExpireEffect
<1>2. PICK b \in Branches : b = slots[w]
  BY <1>1
<1>3. records[b].state = "running" /\ records[b].worker = w
  BY <1>1, <1>2 DEF BaseInv, PollInv
<1>4. Finished(b, "fault", w, workers[w].generation)
  BY <1>1, <1>2
<1>5. /\ \A c \in Branches \ {b} : records'[c] = records[c]
      /\ records'[b].state = "faulted"
      /\ \A c \in Branches :
           leases'[c] = NoLease \/ (leases'[c] = leases[c] /\ leases[c].worker # w)
  BY <1>4 DEF Finished
<1>6. GivenUp(b)
  BY <1>1, <1>3, <1>5 DEF GivenUp
<1>7. Stopped(b)
  BY <1>1, <1>3, <1>5, <1>6 DEF Stopped, Kept
<1> QED
  BY <1>7 DEF Steps

LEMMA VisitSteps ==
    ASSUME BaseInv, CancelVisit \/ ReleaseVisit
    PROVE  Steps
<1>1. CASE CancelVisit
  <2>1. UNCHANGED <<results, pc, op, poll, lineage>>
    BY <1>1, CancelEffect
  <2>2. CASE records' = records /\ leases' = leases /\ workers' = workers /\ abandoned' = abandoned
    BY <2>1, <2>2 DEF Steps, Quiet
  <2>3. ASSUME NEW b \in Known, Cancels(b)
        PROVE  Steps
    <3>1. b \in Branches /\ records[b].state # "absent"
      BY DEF Known
    <3>2. Stopped(b)
      BY <2>1, <2>3, <3>1 DEF Cancels, Stopped, Kept
    <3> QED
      BY <3>1, <3>2 DEF Steps
  <2> QED
    BY <1>1, <2>2, <2>3, CancelEffect
<1>2. CASE ReleaseVisit
  <2>1. UNCHANGED <<results, pc, op, poll, visited, lineage>>
    BY <1>2, ReleaseEffect
  <2>2. PICK b \in Known : Releases(b)
    BY <1>2, ReleaseEffect
  <2>3. b \in Branches /\ records[b].state # "absent"
    BY DEF Known
  <2>4. Stopped(b)
    BY <2>1, <2>2, <2>3 DEF Releases, Stopped, Kept
  <2> QED
    BY <2>3, <2>4 DEF Steps
<1> QED
  BY <1>1, <1>2

LEMMA NextSteps == BaseInv /\ [Next]_vars => BaseInv' /\ Steps
<1> SUFFICES ASSUME BaseInv, [Next]_vars
             PROVE  BaseInv' /\ Steps
  OBVIOUS
<1>1. ASSUME NEW p \in Branches \cup {NoBranch}, NEW c \in Branches \cup {NoBranch},
             NEW k \in Kinds, Submit(p, c, k)
      PROVE  BaseInv' /\ Steps
  BY <1>1, SubmitBase DEF Steps
<1>2. ASSUME NEW S \in SUBSET InState("queued"), PollBegin(S)
      PROVE  BaseInv' /\ Steps
  <2>1. Quiet
    BY <1>2 DEF PollBegin, Quiet, pool
  <2> QED
    BY <1>2, <2>1, PollBeginBase DEF Steps
<1>3. CASE \/ \E i \in 1..Len(waiting) : DispatchHolderStep(i)
           \/ \E i \in 1..Len(waiting), w \in Workers : DispatchBootstrap(i, w)
  BY <1>3, DispatchBase, DispatchSteps
<1>4. CASE DispatchRaises \/ \E w \in Workers : ExpireRaises(w)
  <2>1. Quiet
    BY <1>4 DEF DispatchRaises, ExpireRaises, Quiet, pool
  <2> QED
    BY <1>4, <2>1, QuarantineBase DEF Steps
<1>5. CASE DispatchDone \/ ExpiredDone
  <2>1. Quiet
    BY <1>5 DEF DispatchDone, ExpiredDone, Quiet, pool
  <2> QED
    BY <1>5, <2>1, PhaseBase DEF Steps
<1>6. CASE Receive
  BY <1>6, ReceiveBase, ReceiveSteps
<1>7. CASE DiscardStray
  <2>1. Quiet
    BY <1>7 DEF DiscardStray, Quiet
  <2> QED
    BY <1>7, <2>1, StrayBase DEF Steps
<1>8. ASSUME NEW w \in Workers, Expire(w)
      PROVE  BaseInv' /\ Steps
  BY <1>8, ExpireBase, ExpireSteps
<1>9. ASSUME NEW w \in Workers, NEW outcome \in Outcomes, WorkerExecutes(w, outcome)
      PROVE  BaseInv' /\ Steps
  BY <1>9, ExecuteBase DEF Steps
<1>10. ASSUME NEW r \in abandoned, AbandonedAnswers(r)
       PROVE  BaseInv' /\ Steps
  BY <1>10, StrayBase DEF Steps
<1>11. CASE \/ \E b \in Branches : CancelBegin(b) \/ ReleaseBegin(b)
            \/ CloseAll \/ CancelDone \/ CancelRaises \/ ReleaseDone \/ ReleaseRaises
  <2>1. Quiet
    BY <1>11 DEF CancelBegin, ReleaseBegin, CloseAll, Start, CancelDone, CancelRaises,
                 ReleaseDone, ReleaseRaises, Quiet, pool
  <2> QED
    BY <1>11, <2>1, AgendaBase DEF Steps
<1>12. CASE CancelVisit \/ ReleaseVisit
  BY <1>12, CancelBase, ReleaseBase, VisitSteps
<1>13. CASE UNCHANGED vars
  <2>1. /\ UNCHANGED <<records, leases, workers, abandoned, results, pc, op>>
        /\ UNCHANGED <<admitted, waiting, slots, todo, visited, lineage>>
    BY <1>13 DEF vars, pool, poll, agenda
  <2>2. Types'
    BY <2>1 DEF BaseInv, Types
  <2>3. BaseInv'
    BY <2>1, <2>2, QuietBase DEF AgendaStep
  <2> QED
    BY <2>1, <2>3 DEF Steps, Quiet
<1> QED
  BY <1>1, <1>2, <1>3, <1>4, <1>5, <1>6, <1>7, <1>8, <1>9, <1>10, <1>11, <1>12, <1>13
     DEF Next, PollStep, VisitStep

(* The manager's books are in order in every behaviour.                    *)
THEOREM Invariance == Spec => []BaseInv
BY InitBase, NextSteps, PTL DEF Spec

(* TypeOK of the runs, for every number of Branches and workers.           *)
THEOREM TypeCorrect == Spec => []TypeOK
<1>1. BaseInv => TypeOK
  <2> SUFFICES ASSUME Types PROVE TypeOK
    BY DEF BaseInv
  <2>1. /\ records \in [Branches -> BranchRecord]
        /\ pc \in {"idle", "dispatching", "waiting", "expiring", "cancelling", "releasing", "closed"}
        /\ op \in {"none", "cancel", "release", "quarantine", "close"}
        /\ slots \in [Workers -> Branches \cup {Free}]
    BY DEF Types, PollPhases
  <2>2. leases \in [Branches -> [worker : Workers \cup {NoWorker}, generation : Nat]]
    <3>1. NoLease \in [worker : Workers \cup {NoWorker}, generation : Nat]
          /\ RealLease \subseteq [worker : Workers \cup {NoWorker}, generation : Nat]
      BY DEF NoLease, RealLease
    <3> QED
      BY <3>1 DEF Types
  <2>3. \A w \in Workers :
          /\ workers[w].generation \in Nat \ {0}
          /\ workers[w].inbox \in Seq([branch : Branches, mode : {"holder_step", "bootstrap_step"}])
          /\ workers[w].retained \in Branches \cup {NoBranch}
    BY DEF Types, WorkerState, Request
  <2>4. {ToSet(admitted), ToSet(waiting), ToSet(todo), visited} \subseteq SUBSET Branches
    <3>1. \A s \in Seq(Branches) : ToSet(s) \in SUBSET Branches
      BY DEF ToSet
    <3> QED
      BY <3>1 DEF Types
  <2> QED
    BY <2>1, <2>2, <2>3, <2>4 DEF TypeOK
<1> QED
  BY <1>1, Invariance, PTL

(* Whatever the workers answer, however late, and whatever the manager     *)
(* still does, a Branch that has ended takes no result and never runs      *)
(* again: an answer reaches the record of a running Branch only.           *)
THEOREM NoRevival == Spec => NoResultAfterTheEnd
<1> DEFINE Over(b) == records[b].state \in {"completed", "faulted", "cancelled", "released"}
           Stays(b) ==
             /\ records'[b].state \in {records[b].state, "cancelled", "released"}
             /\ records'[b].result \in {records[b].result, "none"}
             /\ records[b].state = "released" => records'[b].state = "released"
<1>1. ASSUME Steps, NEW b \in Branches, Over(b)
      PROVE  Stays(b)
  <2>1. CASE Quiet
    BY <2>1 DEF Quiet
  <2>2. ASSUME NEW c \in Branches, Submitted(c)
        PROVE  Stays(b)
    BY <1>1, <2>2 DEF Submitted, Kept
  <2>3. ASSUME NEW c \in Branches, Stopped(c)
        PROVE  Stays(b)
    BY <1>1, <2>3 DEF Stopped, Kept
  <2>4. ASSUME NEW c \in Branches, NEW w \in Workers, NEW mode, Dispatched(c, w, mode)
        PROVE  Stays(b)
    BY <1>1, <2>4 DEF Dispatched, Sent
  <2>5. ASSUME NEW w, NEW r, NEW outcome, Executed(w, r, outcome)
        PROVE  Stays(b)
    BY <2>5 DEF Executed
  <2>6. ASSUME NEW r, AbandonedAnswers(r)
        PROVE  Stays(b)
    BY <2>6 DEF AbandonedAnswers
  <2>7. ASSUME NEW c \in Branches, NEW m, Received(c, m)
        PROVE  Stays(b)
    BY <1>1, <2>7 DEF Received, Finished
  <2> QED
    BY <1>1, <2>1, <2>2, <2>3, <2>4, <2>5, <2>6, <2>7 DEF Steps
<1>2. BaseInv /\ [Next]_vars =>
        [\A b \in Branches :
           records[b].state \in {"completed", "faulted", "cancelled", "released"} =>
             /\ records'[b].state \in {records[b].state, "cancelled", "released"}
             /\ records'[b].result \in {records[b].result, "none"}
             /\ records[b].state = "released" => records'[b].state = "released"]_vars
  BY <1>1, NextSteps
<1> QED
  BY <1>2, Invariance, PTL DEF Spec, NoResultAfterTheEnd

(* However Branches are released in between, one that is not released is   *)
(* reached from every Branch it descends from, so that cancelling any of   *)
(* them cancels it: the Branches that reach it and have children of their  *)
(* own are closed under "submitted under".                                 *)
THEOREM CascadeKept == Spec => []AncestorsReachDescendants
<1>1. BaseInv => AncestorsReachDescendants
  <2> SUFFICES ASSUME BaseInv, NEW b \in Known \ InState("released"), NEW a \in Ancestors(b)
               PROVE  b \in Below(a)
    BY DEF AncestorsReachDescendants
  <2> DEFINE S == {x \in Branches : b \in Below(x) /\ records[x].children # {}}
  <2>1. b \in Branches /\ records[b].state \notin {"absent", "released"}
    BY DEF Known, InState
  <2>2. ASSUME NEW x \in S \cup {b}
        PROVE  lineage[x] \in S \cup {NoBranch}
    <3>1. x \in Branches /\ Matters(x)
      BY <2>1 DEF Matters
    <3>2. lineage[x] \in Branches \cup {NoBranch}
      BY <3>1 DEF BaseInv, Types
    <3>3. CASE lineage[x] \in Branches
      <4>1. PICK y \in Branches : y = lineage[x]
        BY <3>3
      <4>2. x \in records[y].children
        BY <3>1, <4>1, BranchFacts DEF BaseInv, CascadeInv
      <4>3. ASSUME NEW T \in SUBSET Branches, \A z \in T \cup {y} : records[z].children \subseteq T
            PROVE  b \in T
        <5>1. x \in T
          BY <4>2, <4>3
        <5>2. x = b \/ b \in Below(x)
          OBVIOUS
        <5>3. \A z \in T \cup {x} : records[z].children \subseteq T
          BY <4>3, <5>1
        <5> QED
          BY <5>1, <5>2, <5>3 DEF Below
      <4>4. b \in Below(y)
        BY <2>1, <4>3 DEF Below
      <4> QED
        BY <4>1, <4>2, <4>4
    <3> QED
      BY <3>2, <3>3
  <2>3. S \in SUBSET Branches
    OBVIOUS
  <2> HIDE DEF S
  <2>4. a \in S
    BY <2>2, <2>3 DEF Ancestors
  <2> QED
    BY <2>4 DEF S
<1> QED
  BY <1>1, Invariance, PTL

-----------------------------------------------------------------------------
(* RunInv and LeaseInv, as long as no poll meets a Branch that an earlier  *)
(* one left running                                                        *)

LEMMA PoolFacts ==
    ASSUME BaseInv
    PROVE  /\ \A w \in Workers : /\ workers[w].inbox \in Seq(Request)
                                 /\ \A i \in DOMAIN workers[w].inbox :
                                      workers[w].inbox[i].branch \in Branches
           /\ results \in Seq(Message)
           /\ \A i \in DOMAIN results : results[i] \in Message
           /\ \A m \in Message : m.branch \in Branches /\ m.worker \in Workers
           /\ \A r \in abandoned : r.branch \in Branches
           /\ \A b \in Branches : IsValid(leases[b]) => leases[b].worker \in Workers
<1>1. Types
  BY DEF BaseInv
<1>2. \A w \in Workers : workers[w].inbox \in Seq(Request)
  BY <1>1 DEF Types, WorkerState
<1>3. \A w \in Workers : \A i \in DOMAIN workers[w].inbox : workers[w].inbox[i] \in Request
  BY <1>2
<1>4. \A r \in Request : r.branch \in Branches
  BY DEF Request
<1>5. results \in Seq(Message) /\ abandoned \in SUBSET LateRequest
      /\ leases \in [Branches -> RealLease \cup {NoLease}]
  BY <1>1 DEF Types
<1>6. \A i \in DOMAIN results : results[i] \in Message
  BY <1>5
<1>7. \A m \in Message : m.branch \in Branches /\ m.worker \in Workers
  BY DEF Message
<1>8. \A r \in LateRequest : r.branch \in Branches
  BY DEF LateRequest
<1>9. \A l \in RealLease : l.worker \in Workers
  BY DEF RealLease
<1>10. \A b \in Branches : IsValid(leases[b]) => leases[b].worker \in Workers
  BY <1>5, <1>9 DEF IsValid
<1> QED
  BY <1>2, <1>3, <1>4, <1>5, <1>6, <1>7, <1>8, <1>10

(* A worker that nothing happens to.                                       *)
LEMMA QueueKept ==
    ASSUME BaseInv, NEW w \in Workers, QueueOK(w), workers'[w] = workers[w],
           \A a \in Branches : Runs(a, w) => Runs(a, w)' /\ records'[a].context = records[a].context
    PROVE  QueueOK(w)'
BY PoolFacts DEF QueueOK

LEMMA LeaseKept ==
    ASSUME NEW b \in Branches, NEW w \in Workers, LeaseOK(b, w), workers'[w] = workers[w],
           \A a \in Branches : /\ Runs(a, w)' = Runs(a, w)
                               /\ Runs(a, w) => records'[a].context = records[a].context
    PROVE  LeaseOK(b, w)'
BY DEF LeaseOK

(* An answer whose Branch has ended, or to whose worker nothing happened.  *)
LEMMA AnswerKept ==
    ASSUME NEW m \in Message, AnswerOK(m),
           records'[m.branch].state \notin {"absent", "queued"},
           records'[m.branch].state = "running" =>
              Kept(m.branch) /\ workers'[m.worker] = workers[m.worker]
    PROVE  AnswerOK(m)'
BY DEF AnswerOK, Kept

LEMMA QuietRun ==
    ASSUME BaseInv, RunInv, LeaseInv, Quiet
    PROVE  RunInv' /\ LeaseInv'
<1>1. results \in Seq(Message)
  BY DEF BaseInv, Types
<1>2. \A i \in DOMAIN results' : \E j \in DOMAIN results : results'[i] = results[j]
  <2>1. CASE results' = results
    BY <2>1
  <2>2. CASE results # <<>> /\ results' = Tail(results)
    <3>1. \A i \in 1..(Len(results) - 1) : results'[i] = results[i + 1]
      BY <1>1, <2>2
    <3>2. DOMAIN results' = 1..(Len(results) - 1) /\ DOMAIN results = 1..Len(results)
          /\ Len(results) \in Nat
      BY <1>1, <2>2
    <3> QED
      BY <3>1, <3>2
  <2> QED
    BY <2>1, <2>2 DEF Quiet
<1>3. UNCHANGED <<records, leases, workers, abandoned>>
  BY DEF Quiet
<1>4. \A m : AnswerOK(m)' = AnswerOK(m)
  BY <1>3 DEF AnswerOK
<1>5. RunInv'
  BY <1>2, <1>3, <1>4 DEF RunInv, OneRunner, QueueOK, Runs
<1>6. LeaseInv'
  BY <1>3 DEF LeaseInv, LeaseOK, Runs, IsValid
<1> QED
  BY <1>5, <1>6

LEMMA SubmitRun ==
    ASSUME BaseInv, RunInv, LeaseInv, NEW b \in Branches, Submitted(b)
    PROVE  RunInv' /\ LeaseInv'
<1>1. /\ records[b].state = "absent" /\ records'[b].state = "queued"
      /\ \A c \in Branches \ {b} : Kept(c)
      /\ UNCHANGED <<leases, workers, abandoned, results>>
  BY DEF Submitted
<1>2. \A c \in Branches, w \in Workers :
        /\ Runs(c, w)' = Runs(c, w)
        /\ Runs(c, w) => records'[c].context = records[c].context
  BY <1>1 DEF Runs, Kept
<1>3. OneRunner'
  BY <1>2 DEF RunInv, OneRunner
<1>4. \A w \in Workers : QueueOK(w)'
  BY <1>1, <1>2, QueueKept DEF RunInv
<1>5. (\A i \in DOMAIN results : AnswerOK(results[i]))'
  <2>1. ASSUME NEW m \in Message, AnswerOK(m)
        PROVE  AnswerOK(m)'
    <3>1. m.branch \in Branches /\ m.branch # b
      BY <1>1, <2>1, PoolFacts DEF AnswerOK
    <3> QED
      BY <1>1, <2>1, <3>1, AnswerKept DEF Kept, AnswerOK
  <2> QED
    BY <1>1, <2>1, PoolFacts DEF RunInv
<1>6. \A r \in abandoned' : records'[r.branch].state \notin {"absent", "queued", "running"}
  BY <1>1, PoolFacts DEF RunInv, Kept
<1>7. LeaseInv'
  BY <1>1, <1>2, PoolFacts, LeaseKept DEF LeaseInv, IsValid
<1> QED
  BY <1>3, <1>4, <1>5, <1>6, <1>7 DEF RunInv

LEMMA ShortSequence ==
    ASSUME NEW T, NEW s \in Seq(T), Len(s) <= 1
    PROVE  \/ s = <<>>
           \/ DOMAIN s = {1} /\ Head(s) = s[1] /\ Tail(s) = <<>>
<1>1. Len(s) \in Nat /\ (Len(s) = 0 => s = <<>>) /\ DOMAIN s = 1..Len(s)
  OBVIOUS
<1>2. CASE Len(s) = 0
  BY <1>1, <1>2
<1>3. CASE Len(s) = 1
  <2>1. s # <<>>
    <3>1. Len(<<>>) = 0 /\ 0 # 1
      OBVIOUS
    <3> QED
      BY <1>3, <3>1, Zenon
  <2>2. Tail(s) \in Seq(T) /\ Len(Tail(s)) = 0
    BY <1>3, <2>1
  <2>3. Tail(s) = <<>>
    BY <2>2
  <2>4. DOMAIN s = {1}
    BY <1>1, <1>3
  <2> QED
    BY <2>1, <2>3, <2>4
<1> QED
  BY <1>1, <1>2, <1>3

LEMMA LeaseNamesAWorker ==
    ASSUME BaseInv, NEW c \in Branches, leases[c] # NoLease
    PROVE  leases[c].worker \in Workers /\ leases[c] \in RealLease
<1>1. leases[c] \in RealLease
  BY DEF BaseInv, Types
<1> QED
  BY <1>1 DEF RealLease

(* A free worker is idle when no Branch was left running on it, and so the *)
(* lease a Holder Step relies on names what the worker retains.            *)
LEMMA DispatchRun ==
    ASSUME BaseInv, RunInv, LeaseInv, NoPollWithLeftovers,
           NEW b \in Branches, NEW w \in Workers, NEW mode \in {"holder_step", "bootstrap_step"},
           Dispatched(b, w, mode)
    PROVE  RunInv' /\ LeaseInv'
<1>1. /\ records[b].state = "queued" /\ Sent(b, w, mode) /\ pc = "dispatching" /\ slots[w] = Free
      /\ mode = "holder_step" =>
           /\ leases' = leases
           /\ records[b].context \in Branches
           /\ IsValid(leases[records[b].context])
           /\ leases[records[b].context].worker = w
      /\ mode = "bootstrap_step" =>
           \A c \in Branches :
             leases'[c] = NoLease \/ (leases'[c] = leases[c] /\ leases[c].worker # w)
  BY DEF Dispatched
<1>2. /\ \A c \in Branches \ {b} : Kept(c)
      /\ records'[b].state = "running" /\ records'[b].worker = w
      /\ records'[b].context = records[b].context
      /\ \A v \in Workers \ {w} : workers'[v] = workers[v]
      /\ workers'[w].generation = workers[w].generation
      /\ workers'[w].retained = workers[w].retained
      /\ workers'[w].inbox = Append(workers[w].inbox, [branch |-> b, mode |-> mode])
      /\ UNCHANGED <<abandoned, results>>
  BY <1>1 DEF Sent, Kept
<1>3. \A a \in Branches : ~Runs(a, w)
  <2>1. ASSUME NEW a \in Branches, Runs(a, w)
        PROVE  FALSE
    <3>1. a \in InState("running")
      BY <2>1 DEF Runs, InState
    <3>2. PICK v \in Workers : slots[v] = a
      BY <1>1, <3>1 DEF NoPollWithLeftovers
    <3>3. a # Free
      BY BranchFacts
    <3>4. records[a].worker = v
      BY <3>2, <3>3 DEF BaseInv, PollInv
    <3> QED
      BY <1>1, <2>1, <3>2, <3>3, <3>4 DEF Runs
  <2> QED
    BY <2>1
<1>4. workers[w].inbox = <<>>
  <2>1. workers[w].inbox \in Seq(Request) /\ QueueOK(w)
    BY PoolFacts DEF RunInv
  <2>2. DOMAIN workers[w].inbox = {}
    BY <1>3, <2>1, PoolFacts DEF QueueOK
  <2> QED
    BY <2>1, <2>2, ShortSequence DEF QueueOK
<1>5. Len(workers'[w].inbox) = 1 /\ DOMAIN workers'[w].inbox = {1}
      /\ workers'[w].inbox[1] = [branch |-> b, mode |-> mode]
  BY <1>2, <1>4
<1>6. \A a \in Branches, v \in Workers \ {w} :
        Runs(a, v)' = Runs(a, v) /\ (Runs(a, v) => records'[a].context = records[a].context)
  BY <1>1, <1>2 DEF Runs, Kept
<1>7. \A a \in Branches : Runs(a, w)' <=> a = b
  <2>1. Runs(b, w)'
    BY <1>2 DEF Runs
  <2>2. \A a \in Branches \ {b} : Runs(a, w)' = Runs(a, w)
    BY <1>2 DEF Runs, Kept
  <2> QED
    BY <1>3, <2>1, <2>2
<1>8. mode = "holder_step" => workers[w].retained = records[b].context
  BY <1>1, <1>3 DEF LeaseInv, LeaseOK
<1>9. OneRunner'
  BY <1>6, <1>7 DEF RunInv, OneRunner
<1>10. \A v \in Workers : QueueOK(v)'
  <2>1. \A v \in Workers \ {w} : QueueOK(v)'
    BY <1>2, <1>6, QueueKept DEF RunInv
  <2>2. QueueOK(w)'
    BY <1>2, <1>5, <1>7, <1>8 DEF QueueOK
  <2> QED
    BY <2>1, <2>2
<1>11. (\A i \in DOMAIN results : AnswerOK(results[i]))'
  <2>1. ASSUME NEW m \in Message, AnswerOK(m)
        PROVE  AnswerOK(m)'
    <3>1. m.branch \in Branches /\ m.branch # b /\ m.worker \in Workers
      BY <1>1, <2>1, PoolFacts DEF AnswerOK
    <3>2. records[m.branch].state = "running" => m.worker # w
      BY <1>3, <2>1, <3>1 DEF AnswerOK, Runs
    <3> QED
      BY <1>2, <2>1, <3>1, <3>2, AnswerKept DEF Kept, AnswerOK
  <2> QED
    BY <1>2, <2>1, PoolFacts DEF RunInv
<1>12. \A r \in abandoned' : records'[r.branch].state \notin {"absent", "queued", "running"}
  BY <1>1, <1>2, PoolFacts DEF RunInv, Kept
<1>13. LeaseInv'
  <2>1. ASSUME NEW c \in Branches, IsValid(leases[c])'
        PROVE  LeaseOK(c, leases[c].worker)'
    <3>1. leases'[c] = leases[c]
      BY <1>1, <2>1 DEF IsValid
    <3>2. leases[c].worker \in Workers
      BY <2>1, <3>1, LeaseNamesAWorker DEF IsValid
    <3>3. PICK v \in Workers : v = leases[c].worker /\ IsValid(leases[c])
      BY <1>2, <2>1, <3>1, <3>2 DEF IsValid
    <3>4. LeaseOK(c, v)
      BY <3>3 DEF LeaseInv
    <3>5. LeaseOK(c, v)'
      <4>1. CASE v # w
        BY <1>2, <1>6, <3>4, <4>1, LeaseKept
      <4>2. CASE v = w
        <5>1. mode = "holder_step"
          BY <1>1, <2>1, <3>1, <3>3, <4>2 DEF IsValid
        <5>2. workers[w].retained = c
          BY <1>3, <3>4, <4>2 DEF LeaseOK
        <5> QED
          BY <1>2, <1>7, <1>8, <4>2, <5>1, <5>2 DEF LeaseOK
      <4> QED
        BY <4>1, <4>2
    <3> QED
      BY <3>1, <3>3, <3>5
  <2> QED
    BY <2>1 DEF LeaseInv
<1> QED
  BY <1>9, <1>10, <1>11, <1>12, <1>13 DEF RunInv

LEMMA ExecuteRun ==
    ASSUME BaseInv, RunInv, LeaseInv, NEW w \in Workers, NEW outcome \in Outcomes,
           NEW r \in Request, Executed(w, r, outcome)
    PROVE  RunInv' /\ LeaseInv'
<1>1. /\ r = Head(workers[w].inbox) /\ workers[w].inbox # <<>>
      /\ \A v \in Workers \ {w} : workers'[v] = workers[v]
      /\ workers'[w].generation = workers[w].generation
      /\ workers'[w].inbox = Tail(workers[w].inbox)
      /\ workers'[w].retained = IF outcome = "pending" THEN r.branch ELSE NoBranch
      /\ UNCHANGED <<records, leases, abandoned>>
  BY DEF Executed
<1>2. r.branch \in Branches /\ Runs(r.branch, w) /\ workers'[w].inbox = <<>>
  <2>1. workers[w].inbox \in Seq(Request) /\ QueueOK(w)
    BY PoolFacts DEF RunInv
  <2>2. 1 \in DOMAIN workers[w].inbox /\ r = workers[w].inbox[1] /\ Tail(workers[w].inbox) = <<>>
    BY <1>1, <2>1, ShortSequence DEF QueueOK
  <2> QED
    BY <1>1, <2>1, <2>2, PoolFacts DEF QueueOK
<1>3. \A a \in Branches, v \in Workers : Runs(a, v)' = Runs(a, v)
  BY <1>1 DEF Runs
<1>4. OneRunner'
  BY <1>3 DEF RunInv, OneRunner
<1>5. \A v \in Workers : QueueOK(v)'
  <2>1. \A v \in Workers \ {w} : QueueOK(v)'
    BY <1>1, <1>3, QueueKept DEF RunInv
  <2>2. QueueOK(w)'
    BY <1>2 DEF QueueOK
  <2> QED
    BY <2>1, <2>2
<1>6. (\A i \in DOMAIN results : AnswerOK(results[i]))'
  <2>1. ASSUME NEW m \in Message, AnswerOK(m)
        PROVE  AnswerOK(m)'
    <3>1. m.branch \in Branches /\ m.worker \in Workers
      BY PoolFacts
    <3>2. records[m.branch].state = "running" => m.worker # w
      BY <1>1, <2>1 DEF AnswerOK
    <3> QED
      BY <1>1, <2>1, <3>1, <3>2, AnswerKept DEF Kept, AnswerOK
  <2>2. PICK new \in [branch : {r.branch}, outcome : {outcome}, worker : {w}, generation : Nat \ {0}] :
          new.generation = workers[w].generation /\ results' = Append(results, new)
    <3>1. workers[w].generation \in Nat \ {0}
      BY DEF BaseInv, Types, WorkerState
    <3> QED
      BY <3>1 DEF Executed
  <2>3. AnswerOK(new)'
    BY <1>1, <1>2, <2>2 DEF AnswerOK, Runs
  <2>4. ASSUME NEW i \in DOMAIN results'
        PROVE  AnswerOK(results[i])'
    <3>1. (i \in DOMAIN results /\ results'[i] = results[i]) \/ results'[i] = new
      BY <2>2, PoolFacts
    <3> QED
      BY <2>1, <2>3, <3>1, PoolFacts DEF RunInv
  <2> QED
    BY <2>4
<1>7. \A q \in abandoned' : records'[q.branch].state \notin {"absent", "queued", "running"}
  BY <1>1 DEF RunInv
<1>8. LeaseInv'
  <2>1. ASSUME NEW c \in Branches, IsValid(leases[c])'
        PROVE  LeaseOK(c, leases[c].worker)'
    <3>1. leases[c].worker \in Workers
      BY <1>1, <2>1, LeaseNamesAWorker DEF IsValid
    <3>2. PICK v \in Workers : v = leases[c].worker /\ IsValid(leases[c])
      BY <1>1, <2>1, <3>1 DEF IsValid
    <3>3. LeaseOK(c, v)
      BY <3>2 DEF LeaseInv
    <3>4. LeaseOK(c, v)'
      <4>1. CASE v # w
        BY <1>1, <1>3, <3>3, <4>1, LeaseKept
      <4>2. CASE v = w
        BY <1>1, <1>2, <1>3, <3>3, <4>2 DEF LeaseOK
      <4> QED
        BY <4>1, <4>2
    <3> QED
      BY <1>1, <3>2, <3>4
  <2> QED
    BY <2>1 DEF LeaseInv
<1> QED
  BY <1>4, <1>5, <1>6, <1>7, <1>8 DEF RunInv

LEMMA LateAnswerRun ==
    ASSUME BaseInv, RunInv, LeaseInv, NEW r \in abandoned, AbandonedAnswers(r)
    PROVE  RunInv' /\ LeaseInv'
<1> DEFINE new == [branch |-> r.branch, outcome |-> "pending", worker |-> r.worker,
                   generation |-> r.generation]
<1>1. /\ results' = Append(results, new) /\ abandoned' \subseteq abandoned
      /\ UNCHANGED <<records, leases, workers>>
  BY DEF AbandonedAnswers, Answer
<1>2. \A m : AnswerOK(m)' = AnswerOK(m)
  BY <1>1 DEF AnswerOK
<1>3. AnswerOK(new)
  <2>1. new.branch = r.branch
    OBVIOUS
  <2> HIDE DEF new
  <2> QED
    BY <2>1 DEF RunInv, AnswerOK
<1> HIDE DEF new
<1>4. \A i \in DOMAIN results' :
        (i \in DOMAIN results /\ results'[i] = results[i]) \/ results'[i] = new
  BY <1>1, PoolFacts
<1>5. (\A i \in DOMAIN results : AnswerOK(results[i]))'
  BY <1>2, <1>3, <1>4 DEF RunInv
<1>6. RunInv'
  BY <1>1, <1>5 DEF RunInv, OneRunner, QueueOK, Runs
<1>7. LeaseInv'
  BY <1>1 DEF LeaseInv, LeaseOK, Runs, IsValid
<1> QED
  BY <1>6, <1>7

(* The answer of a running Branch: its worker is idle since, and retains   *)
(* the context the answer establishes; the lease it consumed is the only   *)
(* one its worker had.                                                     *)
LEMMA ReceiveRun ==
    ASSUME BaseInv, RunInv, LeaseInv, NEW b \in Branches, NEW m \in Message, Received(b, m)
    PROVE  RunInv' /\ LeaseInv'
<1>1. /\ m = Head(results) /\ results # <<>> /\ results' = Tail(results)
      /\ m.branch = b /\ records[b].state = "running"
      /\ UNCHANGED <<workers, abandoned>>
  BY DEF Received
<1>2. Finished(b, m.outcome, m.worker, m.generation)
  BY DEF Received
<1>3. /\ \A c \in Branches \ {b} : Kept(c)
      /\ records'[b].state \notin {"absent", "queued", "running"}
  BY <1>2 DEF Finished, Kept
<1>4. PICK w \in Workers :
        /\ w = m.worker /\ Runs(b, w) /\ m.generation = workers[w].generation
        /\ workers[w].inbox = <<>>
        /\ m.outcome = "pending" => workers[w].retained = b
  <2>1. 1 \in DOMAIN results /\ m = results[1]
    BY <1>1, PoolFacts
  <2>2. AnswerOK(m)
    BY <2>1 DEF RunInv
  <2> QED
    BY <1>1, <2>2, PoolFacts DEF AnswerOK, Runs
<1>5. \A a \in Branches : Runs(a, w) <=> a = b
  BY <1>4 DEF RunInv, OneRunner
<1>6. \A a \in Branches, v \in Workers \ {w} :
        /\ Runs(a, v)' = Runs(a, v)
        /\ Runs(a, v) => records'[a].context = records[a].context
  BY <1>3, <1>4 DEF Runs, Kept
<1>7. \A a \in Branches : ~Runs(a, w)'
  <2>1. ~Runs(b, w)'
    BY <1>3 DEF Runs
  <2>2. \A a \in Branches \ {b} : Runs(a, w)' = Runs(a, w)
    BY <1>3 DEF Runs, Kept
  <2> QED
    BY <1>5, <2>1, <2>2
<1>8. OneRunner'
  BY <1>6, <1>7 DEF RunInv, OneRunner
<1>9. \A v \in Workers : QueueOK(v)'
  <2>1. \A v \in Workers \ {w} : QueueOK(v)'
    BY <1>1, <1>6, QueueKept DEF RunInv
  <2>2. QueueOK(w)'
    BY <1>1, <1>4 DEF QueueOK
  <2> QED
    BY <2>1, <2>2
<1>10. (\A i \in DOMAIN results : AnswerOK(results[i]))'
  <2>1. ASSUME NEW n \in Message, AnswerOK(n)
        PROVE  AnswerOK(n)'
    <3>1. n.branch \in Branches
      BY PoolFacts
    <3>2. CASE n.branch = b
      BY <1>3, <2>1, <3>1, <3>2, AnswerKept
    <3>3. CASE n.branch # b
      BY <1>1, <1>3, <2>1, <3>1, <3>3, AnswerKept DEF Kept, AnswerOK
    <3> QED
      BY <3>2, <3>3
  <2>2. ASSUME NEW i \in DOMAIN results'
        PROVE  i + 1 \in DOMAIN results /\ results'[i] = results[i + 1]
    <3>1. results \in Seq(Message) /\ results # <<>>
      BY <1>1, PoolFacts
    <3> QED
      BY <1>1, <2>2, <3>1
  <2> QED
    BY <2>1, <2>2, PoolFacts DEF RunInv
<1>11. \A r \in abandoned' : records'[r.branch].state \notin {"absent", "queued", "running"}
  BY <1>1, <1>3, PoolFacts DEF RunInv, Kept
<1>12. LeaseInv'
  <2>1. ASSUME NEW c \in Branches, IsValid(leases[c])'
        PROVE  LeaseOK(c, leases[c].worker)'
    <3>1. CASE /\ m.outcome = "pending" /\ c = b
               /\ leases'[c] = [worker |-> m.worker, generation |-> m.generation]
      <4>1. leases'[c].worker = w
        BY <1>4, <3>1
      <4>2. LeaseOK(c, w)'
        BY <1>1, <1>4, <1>7, <3>1 DEF LeaseOK
      <4> QED
        BY <4>1, <4>2
    <3>2. CASE /\ leases'[c] = leases[c] /\ c # records[b].context
               /\ m.outcome = "fault" => leases[c].worker # m.worker
      <4>1. leases[c].worker \in Workers
        BY <2>1, <3>2, LeaseNamesAWorker DEF IsValid
      <4>2. PICK v \in Workers : v = leases[c].worker /\ IsValid(leases[c])
        BY <1>1, <2>1, <3>2, <4>1 DEF IsValid
      <4>3. LeaseOK(c, v)
        BY <4>2 DEF LeaseInv
      <4>4. v # w
        BY <1>4, <3>2, <4>3 DEF LeaseOK
      <4>5. LeaseOK(c, v)'
        BY <1>1, <1>6, <4>3, <4>4, LeaseKept
      <4> QED
        BY <3>2, <4>2, <4>5
    <3>3. leases'[c] # NoLease
      BY <2>1 DEF IsValid
    <3> QED
      BY <1>2, <3>1, <3>2, <3>3 DEF Finished
  <2> QED
    BY <2>1 DEF LeaseInv
<1> QED
  BY <1>8, <1>9, <1>10, <1>11, <1>12 DEF RunInv

(* A Branch that is running ends together with its worker and with every   *)
(* lease on that worker.                                                   *)
LEMMA StopRun ==
    ASSUME BaseInv, RunInv, LeaseInv, NEW b \in Branches, Stopped(b)
    PROVE  RunInv' /\ LeaseInv'
<1>1. /\ GivenUp(b) /\ results' = results
      /\ \A c \in Branches \ {b} : Kept(c)
      /\ records[b].state # "absent"
      /\ records'[b].state \notin {"absent", "queued", "running"}
  BY DEF Stopped
<1>2. \A a \in Branches, v \in Workers :
        /\ ~Runs(b, v)'
        /\ a # b => /\ Runs(a, v)' = Runs(a, v)
                    /\ records'[a].context = records[a].context
  BY <1>1 DEF Runs, Kept
<1>3. OneRunner'
  BY <1>2 DEF RunInv, OneRunner
<1>4. CASE records[b].state = "running"
  <2>1. PICK w \in Workers :
          /\ w = records[b].worker /\ Renewed(w)
          /\ \A c \in Branches :
               leases'[c] = NoLease \/ (leases'[c] = leases[c] /\ leases[c].worker # w)
    BY <1>1, <1>4 DEF GivenUp
  <2>2. /\ \A v \in Workers \ {w} : workers'[v] = workers[v]
        /\ workers'[w].inbox = <<>>
    BY <2>1 DEF Renewed
  <2>3. Runs(b, w) /\ \A v \in Workers \ {w} : ~Runs(b, v)
    BY <1>4, <2>1 DEF Runs
  <2>4. \A a \in Branches, v \in Workers \ {w} :
          /\ Runs(a, v)' = Runs(a, v)
          /\ Runs(a, v) => records'[a].context = records[a].context
    BY <1>2, <2>3 DEF Runs
  <2>5. \A v \in Workers : QueueOK(v)'
    <3>1. \A v \in Workers \ {w} : QueueOK(v)'
      BY <2>2, <2>4, QueueKept DEF RunInv
    <3>2. QueueOK(w)'
      BY <2>2 DEF QueueOK
    <3> QED
      BY <3>1, <3>2
  <2>6. (\A i \in DOMAIN results : AnswerOK(results[i]))'
    <3>1. ASSUME NEW m \in Message, AnswerOK(m)
          PROVE  AnswerOK(m)'
      <4>1. m.branch \in Branches /\ m.worker \in Workers
        BY PoolFacts
      <4>2. CASE m.branch = b
        BY <1>1, <3>1, <4>1, <4>2, AnswerKept
      <4>3. CASE m.branch # b
        <5>1. records[m.branch].state = "running" => m.worker # w
          BY <2>3, <3>1, <4>1, <4>3 DEF AnswerOK, RunInv, OneRunner, Runs
        <5> QED
          BY <1>1, <2>2, <3>1, <4>1, <4>3, <5>1, AnswerKept DEF Kept, AnswerOK
      <4> QED
        BY <4>2, <4>3
    <3> QED
      BY <1>1, <3>1, PoolFacts DEF RunInv
  <2>7. \A r \in abandoned' : records'[r.branch].state \notin {"absent", "queued", "running"}
    <3>1. ASSUME NEW r \in abandoned
          PROVE  records'[r.branch].state \notin {"absent", "queued", "running"}
      BY <1>1, PoolFacts DEF RunInv, Kept
    <3>2. ASSUME NEW i \in DOMAIN workers[w].inbox
          PROVE  workers[w].inbox[i].branch = b
      <4>1. workers[w].inbox[i].branch \in Branches /\ Runs(workers[w].inbox[i].branch, w)
        BY PoolFacts DEF RunInv, QueueOK
      <4> QED
        BY <2>3, <4>1 DEF RunInv, OneRunner
    <3> QED
      BY <1>1, <2>1, <3>1, <3>2 DEF Renewed
  <2>8. LeaseInv'
    <3>1. ASSUME NEW c \in Branches, IsValid(leases[c])'
          PROVE  LeaseOK(c, leases[c].worker)'
      <4>1. leases'[c] = leases[c] /\ leases[c].worker # w
        BY <2>1, <3>1 DEF IsValid
      <4>2. leases[c].worker \in Workers
        BY <3>1, <4>1, LeaseNamesAWorker DEF IsValid
      <4>3. PICK v \in Workers : v = leases[c].worker /\ v # w /\ IsValid(leases[c])
        BY <2>2, <3>1, <4>1, <4>2 DEF IsValid
      <4>4. LeaseOK(c, v)
        BY <4>3 DEF LeaseInv
      <4>5. LeaseOK(c, v)'
        BY <2>2, <2>4, <4>3, <4>4, LeaseKept
      <4> QED
        BY <4>1, <4>3, <4>5
    <3> QED
      BY <3>1 DEF LeaseInv
  <2> QED
    BY <1>3, <2>5, <2>6, <2>7, <2>8 DEF RunInv
<1>5. CASE records[b].state # "running"
  <2>1. /\ workers' = workers /\ abandoned' = abandoned
        /\ \A c \in Branches : leases'[c] \in {NoLease, leases[c]}
    BY <1>1, <1>5 DEF GivenUp
  <2>2. \A a \in Branches, v \in Workers :
          /\ Runs(a, v)' = Runs(a, v)
          /\ Runs(a, v) => records'[a].context = records[a].context
    BY <1>2, <1>5 DEF Runs
  <2>3. \A v \in Workers : QueueOK(v)'
    BY <2>1, <2>2, QueueKept DEF RunInv
  <2>4. (\A i \in DOMAIN results : AnswerOK(results[i]))'
    <3>1. ASSUME NEW m \in Message, AnswerOK(m)
          PROVE  AnswerOK(m)'
      <4>1. m.branch \in Branches
        BY PoolFacts
      <4>2. CASE m.branch = b
        BY <1>1, <3>1, <4>1, <4>2, AnswerKept
      <4>3. CASE m.branch # b
        BY <1>1, <2>1, <3>1, <4>1, <4>3, AnswerKept DEF Kept, AnswerOK
      <4> QED
        BY <4>2, <4>3
    <3> QED
      BY <1>1, <3>1, PoolFacts DEF RunInv
  <2>5. \A r \in abandoned' : records'[r.branch].state \notin {"absent", "queued", "running"}
    BY <1>1, <2>1, PoolFacts DEF RunInv, Kept
  <2>6. LeaseInv'
    <3>1. ASSUME NEW c \in Branches, IsValid(leases[c])'
          PROVE  LeaseOK(c, leases[c].worker)'
      <4>1. leases'[c] = leases[c] /\ IsValid(leases[c])
        BY <2>1, <3>1 DEF IsValid
      <4>2. PICK v \in Workers : v = leases[c].worker
        BY <4>1, PoolFacts
      <4>3. LeaseOK(c, v)'
        BY <2>1, <2>2, <4>1, <4>2, LeaseKept DEF LeaseInv
      <4> QED
        BY <4>1, <4>2, <4>3
    <3> QED
      BY <3>1 DEF LeaseInv
  <2> QED
    BY <1>3, <2>3, <2>4, <2>5, <2>6 DEF RunInv
<1> QED
  BY <1>4, <1>5

LEMMA StepRun ==
    BaseInv /\ RunInv /\ LeaseInv /\ NoPollWithLeftovers /\ [Next]_vars => RunInv' /\ LeaseInv'
<1> SUFFICES ASSUME BaseInv, RunInv, LeaseInv, NoPollWithLeftovers, Steps
             PROVE  RunInv' /\ LeaseInv'
  BY NextSteps
<1> QED
  BY QuietRun, SubmitRun, StopRun, DispatchRun, ExecuteRun, LateAnswerRun, ReceiveRun DEF Steps

LEMMA InitRun == Init => RunInv /\ LeaseInv
<1> SUFFICES ASSUME Init PROVE RunInv /\ LeaseInv
  OBVIOUS
<1>1. \A b \in Branches : records[b].state = "absent" /\ ~IsValid(leases[b])
  BY DEF Init, Absent, IsValid
<1>2. \A w \in Workers : workers[w].inbox = <<>>
  BY DEF Init
<1>3. results = <<>> /\ abandoned = {}
  BY DEF Init
<1>4. \A w \in Workers : QueueOK(w)
  BY <1>2 DEF QueueOK
<1> QED
  BY <1>1, <1>3, <1>4 DEF RunInv, LeaseInv, OneRunner, Runs

(* As long as every Branch that runs when a poll dispatches is one of that *)
(* poll's own, and not one that a refused respawn left behind, the lease   *)
(* table tells the truth about the workers: one Branch on a worker, and a  *)
(* Holder Step always meets the context it came for.                       *)
THEOREM LeasesTellTheTruth == Spec /\ []NoPollWithLeftovers => []LeaseIsTruthful
<1>1. BaseInv /\ RunInv /\ LeaseInv => LeaseIsTruthful
  <2> SUFFICES ASSUME BaseInv, RunInv, LeaseInv PROVE LeaseIsTruthful
    OBVIOUS
  <2>1. \A a, b \in InState("running") : records[a].worker = records[b].worker => a = b
    BY DEF InState, RunInv, OneRunner, Runs, BaseInv, PollInv
  <2>2. ASSUME NEW w \in Workers, NEW r \in ToSet(workers[w].inbox)
        PROVE  /\ records[r.branch].state = "running" /\ records[r.branch].worker = w
               /\ r.mode = "holder_step" => workers[w].retained = records[r.branch].context
    <3>1. PICK i \in DOMAIN workers[w].inbox : r = workers[w].inbox[i]
      BY DEF ToSet
    <3> QED
      BY <3>1 DEF RunInv, QueueOK, Runs
  <2>3. ASSUME NEW b \in Branches, IsValid(leases[b])
        PROVE  \/ workers[leases[b].worker].retained = b
               \/ \E a \in InState("running") : records[a].worker = leases[b].worker
    BY <2>3 DEF LeaseInv, LeaseOK, InState, Runs
  <2> QED
    BY <2>1, <2>2, <2>3 DEF LeaseIsTruthful, OneRunningPerWorker
<1> QED
  BY <1>1, Invariance, InitRun, StepRun, PTL DEF Spec
=============================================================================
