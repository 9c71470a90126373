-------------------------- MODULE InstancesProofs --------------------------
(***************************************************************************)
(* Proofs about the instances behind the API: about GameHandoff, what they *)
(* share of the game, for any set of instances of either kind, and about   *)
(* ApiInstances, the Branch ledger each keeps, for any Branches, rng_ids   *)
(* and max_branches.                                                       *)
(*                                                                         *)
(* GameHandoff.  A mutation goes to the right board because the guard's    *)
(* holder tells whose board it is, and nobody takes the game back without  *)
(* being started: that needs to know that a serving instance always has a  *)
(* lease to present (a session without one would claim), which lease the   *)
(* guard accepts at every point of a hand-off, and where the open transfer *)
(* would roll back to.  InstInv says it of the instances no handler is     *)
(* running for, StepInv of the one it is running for.                      *)
(*                                                                         *)
(* ApiInstances.  What a ledger promises is kept by every operation on it, *)
(* so the invariant of a whole run is LedgerInv, a statement about one     *)
(* ledger: its tables are what a sequence of allocations can leave         *)
(* (TableInv), its Branches, ids and reservations name each other          *)
(* (BookInv, ReserveInv), an event hypothesis is held by exactly the       *)
(* usable Branches under it (RefInv), and RunInv adds where the run        *)
(* stands.  A standalone combat has CombatInv.                             *)
(***************************************************************************)
EXTENDS GameHandoff, ApiInstances, FiniteSetTheorems, TLAPS

Accepts(l) == GA!ValidateCurrent(l)

(* Every instance presents leases of its own sessions only.                *)
LeasesAreOwn(i) ==
    /\ inst[i].runLease # NoLease =>
         inst[i].runLease.holder = RunHolder(i) /\ inst[i].runLease.state = "RUN"
    /\ inst[i].combatLease # NoLease =>
         inst[i].combatLease.holder = LiveHolder(i) /\ inst[i].combatLease.state = "COMBAT"

(* An instance without a running handler.                                  *)
Settled(i) ==
    /\ inst[i].status = "absent" =>
         /\ ~inst[i].phase /\ ~inst[i].faulted
         /\ inst[i].runLease = NoLease /\ inst[i].combatLease = NoLease
    /\ inst[i].status = "live" /\ ~inst[i].faulted =>
         /\ inst[i].phase =>
              inst[i].combatLease # NoLease /\ (Owns(i) => Accepts(inst[i].combatLease))
         /\ ~inst[i].phase =>
              /\ i \in WholeRuns
              /\ inst[i].runLease # NoLease /\ (Owns(i) => Accepts(inst[i].runLease))

InstInv ==
    \A i \in Instances :
      /\ LeasesAreOwn(i)
      /\ i # who => Settled(i)
      /\ Owns(i) /\ inst[i].status = "live" => board = i

Transferring == {"adopting", "leaving", "folded"}

(* The instance of the running handler, at each of its steps.              *)
StepInv ==
    /\ pc = "idle" => who = NoInstance
    /\ pc # "idle" => who \in Instances /\ Owns(who)
    /\ pc = "constructing" =>
         /\ inst[who].status = "absent" /\ ~inst[who].phase /\ ~inst[who].faulted
         /\ who \in WholeRuns => Accepts(inst[who].runLease)
         /\ who \notin WholeRuns => Accepts(inst[who].combatLease)
    /\ pc \notin {"idle", "constructing"} => inst[who].status = "live" /\ ~inst[who].faulted
    /\ pc \notin {"idle", "constructing", "advanced"} => who \in WholeRuns
    /\ pc \in {"entered", "adopting", "committed", "folded", "returned", "draining"} =>
         ~inst[who].phase
    /\ pc \in {"advanced", "leaving"} => inst[who].phase
    /\ pc \in {"entered", "draining"} => Accepts(inst[who].runLease)
    /\ pc = "advanced" => Accepts(inst[who].combatLease)
    /\ pc = "committed" =>
         Accepts(transfer) /\ transfer.holder = LiveHolder(who) /\ transfer.state = "COMBAT"
    /\ pc = "returned" =>
         Accepts(transfer) /\ transfer.holder = RunHolder(who) /\ transfer.state = "RUN"
    /\ state = "TRANSFERRING" <=> pc \in Transferring
    /\ pc \in Transferring =>
         transfer_origin = [state |-> IF pc = "adopting" THEN "RUN" ELSE "COMBAT",
                            holder |-> IF pc = "adopting" THEN RunHolder(who) ELSE LiveHolder(who)]

PoisonInv == state = "POISONED" => holder = NoHolder

IInv == TypeOK /\ NoForeignMutation /\ InstInv /\ StepInv /\ PoisonInv

-----------------------------------------------------------------------------
(* A holder belongs to one session of one instance, and is not None.       *)
LEMMA HolderFacts ==
    /\ \A i, j \in Instances : Owns(i) /\ Owns(j) => i = j
    /\ \A i, j \in Instances : RunHolder(i) = RunHolder(j) => i = j
    /\ \A i, j \in Instances : LiveHolder(i) = LiveHolder(j) => i = j
    /\ \A i, j \in Instances : RunHolder(i) # LiveHolder(j)
    /\ \A i \in Instances : RunHolder(i) # NoHolder /\ LiveHolder(i) # NoHolder
    /\ \A i \in Instances : RunHolder(i) \in SessionHolders /\ LiveHolder(i) \in SessionHolders
    /\ NoHolder \notin SessionHolders
  BY DEF Owns, RunHolder, LiveHolder, NoHolder, SessionHolders

(* A lease the guard is about to hand out.                                 *)
LEMMA NewLeaseFacts ==
    ASSUME TypeOK, NEW h \in SessionHolders, NEW s \in GA!OwnerStates \cup {"TRANSFERRING"}
    PROVE  /\ NewLease(h, s) \in GA!GameLease
           /\ NewLease(h, s) \in Leases
           /\ NewLease(h, s) # NoLease
           /\ NewLease(h, s).holder = h
           /\ NewLease(h, s).state = s
           /\ NewLease(h, s).generation = generation + 1
<1>1. generation \in Nat
  BY DEF TypeOK, GA!TypeOK
<1>2. /\ NewLease(h, s).holder = h
      /\ NewLease(h, s).state = s
      /\ NewLease(h, s).generation = generation + 1
  BY DEF NewLease, GA!Lease
<1>3. NewLease(h, s) \in GA!GameLease
  BY <1>1 DEF NewLease, GA!Lease, GA!GameLease
<1>4. NewLease(h, s) # NoLease
  BY <1>1, <1>2 DEF NoLease
<1> QED
  BY <1>2, <1>3, <1>4 DEF Leases

LEMMA InitIInv == Init => IInv
<1> SUFFICES ASSUME Init PROVE IInv
  OBVIOUS
<1> USE InstanceAssumption
<1>1. TypeOK
  BY DEF Init, TypeOK, GA!Init, GA!TypeOK, GA!LeaseStates, GA!OwnerStates, GA!Origins,
         InstanceState, Leases, Steps
<1>2. InstInv
  BY HolderFacts DEF Init, InstInv, LeasesAreOwn, Settled, GA!Init, Owns
<1>3. StepInv
  BY DEF Init, StepInv, GA!Init, Transferring
<1>4. NoForeignMutation /\ PoisonInv
  BY DEF Init, GA!Init, NoForeignMutation, PoisonInv
<1> QED
  BY <1>1, <1>2, <1>3, <1>4 DEF IInv

(* What IInv says of one instance and of the guard's present owner.        *)
LEMMA Bystander ==
    ASSUME IInv, NEW i \in Instances, i # who, inst'[i] = inst[i],
           UNCHANGED gaVars \/ ~Owns(i)',
           board' = board \/ ~Owns(i)'
    PROVE  /\ LeasesAreOwn(i)'
           /\ Settled(i)'
           /\ Owns(i)' /\ inst'[i].status = "live" => board' = i
<1>1. LeasesAreOwn(i) /\ Settled(i) /\ (Owns(i) /\ inst[i].status = "live" => board = i)
  BY DEF IInv, InstInv
<1>2. LeasesAreOwn(i)'
  BY <1>1 DEF LeasesAreOwn
<1>3. Settled(i)'
  <2>1. CASE UNCHANGED gaVars
    BY <1>1, <2>1 DEF Settled, Accepts, GA!ValidateCurrent, Owns, gaVars
  <2>2. CASE ~Owns(i)'
    BY <1>1, <2>2 DEF Settled
  <2> QED
    BY <2>1, <2>2
<1>4. Owns(i)' /\ inst'[i].status = "live" => board' = i
  BY <1>1 DEF gaVars, Owns
<1> QED
  BY <1>2, <1>3, <1>4

(* A lease the guard accepts is one the session was given, and its         *)
(* instance owns the game.                                                 *)
LEMMA AcceptedIsOwners ==
    ASSUME IInv, NEW i \in Instances
    PROVE  /\ Accepts(inst[i].runLease) =>
                /\ inst[i].runLease # NoLease
                /\ holder = RunHolder(i) /\ state = "RUN" /\ Owns(i)
           /\ Accepts(inst[i].combatLease) =>
                /\ inst[i].combatLease # NoLease
                /\ holder = LiveHolder(i) /\ state = "COMBAT" /\ Owns(i)
<1>1. LeasesAreOwn(i) /\ state \in GA!LeaseStates
  BY DEF IInv, InstInv, TypeOK, GA!TypeOK
<1>2. ~Accepts(NoLease)
  BY DEF Accepts, GA!ValidateCurrent, NoLease
<1> QED
  BY <1>1, <1>2 DEF LeasesAreOwn, Accepts, GA!ValidateCurrent, Owns

(***************************************************************************)
(* start_instance claims the game for the session it constructs; whoever   *)
(* owned it no longer does.                                                *)
(***************************************************************************)
LEMMA StartIInv ==
    ASSUME IInv, NEW i \in Instances, StartInstance(i) \/ StartRefused(i)
    PROVE  IInv'
<1> USE InstanceAssumption
<1>1. /\ pc = "idle" /\ who = NoInstance /\ i # who /\ inst[i].status = "absent"
      /\ inst \in [Instances -> InstanceState]
      /\ Settled(i) /\ LeasesAreOwn(i)
  BY DEF StartInstance, StartRefused, IInv, StepInv, InstInv, TypeOK
<1>2. /\ ~inst[i].phase /\ ~inst[i].faulted
      /\ inst[i].runLease = NoLease /\ inst[i].combatLease = NoLease
  BY <1>1 DEF Settled
<1>3. CASE StartInstance(i)
  <2> DEFINE h == IF i \in WholeRuns THEN RunHolder(i) ELSE LiveHolder(i)
             s == IF i \in WholeRuns THEN "RUN" ELSE "COMBAT"
  <2>1. h \in SessionHolders /\ s \in GA!OwnerStates
    BY HolderFacts DEF GA!OwnerStates
  <2>2. /\ GA!Claim(h, s)
        /\ pc' = "constructing" /\ who' = i
        /\ transfer' = transfer /\ board' = board /\ foreign' = foreign
    BY <1>3 DEF StartInstance
  <2>3. /\ state' = s /\ holder' = h /\ generation' = generation + 1
        /\ transfer_origin' = transfer_origin
        /\ issued' = issued \cup {NewLease(h, s)}
    BY <2>2 DEF GA!Claim, NewLease
  <2>4. /\ NewLease(h, s) \in GA!GameLease /\ NewLease(h, s) \in Leases
        /\ NewLease(h, s).holder = h /\ NewLease(h, s).state = s
        /\ NewLease(h, s).generation = generation + 1
    BY <2>1, NewLeaseFacts DEF IInv
  <2>5. /\ inst' \in [Instances -> InstanceState]
        /\ inst'[i].status = "absent" /\ ~inst'[i].phase /\ ~inst'[i].faulted
        /\ i \in WholeRuns => inst'[i].runLease = NewLease(h, s)
                               /\ inst'[i].combatLease = NoLease
        /\ i \notin WholeRuns => inst'[i].combatLease = NewLease(h, s)
                               /\ inst'[i].runLease = NoLease
        /\ \A j \in Instances : j # i => inst'[j] = inst[j]
    BY <1>1, <1>2, <1>3, <2>4 DEF StartInstance, InstanceState
  <2>6. Owns(i)'
    BY <2>3 DEF Owns
  <2>7. \A j \in Instances : j # i => ~Owns(j)'
    BY <2>3, HolderFacts DEF Owns
  <2>8. TypeOK'
    <3>1. GA!TypeOK'
      BY <2>1, <2>3, <2>4 DEF IInv, TypeOK, GA!TypeOK, GA!LeaseStates
    <3> QED
      BY <2>2, <2>5, <3>1 DEF IInv, TypeOK, Steps
  <2>9. InstInv'
    <3>1. LeasesAreOwn(i)'
      BY <2>4, <2>5 DEF LeasesAreOwn
    <3>2. \A j \in Instances : j # i =>
            /\ LeasesAreOwn(j)'
            /\ Settled(j)'
            /\ Owns(j)' /\ inst'[j].status = "live" => board' = j
      BY <1>1, <2>5, <2>7, Bystander
    <3> QED
      BY <2>2, <2>5, <3>1, <3>2 DEF InstInv
  <2>10. StepInv'
    <3>1. s \in {"RUN", "COMBAT"}
      OBVIOUS
    <3> QED
      BY <2>2, <2>3, <2>4, <2>5, <2>6, <3>1
         DEF StepInv, Transferring, Accepts, GA!ValidateCurrent
  <2>11. NoForeignMutation' /\ PoisonInv'
    BY <2>2, <2>3 DEF IInv, NoForeignMutation, PoisonInv
  <2> QED
    BY <2>8, <2>9, <2>10, <2>11 DEF IInv
<1>4. CASE StartRefused(i)
  <2>1. /\ inst' = [inst EXCEPT ![i].status = "gone"]
        /\ UNCHANGED <<gaVars, pc, who, transfer, board, foreign>>
    BY <1>4 DEF StartRefused
  <2>2. /\ inst' \in [Instances -> InstanceState]
        /\ inst'[i].status = "gone"
        /\ inst'[i].runLease = NoLease /\ inst'[i].combatLease = NoLease
        /\ \A j \in Instances : j # i => inst'[j] = inst[j]
    BY <1>1, <1>2, <2>1 DEF InstanceState
  <2>3. TypeOK'
    BY <2>1, <2>2 DEF IInv, TypeOK, gaVars, GA!TypeOK
  <2>4. InstInv'
    <3>1. \A j \in Instances : j # i =>
            /\ LeasesAreOwn(j)'
            /\ Settled(j)'
            /\ Owns(j)' /\ inst'[j].status = "live" => board' = j
      BY <1>1, <2>1, <2>2, Bystander
    <3> QED
      BY <2>2, <3>1 DEF InstInv, LeasesAreOwn, Settled
  <2>5. StepInv' /\ NoForeignMutation' /\ PoisonInv'
    BY <1>1, <2>1 DEF IInv, StepInv, NoForeignMutation, PoisonInv, gaVars, Transferring
  <2> QED
    BY <2>3, <2>4, <2>5 DEF IInv
<1> QED
  BY <1>3, <1>4

(* An update of one instance's objects, and what it leaves alone.          *)
LEMMA UpdateInst ==
    ASSUME inst \in [Instances -> InstanceState],
           NEW i \in Instances, NEW x \in InstanceState,
           inst' = [inst EXCEPT ![i] = x]
    PROVE  /\ inst' \in [Instances -> InstanceState]
           /\ inst'[i] = x
           /\ \A j \in Instances : j # i => inst'[j] = inst[j]
OBVIOUS

(* A step of a running handler: it owns the game, so whatever it does to   *)
(* the guard, the other instances do not own it afterwards either.         *)
LEMMA HandlerStep ==
    ASSUME IInv, pc # "idle", NEW w \in Instances, w = who,
           \A j \in Instances : j # w => inst'[j] = inst[j],
           holder' \in {holder, RunHolder(w), LiveHolder(w), NoHolder},
           who' \in {w, NoInstance},
           LeasesAreOwn(w)',
           who' = w \/ Settled(w)',
           Owns(w)' /\ inst'[w].status = "live" => board' = w
    PROVE  InstInv'
<1>1. Owns(w)
  BY DEF IInv, StepInv
<1>2. \A j \in Instances : j # w => ~Owns(j)'
  BY <1>1, HolderFacts DEF Owns
<1>3. \A j \in Instances : j # w =>
        /\ LeasesAreOwn(j)'
        /\ Settled(j)'
        /\ Owns(j)' /\ inst'[j].status = "live" => board' = j
  BY <1>2, Bystander
<1> QED
  BY <1>1, <1>3 DEF InstInv

(* The constructor returns, raises, or its instance is closed again.       *)
LEMMA ConstructIInv ==
    ASSUME IInv, NEW w \in Instances, w = who,
           Constructed \/ ConstructorRaises \/ StartedThenClosed
    PROVE  IInv'
<1> USE InstanceAssumption
<1>1. /\ pc = "constructing" /\ Owns(w)
      /\ inst \in [Instances -> InstanceState]
      /\ LeasesAreOwn(w)
      /\ inst[w].status = "absent" /\ ~inst[w].phase /\ ~inst[w].faulted
      /\ w \in WholeRuns => Accepts(inst[w].runLease)
      /\ w \notin WholeRuns => Accepts(inst[w].combatLease)
      /\ state # "TRANSFERRING"
  BY DEF Constructed, ConstructorRaises, StartedThenClosed, IInv, StepInv, InstInv, TypeOK,
         Transferring
<1>2. /\ pc' = "idle" /\ who' = NoInstance /\ transfer' = NoLease
      /\ board' \in Instances \cup {NoInstance} /\ foreign' = foreign
  BY <1>1 DEF Constructed, ConstructorRaises, StartedThenClosed, Finish, IInv, TypeOK
<1>3. CASE Constructed
  <2>1. /\ inst' \in [Instances -> InstanceState]
        /\ inst'[w].status = "live" /\ ~inst'[w].faulted
        /\ inst'[w].phase = (w \notin WholeRuns)
        /\ inst'[w].runLease = inst[w].runLease
        /\ inst'[w].combatLease = inst[w].combatLease
        /\ \A j \in Instances : j # w => inst'[j] = inst[j]
    <3>1. PICK standalone \in BOOLEAN : standalone = (w \notin WholeRuns)
      OBVIOUS
    <3> DEFINE x == [inst[w] EXCEPT !.status = "live", !.phase = standalone,
                                    !.synced = standalone]
    <3>2. inst' = [inst EXCEPT ![w] = x]
      BY <1>3, <3>1 DEF Constructed
    <3>3. /\ x \in InstanceState
          /\ x.status = "live" /\ x.phase = standalone /\ x.faulted = inst[w].faulted
          /\ x.runLease = inst[w].runLease /\ x.combatLease = inst[w].combatLease
      BY <1>1 DEF InstanceState
    <3> QED
      BY <1>1, <3>1, <3>2, <3>3, UpdateInst
  <2>2. UNCHANGED gaVars /\ board' = w
    BY <1>3 DEF Constructed
  <2>3. TypeOK'
    BY <1>2, <2>1, <2>2 DEF IInv, TypeOK, gaVars, GA!TypeOK, Steps, Leases
  <2>4. Settled(w)' /\ LeasesAreOwn(w)'
    BY <1>1, <2>1, <2>2, AcceptedIsOwners
       DEF Settled, LeasesAreOwn, Accepts, GA!ValidateCurrent, gaVars
  <2>5. InstInv'
    BY <1>1, <1>2, <2>1, <2>2, <2>4, HandlerStep DEF gaVars
  <2>6. StepInv' /\ NoForeignMutation' /\ PoisonInv'
    BY <1>1, <1>2, <2>2 DEF IInv, StepInv, NoForeignMutation, PoisonInv, gaVars, Transferring
  <2> QED
    BY <2>3, <2>5, <2>6 DEF IInv
<1>4. CASE ConstructorRaises
  <2>1. /\ inst' \in [Instances -> InstanceState]
        /\ inst'[w].status = "gone"
        /\ inst'[w].runLease = inst[w].runLease
        /\ inst'[w].combatLease = inst[w].combatLease
        /\ \A j \in Instances : j # w => inst'[j] = inst[j]
    BY <1>1, <1>4 DEF ConstructorRaises, InstanceState
  <2>2. UNCHANGED gaVars
    BY <1>4 DEF ConstructorRaises
  <2>3. TypeOK'
    BY <1>2, <2>1, <2>2 DEF IInv, TypeOK, gaVars, GA!TypeOK, Steps, Leases
  <2>4. Settled(w)' /\ LeasesAreOwn(w)'
    BY <1>1, <2>1 DEF Settled, LeasesAreOwn
  <2>5. InstInv'
    BY <1>1, <1>2, <2>1, <2>2, <2>4, HandlerStep DEF gaVars
  <2>6. StepInv' /\ NoForeignMutation' /\ PoisonInv'
    BY <1>1, <1>2, <2>2 DEF IInv, StepInv, NoForeignMutation, PoisonInv, gaVars, Transferring
  <2> QED
    BY <2>3, <2>5, <2>6 DEF IInv
<1>5. CASE StartedThenClosed
  <2>1. /\ inst' \in [Instances -> InstanceState]
        /\ inst'[w].status = "gone"
        /\ inst'[w].runLease = NoLease
        /\ inst'[w].combatLease = NoLease
        /\ \A j \in Instances : j # w => inst'[j] = inst[j]
    <3> DEFINE x == [inst[w] EXCEPT !.status = "gone", !.runLease = NoLease,
                                    !.combatLease = NoLease]
    <3>1. inst' = [inst EXCEPT ![w] = x]
      BY <1>5 DEF StartedThenClosed
    <3>2. /\ x \in InstanceState
          /\ x.status = "gone" /\ x.runLease = NoLease /\ x.combatLease = NoLease
      BY <1>1 DEF InstanceState, Leases
    <3> QED
      BY <1>1, <3>1, <3>2, UpdateInst
  <2>2. /\ holder' = NoHolder /\ generation' = generation + 1
        /\ state' = state /\ transfer_origin' = transfer_origin /\ issued' = issued
    BY <1>5 DEF StartedThenClosed, GA!Release
  <2>3. TypeOK'
    BY <1>2, <2>1, <2>2 DEF IInv, TypeOK, GA!TypeOK, Steps, Leases
  <2>4. Settled(w)' /\ LeasesAreOwn(w)'
    BY <2>1 DEF Settled, LeasesAreOwn
  <2>5. InstInv'
    BY <1>1, <1>2, <2>1, <2>2, <2>4, HandlerStep
  <2>6. StepInv' /\ NoForeignMutation' /\ PoisonInv'
    BY <1>1, <1>2, <2>2 DEF IInv, StepInv, NoForeignMutation, PoisonInv, Transferring
  <2> QED
    BY <2>3, <2>5, <2>6 DEF IInv
<1> QED
  BY <1>3, <1>4, <1>5

(***************************************************************************)
(* A mutation outside or inside combat.  A serving instance has a lease to *)
(* present, so it never claims; the accepted lease makes it the owner, and *)
(* the owner's board is the one it set up.                                 *)
(***************************************************************************)
LEMMA MutationIInv ==
    ASSUME IInv, NEW i \in Instances,
           \/ CommitOutsideCombat(i)
           \/ CombatStepAdvances(i) \/ CombatActionFaults(i) \/ CombatStepRaisesMidway(i)
    PROVE  IInv'
<1> USE InstanceAssumption
<1>1. /\ pc = "idle" /\ who = NoInstance /\ i # who
      /\ inst[i].status = "live" /\ ~inst[i].faulted
      /\ inst \in [Instances -> InstanceState]
      /\ Settled(i) /\ LeasesAreOwn(i)
      /\ state # "TRANSFERRING"
      /\ Owns(i) => board = i
  BY DEF CommitOutsideCombat, CombatStepAdvances, CombatActionFaults, CombatStepRaisesMidway,
         LiveStep, Serving, IInv, StepInv, InstInv, TypeOK, Transferring
<1>2. CASE CommitOutsideCombat(i)
  <2>1. i \in WholeRuns /\ ~inst[i].phase /\ inst[i].runLease # NoLease
    BY <1>1, <1>2 DEF CommitOutsideCombat, Settled
  <2>2. /\ Accepts(inst[i].runLease) /\ UNCHANGED gaVars
        /\ inst' = inst
    BY <1>1, <1>2, <2>1 DEF CommitOutsideCombat, RunMutatingGame, RunLeaseAfter, Accepts,
                           InstanceState
  <2>3. Owns(i) /\ board = i
    BY <1>1, <2>2, AcceptedIsOwners
  <2>4. /\ foreign' = foreign /\ transfer' = transfer /\ board' = board
        /\ \/ pc' = pc /\ who' = who
           \/ pc' = "entered" /\ who' = i
    BY <1>2, <2>3 DEF CommitOutsideCombat, Mutates, IInv, NoForeignMutation, TypeOK
  <2>5. TypeOK'
    BY <2>2, <2>4 DEF IInv, TypeOK, gaVars, GA!TypeOK, Steps
  <2>6. InstInv'
    BY <1>1, <2>2, <2>4, Bystander DEF InstInv
  <2>7. StepInv'
    BY <1>1, <2>1, <2>2, <2>3, <2>4
       DEF IInv, StepInv, gaVars, Transferring, Accepts, GA!ValidateCurrent, Owns
  <2>8. NoForeignMutation' /\ PoisonInv'
    BY <2>2, <2>4 DEF IInv, NoForeignMutation, PoisonInv, gaVars
  <2> QED
    BY <2>5, <2>6, <2>7, <2>8 DEF IInv
<1>3. CASE CombatStepAdvances(i) \/ CombatActionFaults(i) \/ CombatStepRaisesMidway(i)
  <2>1. LiveStep(i) /\ inst[i].phase /\ inst[i].combatLease # NoLease
    BY <1>1, <1>3 DEF CombatStepAdvances, CombatActionFaults, CombatStepRaisesMidway,
                      LiveStep, Settled
  <2>2. Accepts(inst[i].combatLease) /\ UNCHANGED gaVars
    BY <2>1 DEF LiveStep, LiveMutatingGame, Accepts
  <2>3. Owns(i) /\ board = i
    BY <1>1, <2>2, AcceptedIsOwners
  <2>4. /\ foreign' = foreign /\ transfer' = transfer /\ board' = board
        /\ \/ pc' = pc /\ who' = who
           \/ pc' = "advanced" /\ who' = i
    BY <1>3, <2>1, <2>3 DEF CombatStepAdvances, CombatActionFaults, CombatStepRaisesMidway,
                            LiveStep, Mutates, IInv, NoForeignMutation, TypeOK
  <2>5. /\ inst' \in [Instances -> InstanceState]
        /\ inst'[i].status = "live" /\ ~inst'[i].faulted /\ inst'[i].phase
        /\ inst'[i].runLease = inst[i].runLease
        /\ inst'[i].combatLease = inst[i].combatLease
        /\ \A j \in Instances : j # i => inst'[j] = inst[j]
    <3>1. PICK reset \in BOOLEAN : reset = (inst[i].runReset \/ Resynchronized(i))
      BY DEF Resynchronized
    <3>2. LiveLeaseAfter(i) = inst[i].combatLease
      BY <2>1 DEF LiveLeaseAfter
    <3>3. CASE CombatStepAdvances(i)
      <4> DEFINE x == [inst[i] EXCEPT !.combatLease = LiveLeaseAfter(i),
                                      !.synced = TRUE, !.runReset = reset]
      <4>1. inst' = [inst EXCEPT ![i] = x]
        BY <3>1, <3>3 DEF CombatStepAdvances
      <4>2. /\ x \in InstanceState
            /\ x.status = inst[i].status /\ x.phase = inst[i].phase
            /\ x.faulted = inst[i].faulted
            /\ x.runLease = inst[i].runLease /\ x.combatLease = inst[i].combatLease
        BY <1>1, <3>2 DEF InstanceState
      <4> QED
        BY <1>1, <2>1, <4>1, <4>2, UpdateInst
    <3>4. CASE CombatActionFaults(i)
      <4> DEFINE x == [inst[i] EXCEPT !.combatLease = LiveLeaseAfter(i),
                                      !.sessionFaulted = TRUE, !.runReset = reset]
      <4>1. inst' = [inst EXCEPT ![i] = x]
        BY <3>1, <3>4 DEF CombatActionFaults
      <4>2. /\ x \in InstanceState
            /\ x.status = inst[i].status /\ x.phase = inst[i].phase
            /\ x.faulted = inst[i].faulted
            /\ x.runLease = inst[i].runLease /\ x.combatLease = inst[i].combatLease
        BY <1>1, <3>2 DEF InstanceState
      <4> QED
        BY <1>1, <2>1, <4>1, <4>2, UpdateInst
    <3>5. CASE CombatStepRaisesMidway(i)
      <4> DEFINE x == [inst[i] EXCEPT !.combatLease = LiveLeaseAfter(i),
                                      !.synced = FALSE, !.runReset = reset]
      <4>1. inst' = [inst EXCEPT ![i] = x]
        BY <3>1, <3>5 DEF CombatStepRaisesMidway
      <4>2. /\ x \in InstanceState
            /\ x.status = inst[i].status /\ x.phase = inst[i].phase
            /\ x.faulted = inst[i].faulted
            /\ x.runLease = inst[i].runLease /\ x.combatLease = inst[i].combatLease
        BY <1>1, <3>2 DEF InstanceState
      <4> QED
        BY <1>1, <2>1, <4>1, <4>2, UpdateInst
    <3> QED
      BY <1>3, <3>3, <3>4, <3>5
  <2>6. TypeOK'
    BY <2>2, <2>4, <2>5 DEF IInv, TypeOK, gaVars, GA!TypeOK, Steps
  <2>7. InstInv'
    <3>1. LeasesAreOwn(i)' /\ Settled(i)'
      BY <1>1, <2>1, <2>2, <2>5 DEF LeasesAreOwn, Settled, Accepts, GA!ValidateCurrent, gaVars
    <3>2. \A j \in Instances : j # i =>
            /\ LeasesAreOwn(j)'
            /\ Settled(j)'
            /\ Owns(j)' /\ inst'[j].status = "live" => board' = j
      BY <1>1, <2>2, <2>4, <2>5, Bystander
    <3> QED
      BY <2>3, <2>4, <3>1, <3>2 DEF InstInv
  <2>8. StepInv'
    BY <1>1, <2>2, <2>3, <2>4, <2>5
       DEF IInv, StepInv, gaVars, Transferring, Accepts, GA!ValidateCurrent, Owns
  <2>9. NoForeignMutation' /\ PoisonInv'
    BY <2>2, <2>4 DEF IInv, NoForeignMutation, PoisonInv, gaVars
  <2> QED
    BY <2>6, <2>7, <2>8, <2>9 DEF IInv
<1> QED
  BY <1>2, <1>3

(* What a running handler may rely on.                                     *)
LEMMA HandlerFacts ==
    ASSUME IInv, NEW w \in Instances, w = who, pc # "idle"
    PROVE  /\ Owns(w) /\ LeasesAreOwn(w)
           /\ inst \in [Instances -> InstanceState]
           /\ inst[w] \in InstanceState
           /\ NoLease \in Leases
           /\ Owns(w) /\ inst[w].status = "live" => board = w
BY DEF IInv, StepInv, InstInv, TypeOK, Leases

(***************************************************************************)
(* enter_combat_phase: from the room that turned out to be a combat to the *)
(* lease of the live session, or back.                                     *)
(***************************************************************************)
LEMMA EnterIInv ==
    ASSUME IInv, NEW w \in Instances, w = who,
           EnterBegin \/ EnterRollback \/ EnterCommit \/ EnterAccept
    PROVE  IInv'
<1> USE InstanceAssumption
<1>1. /\ pc \in {"entered", "adopting", "committed"}
      /\ w \in WholeRuns
      /\ inst[w].status = "live" /\ ~inst[w].faulted /\ ~inst[w].phase
  BY DEF EnterBegin, EnterRollback, EnterCommit, EnterAccept, IInv, StepInv
<1>2. /\ Owns(w) /\ LeasesAreOwn(w)
      /\ inst \in [Instances -> InstanceState] /\ inst[w] \in InstanceState
      /\ NoLease \in Leases
      /\ board = w
  BY <1>1, HandlerFacts
<1>3. CASE EnterBegin
  <2>1. /\ pc = "entered" /\ Accepts(inst[w].runLease)
    BY <1>3 DEF EnterBegin, IInv, StepInv
  <2>2. /\ holder = RunHolder(w) /\ state = "RUN" /\ inst[w].runLease.holder = RunHolder(w)
    BY <1>2, <2>1, AcceptedIsOwners DEF LeasesAreOwn
  <2>3. /\ NewLease(RunHolder(w), "TRANSFERRING") \in GA!GameLease
        /\ NewLease(RunHolder(w), "TRANSFERRING") \in Leases
    BY HolderFacts, NewLeaseFacts DEF IInv
  <2>4. /\ state' = "TRANSFERRING" /\ holder' = holder /\ generation' = generation + 1
        /\ transfer_origin' = [state |-> "RUN", holder |-> RunHolder(w)]
        /\ issued' = issued \cup {NewLease(RunHolder(w), "TRANSFERRING")}
        /\ transfer' = NewLease(RunHolder(w), "TRANSFERRING")
        /\ pc' = "adopting" /\ who' = w /\ board' = board /\ foreign' = foreign
    BY <1>3, <2>2 DEF EnterBegin, GA!Begin, NewLease, Goto
  <2> DEFINE x == [inst[w] EXCEPT !.runLease = NoLease]
  <2>5. /\ x \in InstanceState
        /\ x.status = "live" /\ ~x.faulted /\ ~x.phase
        /\ x.runLease = NoLease /\ x.combatLease = inst[w].combatLease
    BY <1>1, <1>2 DEF InstanceState
  <2>6. /\ inst' \in [Instances -> InstanceState] /\ inst'[w] = x
        /\ \A j \in Instances : j # w => inst'[j] = inst[j]
    BY <1>2, <1>3, <2>5, UpdateInst DEF EnterBegin
  <2>7. TypeOK'
    <3>1. GA!TypeOK'
      BY <2>2, <2>3, <2>4, HolderFacts
         DEF IInv, TypeOK, GA!TypeOK, GA!LeaseStates, GA!Origins, GA!OwnerStates
    <3> QED
      BY <2>3, <2>4, <2>6, <3>1 DEF IInv, TypeOK, Steps
  <2>8. InstInv'
    <3>1. LeasesAreOwn(w)'
      BY <1>2, <2>5, <2>6 DEF LeasesAreOwn
    <3> QED
      BY <1>1, <1>2, <2>4, <2>6, <3>1, HandlerStep
  <2>9. StepInv'
    BY <1>1, <1>2, <2>2, <2>4, <2>5, <2>6 DEF StepInv, Transferring, Owns
  <2>10. NoForeignMutation' /\ PoisonInv'
    BY <2>4 DEF IInv, NoForeignMutation, PoisonInv
  <2> QED
    BY <2>7, <2>8, <2>9, <2>10 DEF IInv
<1>4. CASE EnterRollback
  <2>1. transfer_origin = [state |-> "RUN", holder |-> RunHolder(w)]
    BY <1>4 DEF EnterRollback, IInv, StepInv, Transferring
  <2>2. /\ NewLease(RunHolder(w), "RUN") \in GA!GameLease
        /\ NewLease(RunHolder(w), "RUN") \in Leases
        /\ NewLease(RunHolder(w), "RUN") # NoLease
        /\ NewLease(RunHolder(w), "RUN").holder = RunHolder(w)
        /\ NewLease(RunHolder(w), "RUN").state = "RUN"
        /\ NewLease(RunHolder(w), "RUN").generation = generation + 1
    BY HolderFacts, NewLeaseFacts DEF IInv, GA!OwnerStates
  <2>3. /\ state' = "RUN" /\ holder' = RunHolder(w) /\ generation' = generation + 1
        /\ transfer_origin' = GA!NoOrigin
        /\ issued' = issued \cup {NewLease(RunHolder(w), "RUN")}
        /\ transfer' = NoLease
        /\ pc' = "idle" /\ who' = NoInstance /\ board' = board /\ foreign' = foreign
    BY <1>4, <2>1 DEF EnterRollback, GA!Rollback, NewLease, Finish
  <2> DEFINE x == [inst[w] EXCEPT !.runLease = NewLease(RunHolder(w), "RUN")]
  <2>4. /\ x \in InstanceState
        /\ x.status = "live" /\ ~x.faulted /\ ~x.phase
        /\ x.runLease = NewLease(RunHolder(w), "RUN") /\ x.combatLease = inst[w].combatLease
    BY <1>1, <1>2, <2>2 DEF InstanceState
  <2>5. /\ inst' \in [Instances -> InstanceState] /\ inst'[w] = x
        /\ \A j \in Instances : j # w => inst'[j] = inst[j]
    BY <1>2, <1>4, <2>4, UpdateInst DEF EnterRollback
  <2>6. TypeOK'
    <3>1. GA!TypeOK'
      BY <2>2, <2>3, HolderFacts
         DEF IInv, TypeOK, GA!TypeOK, GA!LeaseStates, GA!OwnerStates
    <3> QED
      BY <1>2, <2>3, <2>5, <3>1 DEF IInv, TypeOK, Steps
  <2>7. InstInv'
    <3>1. LeasesAreOwn(w)'
      BY <1>2, <2>2, <2>4, <2>5 DEF LeasesAreOwn
    <3>2. Settled(w)'
      BY <1>1, <2>2, <2>3, <2>4, <2>5 DEF Settled, Accepts, GA!ValidateCurrent
    <3> QED
      BY <1>1, <1>2, <2>3, <2>5, <3>1, <3>2, HandlerStep
  <2>8. StepInv' /\ NoForeignMutation' /\ PoisonInv'
    BY <2>3 DEF IInv, StepInv, Transferring, NoForeignMutation, PoisonInv
  <2> QED
    BY <2>6, <2>7, <2>8 DEF IInv
<1>5. CASE EnterCommit
  <2>1. /\ NewLease(LiveHolder(w), "COMBAT") \in GA!GameLease
        /\ NewLease(LiveHolder(w), "COMBAT") \in Leases
        /\ NewLease(LiveHolder(w), "COMBAT").holder = LiveHolder(w)
        /\ NewLease(LiveHolder(w), "COMBAT").state = "COMBAT"
        /\ NewLease(LiveHolder(w), "COMBAT").generation = generation + 1
    BY HolderFacts, NewLeaseFacts DEF IInv, GA!OwnerStates
  <2>2. /\ state' = "COMBAT" /\ holder' = LiveHolder(w) /\ generation' = generation + 1
        /\ transfer_origin' = GA!NoOrigin
        /\ issued' = issued \cup {NewLease(LiveHolder(w), "COMBAT")}
        /\ transfer' = NewLease(LiveHolder(w), "COMBAT")
        /\ pc' = "committed" /\ who' = w /\ inst' = inst
        /\ board' = board /\ foreign' = foreign
    BY <1>5 DEF EnterCommit, GA!Commit, NewLease, Goto
  <2>3. TypeOK'
    <3>1. GA!TypeOK'
      BY <2>1, <2>2, HolderFacts
         DEF IInv, TypeOK, GA!TypeOK, GA!LeaseStates, GA!OwnerStates
    <3> QED
      BY <2>1, <2>2, <3>1 DEF IInv, TypeOK, Steps
  <2>4. InstInv'
    <3>1. LeasesAreOwn(w)'
      BY <1>2, <2>2 DEF LeasesAreOwn
    <3> QED
      BY <1>1, <1>2, <2>2, <3>1, HandlerStep
  <2>5. StepInv'
    BY <1>1, <2>1, <2>2 DEF StepInv, Transferring, Owns, Accepts, GA!ValidateCurrent
  <2>6. NoForeignMutation' /\ PoisonInv'
    BY <2>2 DEF IInv, NoForeignMutation, PoisonInv
  <2> QED
    BY <2>3, <2>4, <2>5, <2>6 DEF IInv
<1>6. CASE EnterAccept
  <2>1. /\ Accepts(transfer) /\ transfer.holder = LiveHolder(w) /\ transfer.state = "COMBAT"
        /\ transfer \in Leases /\ state # "TRANSFERRING"
    BY <1>6 DEF EnterAccept, IInv, StepInv, TypeOK, Accepts, GA!ValidateCurrent
  <2>2. transfer # NoLease
    BY <2>1 DEF NoLease
  <2>3. /\ UNCHANGED gaVars
        /\ transfer' = NoLease
        /\ pc' = "idle" /\ who' = NoInstance /\ board' = board /\ foreign' = foreign
    BY <1>6 DEF EnterAccept, Finish
  <2> DEFINE x == [inst[w] EXCEPT !.combatLease = transfer, !.phase = TRUE, !.synced = TRUE,
                                  !.sessionFaulted = FALSE]
  <2>4. /\ x \in InstanceState
        /\ x.status = "live" /\ ~x.faulted /\ x.phase
        /\ x.runLease = inst[w].runLease /\ x.combatLease = transfer
    BY <1>1, <1>2, <2>1 DEF InstanceState
  <2>5. /\ inst' \in [Instances -> InstanceState] /\ inst'[w] = x
        /\ \A j \in Instances : j # w => inst'[j] = inst[j]
    <3>1. inst' = [inst EXCEPT ![w] = x]
      BY <1>6 DEF EnterAccept
    <3> QED
      BY <1>2, <2>4, <3>1, UpdateInst
  <2>6. TypeOK'
    BY <1>2, <2>3, <2>5 DEF IInv, TypeOK, Steps, gaVars, GA!TypeOK
  <2>7. InstInv'
    <3>1. LeasesAreOwn(w)'
      BY <1>2, <2>1, <2>4, <2>5 DEF LeasesAreOwn
    <3>2. Settled(w)'
      BY <1>1, <2>1, <2>2, <2>3, <2>4, <2>5
         DEF Settled, Accepts, GA!ValidateCurrent, gaVars
    <3> QED
      BY <1>1, <1>2, <2>3, <2>5, <3>1, <3>2, HandlerStep DEF gaVars
  <2>8. StepInv' /\ NoForeignMutation' /\ PoisonInv'
    BY <2>1, <2>3 DEF IInv, StepInv, Transferring, NoForeignMutation, PoisonInv, gaVars
  <2> QED
    BY <2>6, <2>7, <2>8 DEF IInv
<1> QED
  BY <1>3, <1>4, <1>5, <1>6

(* Poisoning leaves no owner, and the poisoned run has no lease.           *)
LEMMA PoisonIInv ==
    ASSUME IInv, NEW w \in Instances, w = who, pc # "idle", inst[w].status = "live",
           PoisonTransaction
    PROVE  IInv'
<1> USE InstanceAssumption
<1>1. /\ Owns(w) /\ LeasesAreOwn(w)
      /\ inst \in [Instances -> InstanceState] /\ inst[w] \in InstanceState
      /\ NoLease \in Leases
  BY HandlerFacts
<1>2. /\ state' = "POISONED" /\ holder' = NoHolder /\ generation' = generation + 1
      /\ transfer_origin' = GA!NoOrigin /\ issued' = issued
      /\ transfer' = NoLease
      /\ pc' = "idle" /\ who' = NoInstance /\ board' = board /\ foreign' = foreign
  BY DEF PoisonTransaction, GA!Poison, Finish
<1> DEFINE x == [inst[w] EXCEPT !.faulted = TRUE, !.phase = FALSE, !.runLease = NoLease,
                                !.combatLease = NoLease]
<1>3. /\ x \in InstanceState
      /\ x.status = "live" /\ x.faulted /\ x.runLease = NoLease /\ x.combatLease = NoLease
  BY <1>1 DEF InstanceState
<1>4. /\ inst' \in [Instances -> InstanceState] /\ inst'[w] = x
      /\ \A j \in Instances : j # w => inst'[j] = inst[j]
  <2>1. inst' = [inst EXCEPT ![w] = x]
    BY DEF PoisonTransaction
  <2> QED
    BY <1>1, <1>3, <2>1, UpdateInst
<1>5. TypeOK'
  <2>1. GA!TypeOK'
    BY <1>2 DEF IInv, TypeOK, GA!TypeOK, GA!LeaseStates
  <2> QED
    BY <1>1, <1>2, <1>4, <2>1 DEF IInv, TypeOK, Steps
<1>6. InstInv'
  <2>1. LeasesAreOwn(w)' /\ Settled(w)'
    BY <1>3, <1>4 DEF LeasesAreOwn, Settled
  <2>2. ~Owns(w)'
    BY <1>2, HolderFacts DEF Owns
  <2> QED
    BY <1>2, <1>4, <2>1, <2>2, HandlerStep
<1>7. StepInv' /\ NoForeignMutation' /\ PoisonInv'
  BY <1>2 DEF IInv, StepInv, Transferring, NoForeignMutation, PoisonInv
<1> QED
  BY <1>5, <1>6, <1>7 DEF IInv

(* The end of a commit inside combat that does not leave it.               *)
LEMMA CommitEndIInv ==
    ASSUME IInv, NEW w \in Instances, w = who,
           CommitRecorded \/ StandaloneFailsAfterAdvance
    PROVE  IInv'
<1> USE InstanceAssumption
<1>1. /\ pc = "advanced" /\ Accepts(inst[w].combatLease)
      /\ inst[w].status = "live" /\ ~inst[w].faulted /\ inst[w].phase
      /\ state # "TRANSFERRING"
  BY DEF CommitRecorded, StandaloneFailsAfterAdvance, IInv, StepInv, Transferring
<1>2. /\ Owns(w) /\ LeasesAreOwn(w)
      /\ inst \in [Instances -> InstanceState] /\ inst[w] \in InstanceState
      /\ NoLease \in Leases
      /\ board = w
  BY <1>1, HandlerFacts
<1>3. /\ UNCHANGED gaVars /\ transfer' = NoLease
      /\ pc' = "idle" /\ who' = NoInstance /\ board' = board /\ foreign' = foreign
  BY DEF CommitRecorded, StandaloneFailsAfterAdvance, Finish
<1>4. /\ inst' \in [Instances -> InstanceState]
      /\ inst'[w].status = "live" /\ inst'[w].phase
      /\ inst'[w].runLease = inst[w].runLease /\ inst'[w].combatLease = inst[w].combatLease
      /\ \A j \in Instances : j # w => inst'[j] = inst[j]
  <2>1. CASE CommitRecorded
    BY <1>1, <1>2, <2>1 DEF CommitRecorded
  <2>2. CASE StandaloneFailsAfterAdvance
    <3>1. inst' = [inst EXCEPT ![w].faulted = TRUE]
      BY <2>2 DEF StandaloneFailsAfterAdvance
    <3> QED
      BY <1>1, <1>2, <3>1 DEF InstanceState
  <2> QED
    BY <2>1, <2>2
<1>5. TypeOK'
  BY <1>2, <1>3, <1>4 DEF IInv, TypeOK, Steps, gaVars, GA!TypeOK
<1>6. InstInv'
  <2>1. LeasesAreOwn(w)'
    BY <1>2, <1>4 DEF LeasesAreOwn
  <2>2. inst[w].combatLease # NoLease
    BY <1>1, AcceptedIsOwners
  <2>3. Settled(w)'
    BY <1>1, <1>3, <1>4, <2>2 DEF Settled, Accepts, GA!ValidateCurrent, gaVars
  <2> QED
    BY <1>1, <1>2, <1>3, <1>4, <2>1, <2>3, HandlerStep DEF gaVars
<1>7. StepInv' /\ NoForeignMutation' /\ PoisonInv'
  BY <1>1, <1>3 DEF IInv, StepInv, Transferring, NoForeignMutation, PoisonInv, gaVars
<1> QED
  BY <1>5, <1>6, <1>7 DEF IInv

(***************************************************************************)
(* leave_combat_phase: from the live session's lease back to the run's,    *)
(* and the drain under it.                                                 *)
(***************************************************************************)
LEMMA LeaveIInv ==
    ASSUME IInv, NEW w \in Instances, w = who,
           LeaveBegin \/ LeaveFold \/ LeaveCommit \/ LeaveAccept \/ LeaveDrained
    PROVE  IInv'
<1> USE InstanceAssumption
<1>1. /\ pc \in {"advanced", "leaving", "folded", "returned", "draining"}
      /\ w \in WholeRuns
      /\ inst[w].status = "live" /\ ~inst[w].faulted
  BY DEF LeaveBegin, LeaveFold, LeaveCommit, LeaveAccept, LeaveDrained, IInv, StepInv
<1>2. /\ Owns(w) /\ LeasesAreOwn(w)
      /\ inst \in [Instances -> InstanceState] /\ inst[w] \in InstanceState
      /\ NoLease \in Leases
      /\ board = w
  BY <1>1, HandlerFacts
<1>3. CASE LeaveBegin
  <2>1. pc = "advanced" /\ Accepts(inst[w].combatLease) /\ inst[w].phase
    BY <1>3 DEF LeaveBegin, IInv, StepInv
  <2>2. /\ holder = LiveHolder(w) /\ state = "COMBAT"
        /\ inst[w].combatLease.holder = LiveHolder(w)
    BY <1>2, <2>1, AcceptedIsOwners DEF LeasesAreOwn
  <2>3. /\ NewLease(LiveHolder(w), "TRANSFERRING") \in GA!GameLease
        /\ NewLease(LiveHolder(w), "TRANSFERRING") \in Leases
    BY HolderFacts, NewLeaseFacts DEF IInv
  <2>4. /\ state' = "TRANSFERRING" /\ holder' = holder /\ generation' = generation + 1
        /\ transfer_origin' = [state |-> "COMBAT", holder |-> LiveHolder(w)]
        /\ issued' = issued \cup {NewLease(LiveHolder(w), "TRANSFERRING")}
        /\ transfer' = NewLease(LiveHolder(w), "TRANSFERRING")
        /\ pc' = "leaving" /\ who' = w /\ board' = board /\ foreign' = foreign
    BY <1>3, <2>2 DEF LeaveBegin, GA!Begin, NewLease, Goto
  <2> DEFINE x == [inst[w] EXCEPT !.combatLease = NoLease]
  <2>5. /\ x \in InstanceState
        /\ x.status = "live" /\ ~x.faulted /\ x.phase
        /\ x.combatLease = NoLease /\ x.runLease = inst[w].runLease
    BY <1>1, <1>2, <2>1 DEF InstanceState
  <2>6. /\ inst' \in [Instances -> InstanceState] /\ inst'[w] = x
        /\ \A j \in Instances : j # w => inst'[j] = inst[j]
    BY <1>2, <1>3, <2>5, UpdateInst DEF LeaveBegin
  <2>7. TypeOK'
    <3>1. GA!TypeOK'
      BY <2>2, <2>3, <2>4, HolderFacts
         DEF IInv, TypeOK, GA!TypeOK, GA!LeaseStates, GA!Origins, GA!OwnerStates
    <3> QED
      BY <2>3, <2>4, <2>6, <3>1 DEF IInv, TypeOK, Steps
  <2>8. InstInv'
    <3>1. LeasesAreOwn(w)'
      BY <1>2, <2>5, <2>6 DEF LeasesAreOwn
    <3> QED
      BY <1>1, <1>2, <2>4, <2>6, <3>1, HandlerStep
  <2>9. StepInv'
    BY <1>1, <1>2, <2>2, <2>4, <2>5, <2>6 DEF StepInv, Transferring, Owns
  <2>10. NoForeignMutation' /\ PoisonInv'
    BY <2>4 DEF IInv, NoForeignMutation, PoisonInv
  <2> QED
    BY <2>7, <2>8, <2>9, <2>10 DEF IInv
<1>4. CASE LeaveFold
  <2>1. /\ pc = "leaving" /\ state = "TRANSFERRING"
        /\ transfer_origin = [state |-> "COMBAT", holder |-> LiveHolder(w)]
    BY <1>4 DEF LeaveFold, IInv, StepInv, Transferring
  <2>2. /\ UNCHANGED gaVars /\ transfer' = transfer
        /\ pc' = "folded" /\ who' = w /\ board' = board /\ foreign' = foreign
    BY <1>4 DEF LeaveFold, Goto
  <2> DEFINE x == [inst[w] EXCEPT !.phase = FALSE]
  <2>3. /\ x \in InstanceState
        /\ x.status = "live" /\ ~x.faulted /\ ~x.phase
        /\ x.combatLease = inst[w].combatLease /\ x.runLease = inst[w].runLease
    BY <1>1, <1>2 DEF InstanceState
  <2>4. /\ inst' \in [Instances -> InstanceState] /\ inst'[w] = x
        /\ \A j \in Instances : j # w => inst'[j] = inst[j]
    BY <1>2, <1>4, <2>3, UpdateInst DEF LeaveFold
  <2>5. TypeOK'
    BY <2>2, <2>4 DEF IInv, TypeOK, Steps, gaVars, GA!TypeOK
  <2>6. InstInv'
    <3>1. LeasesAreOwn(w)'
      BY <1>2, <2>3, <2>4 DEF LeasesAreOwn
    <3> QED
      BY <1>1, <1>2, <2>2, <2>4, <3>1, HandlerStep DEF gaVars
  <2>7. StepInv'
    BY <1>1, <1>2, <2>1, <2>2, <2>3, <2>4 DEF StepInv, Transferring, Owns, gaVars
  <2>8. NoForeignMutation' /\ PoisonInv'
    BY <2>2 DEF IInv, NoForeignMutation, PoisonInv, gaVars
  <2> QED
    BY <2>5, <2>6, <2>7, <2>8 DEF IInv
<1>5. CASE LeaveCommit
  <2>1. /\ NewLease(RunHolder(w), "RUN") \in GA!GameLease
        /\ NewLease(RunHolder(w), "RUN") \in Leases
        /\ NewLease(RunHolder(w), "RUN").holder = RunHolder(w)
        /\ NewLease(RunHolder(w), "RUN").state = "RUN"
        /\ NewLease(RunHolder(w), "RUN").generation = generation + 1
    BY HolderFacts, NewLeaseFacts DEF IInv, GA!OwnerStates
  <2>2. ~inst[w].phase
    BY <1>5 DEF LeaveCommit, IInv, StepInv
  <2>3. /\ state' = "RUN" /\ holder' = RunHolder(w) /\ generation' = generation + 1
        /\ transfer_origin' = GA!NoOrigin
        /\ issued' = issued \cup {NewLease(RunHolder(w), "RUN")}
        /\ transfer' = NewLease(RunHolder(w), "RUN")
        /\ pc' = "returned" /\ who' = w /\ inst' = inst
        /\ board' = board /\ foreign' = foreign
    BY <1>5 DEF LeaveCommit, GA!Commit, NewLease, Goto
  <2>4. TypeOK'
    <3>1. GA!TypeOK'
      BY <2>1, <2>3, HolderFacts
         DEF IInv, TypeOK, GA!TypeOK, GA!LeaseStates, GA!OwnerStates
    <3> QED
      BY <2>1, <2>3, <3>1 DEF IInv, TypeOK, Steps
  <2>5. InstInv'
    <3>1. LeasesAreOwn(w)'
      BY <1>2, <2>3 DEF LeasesAreOwn
    <3> QED
      BY <1>1, <1>2, <2>3, <3>1, HandlerStep
  <2>6. StepInv'
    BY <1>1, <2>1, <2>2, <2>3 DEF StepInv, Transferring, Owns, Accepts, GA!ValidateCurrent
  <2>7. NoForeignMutation' /\ PoisonInv'
    BY <2>3 DEF IInv, NoForeignMutation, PoisonInv
  <2> QED
    BY <2>4, <2>5, <2>6, <2>7 DEF IInv
<1>6. CASE LeaveAccept
  <2>1. /\ pc = "returned" /\ ~inst[w].phase
        /\ Accepts(transfer) /\ transfer.holder = RunHolder(w) /\ transfer.state = "RUN"
        /\ transfer \in Leases /\ state # "TRANSFERRING"
    BY <1>6 DEF LeaveAccept, IInv, StepInv, TypeOK, Transferring
  <2>2. /\ UNCHANGED gaVars /\ transfer' = transfer
        /\ pc' = "draining" /\ who' = w /\ board' = board /\ foreign' = foreign
    BY <1>6 DEF LeaveAccept, Goto
  <2> DEFINE x == [inst[w] EXCEPT !.runLease = transfer]
  <2>3. /\ x \in InstanceState
        /\ x.status = "live" /\ ~x.faulted /\ ~x.phase
        /\ x.combatLease = inst[w].combatLease /\ x.runLease = transfer
    BY <1>1, <1>2, <2>1 DEF InstanceState
  <2>4. /\ inst' \in [Instances -> InstanceState] /\ inst'[w] = x
        /\ \A j \in Instances : j # w => inst'[j] = inst[j]
    BY <1>2, <1>6, <2>3, UpdateInst DEF LeaveAccept
  <2>5. TypeOK'
    BY <2>2, <2>4 DEF IInv, TypeOK, Steps, gaVars, GA!TypeOK
  <2>6. InstInv'
    <3>1. LeasesAreOwn(w)'
      BY <1>2, <2>1, <2>3, <2>4 DEF LeasesAreOwn
    <3> QED
      BY <1>1, <1>2, <2>2, <2>4, <3>1, HandlerStep DEF gaVars
  <2>7. StepInv'
    BY <1>1, <1>2, <2>1, <2>2, <2>3, <2>4
       DEF StepInv, Transferring, Owns, Accepts, GA!ValidateCurrent, gaVars
  <2>8. NoForeignMutation' /\ PoisonInv'
    BY <2>2 DEF IInv, NoForeignMutation, PoisonInv, gaVars
  <2> QED
    BY <2>5, <2>6, <2>7, <2>8 DEF IInv
<1>7. CASE LeaveDrained
  <2>1. /\ pc = "draining" /\ ~inst[w].phase /\ Accepts(inst[w].runLease)
        /\ state # "TRANSFERRING"
    BY <1>7 DEF LeaveDrained, IInv, StepInv, Transferring
  <2>2. inst[w].runLease # NoLease
    BY <2>1, AcceptedIsOwners
  <2>3. /\ UNCHANGED gaVars /\ inst' = inst /\ transfer' = NoLease
        /\ pc' = "idle" /\ who' = NoInstance /\ board' = board
    BY <1>7, <2>2 DEF LeaveDrained, RunMutatingGame, Finish
  <2>4. foreign' = foreign
    BY <1>2, <1>7 DEF LeaveDrained, Mutates, IInv, TypeOK
  <2>5. TypeOK'
    BY <1>2, <2>3, <2>4 DEF IInv, TypeOK, Steps, gaVars, GA!TypeOK
  <2>6. InstInv'
    <3>1. LeasesAreOwn(w)'
      BY <1>2, <2>3 DEF LeasesAreOwn
    <3>2. Settled(w)'
      BY <1>1, <2>1, <2>2, <2>3 DEF Settled, Accepts, GA!ValidateCurrent, gaVars
    <3> QED
      BY <1>1, <1>2, <2>3, <3>1, <3>2, HandlerStep DEF gaVars
  <2>7. StepInv' /\ NoForeignMutation' /\ PoisonInv'
    BY <2>1, <2>3, <2>4 DEF IInv, StepInv, Transferring, NoForeignMutation, PoisonInv, gaVars
  <2> QED
    BY <2>5, <2>6, <2>7 DEF IInv
<1> QED
  BY <1>3, <1>4, <1>5, <1>6, <1>7

(* close_instance gives the game up or leaves the guard alone.             *)
LEMMA CloseIInv ==
    ASSUME IInv, NEW i \in Instances, CloseInstance(i)
    PROVE  IInv'
<1> USE InstanceAssumption
<1>1. /\ pc = "idle" /\ who = NoInstance /\ i # who
      /\ inst \in [Instances -> InstanceState] /\ inst[i] \in InstanceState
      /\ NoLease \in Leases
      /\ LeasesAreOwn(i)
  BY DEF CloseInstance, IInv, StepInv, InstInv, TypeOK, Leases
<1>2. UNCHANGED <<pc, who, transfer, board, foreign>>
  BY DEF CloseInstance
<1>3. \/ UNCHANGED gaVars
      \/ /\ holder' = NoHolder /\ generation' = generation + 1
         /\ UNCHANGED <<state, transfer_origin, issued>>
  BY DEF CloseInstance, GA!Release
<1>4. state' = state /\ transfer_origin' = transfer_origin
  BY <1>3 DEF gaVars
<1>5. /\ inst' \in [Instances -> InstanceState]
      /\ inst'[i].status = "gone"
      /\ LeasesAreOwn(i)'
      /\ \A j \in Instances : j # i => inst'[j] = inst[j]
  <2>1. CASE inst' = [inst EXCEPT ![i].status = "gone"]
    BY <1>1, <2>1 DEF InstanceState, LeasesAreOwn
  <2>2. CASE inst' = [inst EXCEPT ![i].status = "gone", ![i].phase = FALSE,
                                  ![i].runLease = NoLease, ![i].combatLease = NoLease]
    <3> DEFINE x == [inst[i] EXCEPT !.status = "gone", !.phase = FALSE,
                                    !.runLease = NoLease, !.combatLease = NoLease]
    <3>1. inst' = [inst EXCEPT ![i] = x]
      BY <2>2
    <3>2. /\ x \in InstanceState
          /\ x.status = "gone" /\ x.runLease = NoLease /\ x.combatLease = NoLease
      BY <1>1 DEF InstanceState
    <3> QED
      BY <1>1, <3>1, <3>2, UpdateInst DEF LeasesAreOwn
  <2> QED
    BY <2>1, <2>2 DEF CloseInstance
<1>6. TypeOK'
  <2>1. GA!TypeOK'
    BY <1>3 DEF IInv, TypeOK, GA!TypeOK, gaVars
  <2> QED
    BY <1>2, <1>5, <2>1 DEF IInv, TypeOK
<1>7. InstInv'
  <2>1. \A j \in Instances : UNCHANGED gaVars \/ ~Owns(j)'
    BY <1>3, HolderFacts DEF Owns
  <2>2. \A j \in Instances : j # i =>
          /\ LeasesAreOwn(j)'
          /\ Settled(j)'
          /\ Owns(j)' /\ inst'[j].status = "live" => board' = j
    BY <1>1, <1>2, <1>5, <2>1, Bystander
  <2>3. Settled(i)'
    BY <1>5 DEF Settled
  <2> QED
    BY <1>5, <2>2, <2>3 DEF InstInv
<1>8. StepInv'
  BY <1>1, <1>2, <1>4 DEF IInv, StepInv, Transferring
<1>9. NoForeignMutation' /\ PoisonInv'
  BY <1>2, <1>3 DEF IInv, NoForeignMutation, PoisonInv, gaVars
<1> QED
  BY <1>6, <1>7, <1>8, <1>9 DEF IInv

(* The running handler is some instance's.                                 *)
LEMMA HandlerIsAnInstance ==
    ASSUME IInv, pc # "idle" PROVE \E w \in Instances : w = who
BY DEF IInv, StepInv

LEMMA NextIInv == IInv /\ [Next]_vars => IInv'
<1> SUFFICES ASSUME IInv, [Next]_vars PROVE IInv'
  OBVIOUS
<1>1. ASSUME NEW i \in Instances, StartInstance(i) \/ StartRefused(i) PROVE IInv'
  BY <1>1, StartIInv
<1>2. ASSUME NEW i \in Instances,
             \/ CommitOutsideCombat(i)
             \/ CombatStepAdvances(i) \/ CombatActionFaults(i) \/ CombatStepRaisesMidway(i)
      PROVE  IInv'
  BY <1>2, MutationIInv
<1>3. ASSUME NEW i \in Instances, CloseInstance(i) PROVE IInv'
  BY <1>3, CloseIInv
<1>4. CASE Constructed \/ ConstructorRaises \/ StartedThenClosed
  BY <1>4, HandlerIsAnInstance, ConstructIInv
     DEF Constructed, ConstructorRaises, StartedThenClosed
<1>5. CASE EnterBegin \/ EnterRollback \/ EnterCommit \/ EnterAccept
  BY <1>5, HandlerIsAnInstance, EnterIInv
     DEF EnterBegin, EnterRollback, EnterCommit, EnterAccept
<1>6. CASE EnterFailsAfterCommit \/ CommitFailsAfterAdvance \/ LeaveFails
  <2>1. pc \notin {"idle", "constructing"} /\ PoisonTransaction
    BY <1>6 DEF EnterFailsAfterCommit, CommitFailsAfterAdvance, LeaveFails
  <2>2. PICK w \in Instances : w = who
    BY <2>1, HandlerIsAnInstance
  <2>3. inst[w].status = "live"
    BY <2>1, <2>2 DEF IInv, StepInv
  <2> QED
    BY <2>1, <2>2, <2>3, PoisonIInv
<1>7. CASE CommitRecorded \/ StandaloneFailsAfterAdvance
  BY <1>7, HandlerIsAnInstance, CommitEndIInv
     DEF CommitRecorded, StandaloneFailsAfterAdvance
<1>8. CASE LeaveBegin \/ LeaveFold \/ LeaveCommit \/ LeaveAccept \/ LeaveDrained
  BY <1>8, HandlerIsAnInstance, LeaveIInv
     DEF LeaveBegin, LeaveFold, LeaveCommit, LeaveAccept, LeaveDrained
<1>9. CASE UNCHANGED vars
  BY <1>9 DEF vars, gaVars, IInv, TypeOK, GA!TypeOK, NoForeignMutation, PoisonInv, InstInv,
              LeasesAreOwn, Settled, Owns, Accepts, GA!ValidateCurrent, StepInv
<1> QED
  BY <1>1, <1>2, <1>3, <1>4, <1>5, <1>6, <1>7, <1>8, <1>9 DEF Next, Exhausted

(* IInv holds throughout every behaviour of the server's instances.        *)
THEOREM Invariance == Spec => []IInv
BY InitIInv, NextIInv, PTL DEF Spec

(* The guard, the sessions and the running handler keep their types.       *)
THEOREM TypeCorrect == Spec => []TypeOK
<1>1. IInv => TypeOK
  BY DEF IInv
<1> QED
  BY <1>1, Invariance, PTL

(***************************************************************************)
(* For any number of whole runs and standalone combats in one process, and *)
(* any order of starts, hand-offs, failures and closes: no commit_action   *)
(* that passes the lease check moves another instance's game.              *)
(***************************************************************************)
THEOREM MutationsStayHome == Spec => []NoForeignMutation
<1>1. IInv => NoForeignMutation
  BY DEF IInv
<1> QED
  BY <1>1, Invariance, PTL

(***************************************************************************)
(* Every hand-off is settled when its handler returns: the guard is not    *)
(* TRANSFERRING, and a serving instance that owns the game has the lease   *)
(* its next commit_action must present.                                    *)
(***************************************************************************)
THEOREM HandoffsSettle == Spec => []HandoffSettles
<1>1. ASSUME IInv PROVE HandoffSettles
  <2> SUFFICES ASSUME pc = "idle"
               PROVE  /\ state # "TRANSFERRING"
                      /\ \A i \in Instances :
                           (Serving(i) /\ Owns(i)) =>
                             /\ inst[i].phase => GA!ValidateCurrent(inst[i].combatLease)
                             /\ ~inst[i].phase => GA!ValidateCurrent(inst[i].runLease)
    BY DEF HandoffSettles
  <2>1. state # "TRANSFERRING" /\ who = NoInstance
    BY <1>1 DEF IInv, StepInv, Transferring
  <2>2. \A i \in Instances : Settled(i)
    BY <1>1, <2>1, InstanceAssumption DEF IInv, InstInv
  <2> QED
    BY <2>1, <2>2 DEF Settled, Accepts, Serving
<1> QED
  BY <1>1, Invariance, PTL

(***************************************************************************)
(* A superseded instance cannot take the game back, and only the instance  *)
(* that owns it can poison the guard.                                      *)
(***************************************************************************)
THEOREM NoComeback == Spec => SupersededStaysOut
<1> DEFINE Step == /\ \A i \in Instances : ~Owns(i) /\ Owns(i)' => inst[i].status = "absent"
                   /\ state # "POISONED" /\ state' = "POISONED" => Owns(who)
<1>1. ASSUME IInv, [Next]_vars PROVE [Step]_vars
  <2>1. CASE UNCHANGED gaVars
    BY <2>1 DEF gaVars, Owns
  <2>2. ASSUME NEW i \in Instances, StartInstance(i) PROVE Step
    <3>1. /\ inst[i].status = "absent"
          /\ holder' \in {RunHolder(i), LiveHolder(i)}
          /\ state' # "POISONED"
      BY <2>2 DEF StartInstance, GA!Claim
    <3> QED
      BY <3>1, HolderFacts DEF Owns
  <2>3. ASSUME holder' = NoHolder, state' = state PROVE Step
    BY <2>3, HolderFacts DEF Owns
  <2>4. ASSUME pc # "idle", holder' \in {holder, RunHolder(who), LiveHolder(who), NoHolder}
        PROVE  Step
    <3>1. who \in Instances /\ Owns(who)
      BY <1>1, <2>4 DEF IInv, StepInv
    <3> QED
      BY <2>4, <3>1, HolderFacts DEF Owns
  <2>5. ASSUME NEW i \in Instances,
               \/ CommitOutsideCombat(i)
               \/ CombatStepAdvances(i) \/ CombatActionFaults(i) \/ CombatStepRaisesMidway(i)
        PROVE  UNCHANGED gaVars
    <3>1. /\ pc = "idle" /\ who = NoInstance /\ Settled(i)
          /\ inst[i].status = "live" /\ ~inst[i].faulted
      BY <1>1, <2>5, InstanceAssumption
         DEF CommitOutsideCombat, CombatStepAdvances, CombatActionFaults,
             CombatStepRaisesMidway, LiveStep, Serving, IInv, StepInv, InstInv
    <3> QED
      BY <2>5, <3>1 DEF CommitOutsideCombat, CombatStepAdvances, CombatActionFaults,
                        CombatStepRaisesMidway, LiveStep, Settled, RunMutatingGame,
                        LiveMutatingGame
  <2>6. ASSUME NEW i \in Instances, CloseInstance(i)
        PROVE  UNCHANGED gaVars \/ (holder' = NoHolder /\ state' = state)
    BY <2>6 DEF CloseInstance, GA!Release
  <2>7. ASSUME \/ EnterBegin \/ EnterRollback \/ EnterCommit
               \/ LeaveBegin \/ LeaveCommit \/ LeaveDrained
        PROVE  /\ pc # "idle"
               /\ holder' \in {holder, RunHolder(who), LiveHolder(who), NoHolder}
    <3>1. ASSUME EnterRollback PROVE holder' = RunHolder(who)
      BY <1>1, <3>1 DEF EnterRollback, GA!Rollback, IInv, StepInv, Transferring
    <3> QED
      BY <2>7, <3>1 DEF EnterBegin, EnterRollback, EnterCommit, LeaveBegin, LeaveCommit,
                        LeaveDrained, GA!Begin, GA!Commit, GA!Claim, RunMutatingGame, gaVars
  <2>8. ASSUME EnterFailsAfterCommit \/ CommitFailsAfterAdvance \/ LeaveFails
        PROVE  pc # "idle" /\ holder' = NoHolder
    BY <2>8 DEF EnterFailsAfterCommit, CommitFailsAfterAdvance, LeaveFails,
                PoisonTransaction, GA!Poison
  <2>9. ASSUME StartedThenClosed PROVE holder' = NoHolder /\ state' = state
    BY <2>9 DEF StartedThenClosed, GA!Release
  <2>10. ASSUME \/ \E i \in Instances : StartRefused(i)
                \/ Constructed \/ ConstructorRaises \/ EnterAccept
                \/ CommitRecorded \/ StandaloneFailsAfterAdvance
                \/ LeaveFold \/ LeaveAccept \/ Exhausted
         PROVE  UNCHANGED gaVars
    BY <2>10 DEF StartRefused, Constructed, ConstructorRaises, EnterAccept, CommitRecorded,
                 StandaloneFailsAfterAdvance, LeaveFold, LeaveAccept, Exhausted, vars
  <2>11. CASE UNCHANGED vars
    BY <2>11
  <2> HIDE DEF Step
  <2>12. CASE Next
    BY <2>12, <2>1, <2>2, <2>3, <2>4, <2>5, <2>6, <2>7, <2>8, <2>9, <2>10 DEF Next
  <2> QED
    BY <1>1, <2>11, <2>12
<1> QED
  BY <1>1, Invariance, PTL DEF Spec, SupersededStaysOut

-----------------------------------------------------------------------------
(***************************************************************************)
(* The instances use the guard as GameAccess expects of its callers: they  *)
(* present only leases they were given, and name their own sessions.       *)
(***************************************************************************)
IssuedInv ==
    /\ \A i \in Instances : /\ inst[i].runLease \in issued \cup {NoLease}
                            /\ inst[i].combatLease \in issued \cup {NoLease}
    /\ transfer \in issued \cup {NoLease}

(* A presented lease that the guard accepts has been issued.               *)
LEMMA PresentedIsIssued ==
    ASSUME NEW l \in issued \cup {NoLease}, GA!ValidateCurrent(l) \/ GA!ValidateTransfer(l)
    PROVE  l \in issued
BY DEF GA!ValidateCurrent, GA!ValidateTransfer, NoLease

(* Every step is one of the guard's, or leaves it alone.                   *)
LEMMA StepIsTheGuards ==
    ASSUME IInv, IssuedInv, [Next]_vars
    PROVE  [GA!Next]_gaVars
<1>h. \A i \in Instances : RunHolder(i) \in SessionHolders /\ LiveHolder(i) \in SessionHolders
  BY HolderFacts
<1>s. "RUN" \in GA!OwnerStates /\ "COMBAT" \in GA!OwnerStates
  BY DEF GA!OwnerStates
<1>1. ASSUME NEW i \in Instances,
             GA!Claim(RunHolder(i), "RUN") \/ GA!Claim(LiveHolder(i), "COMBAT")
      PROVE  GA!Next
  BY <1>1, <1>h, <1>s DEF GA!Next
<1>2. ASSUME NEW l \in issued \cup {NoLease}, GA!Release(l) \/ GA!Begin(l) \/ GA!Rollback(l)
      PROVE  GA!Next
  <2>1. l \in issued
    BY <1>2, PresentedIsIssued DEF GA!Release, GA!Begin, GA!Rollback
  <2> QED
    BY <1>2, <2>1 DEF GA!Next
<1>3. ASSUME NEW t \in issued \cup {NoLease}, NEW i \in Instances,
             GA!Commit(t, "COMBAT", LiveHolder(i)) \/ GA!Commit(t, "RUN", RunHolder(i))
      PROVE  GA!Next
  <2>1. t \in issued
    BY <1>3, PresentedIsIssued DEF GA!Commit
  <2> QED
    BY <1>3, <1>h, <1>s, <2>1 DEF GA!Next
<1>4. ASSUME GA!Poison PROVE GA!Next
  BY <1>4 DEF GA!Next
<1>5. pc # "idle" => who \in Instances
  BY DEF IInv, StepInv
<1>6. /\ transfer \in issued \cup {NoLease}
      /\ \A i \in Instances : /\ inst[i].runLease \in issued \cup {NoLease}
                              /\ inst[i].combatLease \in issued \cup {NoLease}
  BY DEF IssuedInv
<1>7. ASSUME NEW i \in Instances, StartInstance(i) \/ StartRefused(i)
      PROVE  GA!Next \/ UNCHANGED gaVars
  BY <1>1, <1>7 DEF StartInstance, StartRefused
<1>8. ASSUME NEW i \in Instances,
             \/ CommitOutsideCombat(i)
             \/ CombatStepAdvances(i) \/ CombatActionFaults(i) \/ CombatStepRaisesMidway(i)
      PROVE  GA!Next \/ UNCHANGED gaVars
  BY <1>1, <1>8 DEF CommitOutsideCombat, CombatStepAdvances, CombatActionFaults,
                    CombatStepRaisesMidway, LiveStep, RunMutatingGame, LiveMutatingGame
<1>9. ASSUME NEW i \in Instances, CloseInstance(i)
      PROVE  GA!Next \/ UNCHANGED gaVars
  <2>1. HeldLeases(i) \subseteq issued \cup {NoLease}
    BY <1>6 DEF HeldLeases
  <2> QED
    BY <1>2, <1>9, <2>1 DEF CloseInstance
<1>10. ASSUME \/ EnterBegin \/ EnterRollback \/ EnterCommit
              \/ LeaveBegin \/ LeaveCommit \/ LeaveDrained \/ StartedThenClosed
       PROVE  GA!Next \/ UNCHANGED gaVars
  <2>1. who \in Instances
    BY <1>5, <1>10 DEF EnterBegin, EnterRollback, EnterCommit, LeaveBegin, LeaveCommit,
                       LeaveDrained, StartedThenClosed
  <2> QED
    BY <1>1, <1>2, <1>3, <1>6, <1>10, <2>1
       DEF EnterBegin, EnterRollback, EnterCommit, LeaveBegin, LeaveCommit, LeaveDrained,
           StartedThenClosed, RunMutatingGame
<1>11. ASSUME EnterFailsAfterCommit \/ CommitFailsAfterAdvance \/ LeaveFails
       PROVE  GA!Next
  BY <1>4, <1>11 DEF EnterFailsAfterCommit, CommitFailsAfterAdvance, LeaveFails,
                     PoisonTransaction
<1>12. ASSUME \/ Constructed \/ ConstructorRaises \/ EnterAccept
              \/ CommitRecorded \/ StandaloneFailsAfterAdvance
              \/ LeaveFold \/ LeaveAccept \/ Exhausted \/ UNCHANGED vars
       PROVE  UNCHANGED gaVars
  BY <1>12 DEF Constructed, ConstructorRaises, EnterAccept, CommitRecorded,
               StandaloneFailsAfterAdvance, LeaveFold, LeaveAccept, Exhausted, vars
<1> QED
  BY <1>7, <1>8, <1>9, <1>10, <1>11, <1>12 DEF Next

(* A lease an instance or its handler gets is one that was just issued, or *)
(* one that it had.                                                        *)
LEMMA NextIssued ==
    ASSUME IInv, IssuedInv, [Next]_vars
    PROVE  IssuedInv'
<1> DEFINE Had == issued \cup {NoLease}
<1>1. /\ transfer \in Had
      /\ \A i \in Instances : inst[i].runLease \in Had /\ inst[i].combatLease \in Had
      /\ inst \in [Instances -> InstanceState]
      /\ \A i \in Instances : inst[i] \in InstanceState
  BY DEF IssuedInv, IInv, TypeOK
<1>2. pc # "idle" => who \in Instances
  BY DEF IInv, StepInv
<1>3. issued \subseteq issued'
  BY StepIsTheGuards DEF GA!Next, GA!Claim, GA!Release, GA!Begin, GA!Rollback, GA!Commit,
                         GA!Poison, gaVars
<1>4. ASSUME NEW i \in Instances, NEW x,
             inst' = [inst EXCEPT ![i] = x],
             x.runLease \in issued' \cup {inst[i].runLease, NoLease},
             x.combatLease \in issued' \cup {inst[i].combatLease, NoLease},
             transfer' \in issued' \cup {transfer, NoLease}
      PROVE  IssuedInv'
  BY <1>1, <1>3, <1>4 DEF IssuedInv
<1>5. ASSUME inst' = inst, transfer' \in issued' \cup {transfer, NoLease} PROVE IssuedInv'
  BY <1>1, <1>3, <1>5 DEF IssuedInv
<1>6. ASSUME NEW i \in Instances, StartInstance(i) PROVE IssuedInv'
  <2>1. CASE i \in WholeRuns
    <3> DEFINE x == [inst[i] EXCEPT !.runLease = NewLease(RunHolder(i), "RUN")]
    <3>1. /\ inst' = [inst EXCEPT ![i] = x] /\ transfer' = transfer
          /\ NewLease(RunHolder(i), "RUN") \in issued'
      BY <1>6, <2>1 DEF StartInstance, GA!Claim, NewLease
    <3>2. /\ x.runLease = NewLease(RunHolder(i), "RUN")
          /\ x.combatLease = inst[i].combatLease
      BY <1>1 DEF InstanceState
    <3> QED
      BY <1>4, <3>1, <3>2
  <2>2. CASE i \notin WholeRuns
    <3> DEFINE x == [inst[i] EXCEPT !.combatLease = NewLease(LiveHolder(i), "COMBAT")]
    <3>1. /\ inst' = [inst EXCEPT ![i] = x] /\ transfer' = transfer
          /\ NewLease(LiveHolder(i), "COMBAT") \in issued'
      BY <1>6, <2>2 DEF StartInstance, GA!Claim, NewLease
    <3>2. /\ x.runLease = inst[i].runLease
          /\ x.combatLease = NewLease(LiveHolder(i), "COMBAT")
      BY <1>1 DEF InstanceState
    <3> QED
      BY <1>4, <3>1, <3>2
  <2> QED
    BY <2>1, <2>2
<1>7. ASSUME NEW i \in Instances, StartRefused(i) PROVE IssuedInv'
  <2> DEFINE x == [inst[i] EXCEPT !.status = "gone"]
  <2>1. inst' = [inst EXCEPT ![i] = x] /\ transfer' = transfer
    BY <1>7 DEF StartRefused
  <2>2. x.runLease = inst[i].runLease /\ x.combatLease = inst[i].combatLease
    BY <1>1 DEF InstanceState
  <2> QED
    BY <1>4, <2>1, <2>2
<1>8. ASSUME NEW i \in Instances, CommitOutsideCombat(i) PROVE IssuedInv'
  <2> DEFINE x == [inst[i] EXCEPT !.runLease = RunLeaseAfter(i)]
  <2>1. /\ inst' = [inst EXCEPT ![i] = x] /\ transfer' = transfer
        /\ RunLeaseAfter(i) \in issued' \cup {inst[i].runLease}
    BY <1>8 DEF CommitOutsideCombat, RunMutatingGame, RunLeaseAfter, GA!Claim, NewLease
  <2>2. x.runLease = RunLeaseAfter(i) /\ x.combatLease = inst[i].combatLease
    BY <1>1 DEF InstanceState
  <2> QED
    BY <1>4, <2>1, <2>2
<1>9. ASSUME NEW i \in Instances,
             CombatStepAdvances(i) \/ CombatActionFaults(i) \/ CombatStepRaisesMidway(i)
      PROVE  IssuedInv'
  <2>1. LiveLeaseAfter(i) \in issued' \cup {inst[i].combatLease} /\ transfer' = transfer
    BY <1>9 DEF CombatStepAdvances, CombatActionFaults, CombatStepRaisesMidway, LiveStep,
                LiveMutatingGame, LiveLeaseAfter, GA!Claim, NewLease
  <2>2. PICK x : /\ inst' = [inst EXCEPT ![i] = x]
                 /\ x.runLease = inst[i].runLease
                 /\ x.combatLease = LiveLeaseAfter(i)
    <3> DEFINE reset == inst[i].runReset \/ Resynchronized(i)
               a == [inst[i] EXCEPT !.combatLease = LiveLeaseAfter(i), !.synced = TRUE,
                                    !.runReset = reset]
               f == [inst[i] EXCEPT !.combatLease = LiveLeaseAfter(i),
                                    !.sessionFaulted = TRUE, !.runReset = reset]
               m == [inst[i] EXCEPT !.combatLease = LiveLeaseAfter(i), !.synced = FALSE,
                                    !.runReset = reset]
    <3>1. CombatStepAdvances(i) => inst' = [inst EXCEPT ![i] = a]
      BY Zenon DEF CombatStepAdvances
    <3>2. CombatActionFaults(i) => inst' = [inst EXCEPT ![i] = f]
      BY Zenon DEF CombatActionFaults
    <3>3. CombatStepRaisesMidway(i) => inst' = [inst EXCEPT ![i] = m]
      BY Zenon DEF CombatStepRaisesMidway
    <3> HIDE DEF reset
    <3>4. /\ a.runLease = inst[i].runLease /\ a.combatLease = LiveLeaseAfter(i)
          /\ f.runLease = inst[i].runLease /\ f.combatLease = LiveLeaseAfter(i)
          /\ m.runLease = inst[i].runLease /\ m.combatLease = LiveLeaseAfter(i)
      BY <1>1 DEF InstanceState
    <3> QED
      BY <1>9, <3>1, <3>2, <3>3, <3>4
  <2> QED
    BY <1>4, <2>1, <2>2
<1>10. ASSUME NEW i \in Instances, CloseInstance(i) PROVE IssuedInv'
  <2> DEFINE x == [inst[i] EXCEPT !.status = "gone"]
             y == [inst[i] EXCEPT !.status = "gone", !.phase = FALSE, !.runLease = NoLease,
                                  !.combatLease = NoLease]
  <2>1. /\ inst' = [inst EXCEPT ![i] = x] \/ inst' = [inst EXCEPT ![i] = y]
        /\ transfer' = transfer
    BY <1>10 DEF CloseInstance
  <2>2. /\ x.runLease = inst[i].runLease /\ x.combatLease = inst[i].combatLease
        /\ y.runLease = NoLease /\ y.combatLease = NoLease
    BY <1>1 DEF InstanceState
  <2> QED
    BY <1>4, <2>1, <2>2
<1>11. ASSUME Constructed \/ ConstructorRaises \/ StartedThenClosed PROVE IssuedInv'
  <2> DEFINE standalone == who \notin WholeRuns
             x == [inst[who] EXCEPT !.status = "live", !.phase = standalone,
                                    !.synced = standalone]
             y == [inst[who] EXCEPT !.status = "gone"]
             z == [inst[who] EXCEPT !.status = "gone", !.runLease = NoLease,
                                    !.combatLease = NoLease]
  <2>1. /\ \/ inst' = [inst EXCEPT ![who] = x]
           \/ inst' = [inst EXCEPT ![who] = y]
           \/ inst' = [inst EXCEPT ![who] = z]
        /\ transfer' = NoLease
    BY <1>11, Zenon DEF Constructed, ConstructorRaises, StartedThenClosed, Finish
  <2> HIDE DEF standalone
  <2>2. who \in Instances
    BY <1>2, <1>11 DEF Constructed, ConstructorRaises, StartedThenClosed
  <2>3. /\ x.runLease = inst[who].runLease /\ x.combatLease = inst[who].combatLease
        /\ y.runLease = inst[who].runLease /\ y.combatLease = inst[who].combatLease
        /\ z.runLease = NoLease /\ z.combatLease = NoLease
    BY <1>1, <2>2 DEF InstanceState
  <2> QED
    BY <1>4, <2>1, <2>2, <2>3
<1>12. ASSUME EnterCommit \/ LeaveCommit \/ CommitRecorded \/ LeaveDrained \/ Exhausted
       PROVE  IssuedInv'
  <2>1. ASSUME EnterCommit \/ LeaveCommit
        PROVE  inst' = inst /\ transfer' \in issued'
    BY <2>1 DEF EnterCommit, LeaveCommit, GA!Commit, NewLease
  <2>2. ASSUME CommitRecorded \/ LeaveDrained
        PROVE  inst' = inst /\ transfer' = NoLease
    BY <2>2 DEF CommitRecorded, LeaveDrained, Finish
  <2>3. ASSUME Exhausted PROVE inst' = inst /\ transfer' = transfer
    BY <2>3 DEF Exhausted, vars
  <2> QED
    BY <1>5, <1>12, <2>1, <2>2, <2>3
<1>13. ASSUME \/ EnterBegin \/ EnterRollback \/ EnterAccept
              \/ LeaveBegin \/ LeaveFold \/ LeaveAccept
              \/ PoisonTransaction /\ pc # "idle"
              \/ StandaloneFailsAfterAdvance
       PROVE  IssuedInv'
  <2>1. who \in Instances
    BY <1>2, <1>13 DEF EnterBegin, EnterRollback, EnterAccept, LeaveBegin, LeaveFold,
                       LeaveAccept, StandaloneFailsAfterAdvance
  <2>2. CASE EnterBegin \/ LeaveBegin
    <3> DEFINE x == [inst[who] EXCEPT !.runLease = NoLease]
               y == [inst[who] EXCEPT !.combatLease = NoLease]
    <3>1. /\ inst' = [inst EXCEPT ![who] = x] \/ inst' = [inst EXCEPT ![who] = y]
          /\ transfer' \in issued'
      BY <2>2 DEF EnterBegin, LeaveBegin, GA!Begin, NewLease
    <3>2. /\ x.runLease = NoLease /\ x.combatLease = inst[who].combatLease
          /\ y.combatLease = NoLease /\ y.runLease = inst[who].runLease
      BY <1>1, <2>1 DEF InstanceState
    <3> QED
      BY <1>4, <2>1, <3>1, <3>2
  <2>3. CASE EnterRollback
    <3> DEFINE x == [inst[who] EXCEPT !.runLease = NewLease(RunHolder(who), "RUN")]
    <3>1. inst' = [inst EXCEPT ![who] = x] /\ transfer' = NoLease
      BY <2>3 DEF EnterRollback, Finish
    <3>2. NewLease(RunHolder(who), "RUN") \in issued'
      BY <2>3 DEF EnterRollback, GA!Rollback, NewLease, IInv, StepInv, Transferring
    <3>3. /\ x.runLease = NewLease(RunHolder(who), "RUN")
          /\ x.combatLease = inst[who].combatLease
      BY <1>1, <2>1 DEF InstanceState
    <3> QED
      BY <1>4, <2>1, <3>1, <3>2, <3>3
  <2>4. CASE EnterAccept \/ LeaveAccept
    <3> DEFINE x == [inst[who] EXCEPT !.combatLease = transfer, !.phase = TRUE,
                                      !.synced = TRUE, !.sessionFaulted = FALSE]
               y == [inst[who] EXCEPT !.runLease = transfer]
    <3>1. /\ inst' = [inst EXCEPT ![who] = x] \/ inst' = [inst EXCEPT ![who] = y]
          /\ transfer' \in {transfer, NoLease}
          /\ transfer \in issued' \cup {NoLease}
      BY <1>1, <1>3, <2>4 DEF EnterAccept, LeaveAccept, Finish
    <3>2. /\ x.runLease = inst[who].runLease /\ x.combatLease = transfer
          /\ y.combatLease = inst[who].combatLease /\ y.runLease = transfer
      BY <1>1, <2>1 DEF InstanceState
    <3> QED
      BY <1>4, <2>1, <3>1, <3>2
  <2>5. CASE LeaveFold \/ PoisonTransaction \/ StandaloneFailsAfterAdvance
    <3> DEFINE x == [inst[who] EXCEPT !.phase = FALSE]
               y == [inst[who] EXCEPT !.faulted = TRUE, !.phase = FALSE,
                                      !.runLease = NoLease, !.combatLease = NoLease]
               z == [inst[who] EXCEPT !.faulted = TRUE]
    <3>1. /\ \/ inst' = [inst EXCEPT ![who] = x]
             \/ inst' = [inst EXCEPT ![who] = y]
             \/ inst' = [inst EXCEPT ![who] = z]
          /\ transfer' \in {transfer, NoLease}
      BY <2>5 DEF LeaveFold, PoisonTransaction, StandaloneFailsAfterAdvance, Finish
    <3>2. /\ x.runLease = inst[who].runLease /\ x.combatLease = inst[who].combatLease
          /\ y.runLease = NoLease /\ y.combatLease = NoLease
          /\ z.runLease = inst[who].runLease /\ z.combatLease = inst[who].combatLease
      BY <1>1, <2>1 DEF InstanceState
    <3> QED
      BY <1>4, <2>1, <3>1, <3>2
  <2> QED
    BY <1>13, <2>2, <2>3, <2>4, <2>5
<1>14. CASE UNCHANGED vars
  BY <1>5, <1>14 DEF vars
<1> QED
  BY <1>6, <1>7, <1>8, <1>9, <1>10, <1>11, <1>12, <1>13, <1>14
     DEF Next, EnterFailsAfterCommit, CommitFailsAfterAdvance, LeaveFails

(***************************************************************************)
(* The instances of the server implement GameAccess's specification of its *)
(* callers: every claim, release, begin, commit, rollback and poison they  *)
(* make is one the guard's own theorems cover, with a lease it issued.     *)
(***************************************************************************)
THEOREM HandoffUsesTheGuard == Spec => GA!Spec
<1>1. Init => GA!Init /\ IssuedInv
  BY DEF Init, IssuedInv
<1>2. IInv /\ IssuedInv /\ [Next]_vars => IssuedInv'
  BY NextIssued
<1>3. IInv /\ IssuedInv /\ [Next]_vars => [GA!Next]_gaVars
  BY StepIsTheGuards
<1> QED
  BY <1>1, <1>2, <1>3, Invariance, PTL DEF Spec, GA!Spec, gaVars, GA!gaVars

-----------------------------------------------------------------------------
(***************************************************************************)
(* The ledger of a whole run.                                              *)
(***************************************************************************)
Ids == Branches \cup {Root}
Decisions == [issued : [Ids -> Nat], current : [Ids -> Nat]]
Keys == [parent : Ids, decision : Nat, rng : RngIds]
PlanKeys == [decision : Nat, rng : RngIds \cup {NoRng}]
Records == Seq([state : Statuses, parent : Nat])

(* A hypothesis table: no key is listed twice, the keys of one decision    *)
(* have different indices, all below the decision's next one.              *)
TableInv(t) ==
    /\ Len(t.index) = Len(t.keys)
    /\ \A i \in DOMAIN t.keys :
         /\ ParentDecision(t.keys[i]) \in DOMAIN t.next
         /\ t.index[i] < t.next[ParentDecision(t.keys[i])]
    /\ \A i, j \in DOMAIN t.keys : i # j => t.keys[i] # t.keys[j]
    /\ \A i, j \in DOMAIN t.keys :
         i # j /\ ParentDecision(t.keys[i]) = ParentDecision(t.keys[j]) => t.index[i] # t.index[j]
Counters == UNION {[D -> Nat \ {0}] : D \in SUBSET (Ids \X Nat)}
Tables == {t \in [keys : Seq(Keys), index : Seq(Nat), next : Counters] : TableInv(t)}

BookFns == UNION {[D -> Books] : D \in SUBSET Branches}
RefFns == UNION {[D -> SUBSET Branches] : D \in SUBSET PlanKeys}
Ledgers ==
    [known : SUBSET Ids, books : BookFns, order : Seq(Branches), reserved : SUBSET Branches,
     dps : Decisions, phase : [on : BOOLEAN, records : Records, table : Tables], refs : RefFns]

(* The books, their order and the ids name the same Branches; a Branch of  *)
(* a combat has no event hypothesis; root's decision point was issued.     *)
BookInv(l) ==
    /\ DOMAIN l.books = {l.order[k] : k \in DOMAIN l.order}
    /\ l.known = DOMAIN l.books \cup {Root}
    /\ l.reserved \subseteq DOMAIN l.books
    /\ IsFiniteSet(l.reserved) /\ Cardinality(l.reserved) <= max_branches
    /\ \A b \in DOMAIN l.books : l.books[b].internal # 0 => l.books[b].plan = NoKey
    /\ l.dps.current[Root] <= l.dps.issued[Root]

(* Every record that is not released is paid for, and a reservation that   *)
(* is not is for a Branch whose release reached its record.                *)
PaidFor(l) ==
    \A i \in DOMAIN l.phase.records :
      l.phase.records[i].state # "released" => \E b \in l.reserved : l.books[b].internal = i
Knows(l) ==
    \A b \in l.reserved :
      /\ l.books[b].internal \in DOMAIN l.phase.records
      /\ l.books[b].status = "released" =>
           l.phase.records[l.books[b].internal].state = "released"
ReserveInv(l, f) ==
    /\ PaidFor(l)
    /\ l.phase.on => Knows(l)
    /\ ~l.phase.on => l.phase = NoPhase
    /\ ~l.phase.on /\ ~f => l.reserved = {}

(* A combat Branch is over, or its hypothesis is what the table says of    *)
(* its key.                                                                *)
IsOver(book) ==
    book.decision = 0 /\ book.parent = Root /\ book.rng = NoRng /\ book.hypothesis = 0
Linked(t, book) ==
    /\ book.decision # 0
    /\ \E i \in DOMAIN t.keys :
         /\ t.keys[i] = KeyOf(book.parent, book.decision, book.rng)
         /\ t.index[i] = book.hypothesis
AllLinked(l) ==
    \A b \in DOMAIN l.books :
      l.books[b].internal # 0 => IsOver(l.books[b]) \/ Linked(l.phase.table, l.books[b])
(* HypothesesFollowRngIds, of any ledger *)
Follow(l) ==
    \A a, b \in DOMAIN l.books :
      /\ l.books[a].internal # 0 /\ l.books[a].status = "completed"
      /\ l.books[b].internal # 0 /\ l.books[b].status = "completed"
      /\ l.books[a].parent = l.books[b].parent /\ l.books[a].decision = l.books[b].decision
      => (l.books[a].rng = l.books[b].rng <=> l.books[a].hypothesis = l.books[b].hypothesis)
AllOver(l) == \A b \in DOMAIN l.books : l.books[b].internal # 0 => IsOver(l.books[b])
LinkInv(l, f) ==
    /\ l.phase.on => AllLinked(l)
    /\ ~l.phase.on => Follow(l)
    /\ ~l.phase.on /\ ~f => AllOver(l)

(* EventReferencesAreExact, for every key *)
RefInv(l) ==
    \A key \in PlanKeys \ {NoKey} :
      Ref(l.refs, key) =
        {b \in DOMAIN l.books : l.books[b].plan = key /\ l.books[b].status = "completed"}

LedgerInv(l, f) == l \in Ledgers /\ BookInv(l) /\ ReserveInv(l, f) /\ LinkInv(l, f) /\ RefInv(l)

(***************************************************************************)
(* Where the run stands.                                                   *)
(***************************************************************************)
RunTypes ==
    /\ root \in [boundary : Boundaries, pos : Nat, replay : Nat, snap : BOOLEAN, fought : BOOLEAN]
    /\ faulted \in BOOLEAN /\ closed \in BOOLEAN /\ torn \in BOOLEAN
    /\ issued_at \in Nat /\ faults \in Nat

ViewsAt(l, pos) ==
    \A b \in DOMAIN l.books :
      l.books[b].view # "none" /\ ~l.books[b].terminal => l.books[b].at = pos
BoundaryInv(r, l) ==
    /\ r.fought => r.boundary # "event_choice"
    /\ l.phase.on => r.boundary = "combat"
DecisionInv(r, l, at) ==
    /\ at = r.pos /\ ViewsAt(l, r.pos)
    /\ ~r.fought => r.replay = r.pos
WhereInv ==
    ~faulted /\ ~closed => BoundaryInv(root, led) /\ (~torn => DecisionInv(root, led, issued_at))

RunInv == RunTypes /\ LedgerInv(led, faulted) /\ WhereInv

-----------------------------------------------------------------------------
(***************************************************************************)
(* The hypothesis table.                                                   *)
(***************************************************************************)
(* Everything listed in t is listed at the same place in u.                *)
Continues(t, u) ==
    /\ Len(t.keys) <= Len(u.keys)
    /\ \A i \in DOMAIN t.keys :
         i \in DOMAIN u.keys /\ u.keys[i] = t.keys[i] /\ u.index[i] = t.index[i]

LEMMA TableTypes ==
    ASSUME NEW t \in Tables
    PROVE  /\ t.keys \in Seq(Keys) /\ t.index \in Seq(Nat) /\ TableInv(t)
           /\ t = [keys |-> t.keys, index |-> t.index, next |-> t.next]
           /\ DOMAIN t.keys = 1..Len(t.keys) /\ DOMAIN t.index = 1..Len(t.keys)
           /\ DOMAIN t.next \subseteq Ids \X Nat
           /\ t.next = [x \in DOMAIN t.next |-> t.next[x]]
           /\ \A x \in DOMAIN t.next : t.next[x] \in Nat /\ t.next[x] # 0
<1>1. t \in [keys : Seq(Keys), index : Seq(Nat), next : Counters] /\ TableInv(t)
  BY DEF Tables
<1>2. PICK D \in SUBSET (Ids \X Nat) : t.next \in [D -> Nat \ {0}]
  BY <1>1 DEF Counters
<1> QED
  BY <1>1, <1>2 DEF TableInv

LEMMA AllocatedTable ==
    ASSUME NEW t \in Tables, NEW key \in Keys
    PROVE  /\ Allocated(t, key) \in Tables
           /\ key \in ToSet(Allocated(t, key).keys)
           /\ Continues(t, Allocated(t, key))
<1> DEFINE u == Allocated(t, key)
           pd == ParentDecision(key)
           n == NextIndex(t, pd)
<1>1. /\ t.keys \in Seq(Keys) /\ t.index \in Seq(Nat) /\ TableInv(t)
      /\ DOMAIN t.keys = 1..Len(t.keys) /\ DOMAIN t.index = 1..Len(t.keys)
      /\ DOMAIN t.next \subseteq Ids \X Nat
      /\ \A x \in DOMAIN t.next : t.next[x] \in Nat /\ t.next[x] # 0
  BY TableTypes
<1>2. CASE key \in ToSet(t.keys)
  BY <1>1, <1>2 DEF Allocated, Continues
<1>3. CASE key \notin ToSet(t.keys)
  <2>1. pd \in Ids \X Nat /\ n \in Nat
    BY <1>1 DEF ParentDecision, NextIndex, Keys
  <2>2. /\ u.keys = Append(t.keys, key) /\ u.index = Append(t.index, n)
        /\ u.next = [x \in DOMAIN t.next \cup {pd} |-> IF x = pd THEN n + 1 ELSE t.next[x]]
        /\ u = [keys |-> u.keys, index |-> u.index, next |-> u.next]
    BY <1>3 DEF Allocated
  <2> HIDE DEF u
  <2>3. u.keys \in Seq(Keys) /\ u.index \in Seq(Nat)
    BY <1>1, <2>1, <2>2
  <2>4. u.next \in Counters
    <3>1. u.next \in [DOMAIN t.next \cup {pd} -> Nat \ {0}]
      BY <1>1, <2>1, <2>2
    <3>2. DOMAIN t.next \cup {pd} \in SUBSET (Ids \X Nat)
      BY <1>1, <2>1
    <3> QED
      BY <3>1, <3>2 DEF Counters
  <2>5. /\ Len(u.keys) = Len(t.keys) + 1 /\ Len(u.index) = Len(t.keys) + 1
        /\ DOMAIN u.keys = 1..(Len(t.keys) + 1)
        /\ u.keys[Len(t.keys) + 1] = key /\ u.index[Len(t.keys) + 1] = n
        /\ \A i \in DOMAIN t.keys : u.keys[i] = t.keys[i] /\ u.index[i] = t.index[i]
    BY <1>1, <2>1, <2>2
  <2>6. \A i \in DOMAIN t.keys :
          /\ t.keys[i] # key
          /\ ParentDecision(t.keys[i]) \in DOMAIN t.next
          /\ t.index[i] \in Nat /\ t.index[i] < t.next[ParentDecision(t.keys[i])]
          /\ ParentDecision(t.keys[i]) = pd => t.index[i] < n
    <3>1. \A i \in DOMAIN t.keys : t.keys[i] # key
      BY <1>3 DEF ToSet
    <3> HIDE DEF pd
    <3> QED
      BY <1>1, <3>1 DEF TableInv, NextIndex
  <2> HIDE DEF pd, n
  <2>7. TableInv(u)
    <3>1. \A i \in DOMAIN u.keys :
            /\ ParentDecision(u.keys[i]) \in DOMAIN u.next
            /\ u.index[i] < u.next[ParentDecision(u.keys[i])]
      <4> SUFFICES ASSUME NEW i \in DOMAIN u.keys
                   PROVE  /\ ParentDecision(u.keys[i]) \in DOMAIN u.next
                          /\ u.index[i] < u.next[ParentDecision(u.keys[i])]
        OBVIOUS
      <4>1. CASE i \in DOMAIN t.keys
        <5> DEFINE q == ParentDecision(t.keys[i])
        <5>1. q \in DOMAIN t.next /\ t.index[i] \in Nat /\ t.index[i] < t.next[q] /\ (q = pd => t.index[i] < n)
          BY <4>1, <2>6
        <5>2. u.keys[i] = t.keys[i] /\ u.index[i] = t.index[i]
          BY <4>1, <2>5
        <5> HIDE DEF q
        <5>3. q \in DOMAIN u.next /\ u.next[q] = IF q = pd THEN n + 1 ELSE t.next[q]
          BY <5>1, <2>2
        <5> QED
          BY <5>1, <5>2, <5>3, <2>1 DEF q
      <4>2. CASE i = Len(t.keys) + 1
        BY <4>2, <2>1, <2>2, <2>5 DEF pd
      <4> QED
        BY <4>1, <4>2, <2>5, <1>1
    <3>2. \A i, j \in DOMAIN u.keys : i # j => u.keys[i] # u.keys[j]
      BY <1>1, <2>5, <2>6 DEF TableInv
    <3>3. \A i, j \in DOMAIN u.keys :
            i # j /\ ParentDecision(u.keys[i]) = ParentDecision(u.keys[j]) => u.index[i] # u.index[j]
      <4> SUFFICES ASSUME NEW i \in DOMAIN u.keys, NEW j \in DOMAIN u.keys, i # j,
                          ParentDecision(u.keys[i]) = ParentDecision(u.keys[j])
                   PROVE  u.index[i] # u.index[j]
        OBVIOUS
      <4>1. CASE i \in DOMAIN t.keys /\ j \in DOMAIN t.keys
        BY <4>1, <1>1, <2>5 DEF TableInv
      <4>2. CASE i \in DOMAIN t.keys /\ j = Len(t.keys) + 1
        BY <4>2, <2>1, <2>5, <2>6 DEF pd
      <4>3. CASE j \in DOMAIN t.keys /\ i = Len(t.keys) + 1
        BY <4>3, <2>1, <2>5, <2>6 DEF pd
      <4> QED
        BY <4>1, <4>2, <4>3, <2>5, <1>1
    <3> QED
      BY <3>1, <3>2, <3>3, <2>5 DEF TableInv
  <2>8. u \in Tables
    BY <2>2, <2>3, <2>4, <2>7 DEF Tables
  <2>9. key \in ToSet(u.keys)
    BY <2>5, <1>1 DEF ToSet
  <2>10. Continues(t, u)
    BY <2>5, <1>1 DEF Continues
  <2> QED
    BY <2>8, <2>9, <2>10 DEF u
<1> QED
  BY <1>2, <1>3

LEMMA PoppedAllocated ==
    ASSUME NEW t \in Tables, NEW key \in Keys, key \notin ToSet(t.keys)
    PROVE  Popped(Allocated(t, key)) = t /\ Len(Allocated(t, key).keys) = Len(t.keys) + 1
<1> DEFINE u == Allocated(t, key)
           pd == ParentDecision(key)
           n == NextIndex(t, pd)
<1>1. /\ t.keys \in Seq(Keys) /\ t.index \in Seq(Nat)
      /\ Len(t.index) = Len(t.keys)
      /\ t = [keys |-> t.keys, index |-> t.index, next |-> t.next]
      /\ t.next = [x \in DOMAIN t.next |-> t.next[x]]
      /\ \A x \in DOMAIN t.next : t.next[x] \in Nat /\ t.next[x] # 0
  BY TableTypes DEF TableInv
<1>2. n \in Nat
  BY <1>1 DEF NextIndex
<1>3. /\ u.keys = Append(t.keys, key) /\ u.index = Append(t.index, n)
      /\ u.next = [x \in DOMAIN t.next \cup {pd} |-> IF x = pd THEN n + 1 ELSE t.next[x]]
  BY DEF Allocated
<1> HIDE DEF u
<1>4. /\ Len(u.keys) = Len(t.keys) + 1
      /\ u.keys[Len(u.keys)] = key /\ u.index[Len(u.keys)] = n
      /\ SubSeq(u.keys, 1, Len(u.keys) - 1) = t.keys
      /\ SubSeq(u.index, 1, Len(u.keys) - 1) = t.index
  <2>1. Len(u.keys) = Len(t.keys) + 1 /\ u.keys[Len(u.keys)] = key /\ u.index[Len(u.keys)] = n
    BY <1>1, <1>2, <1>3
  <2>2. \A S : \A s \in Seq(S), x \in S : SubSeq(Append(s, x), 1, Len(s)) = s
    OBVIOUS
  <2>3. Len(u.keys) - 1 = Len(t.keys)
    BY <2>1, <1>1
  <2> QED
    BY <2>1, <2>2, <2>3, <1>1, <1>2, <1>3
<1>5. (IF n = 0 THEN Without(u.next, {pd}) ELSE [u.next EXCEPT ![pd] = n]) = t.next
  <2>1. CASE pd \in DOMAIN t.next
    <3>1. n = t.next[pd] /\ n # 0
      BY <2>1, <1>1 DEF NextIndex
    <3> HIDE DEF pd, n
    <3>2. u.next = [x \in DOMAIN t.next |-> IF x = pd THEN n + 1 ELSE t.next[x]]
      BY <2>1, <1>3
    <3>3. [u.next EXCEPT ![pd] = n] = [x \in DOMAIN t.next |-> t.next[x]]
      BY <3>1, <3>2
    <3> QED
      BY <3>1, <3>3, <1>1
  <2>2. CASE pd \notin DOMAIN t.next
    <3>1. n = 0
      BY <2>2 DEF NextIndex
    <3> HIDE DEF pd, n
    <3>2. DOMAIN u.next \ {pd} = DOMAIN t.next
      BY <2>2, <1>3
    <3>3. Without(u.next, {pd}) = [x \in DOMAIN t.next |-> t.next[x]]
      BY <2>2, <3>2, <1>3 DEF Without
    <3> QED
      BY <3>1, <3>3, <1>1
  <2> QED
    BY <2>1, <2>2
<1>6. Popped(u) = [keys |-> t.keys, index |-> t.index, next |-> t.next]
  BY <1>4, <1>5 DEF Popped
<1> QED
  BY <1>1, <1>4, <1>6 DEF u

LEMMA AllocatedAllIs ==
    ASSUME NEW t, NEW keys, Len(keys) \in {1, 2}
    PROVE  AllocatedAll(t, keys) = IF Len(keys) = 1 THEN Allocated(t, keys[1])
                                   ELSE Allocated(Allocated(t, keys[1]), keys[2])
<1> DEFINE N == Len(keys)
           grown == CHOOSE f : f = [n \in 0..N |-> IF n = 0 THEN t ELSE Allocated(f[n - 1], keys[n])]
           one == Allocated(t, keys[1])
           two == Allocated(one, keys[2])
           g == [n \in 0..N |-> IF n = 0 THEN t ELSE IF n = 1 THEN one ELSE two]
<1>1. g = [n \in 0..N |-> IF n = 0 THEN t ELSE Allocated(g[n - 1], keys[n])]
  <2>1. \A n \in 0..N : g[n] = IF n = 0 THEN t ELSE Allocated(g[n - 1], keys[n])
    <3> SUFFICES ASSUME NEW n \in 0..N
                 PROVE  g[n] = IF n = 0 THEN t ELSE Allocated(g[n - 1], keys[n])
      OBVIOUS
    <3>1. n \in {0, 1, 2}
      OBVIOUS
    <3>2. g[0] = t /\ g[1] = one /\ (n = 2 => g[2] = two)
      OBVIOUS
    <3> HIDE DEF g
    <3>3. CASE n = 0
      BY <3>3, <3>2
    <3>4. CASE n = 1
      BY <3>4, <3>2
    <3>5. CASE n = 2
      BY <3>5, <3>2
    <3> QED
      BY <3>1, <3>3, <3>4, <3>5
  <2> QED
    BY <2>1
<1>2. grown = [n \in 0..N |-> IF n = 0 THEN t ELSE Allocated(grown[n - 1], keys[n])]
  <2> HIDE DEF g
  <2> QED
    BY <1>1
<1>3. AllocatedAll(t, keys) = grown[N]
  BY DEF AllocatedAll
<1> HIDE DEF grown, g
<1>4. grown[0] = t
  BY <1>2
<1>5. grown[1] = one
  BY <1>2, <1>4
<1>6. N = 2 => grown[2] = two
  BY <1>2, <1>5
<1> QED
  BY <1>3, <1>5, <1>6

LEMMA RestoreIs ==
    ASSUME NEW u, NEW mark, Len(u.keys) - mark \in {0, 1, 2}
    PROVE  Restore(u, mark) = IF Len(u.keys) - mark = 0 THEN u
                              ELSE IF Len(u.keys) - mark = 1 THEN Popped(u) ELSE Popped(Popped(u))
<1> DEFINE N == Len(u.keys) - mark
           left == CHOOSE f : f = [i \in 0..N |-> IF i = 0 THEN u ELSE Popped(f[i - 1])]
           g == [i \in 0..N |-> IF i = 0 THEN u ELSE IF i = 1 THEN Popped(u) ELSE Popped(Popped(u))]
<1>1. g = [i \in 0..N |-> IF i = 0 THEN u ELSE Popped(g[i - 1])]
  <2>1. \A n \in 0..N : g[n] = IF n = 0 THEN u ELSE Popped(g[n - 1])
    <3> SUFFICES ASSUME NEW n \in 0..N PROVE  g[n] = IF n = 0 THEN u ELSE Popped(g[n - 1])
      OBVIOUS
    <3> HIDE DEF N
    <3>1. N \in {0, 1, 2}
      BY DEF N
    <3>2. n \in {0, 1, 2}
      BY <3>1
    <3>3. g[0] = u /\ (n # 0 => g[1] = Popped(u)) /\ (n = 2 => g[2] = Popped(Popped(u)))
      BY <3>1
    <3> HIDE DEF g
    <3>4. CASE n = 0
      BY <3>4, <3>3
    <3>5. CASE n = 1
      BY <3>5, <3>3
    <3>6. CASE n = 2
      BY <3>6, <3>3
    <3> QED
      BY <3>2, <3>4, <3>5, <3>6
  <2> QED
    BY <2>1
<1>2. left = [i \in 0..N |-> IF i = 0 THEN u ELSE Popped(left[i - 1])]
  <2> HIDE DEF g
  <2> QED
    BY <1>1
<1>3. Restore(u, mark) = left[N]
  BY DEF Restore
<1>4. N \in {0, 1, 2}
  OBVIOUS
<1> HIDE DEF left, g, N
<1>5. left[0] = u
  BY <1>2, <1>4
<1>6. N # 0 => left[1] = Popped(u)
  BY <1>2, <1>4, <1>5
<1>7. N = 2 => left[2] = Popped(Popped(u))
  BY <1>2, <1>6
<1> QED
  BY <1>3, <1>4, <1>5, <1>6, <1>7 DEF N

LEMMA OnceBack ==
    ASSUME NEW t \in Tables, NEW key \in Keys
    PROVE  \/ Allocated(t, key) = t
           \/ Popped(Allocated(t, key)) = t /\ Len(Allocated(t, key).keys) = Len(t.keys) + 1
<1>1. CASE key \in ToSet(t.keys)
  BY <1>1 DEF Allocated
<1>2. CASE key \notin ToSet(t.keys)
  BY <1>2, PoppedAllocated
<1> QED
  BY <1>1, <1>2

(* A batch of one or two items: the table it leaves lists all of its keys, *)
(* keeps what was there, and goes back to what it was.                     *)
LEMMA BatchTable ==
    ASSUME NEW t \in Tables, NEW keys \in Seq(Keys), Len(keys) \in {1, 2}
    PROVE  /\ AllocatedAll(t, keys) \in Tables
           /\ Continues(t, AllocatedAll(t, keys))
           /\ \A k \in DOMAIN keys : keys[k] \in ToSet(AllocatedAll(t, keys).keys)
           /\ Restore(AllocatedAll(t, keys), Snapshot(t)) = t
<1> DEFINE one == Allocated(t, keys[1])
           two == Allocated(one, keys[2])
           u == AllocatedAll(t, keys)
<1>0. keys[1] \in Keys /\ (Len(keys) = 2 => keys[2] \in Keys)
  OBVIOUS
<1>1. u = IF Len(keys) = 1 THEN one ELSE two
  BY AllocatedAllIs
<1>2. one \in Tables /\ keys[1] \in ToSet(one.keys) /\ Continues(t, one)
  BY <1>0, AllocatedTable
<1>3. Len(t.keys) \in Nat /\ Len(one.keys) \in Nat
  BY <1>2, TableTypes
<1>4. \/ one = t
      \/ Popped(one) = t /\ Len(one.keys) = Len(t.keys) + 1
  BY <1>0, OnceBack
<1> HIDE DEF one, u
<1>5. CASE Len(keys) = 1
  <2>1. u = one
    BY <1>1, <1>5
  <2>2. Len(u.keys) - Len(t.keys) \in {0, 1, 2}
    BY <1>3, <1>4, <2>1
  <2>3. Restore(u, Len(t.keys)) = t
    BY <1>3, <1>4, <2>1, <2>2, RestoreIs
  <2>4. DOMAIN keys = {1}
    BY <1>5
  <2> QED
    BY <1>2, <2>1, <2>3, <2>4 DEF u, Snapshot
<1>6. CASE Len(keys) = 2
  <2>1. u = two
    BY <1>1, <1>6
  <2>2. two \in Tables /\ keys[2] \in ToSet(two.keys) /\ Continues(one, two)
    BY <1>0, <1>2, <1>6, AllocatedTable
  <2>3. \/ two = one
        \/ Popped(two) = one /\ Len(two.keys) = Len(one.keys) + 1
    BY <1>0, <1>2, <1>6, OnceBack
  <2> HIDE DEF two
  <2>4. Len(u.keys) - Len(t.keys) \in {0, 1, 2}
    BY <1>3, <1>4, <2>1, <2>3
  <2>5. Restore(u, Len(t.keys)) = t
    <3>1. Restore(u, Len(t.keys)) = IF Len(u.keys) - Len(t.keys) = 0 THEN u
                     ELSE IF Len(u.keys) - Len(t.keys) = 1 THEN Popped(u) ELSE Popped(Popped(u))
      BY <2>4, RestoreIs
    <3>2. CASE two = one
      BY <3>1, <3>2, <1>3, <1>4, <2>1
    <3>3. CASE Popped(two) = one /\ Len(two.keys) = Len(one.keys) + 1
      BY <3>1, <3>3, <1>3, <1>4, <2>1
    <3> QED
      BY <3>2, <3>3, <2>3
  <2>6. Continues(t, two)
    BY <1>2, <2>2, <1>3, TableTypes DEF Continues
  <2>7. keys[1] \in ToSet(two.keys)
    BY <1>2, <2>2 DEF ToSet, Continues
  <2>8. DOMAIN keys = {1, 2}
    BY <1>6
  <2> QED
    BY <2>1, <2>2, <2>5, <2>6, <2>7, <2>8 DEF u, Snapshot
<1> QED
  BY <1>5, <1>6

(* What a work item is built from is what the table says of its key.       *)
LEMMA HypothesisListed ==
    ASSUME NEW u \in Tables, NEW key \in ToSet(u.keys)
    PROVE  /\ HypothesisIndexFor(u, key) \in Nat
           /\ \E i \in DOMAIN u.keys : u.keys[i] = key /\ u.index[i] = HypothesisIndexFor(u, key)
<1>1. \E i \in DOMAIN u.keys : u.keys[i] = key
  BY DEF ToSet
<1>2. Position(u, key) \in DOMAIN u.keys /\ u.keys[Position(u, key)] = key
  BY <1>1 DEF Position
<1>3. HypothesisIndexFor(u, key) = u.index[Position(u, key)]
  BY DEF HypothesisIndexFor
<1>4. u.index[Position(u, key)] \in Nat
  <2>1. u.index \in Seq(Nat) /\ DOMAIN u.index = 1..Len(u.keys) /\ DOMAIN u.keys = 1..Len(u.keys)
    BY TableTypes
  <2> QED
    BY <1>2, <2>1
<1> QED
  BY <1>2, <1>3, <1>4

-----------------------------------------------------------------------------
(***************************************************************************)
(* What a ledger is made of.                                               *)
(***************************************************************************)
LEMMA BookFnsFacts ==
    /\ \A f \in BookFns : DOMAIN f \subseteq Branches /\ \A b \in DOMAIN f : f[b] \in Books
    /\ \A f : \A D \in SUBSET Branches : f \in [D -> Books] => f \in BookFns
BY DEF BookFns

LEMMA RefFnsFacts ==
    /\ \A f \in RefFns : DOMAIN f \subseteq PlanKeys /\ \A k \in DOMAIN f : f[k] \in SUBSET Branches
    /\ \A f : \A D \in SUBSET PlanKeys : f \in [D -> SUBSET Branches] => f \in RefFns
BY DEF RefFns

LEMMA LedgerFields ==
    ASSUME NEW l \in Ledgers
    PROVE  /\ l.known \in SUBSET Ids /\ l.books \in BookFns /\ l.order \in Seq(Branches)
           /\ l.reserved \in SUBSET Branches /\ l.dps \in Decisions
           /\ l.phase \in [on : BOOLEAN, records : Records, table : Tables] /\ l.refs \in RefFns
BY DEF Ledgers

LEMMA EmptyTable == NoHypotheses \in Tables
<1>1. NoHypotheses.next \in [{} -> Nat \ {0}]
  BY DEF NoHypotheses
<1>2. NoHypotheses.next \in Counters
  BY <1>1 DEF Counters
<1>3. TableInv(NoHypotheses)
  BY DEF TableInv, NoHypotheses
<1> QED
  BY <1>2, <1>3 DEF Tables, NoHypotheses

LEMMA EmptyPhases ==
    /\ NoPhase \in [on : BOOLEAN, records : Records, table : Tables]
    /\ NewPhase \in [on : BOOLEAN, records : Records, table : Tables]
    /\ NoPhase.on = FALSE /\ NoPhase.records = <<>> /\ NewPhase.on = TRUE /\ NewPhase.records = <<>>
<1>1. NoPhase = [on |-> FALSE, records |-> <<>>, table |-> NoHypotheses]
  BY DEF NoPhase
<1>2. <<>> \in Records
  BY DEF Records
<1>3. /\ NoPhase \in [on : BOOLEAN, records : Records, table : Tables]
      /\ NoPhase.on = FALSE /\ NoPhase.records = <<>>
  BY <1>1, <1>2, EmptyTable
<1>4. NewPhase = [NoPhase EXCEPT !.on = TRUE]
  BY DEF NewPhase
<1> QED
  BY <1>3, <1>4

LEMMA SamePhase ==
    ASSUME NEW p \in [on : BOOLEAN, records : Records, table : Tables], NEW recs \in Records
    PROVE  LET q == [p EXCEPT !.records = recs] IN
           /\ q \in [on : BOOLEAN, records : Records, table : Tables]
           /\ q.on = p.on /\ q.records = recs /\ q.table = p.table
           /\ recs = p.records => q = p
OBVIOUS

LEMMA EmptyRefs == << >> \in RefFns /\ \A key : Ref(<< >>, key) = {}
<1>1. << >> \in [{} -> SUBSET Branches]
  OBVIOUS
<1> QED
  BY <1>1, RefFnsFacts DEF Ref

LEMMA RootIsNoBranch == Root \in Ids /\ Root \notin Branches
BY RootAssumption DEF Ids

LEMMA IssueTypes ==
    ASSUME NEW d \in Decisions, NEW bs
    PROVE  /\ Issue(d, bs) \in Decisions
           /\ \A b \in Ids :
                /\ Issue(d, bs).current[b] = IF b \in bs THEN d.issued[b] + 1 ELSE d.current[b]
                /\ Issue(d, bs).issued[b] = d.issued[b] + (IF b \in bs THEN 1 ELSE 0)
BY DEF Issue, Decisions

LEMMA ClearTypes ==
    ASSUME NEW d \in Decisions, NEW bs
    PROVE  /\ Clear(d, bs) \in Decisions
           /\ Clear(d, bs).issued = d.issued
           /\ \A b \in Ids : Clear(d, bs).current[b] = IF b \in bs THEN 0 ELSE d.current[b]
BY DEF Clear, Decisions

LEMMA OverTypes ==
    ASSUME NEW book \in Books, NEW status \in Statuses
    PROVE  /\ Over(book, status) \in Books /\ IsOver(Over(book, status))
           /\ Over(book, status).view = "none" /\ Over(book, status).plan = NoKey
           /\ Over(book, status).internal = book.internal /\ Over(book, status).status = status
BY DEF Over, Books, IsOver, NoKey, Ids

LEMMA TombstoneTypes ==
    ASSUME NEW book \in Books
    PROVE  /\ Tombstoned(book) \in Books /\ IsOver(Tombstoned(book))
           /\ Tombstoned(book).view = "none" /\ Tombstoned(book).plan = NoKey
           /\ Tombstoned(book).internal = book.internal
<1>1. (IF book.status \in Ended THEN book.status ELSE "released") \in Statuses
  BY DEF Books, Statuses, Ended
<1> QED
  BY <1>1, OverTypes DEF Tombstoned

(* Tables tell keys apart, so what is linked follows the rng ids.          *)
LEMMA LinkedFollow ==
    ASSUME NEW l \in Ledgers, AllLinked(l)
    PROVE  Follow(l)
<1> SUFFICES ASSUME NEW a \in DOMAIN l.books, NEW b \in DOMAIN l.books,
                    l.books[a].internal # 0, l.books[b].internal # 0,
                    l.books[a].parent = l.books[b].parent, l.books[a].decision = l.books[b].decision
             PROVE  l.books[a].rng = l.books[b].rng <=> l.books[a].hypothesis = l.books[b].hypothesis
  BY DEF Follow
<1> DEFINE x == l.books[a]
           y == l.books[b]
           t == l.phase.table
<1>1. (IsOver(x) \/ Linked(t, x)) /\ (IsOver(y) \/ Linked(t, y))
  BY DEF AllLinked
<1>2. CASE IsOver(x) \/ IsOver(y)
  BY <1>1, <1>2 DEF IsOver, Linked
<1>3. CASE Linked(t, x) /\ Linked(t, y)
  <2>1. PICK i \in DOMAIN t.keys :
          t.keys[i] = KeyOf(x.parent, x.decision, x.rng) /\ t.index[i] = x.hypothesis
    BY <1>3 DEF Linked
  <2>2. PICK j \in DOMAIN t.keys :
          t.keys[j] = KeyOf(y.parent, y.decision, y.rng) /\ t.index[j] = y.hypothesis
    BY <1>3 DEF Linked
  <2>3. t \in Tables
    BY LedgerFields
  <2>4. TableInv(t)
    BY <2>3, TableTypes
  <2>5. ParentDecision(t.keys[i]) = ParentDecision(t.keys[j])
    BY <2>1, <2>2 DEF KeyOf, ParentDecision
  <2>6. i = j \/ (t.keys[i] # t.keys[j] /\ t.index[i] # t.index[j])
    BY <2>4, <2>5 DEF TableInv
  <2>7. t.keys[i] = t.keys[j] <=> x.rng = y.rng
    BY <2>1, <2>2 DEF KeyOf
  <2> QED
    BY <2>1, <2>2, <2>6, <2>7
<1> QED
  BY <1>1, <1>2, <1>3

LEMMA OverFollow ==
    ASSUME NEW l, AllOver(l)
    PROVE  Follow(l)
BY DEF AllOver, Follow, IsOver

LEMMA LedgersFollow ==
    ASSUME NEW l, NEW f, LedgerInv(l, f)
    PROVE  Follow(l)
<1>1. l \in Ledgers /\ LinkInv(l, f)
  BY DEF LedgerInv
<1>2. CASE l.phase.on
  BY <1>1, <1>2, LinkedFollow DEF LinkInv
<1>3. CASE ~l.phase.on
  BY <1>1, <1>3 DEF LinkInv
<1> QED
  BY <1>2, <1>3

-----------------------------------------------------------------------------
(***************************************************************************)
(* Releasing.                                                              *)
(***************************************************************************)
LEMMA ReleaseRecordsFacts ==
    ASSUME NEW recs \in Records, NEW ids, NEW respawns
    PROVE  LET m == ReleaseRecords(recs, ids, respawns) IN
           /\ m \in Records /\ DOMAIN m = DOMAIN recs
           /\ \A i \in DOMAIN recs : m[i].state = recs[i].state \/ m[i].state = "released"
           /\ recs = <<>> => m = <<>>
           /\ ~ReleaseRaises(recs, ids, respawns) =>
                \A k \in DOMAIN ids : ids[k] \in DOMAIN recs /\ m[ids[k]].state = "released"
<1> DEFINE m == ReleaseRecords(recs, ids, respawns)
           Hit(i) == \E k \in DOMAIN ids :
                       ids[k] = i /\ \A j \in DOMAIN ids : j <= k => ~Blocked(recs, ids[j], respawns)
<1>1. recs \in Seq([state : Statuses, parent : Nat]) /\ DOMAIN recs = 1..Len(recs) /\ Len(recs) \in Nat
  BY DEF Records
<1>2. m = [i \in DOMAIN recs |-> IF Hit(i) THEN [recs[i] EXCEPT !.state = "released"] ELSE recs[i]]
  BY DEF ReleaseRecords
<1>3. \A i \in DOMAIN recs : recs[i] \in [state : Statuses, parent : Nat]
  <2> DEFINE S == [state : Statuses, parent : Nat]
  <2>1. recs \in Seq(S)
    BY <1>1
  <2> HIDE DEF S
  <2>2. \A i \in DOMAIN recs : recs[i] \in S
    BY <2>1
  <2> QED
    BY <2>2 DEF S
<1> HIDE DEF m, Hit
<1>4. \A i \in DOMAIN recs : /\ m[i] \in [state : Statuses, parent : Nat]
                             /\ m[i].state = recs[i].state \/ m[i].state = "released"
                             /\ Hit(i) => m[i].state = "released"
  BY <1>2, <1>3 DEF Statuses
<1>5. m \in Records /\ DOMAIN m = DOMAIN recs
  BY <1>1, <1>2, <1>4 DEF Records
<1>6. recs = <<>> => m = <<>>
  BY <1>2
<1>7. ASSUME ~ReleaseRaises(recs, ids, respawns), NEW k \in DOMAIN ids
      PROVE  ids[k] \in DOMAIN recs /\ m[ids[k]].state = "released"
  <2>1. \A j \in DOMAIN ids : ~Blocked(recs, ids[j], respawns)
    BY <1>7 DEF ReleaseRaises
  <2>2. ids[k] \in DOMAIN recs
    BY <2>1 DEF Blocked
  <2>3. Hit(ids[k])
    BY <2>1 DEF Hit
  <2> QED
    BY <2>2, <2>3, <1>4
<1> QED
  BY <1>4, <1>5, <1>6, <1>7 DEF m

(* A release that stopped half-way only released records.                  *)
LEMMA InterruptedKeeps ==
    ASSUME NEW l, NEW f \in BOOLEAN, NEW respawns, LedgerInv(l, f)
    PROVE  LET m == Interrupted(l, respawns) IN
           /\ LedgerInv(m, f)
           /\ m.books = l.books /\ m.dps = l.dps /\ m.phase.on = l.phase.on
<1> DEFINE m == Interrupted(l, respawns)
           recs == l.phase.records
           new == ReleaseRecords(recs, PhaseIds(l), respawns)
<1>1. /\ l \in Ledgers /\ BookInv(l) /\ ReserveInv(l, f) /\ LinkInv(l, f) /\ RefInv(l)
  BY DEF LedgerInv
<1>2. l.phase \in [on : BOOLEAN, records : Records, table : Tables]
  BY <1>1, LedgerFields
<1>3. /\ new \in Records /\ DOMAIN new = DOMAIN recs
      /\ \A i \in DOMAIN recs : new[i].state = recs[i].state \/ new[i].state = "released"
      /\ recs = <<>> => new = <<>>
  BY <1>2, ReleaseRecordsFacts
<1>4. m = [l EXCEPT !.phase = [l.phase EXCEPT !.records = new]]
  BY <1>1, <1>2 DEF Interrupted, Ledgers
<1> HIDE DEF new
<1>5. /\ m \in Ledgers
      /\ m.known = l.known /\ m.books = l.books /\ m.order = l.order /\ m.reserved = l.reserved
      /\ m.dps = l.dps /\ m.refs = l.refs
      /\ m.phase.on = l.phase.on /\ m.phase.table = l.phase.table /\ m.phase.records = new
  BY <1>1, <1>2, <1>3, <1>4 DEF Ledgers
<1>6. l.phase = NoPhase => m.phase = NoPhase
  <2>1. m.phase = [l.phase EXCEPT !.records = new]
    BY <1>1, <1>4 DEF Ledgers
  <2> QED
    BY <2>1, <1>2, <1>3, SamePhase, EmptyPhases
<1> HIDE DEF m
<1>7. BookInv(m) /\ RefInv(m)
  BY <1>1, <1>5 DEF BookInv, RefInv
<1>8. ReserveInv(m, f)
  BY <1>1, <1>3, <1>5, <1>6 DEF ReserveInv, PaidFor, Knows
<1>9. LinkInv(m, f)
  BY <1>1, <1>5 DEF LinkInv, AllLinked, Follow, AllOver
<1> QED
  BY <1>5, <1>7, <1>8, <1>9 DEF LedgerInv, m

(* A release that went through ends every Branch and gives everything back.*)
LEMMA ReleaseAllKeeps ==
    ASSUME NEW l, NEW f \in BOOLEAN, NEW g \in BOOLEAN, NEW respawns, LedgerInv(l, f),
           ~ReleaseAllRaises(l, respawns)
    PROVE  LET m == ReleaseAll(l, respawns) IN
           /\ LedgerInv(m, g) /\ LedgerInv([m EXCEPT !.phase = NoPhase], g)
           /\ DOMAIN m.books = DOMAIN l.books
           /\ \A b \in DOMAIN m.books : m.books[b].view = "none"
           /\ m.dps.current[Root] = l.dps.current[Root]
           /\ m.dps.issued[Root] = l.dps.issued[Root] /\ m.phase.on = l.phase.on
<1> DEFINE m == ReleaseAll(l, respawns)
           w == [m EXCEPT !.phase = NoPhase]
           recs == l.phase.records
           ids == PhaseIds(l)
           new == ReleaseRecords(recs, ids, respawns)
           over == [b \in DOMAIN l.books |-> Tombstoned(l.books[b])]
<1>1. /\ l \in Ledgers /\ BookInv(l) /\ ReserveInv(l, f)
  BY DEF LedgerInv
<1>2. /\ l.phase \in [on : BOOLEAN, records : Records, table : Tables] /\ l.books \in BookFns
      /\ l.dps \in Decisions /\ l.reserved \in SUBSET Branches /\ l.order \in Seq(Branches)
  BY <1>1, LedgerFields
<1>3. DOMAIN l.books \subseteq Branches /\ \A b \in DOMAIN l.books : l.books[b] \in Books
  BY <1>2, BookFnsFacts
<1>4. ~ReleaseRaises(recs, ids, respawns)
  BY DEF ReleaseAllRaises
<1>5. /\ new \in Records /\ DOMAIN new = DOMAIN recs
      /\ \A i \in DOMAIN recs : new[i].state = recs[i].state \/ new[i].state = "released"
      /\ recs = <<>> => new = <<>>
      /\ \A k \in DOMAIN ids : ids[k] \in DOMAIN recs /\ new[ids[k]].state = "released"
  BY <1>2, <1>4, ReleaseRecordsFacts
<1>6. \A i \in DOMAIN new : new[i].state = "released"
  <2> SUFFICES ASSUME NEW i \in DOMAIN recs, recs[i].state # "released"
               PROVE  new[i].state = "released"
    BY <1>5
  <2>1. PICK b \in l.reserved : l.books[b].internal = i
    BY <1>1 DEF ReserveInv, PaidFor
  <2>2. b \in DOMAIN l.books
    BY <1>1, <2>1 DEF BookInv
  <2>3. PICK k \in DOMAIN l.order : l.order[k] = b
    BY <1>1, <2>2 DEF BookInv
  <2>4. recs # <<>>
    OBVIOUS
  <2>5. l.phase.on
    BY <1>1, <2>4, EmptyPhases DEF ReserveInv
  <2>6. l.books[b].status # "released"
    BY <1>1, <2>1, <2>5 DEF ReserveInv, Knows
  <2>7. i # 0
    BY <1>2 DEF Records
  <2>8. k \in DOMAIN ids /\ ids[k] = i
    BY <2>1, <2>3, <2>6, <2>7 DEF PhaseIds
  <2> QED
    BY <2>8, <1>5
<1>7. m = [l EXCEPT !.phase = [l.phase EXCEPT !.records = new], !.books = over,
                    !.dps = Clear(l.dps, DOMAIN l.books), !.reserved = l.reserved \ DOMAIN l.books,
                    !.refs = << >>]
  BY <1>1, <1>2 DEF ReleaseAll, Interrupted, Ledgers
<1>8. /\ over \in [DOMAIN l.books -> Books]
      /\ \A b \in DOMAIN l.books : /\ IsOver(over[b]) /\ over[b].view = "none"
                                   /\ over[b].plan = NoKey
  BY <1>3, TombstoneTypes
<1>9. over \in BookFns
  BY <1>3, <1>8, BookFnsFacts
<1>10. l.reserved \ DOMAIN l.books = {}
  BY <1>1 DEF BookInv
<1>11. Clear(l.dps, DOMAIN l.books) \in Decisions
       /\ Clear(l.dps, DOMAIN l.books).current[Root] = l.dps.current[Root]
       /\ Clear(l.dps, DOMAIN l.books).issued = l.dps.issued
  BY <1>2, <1>3, ClearTypes, RootIsNoBranch
<1> HIDE DEF new, over
<1>12. /\ m \in Ledgers
       /\ m.known = l.known /\ m.books = over /\ m.order = l.order /\ m.reserved = {}
       /\ m.dps = Clear(l.dps, DOMAIN l.books) /\ m.refs = << >>
       /\ m.phase.on = l.phase.on /\ m.phase.records = new
       /\ m.phase = [l.phase EXCEPT !.records = new]
  <2> DEFINE p == [l.phase EXCEPT !.records = new]
             d == Clear(l.dps, DOMAIN l.books)
  <2>1. p \in [on : BOOLEAN, records : Records, table : Tables] /\ p.on = l.phase.on /\ p.records = new
    BY <1>2, <1>5, SamePhase
  <2>2. m = [l EXCEPT !.phase = p, !.books = over, !.dps = d, !.reserved = {}, !.refs = << >>]
    BY <1>7, <1>10
  <2>3. d \in Decisions /\ << >> \in RefFns
    BY <1>11, EmptyRefs
  <2> HIDE DEF p, d, m
  <2>4. /\ m \in Ledgers
        /\ m.known = l.known /\ m.books = over /\ m.order = l.order /\ m.reserved = {}
        /\ m.dps = d /\ m.refs = << >> /\ m.phase = p
    BY <1>1, <1>9, <2>1, <2>2, <2>3 DEF Ledgers
  <2> QED
    BY <2>1, <2>4 DEF d, p
<1>13. l.phase = NoPhase => m.phase = NoPhase
  BY <1>2, <1>5, <1>12, SamePhase, EmptyPhases
<1> HIDE DEF m
<1>14. /\ w \in Ledgers
       /\ w.known = l.known /\ w.books = over /\ w.order = l.order /\ w.reserved = {}
       /\ w.dps = Clear(l.dps, DOMAIN l.books) /\ w.refs = << >> /\ w.phase = NoPhase
  BY <1>12, EmptyPhases DEF Ledgers
<1> HIDE DEF w
<1>15. DOMAIN over = DOMAIN l.books
  BY <1>8
<1>16. IsFiniteSet({}) /\ Cardinality({}) = 0
  BY FS_EmptySet
<1>17. BookInv(m) /\ BookInv(w)
  <2>1. l.dps.current[Root] <= l.dps.issued[Root]
    BY <1>1 DEF BookInv
  <2>2. 0 <= max_branches
    BY CapacityIsNatural
  <2> QED
    BY <1>1, <1>8, <1>11, <1>12, <1>14, <1>15, <1>16, <2>1, <2>2 DEF BookInv
<1>18. ReserveInv(m, g) /\ ReserveInv(w, g)
  BY <1>1, <1>6, <1>12, <1>13, <1>14, EmptyPhases DEF ReserveInv, PaidFor, Knows
<1>19. AllOver(m) /\ AllOver(w)
  BY <1>8, <1>12, <1>14, <1>15 DEF AllOver
<1>20. LinkInv(m, g) /\ LinkInv(w, g)
  BY <1>19, <1>14, OverFollow, EmptyPhases DEF LinkInv, AllLinked, AllOver
<1>21. RefInv(m) /\ RefInv(w)
  BY <1>8, <1>12, <1>14, <1>15, EmptyRefs DEF RefInv
<1> QED
  BY <1>8, <1>11, <1>12, <1>14, <1>15, <1>17, <1>18, <1>20, <1>21 DEF LedgerInv, m, w

-----------------------------------------------------------------------------
(***************************************************************************)
(* Decision points and the phase.                                          *)
(***************************************************************************)
LEMMA DecisionsKeep ==
    ASSUME NEW l, NEW f \in BOOLEAN, LedgerInv(l, f),
           NEW d \in Decisions, d.current[Root] <= d.issued[Root]
    PROVE  LET m == [l EXCEPT !.dps = d] IN
           LedgerInv(m, f) /\ m.dps = d /\ m.books = l.books /\ m.phase = l.phase
<1> DEFINE m == [l EXCEPT !.dps = d]
<1>1. /\ l \in Ledgers /\ BookInv(l) /\ ReserveInv(l, f) /\ LinkInv(l, f) /\ RefInv(l)
  BY DEF LedgerInv
<1>2. /\ m \in Ledgers
      /\ m.known = l.known /\ m.books = l.books /\ m.order = l.order /\ m.reserved = l.reserved
      /\ m.dps = d /\ m.refs = l.refs /\ m.phase = l.phase
  BY <1>1 DEF Ledgers
<1> HIDE DEF m
<1>3. BookInv(m) /\ RefInv(m)
  BY <1>1, <1>2 DEF BookInv, RefInv
<1>4. ReserveInv(m, f)
  BY <1>1, <1>2 DEF ReserveInv, PaidFor, Knows
<1>5. LinkInv(m, f)
  BY <1>1, <1>2 DEF LinkInv, AllLinked, Follow, AllOver
<1> QED
  BY <1>2, <1>3, <1>4, <1>5 DEF LedgerInv, m

LEMMA IssueRootKeeps ==
    ASSUME NEW l, NEW f \in BOOLEAN, LedgerInv(l, f)
    PROVE  LET m == [l EXCEPT !.dps = Issue(@, {Root})] IN
           /\ LedgerInv(m, f) /\ m.books = l.books /\ m.phase = l.phase
           /\ m.dps = Issue(l.dps, {Root}) /\ m.dps.current[Root] # l.dps.current[Root]
<1>1. l \in Ledgers /\ l.dps.current[Root] <= l.dps.issued[Root]
  BY DEF LedgerInv, BookInv
<1>2. l.dps \in Decisions
  BY <1>1, LedgerFields
<1> DEFINE d == Issue(l.dps, {Root})
<1>3. d \in Decisions /\ d.current[Root] = l.dps.issued[Root] + 1 /\ d.issued[Root] = l.dps.issued[Root] + 1
  BY <1>2, IssueTypes, RootIsNoBranch
<1>4. l.dps.issued[Root] \in Nat /\ l.dps.current[Root] \in Nat
  BY <1>2, RootIsNoBranch DEF Decisions
<1>5. [l EXCEPT !.dps = Issue(@, {Root})] = [l EXCEPT !.dps = d]
  BY <1>1 DEF Ledgers
<1> HIDE DEF d
<1>6. d.current[Root] <= d.issued[Root] /\ d.current[Root] # l.dps.current[Root]
  BY <1>1, <1>3, <1>4
<1> QED
  BY <1>3, <1>5, <1>6, DecisionsKeep DEF d

(* enter_combat_phase: nothing of an earlier phase is still alive.         *)
LEMMA AdoptKeeps ==
    ASSUME NEW l, LedgerInv(l, FALSE), ~l.phase.on
    PROVE  LET m == [l EXCEPT !.phase = NewPhase, !.dps = Issue(@, {Root})] IN
           /\ LedgerInv(m, FALSE) /\ m.books = l.books /\ m.phase = NewPhase
           /\ m.dps.current[Root] # l.dps.current[Root]
<1> DEFINE m == [l EXCEPT !.phase = NewPhase]
<1>1. /\ l \in Ledgers /\ BookInv(l) /\ ReserveInv(l, FALSE) /\ LinkInv(l, FALSE) /\ RefInv(l)
  BY DEF LedgerInv
<1>2. /\ m \in Ledgers
      /\ m.known = l.known /\ m.books = l.books /\ m.order = l.order /\ m.reserved = l.reserved
      /\ m.dps = l.dps /\ m.refs = l.refs /\ m.phase = NewPhase
  BY <1>1, EmptyPhases DEF Ledgers
<1> HIDE DEF m
<1>3. BookInv(m) /\ RefInv(m)
  BY <1>1, <1>2 DEF BookInv, RefInv
<1>4. ReserveInv(m, FALSE)
  BY <1>1, <1>2, EmptyPhases DEF ReserveInv, PaidFor, Knows
<1>5. LinkInv(m, FALSE)
  BY <1>1, <1>2, EmptyPhases DEF LinkInv, AllLinked, AllOver
<1>6. LedgerInv(m, FALSE)
  BY <1>2, <1>3, <1>4, <1>5 DEF LedgerInv
<1>7. [l EXCEPT !.phase = NewPhase, !.dps = Issue(@, {Root})] = [m EXCEPT !.dps = Issue(@, {Root})]
  BY <1>1 DEF m, Ledgers
<1> DEFINE w == [m EXCEPT !.dps = Issue(@, {Root})]
<1>8. /\ LedgerInv(w, FALSE) /\ w.books = m.books /\ w.phase = m.phase
      /\ w.dps.current[Root] # m.dps.current[Root]
  <2>1. FALSE \in BOOLEAN
    OBVIOUS
  <2> QED
    BY <1>6, <2>1, IssueRootKeeps
<1> HIDE DEF w
<1>9. [l EXCEPT !.phase = NewPhase, !.dps = Issue(@, {Root})] = w
  BY <1>7 DEF w
<1> QED
  BY <1>2, <1>8, <1>9

LEMMA PhaseGone ==
    ASSUME NEW l, NEW f \in BOOLEAN, LedgerInv(l, f)
    PROVE  LedgerInv([l EXCEPT !.phase = NoPhase], TRUE)
<1> DEFINE m == [l EXCEPT !.phase = NoPhase]
<1>1. /\ l \in Ledgers /\ BookInv(l) /\ RefInv(l) /\ Follow(l)
  BY LedgersFollow DEF LedgerInv
<1>2. /\ m \in Ledgers
      /\ m.known = l.known /\ m.books = l.books /\ m.order = l.order /\ m.reserved = l.reserved
      /\ m.dps = l.dps /\ m.refs = l.refs /\ m.phase = NoPhase
  BY <1>1, EmptyPhases DEF Ledgers
<1> HIDE DEF m
<1>3. BookInv(m) /\ RefInv(m)
  BY <1>1, <1>2 DEF BookInv, RefInv
<1>4. ReserveInv(m, TRUE)
  BY <1>2, EmptyPhases DEF ReserveInv, PaidFor
<1>5. LinkInv(m, TRUE)
  BY <1>1, <1>2, EmptyPhases DEF LinkInv, Follow
<1> QED
  BY <1>2, <1>3, <1>4, <1>5 DEF LedgerInv, m

LEMMA PoisonedKeeps ==
    ASSUME NEW l, NEW f \in BOOLEAN, NEW adopted \in BOOLEAN, NEW respawns, LedgerInv(l, f)
    PROVE  LedgerInv(Poisoned(l, adopted, respawns), TRUE)
<1>1. CASE ~adopted
  BY <1>1, PhaseGone DEF Poisoned
<1>2. CASE adopted /\ ReleaseAllRaises(l, respawns)
  <2>1. LedgerInv(Interrupted(l, respawns), f)
    BY InterruptedKeeps
  <2> QED
    BY <1>2, <2>1, PhaseGone DEF Poisoned
<1>3. CASE adopted /\ ~ReleaseAllRaises(l, respawns)
  <2>1. LedgerInv([ReleaseAll(l, respawns) EXCEPT !.phase = NoPhase], TRUE)
    BY <1>3, ReleaseAllKeeps
  <2> QED
    BY <1>3, <2>1 DEF Poisoned
<1> QED
  BY <1>1, <1>2, <1>3

-----------------------------------------------------------------------------
(***************************************************************************)
(* Changing a book.  It stays on its record, and keeps what its hypothesis *)
(* was built from or is over.                                              *)
(***************************************************************************)
Kin(x, y) ==
    /\ y.internal = x.internal
    /\ \/ /\ y.parent = x.parent /\ y.rng = x.rng /\ y.decision = x.decision
          /\ y.hypothesis = x.hypothesis /\ y.plan = x.plan
       \/ IsOver(y) /\ y.plan = NoKey

LEMMA KinKeeps ==
    ASSUME NEW l, NEW f \in BOOLEAN, LedgerInv(l, f), NEW m \in Ledgers,
           m.known = l.known, m.order = l.order, m.reserved \subseteq l.reserved,
           DOMAIN m.books = DOMAIN l.books, m.reserved \subseteq DOMAIN m.books,
           m.dps.current[Root] <= m.dps.issued[Root],
           m.phase.on = l.phase.on, m.phase.table = l.phase.table,
           \A b \in DOMAIN l.books : Kin(l.books[b], m.books[b]),
           f /\ ~l.phase.on =>
             \A b \in DOMAIN l.books : l.books[b].internal # 0 => m.books[b] = l.books[b]
    PROVE  BookInv(m) /\ LinkInv(m, f)
<1>1. BookInv(l) /\ LinkInv(l, f)
  BY DEF LedgerInv
<1>2. \A b \in DOMAIN m.books : m.books[b].internal = l.books[b].internal
  BY DEF Kin
<1>3. \A b \in DOMAIN m.books : m.books[b].internal # 0 => m.books[b].plan = NoKey
  BY <1>1 DEF Kin, BookInv
<1>4. IsFiniteSet(m.reserved) /\ Cardinality(m.reserved) <= max_branches
  <2>1. IsFiniteSet(l.reserved) /\ Cardinality(l.reserved) <= max_branches
    BY <1>1 DEF BookInv
  <2>2. IsFiniteSet(m.reserved) /\ Cardinality(m.reserved) <= Cardinality(l.reserved)
    BY <2>1, FS_Subset
  <2>3. Cardinality(m.reserved) \in Nat /\ Cardinality(l.reserved) \in Nat
    BY <2>1, <2>2, FS_CardinalityType
  <2> QED
    BY <2>1, <2>2, <2>3, CapacityIsNatural
<1>5. BookInv(m)
  BY <1>1, <1>3, <1>4 DEF BookInv
<1>6. l.phase.on => AllLinked(m)
  BY <1>1, <1>2 DEF LinkInv, AllLinked, Kin, IsOver, Linked
<1>7. ~l.phase.on /\ ~f => AllOver(m)
  BY <1>1, <1>2 DEF LinkInv, AllOver, Kin, IsOver
<1>8. ~l.phase.on /\ f => Follow(m)
  <2> SUFFICES ASSUME ~l.phase.on, f PROVE Follow(m)
    OBVIOUS
  <2>1. Follow(l)
    BY <1>1 DEF LinkInv
  <2>2. \A b \in DOMAIN m.books : m.books[b].internal # 0 => m.books[b] = l.books[b]
    BY <1>2
  <2> QED
    BY <2>1, <2>2, <1>2 DEF Follow
<1>9. LinkInv(m, f)
  BY <1>6, <1>7, <1>8, OverFollow DEF LinkInv
<1> QED
  BY <1>5, <1>9

(* References follow the books.                                            *)
LEMMA SameRefs ==
    ASSUME NEW l, NEW m, RefInv(l), m.refs = l.refs, DOMAIN m.books = DOMAIN l.books,
           \A b \in DOMAIN l.books :
             \/ l.books[b].plan = NoKey /\ m.books[b].plan = NoKey
             \/ m.books[b].plan = l.books[b].plan /\ m.books[b].status = l.books[b].status
    PROVE  RefInv(m)
BY DEF RefInv

LEMMA DroppedRefs ==
    ASSUME NEW refs \in RefFns, NEW books, NEW bs
    PROVE  /\ DropRefs(refs, books, bs) \in RefFns
           /\ \A key : Ref(DropRefs(refs, books, bs), key) =
                         Ref(refs, key) \ {b \in bs : books[b].plan = key}
<1> DEFINE gone(key) == {b \in bs : books[b].plan = key}
           new == DropRefs(refs, books, bs)
           D == {k \in DOMAIN refs : ~(refs[k] \subseteq gone(k))}
<1>1. DOMAIN refs \subseteq PlanKeys /\ \A k \in DOMAIN refs : refs[k] \in SUBSET Branches
  BY RefFnsFacts
<1>2. new = [key \in D |-> refs[key] \ gone(key)]
  BY DEF DropRefs
<1> HIDE DEF new
<1>3. new \in [D -> SUBSET Branches] /\ D \in SUBSET PlanKeys
  BY <1>1, <1>2
<1>4. new \in RefFns
  BY <1>3, RefFnsFacts
<1>5. ASSUME NEW key PROVE Ref(new, key) = Ref(refs, key) \ gone(key)
  BY <1>2 DEF Ref
<1> QED
  BY <1>4, <1>5 DEF new

LEMMA DropKeeps ==
    ASSUME NEW l \in Ledgers, NEW m, RefInv(l), NEW bs,
           m.refs = DropRefs(l.refs, l.books, bs), DOMAIN m.books = DOMAIN l.books,
           \A b \in DOMAIN l.books \cap bs : m.books[b].plan = NoKey,
           \A b \in DOMAIN l.books \ bs :
             m.books[b].plan = l.books[b].plan /\ m.books[b].status = l.books[b].status
    PROVE  RefInv(m)
<1>1. l.refs \in RefFns
  BY LedgerFields
<1> SUFFICES ASSUME NEW key \in PlanKeys \ {NoKey}
             PROVE  Ref(m.refs, key) =
                      {b \in DOMAIN m.books : m.books[b].plan = key /\ m.books[b].status = "completed"}
  BY DEF RefInv
<1>2. Ref(m.refs, key) = Ref(l.refs, key) \ {b \in bs : l.books[b].plan = key}
  BY <1>1, DroppedRefs
<1>3. Ref(l.refs, key) =
        {b \in DOMAIN l.books : l.books[b].plan = key /\ l.books[b].status = "completed"}
  BY DEF RefInv
<1> QED
  BY <1>2, <1>3

LEMMA RetiredFields ==
    ASSUME NEW l \in Ledgers, NEW bs, NEW status \in Statuses
    PROVE  LET m == Retired(l, bs, status) IN
           /\ m \in Ledgers
           /\ m.known = l.known /\ m.order = l.order /\ m.reserved = l.reserved
           /\ m.dps = l.dps /\ m.phase = l.phase
           /\ m.refs = DropRefs(l.refs, l.books, bs) /\ DOMAIN m.books = DOMAIN l.books
           /\ \A b \in DOMAIN l.books : m.books[b] = IF b \in bs THEN Over(l.books[b], status) ELSE l.books[b]
<1> DEFINE m == Retired(l, bs, status)
           books == WithStatus(l.books, bs, status)
           refs == DropRefs(l.refs, l.books, bs)
<1>1. DOMAIN l.books \subseteq Branches /\ \A b \in DOMAIN l.books : l.books[b] \in Books
  BY LedgerFields, BookFnsFacts
<1>2. m = [l EXCEPT !.books = books, !.refs = refs]
  BY DEF Retired, Ledgers
<1>3. /\ DOMAIN books = DOMAIN l.books
      /\ \A b \in DOMAIN l.books : books[b] = IF b \in bs THEN Over(l.books[b], status) ELSE l.books[b]
      /\ books = [b \in DOMAIN l.books |-> books[b]]
  BY DEF WithStatus
<1>4. refs \in RefFns
  BY LedgerFields, DroppedRefs
<1> HIDE DEF books, refs, m
<1>5. \A b \in DOMAIN l.books : books[b] \in Books
  BY <1>1, <1>3, OverTypes
<1>6. books \in BookFns
  BY <1>1, <1>3, <1>5, BookFnsFacts
<1> QED
  BY <1>2, <1>3, <1>4, <1>6 DEF Ledgers, m, refs

(* A Branch that is retired drops its reference; its reservation, if it    *)
(* keeps it, is for a record that was released with it.                    *)
LEMMA RetiredKeeps ==
    ASSUME NEW l, NEW f \in BOOLEAN, LedgerInv(l, f), NEW bs,
           NEW status \in Statuses \ {"completed"},
           l.phase.on /\ status = "released" =>
             \A b \in bs \cap l.reserved : l.phase.records[l.books[b].internal].state = "released",
           f /\ ~l.phase.on => \A b \in bs \cap DOMAIN l.books : l.books[b].internal = 0
    PROVE  LET m == Retired(l, bs, status) IN
           /\ LedgerInv(m, f) /\ m.phase = l.phase /\ m.dps = l.dps
           /\ DOMAIN m.books = DOMAIN l.books
           /\ \A b \in DOMAIN m.books : m.books[b].view = "none" \/ m.books[b] = l.books[b]
<1> DEFINE m == Retired(l, bs, status)
<1>1. /\ l \in Ledgers /\ BookInv(l) /\ ReserveInv(l, f) /\ LinkInv(l, f) /\ RefInv(l)
  BY DEF LedgerInv
<1>2. /\ m \in Ledgers
      /\ m.known = l.known /\ m.order = l.order /\ m.reserved = l.reserved
      /\ m.dps = l.dps /\ m.phase = l.phase
      /\ m.refs = DropRefs(l.refs, l.books, bs) /\ DOMAIN m.books = DOMAIN l.books
      /\ \A b \in DOMAIN l.books : m.books[b] = IF b \in bs THEN Over(l.books[b], status) ELSE l.books[b]
  BY <1>1, RetiredFields
<1> HIDE DEF m
<1>3. \A b \in DOMAIN l.books : l.books[b] \in Books
  BY <1>1, LedgerFields, BookFnsFacts
<1>4. \A b \in DOMAIN l.books \cap bs :
        /\ IsOver(m.books[b]) /\ m.books[b].plan = NoKey /\ m.books[b].view = "none"
        /\ m.books[b].internal = l.books[b].internal /\ m.books[b].status = status
  BY <1>2, <1>3, OverTypes
<1>5. \A b \in DOMAIN l.books : Kin(l.books[b], m.books[b])
  BY <1>2, <1>4 DEF Kin
<1>6. f /\ ~l.phase.on => \A b \in DOMAIN l.books : l.books[b].internal # 0 => m.books[b] = l.books[b]
  BY <1>2
<1>7. BookInv(m) /\ LinkInv(m, f)
  <2>1. m.dps.current[Root] <= m.dps.issued[Root] /\ m.reserved \subseteq DOMAIN m.books
    BY <1>1, <1>2 DEF BookInv
  <2> QED
    BY <1>2, <1>5, <1>6, <2>1, KinKeeps
<1>8. RefInv(m)
  BY <1>1, <1>2, <1>4, DropKeeps
<1>9. ReserveInv(m, f)
  <2>1. l.reserved \subseteq DOMAIN l.books
    BY <1>1 DEF BookInv
  <2>2. PaidFor(m)
    BY <1>1, <1>2, <1>5, <2>1 DEF ReserveInv, PaidFor, Kin
  <2>3. l.phase.on => Knows(m)
    <3> SUFFICES ASSUME l.phase.on, NEW b \in l.reserved
                 PROVE  /\ m.books[b].internal \in DOMAIN l.phase.records
                        /\ m.books[b].status = "released" =>
                             l.phase.records[m.books[b].internal].state = "released"
      BY <1>2 DEF Knows
    <3>1. m.books[b].internal = l.books[b].internal
      BY <1>5, <2>1 DEF Kin
    <3>2. Knows(l)
      BY <1>1 DEF ReserveInv
    <3>3. CASE b \in bs
      BY <3>1, <3>2, <3>3, <1>4, <2>1 DEF Knows
    <3>4. CASE b \notin bs
      BY <3>1, <3>2, <3>4, <1>2, <2>1 DEF Knows
    <3> QED
      BY <3>3, <3>4
  <2> QED
    BY <1>1, <1>2, <2>2, <2>3 DEF ReserveInv
<1> QED
  BY <1>2, <1>4, <1>7, <1>8, <1>9 DEF LedgerInv, m

-----------------------------------------------------------------------------
(***************************************************************************)
(* A request of one or two items.                                          *)
(***************************************************************************)
ItemRec == [branch : Branches, parent : Ids, rng : RngIds]
GoodBatch(batch, l) ==
    /\ batch \in Seq(ItemRec) /\ Len(batch) \in {1, 2}
    /\ \A k, j \in DOMAIN batch : k # j => batch[k].branch # batch[j].branch
    /\ \A k \in DOMAIN batch :
         /\ batch[k].branch \notin DOMAIN l.books
         /\ batch[k].parent = Root \/ batch[k].parent \in DOMAIN l.books
         /\ l.dps.current[batch[k].parent] # 0

LEMMA AdmissibleBatch ==
    ASSUME led \in Ledgers, BookInv(led), NEW batch \in Batches, Admissible(batch)
    PROVE  GoodBatch(batch, led)
<1>1. led.known = DOMAIN led.books \cup {Root} /\ led.known \in SUBSET Ids
  BY LedgerFields DEF BookInv
<1>2. Items \subseteq ItemRec
  BY <1>1 DEF Items, ItemRec
<1>3. \E x, y \in Items : batch = <<x>> \/ batch = <<x, y>>
  BY DEF Batches
<1>4. batch \in Seq(Items) /\ Len(batch) \in {1, 2}
  <2> HIDE DEF Items
  <2>1. PICK x \in Items, y \in Items : batch = <<x>> \/ batch = <<x, y>>
    BY <1>3
  <2>2. CASE batch = <<x>>
    BY <2>2
  <2>3. CASE batch = <<x, y>>
    BY <2>3
  <2> QED
    BY <2>1, <2>2, <2>3
<1>5. \A k \in DOMAIN batch : batch[k] \in Items
  <2> HIDE DEF Items
  <2> QED
    BY <1>4
<1>6. batch \in Seq(ItemRec)
  <2> HIDE DEF Items
  <2>1. DOMAIN batch = 1..Len(batch) /\ Len(batch) \in Nat /\ batch = [k \in 1..Len(batch) |-> batch[k]]
    BY <1>4
  <2>2. \A k \in 1..Len(batch) : batch[k] \in ItemRec
    BY <1>2, <1>5, <2>1
  <2> HIDE DEF ItemRec
  <2> QED
    BY <2>1, <2>2
<1>7. \A k \in DOMAIN batch :
        /\ batch[k].branch \notin DOMAIN led.books
        /\ batch[k].parent = Root \/ batch[k].parent \in DOMAIN led.books
  BY <1>1, <1>5 DEF Items
<1> QED
  BY <1>4, <1>6, <1>7 DEF GoodBatch, Admissible, Validates

LEMMA BatchFacts ==
    ASSUME NEW l, NEW batch, GoodBatch(batch, l)
    PROVE  /\ DOMAIN batch = 1..Len(batch) /\ Len(batch) \in {1, 2}
           /\ \A k \in DOMAIN batch : batch[k] \in ItemRec
           /\ BranchesOf(batch) \subseteq Branches /\ BranchesOf(batch) \cap DOMAIN l.books = {}
           /\ \A k \in DOMAIN batch : Place(batch, batch[k].branch) = k
           /\ \A b \in BranchesOf(batch) : Place(batch, b) \in DOMAIN batch /\ batch[Place(batch, b)].branch = b
           /\ IsFiniteSet(BranchesOf(batch)) /\ Cardinality(BranchesOf(batch)) <= Len(batch)
<1>1. batch \in Seq(ItemRec) /\ Len(batch) \in {1, 2}
  BY DEF GoodBatch
<1>2. DOMAIN batch = 1..Len(batch) /\ \A k \in DOMAIN batch : batch[k] \in ItemRec
  <2> HIDE DEF ItemRec
  <2> QED
    BY <1>1
<1>3. BranchesOf(batch) \subseteq Branches /\ BranchesOf(batch) \cap DOMAIN l.books = {}
  BY <1>2 DEF BranchesOf, ItemRec, GoodBatch
<1>4. \A b \in BranchesOf(batch) : Place(batch, b) \in DOMAIN batch /\ batch[Place(batch, b)].branch = b
  BY DEF BranchesOf, Place
<1>5. \A k \in DOMAIN batch : Place(batch, batch[k].branch) = k
  <2> SUFFICES ASSUME NEW k \in DOMAIN batch PROVE Place(batch, batch[k].branch) = k
    OBVIOUS
  <2>1. batch[k].branch \in BranchesOf(batch)
    BY DEF BranchesOf
  <2> QED
    BY <1>4, <2>1 DEF GoodBatch
<1>6. IsFiniteSet(BranchesOf(batch)) /\ Cardinality(BranchesOf(batch)) <= Len(batch)
  <2>1. CASE Len(batch) = 1
    <3>1. BranchesOf(batch) = {batch[1].branch}
      BY <2>1, <1>2 DEF BranchesOf
    <3>2. IsFiniteSet({batch[1].branch}) /\ Cardinality({batch[1].branch}) = 1
      BY FS_Singleton
    <3> QED
      BY <2>1, <3>1, <3>2
  <2>2. CASE Len(batch) = 2
    <3>1. BranchesOf(batch) = {batch[1].branch} \cup {batch[2].branch}
      BY <2>2, <1>2 DEF BranchesOf
    <3>2. /\ IsFiniteSet({batch[1].branch}) /\ IsFiniteSet({batch[2].branch})
          /\ Cardinality({batch[1].branch}) = 1 /\ Cardinality({batch[2].branch}) = 1
      BY FS_Singleton
    <3> DEFINE S == {batch[1].branch}
               T == {batch[2].branch}
    <3>3. IsFiniteSet(S \cup T) /\ IsFiniteSet(S \cap T)
      BY <3>2, FS_Union, FS_Intersection
    <3>4. Cardinality(S \cup T) = Cardinality(S) + Cardinality(T) - Cardinality(S \cap T)
      BY <3>2, FS_Union
    <3>5. Cardinality(S \cap T) \in Nat
      BY <3>3, FS_CardinalityType
    <3> QED
      BY <2>2, <3>1, <3>2, <3>3, <3>4, <3>5
  <2> QED
    BY <2>1, <2>2, <1>1
<1> QED
  BY <1>1, <1>2, <1>3, <1>4, <1>5, <1>6

(***************************************************************************)
(* Publishing the books of a request.                                      *)
(***************************************************************************)
LEMMA PublishedFields ==
    ASSUME NEW l \in Ledgers, BookInv(l), RefInv(l), NEW batch, GoodBatch(batch, l),
           NEW books \in [DOMAIN batch -> Books],
           \A k \in DOMAIN batch : books[k].status = "completed"
    PROVE  LET m == Published(l, batch, books) IN
           /\ m \in Ledgers /\ RefInv(m)
           /\ m.reserved = l.reserved /\ m.dps = l.dps /\ m.phase = l.phase
           /\ m.known = DOMAIN m.books \cup {Root}
           /\ DOMAIN m.books = DOMAIN l.books \cup BranchesOf(batch)
           /\ DOMAIN m.books = {m.order[k] : k \in DOMAIN m.order}
           /\ \A b \in DOMAIN l.books : m.books[b] = l.books[b]
           /\ \A b \in BranchesOf(batch) : m.books[b] = books[Place(batch, b)]
<1> DEFINE m == Published(l, batch, books)
           new == BranchesOf(batch)
           D == DOMAIN l.books \cup new
           under(key) == {batch[k].branch : k \in {j \in DOMAIN batch : books[j].plan = key}}
           keys == {books[k].plan : k \in DOMAIN batch} \ {NoKey}
           bks == [b \in D |-> IF b \in new THEN books[Place(batch, b)] ELSE l.books[b]]
           ord == [k \in DOMAIN batch |-> batch[k].branch]
           rfs == [key \in DOMAIN l.refs \cup keys |->
                      Ref(l.refs, key) \cup (IF key \in keys THEN under(key) ELSE {})]
<1>1. /\ DOMAIN batch = 1..Len(batch) /\ Len(batch) \in {1, 2}
      /\ \A k \in DOMAIN batch : batch[k] \in ItemRec
      /\ new \subseteq Branches /\ new \cap DOMAIN l.books = {}
      /\ \A b \in new : Place(batch, b) \in DOMAIN batch /\ batch[Place(batch, b)].branch = b
      /\ \A k \in DOMAIN batch : Place(batch, batch[k].branch) = k
  BY BatchFacts
<1>2. /\ l.known \in SUBSET Ids /\ l.order \in Seq(Branches)
      /\ DOMAIN l.books \subseteq Branches /\ \A b \in DOMAIN l.books : l.books[b] \in Books
      /\ DOMAIN l.refs \subseteq PlanKeys /\ \A k \in DOMAIN l.refs : l.refs[k] \in SUBSET Branches
  BY LedgerFields, BookFnsFacts, RefFnsFacts
<1>3. m = [l EXCEPT !.known = Register(l.known, new), !.books = bks, !.order = l.order \o ord, !.refs = rfs]
  BY DEF Published, Ledgers
<1>4. bks \in BookFns
  <2>1. D \in SUBSET Branches
    BY <1>1, <1>2
  <2>2. bks \in [D -> Books]
    BY <1>1, <1>2
  <2> HIDE DEF bks, D
  <2> QED
    BY <2>1, <2>2, BookFnsFacts
<1>5. \A k \in DOMAIN batch : batch[k].branch \in new /\ batch[k].branch \in Branches
  BY <1>1 DEF BranchesOf
<1>6. ord \in Seq(Branches) /\ Len(ord) = Len(batch) /\ \A k \in DOMAIN batch : ord[k] = batch[k].branch
  BY <1>1, <1>5
<1>7. rfs \in RefFns
  <2>1. \A k \in DOMAIN batch : books[k].plan \in PlanKeys
    BY DEF Books, PlanKeys
  <2>2. DOMAIN l.refs \cup keys \in SUBSET PlanKeys
    BY <1>2, <2>1
  <2>3. \A key : under(key) \subseteq Branches /\ (key \in DOMAIN l.refs => Ref(l.refs, key) \subseteq Branches)
                 /\ (key \notin DOMAIN l.refs => Ref(l.refs, key) = {})
    BY <1>2, <1>5 DEF Ref
  <2> HIDE DEF under, keys
  <2>4. rfs \in [DOMAIN l.refs \cup keys -> SUBSET Branches]
    BY <2>3
  <2> HIDE DEF rfs
  <2> QED
    BY <2>2, <2>4, RefFnsFacts
<1>8. \A key \in PlanKeys \ {NoKey} : Ref(rfs, key) = Ref(l.refs, key) \cup under(key)
  <2> SUFFICES ASSUME NEW key \in PlanKeys \ {NoKey} PROVE Ref(rfs, key) = Ref(l.refs, key) \cup under(key)
    OBVIOUS
  <2>1. CASE key \in keys
    BY <2>1 DEF Ref
  <2>2. CASE key \notin keys
    <3>1. under(key) = {}
      BY <2>2
    <3> QED
      BY <2>2, <3>1 DEF Ref
  <2> QED
    BY <2>1, <2>2
<1>9. DOMAIN bks = D /\ \A b \in D : bks[b] = IF b \in new THEN books[Place(batch, b)] ELSE l.books[b]
  OBVIOUS
<1> HIDE DEF bks, ord, rfs, m
<1>10. Register(l.known, new) = D \cup {Root}
  BY DEF BookInv, Register
<1>11. /\ m \in Ledgers
       /\ m.known = D \cup {Root} /\ m.books = bks /\ m.order = l.order \o ord /\ m.refs = rfs
       /\ m.reserved = l.reserved /\ m.dps = l.dps /\ m.phase = l.phase
  <2>1. D \cup {Root} \in SUBSET Ids
    BY <1>1, <1>2 DEF Ids
  <2>2. l.order \o ord \in Seq(Branches)
    BY <1>2, <1>6
  <2> HIDE DEF D, new
  <2> QED
    BY <1>3, <1>4, <1>7, <1>10, <2>1, <2>2 DEF Ledgers
<1>12. D = {m.order[k] : k \in DOMAIN m.order}
  <2>1. DOMAIN l.books = {l.order[k] : k \in DOMAIN l.order}
    BY DEF BookInv
  <2>2. new = {ord[k] : k \in DOMAIN ord}
    BY <1>1, <1>6 DEF BranchesOf
  <2>3. \A s, u \in Seq(Branches) :
          {(s \o u)[k] : k \in DOMAIN (s \o u)} = {s[k] : k \in DOMAIN s} \cup {u[k] : k \in DOMAIN u}
    <3> SUFFICES ASSUME NEW s \in Seq(Branches), NEW u \in Seq(Branches)
                 PROVE  {(s \o u)[k] : k \in DOMAIN (s \o u)} = {s[k] : k \in DOMAIN s} \cup {u[k] : k \in DOMAIN u}
      OBVIOUS
    <3>1. \A k \in DOMAIN s : k \in DOMAIN (s \o u) /\ (s \o u)[k] = s[k]
      OBVIOUS
    <3>2. \A k \in DOMAIN u : (k + Len(s)) \in DOMAIN (s \o u) /\ (s \o u)[k + Len(s)] = u[k]
      OBVIOUS
    <3>3. \A k \in DOMAIN (s \o u) : k \in DOMAIN s \/ (k - Len(s) \in DOMAIN u /\ (s \o u)[k] = u[k - Len(s)])
      OBVIOUS
    <3> DEFINE c == s \o u
    <3> HIDE DEF c
    <3>4. \A k \in DOMAIN s : k \in DOMAIN c /\ c[k] = s[k]
      BY <3>1 DEF c
    <3>5. \A k \in DOMAIN u : (k + Len(s)) \in DOMAIN c /\ c[k + Len(s)] = u[k]
      BY <3>2 DEF c
    <3>6. \A k \in DOMAIN c : k \in DOMAIN s \/ (k - Len(s) \in DOMAIN u /\ c[k] = u[k - Len(s)])
      BY <3>3 DEF c
    <3>7. {c[k] : k \in DOMAIN c} \subseteq {s[k] : k \in DOMAIN s} \cup {u[k] : k \in DOMAIN u}
      BY <3>4, <3>6
    <3>8. {s[k] : k \in DOMAIN s} \subseteq {c[k] : k \in DOMAIN c}
      BY <3>4
    <3>9. {u[k] : k \in DOMAIN u} \subseteq {c[k] : k \in DOMAIN c}
      BY <3>5
    <3> QED
      BY <3>7, <3>8, <3>9 DEF c
  <2>4. {(l.order \o ord)[k] : k \in DOMAIN (l.order \o ord)} = DOMAIN l.books \cup new
    <3>1. {(l.order \o ord)[k] : k \in DOMAIN (l.order \o ord)}
            = {l.order[k] : k \in DOMAIN l.order} \cup {ord[k] : k \in DOMAIN ord}
      BY <1>2, <1>6, <2>3
    <3> QED
      BY <3>1, <2>1, <2>2
  <2> HIDE DEF new
  <2> QED
    BY <1>11, <2>4
<1>13. RefInv(m)
  <2> SUFFICES ASSUME NEW key \in PlanKeys \ {NoKey}
               PROVE  Ref(rfs, key) = {b \in D : bks[b].plan = key /\ bks[b].status = "completed"}
    BY <1>9, <1>11 DEF RefInv
  <2>1. Ref(rfs, key) = Ref(l.refs, key) \cup under(key)
    BY <1>8
  <2>2. Ref(l.refs, key) = {b \in DOMAIN l.books : l.books[b].plan = key /\ l.books[b].status = "completed"}
    BY DEF RefInv
  <2>3. under(key) = {b \in new : books[Place(batch, b)].plan = key}
    BY <1>1, <1>5
  <2>4. \A b \in new : books[Place(batch, b)].status = "completed"
    BY <1>1
  <2> HIDE DEF under, new
  <2> QED
    BY <1>1, <1>9, <2>1, <2>2, <2>3, <2>4
<1> QED
  BY <1>1, <1>9, <1>11, <1>12, <1>13 DEF m

(***************************************************************************)
(* What the workers answer: a fault ends its Branch, everything else gives *)
(* it a view.                                                              *)
(***************************************************************************)
Results == EventResults \cup CombatResults
SameWork(x, y) ==
    /\ y.status = x.status /\ y.parent = x.parent /\ y.rng = x.rng /\ y.plan = x.plan
    /\ y.internal = x.internal /\ y.decision = x.decision /\ y.hypothesis = x.hypothesis
    /\ y.at = x.at
AnswerTo(l, m, bs, faulty) ==
    /\ m.known = l.known /\ m.order = l.order /\ m.reserved = l.reserved /\ m.phase = l.phase
    /\ m.dps.current[Root] = l.dps.current[Root] /\ m.dps.issued[Root] = l.dps.issued[Root]
    /\ DOMAIN m.books = DOMAIN l.books /\ faulty \subseteq bs /\ bs \subseteq DOMAIN l.books
    /\ \A b \in DOMAIN l.books \ bs : m.books[b] = l.books[b]
    /\ \A b \in faulty : m.books[b] = Over(l.books[b], "faulted")
    /\ \A b \in DOMAIN l.books \ faulty : SameWork(l.books[b], m.books[b])

LEMMA AnsweredFields ==
    ASSUME NEW l \in Ledgers, NEW batch, DOMAIN batch = 1..Len(batch), Len(batch) \in {1, 2},
           BranchesOf(batch) \subseteq DOMAIN l.books,
           \A k \in DOMAIN batch : Place(batch, batch[k].branch) = k,
           NEW n \in 0..Len(batch), NEW results \in [DOMAIN batch -> Results]
    PROVE  LET m == Answered(l, batch, results, n) IN
           /\ m \in Ledgers /\ m.refs = l.refs
           /\ AnswerTo(l, m, BranchesOf(batch), Faulty(batch, results, n))
<1> DEFINE m == Answered(l, batch, results, n)
           bs == BranchesOf(batch)
           faulty == Faulty(batch, results, n)
           fine == {batch[k].branch : k \in 1..n} \ faulty
           result(b) == results[Place(batch, b)]
           fined(b) == [l.books[b] EXCEPT !.terminal = (result(b) = "terminal"),
                           !.view = IF result(b) = "terminal" THEN "none" ELSE result(b)]
           bks == [b \in DOMAIN l.books |->
                     IF b \in fine THEN fined(b)
                     ELSE IF b \in faulty THEN Over(l.books[b], "faulted") ELSE l.books[b]]
           d == Issue(l.dps, fine)
<1>1. m = [l EXCEPT !.dps = d, !.books = bks]
  BY DEF Answered, Ledgers
<1>2. /\ l.dps \in Decisions /\ DOMAIN l.books \subseteq Branches
      /\ \A b \in DOMAIN l.books : l.books[b] \in Books
  BY LedgerFields, BookFnsFacts
<1>3. 1..n \subseteq DOMAIN batch
  OBVIOUS
<1>4. fine \subseteq bs /\ faulty \subseteq bs
  BY <1>3 DEF BranchesOf, Faulty
<1>5. ASSUME NEW b \in fine PROVE result(b) \in Results \ {"fault"}
  <2>1. PICK k \in 1..n : b = batch[k].branch
    OBVIOUS
  <2>2. Place(batch, b) = k /\ k \in DOMAIN batch
    BY <2>1, <1>3
  <2>3. results[k] # "fault"
    BY <2>1 DEF Faulty
  <2> QED
    BY <2>2, <2>3
<1>6. ASSUME NEW b \in fine
      PROVE  fined(b) \in Books /\ SameWork(l.books[b], fined(b))
  <2>1. l.books[b] \in Books
    BY <1>2, <1>4
  <2>2. result(b) \in {"event", "elsewhere", "terminal", "combat"}
    BY <1>5 DEF Results, EventResults, CombatResults
  <2> HIDE DEF result
  <2> DEFINE v == IF result(b) = "terminal" THEN "none" ELSE result(b)
             t == (result(b) = "terminal")
  <2>3. v \in {"none", "event", "elsewhere", "combat"} /\ t \in BOOLEAN
    BY <2>2
  <2> HIDE DEF v, t
  <2>4. LET y == [l.books[b] EXCEPT !.terminal = t, !.view = v]
        IN  y \in Books /\ SameWork(l.books[b], y)
    BY <2>1, <2>3 DEF Books, SameWork
  <2> QED
    BY <2>4 DEF v, t
<1>7. d \in Decisions /\ d.current[Root] = l.dps.current[Root] /\ d.issued[Root] = l.dps.issued[Root]
  <2>1. Root \notin fine /\ Root \in Ids
    BY <1>2, <1>4, RootIsNoBranch
  <2>2. l.dps.issued[Root] \in Nat
    BY <1>2, <2>1 DEF Decisions
  <2> HIDE DEF fine
  <2> QED
    BY <1>2, <2>1, <2>2, IssueTypes
<1>8. \A b \in DOMAIN l.books : bks[b] = IF b \in fine THEN fined(b)
                     ELSE IF b \in faulty THEN Over(l.books[b], "faulted") ELSE l.books[b]
  OBVIOUS
<1>9. DOMAIN bks = DOMAIN l.books /\ bks = [b \in DOMAIN l.books |-> bks[b]]
  OBVIOUS
<1>10. fine \cap faulty = {}
  OBVIOUS
<1> HIDE DEF bks, d, m, fined, fine, faulty, bs
<1>11. \A b \in DOMAIN l.books : bks[b] \in Books
  BY <1>2, <1>6, <1>8, OverTypes DEF Statuses
<1>12. bks \in BookFns
  BY <1>2, <1>9, <1>11, BookFnsFacts
<1>13. /\ m \in Ledgers
       /\ m.known = l.known /\ m.books = bks /\ m.order = l.order /\ m.reserved = l.reserved
       /\ m.dps = d /\ m.refs = l.refs /\ m.phase = l.phase
  BY <1>1, <1>7, <1>12 DEF Ledgers
<1>14. \A b \in DOMAIN l.books \ faulty : SameWork(l.books[b], bks[b])
  BY <1>6, <1>8 DEF SameWork
<1>15. \A b \in faulty : bks[b] = Over(l.books[b], "faulted")
  BY <1>4, <1>8, <1>10 DEF bs
<1>16. \A b \in DOMAIN l.books \ bs : bks[b] = l.books[b]
  BY <1>4, <1>8
<1>17. AnswerTo(l, m, bs, faulty)
  BY <1>4, <1>7, <1>9, <1>13, <1>14, <1>15, <1>16 DEF AnswerTo, bs
<1> QED
  BY <1>13, <1>17 DEF m, bs, faulty

LEMMA AnswerKeeps ==
    ASSUME NEW l, NEW f \in BOOLEAN, LedgerInv(l, f), NEW m \in Ledgers, NEW bs, NEW faulty,
           AnswerTo(l, m, bs, faulty),
           f /\ ~l.phase.on => \A b \in bs : l.books[b].internal = 0
    PROVE  /\ BookInv(m) /\ ReserveInv(m, f) /\ LinkInv(m, f)
           /\ \A b \in DOMAIN l.books : m.books[b].view = "none" \/ m.books[b].at = l.books[b].at
<1>1. /\ l \in Ledgers /\ BookInv(l) /\ ReserveInv(l, f) /\ LinkInv(l, f) /\ RefInv(l)
  BY DEF LedgerInv
<1>2. \A b \in DOMAIN l.books : l.books[b] \in Books
  BY <1>1, LedgerFields, BookFnsFacts
<1>3. \A b \in faulty :
        /\ b \in DOMAIN l.books /\ IsOver(m.books[b]) /\ m.books[b].plan = NoKey /\ m.books[b].view = "none"
        /\ m.books[b].internal = l.books[b].internal /\ m.books[b].status = "faulted"
  BY <1>2, OverTypes DEF AnswerTo, Statuses
<1>4. \A b \in DOMAIN l.books : Kin(l.books[b], m.books[b])
  BY <1>3 DEF Kin, AnswerTo, SameWork
<1>5. BookInv(m) /\ LinkInv(m, f)
  <2>1. /\ m.dps.current[Root] <= m.dps.issued[Root] /\ m.reserved \subseteq DOMAIN m.books
        /\ m.known = l.known /\ m.order = l.order /\ m.reserved \subseteq l.reserved
        /\ DOMAIN m.books = DOMAIN l.books /\ m.phase = l.phase
    BY <1>1 DEF BookInv, AnswerTo
  <2>2. f /\ ~l.phase.on => \A b \in DOMAIN l.books : l.books[b].internal # 0 => m.books[b] = l.books[b]
    BY DEF AnswerTo
  <2> QED
    BY <1>4, <2>1, <2>2, KinKeeps
<1>6. ReserveInv(m, f)
  <2>1. l.reserved \subseteq DOMAIN l.books /\ m.reserved = l.reserved /\ m.phase = l.phase
    BY <1>1 DEF BookInv, AnswerTo
  <2>2. \A b \in l.reserved : /\ m.books[b].internal = l.books[b].internal
                              /\ m.books[b].status = "released" => l.books[b].status = "released"
    BY <1>3, <1>4, <2>1 DEF Kin, AnswerTo, SameWork
  <2>3. PaidFor(m)
    BY <1>1, <2>1, <2>2 DEF ReserveInv, PaidFor
  <2>4. l.phase.on => Knows(m)
    BY <1>1, <2>1, <2>2 DEF ReserveInv, Knows
  <2> QED
    BY <1>1, <2>1, <2>3, <2>4 DEF ReserveInv
<1>7. \A b \in DOMAIN l.books : m.books[b].view = "none" \/ m.books[b].at = l.books[b].at
  BY <1>3 DEF AnswerTo, SameWork
<1> QED
  BY <1>5, <1>6, <1>7

AtEvents(l, batch) ==
    /\ DOMAIN batch = 1..Len(batch) /\ Len(batch) \in {1, 2}
    /\ BranchesOf(batch) \subseteq DOMAIN l.books
    /\ \A k \in DOMAIN batch : Place(batch, batch[k].branch) = k
    /\ \A b \in BranchesOf(batch) : l.books[b].internal = 0
EventAnswer(l, m, bs) ==
    /\ DOMAIN m.books = DOMAIN l.books
    /\ m.phase = l.phase
    /\ \A b \in bs : m.books[b].internal = 0
    /\ \A b \in DOMAIN l.books : \/ m.books[b].view = "none" \/ m.books[b] = l.books[b]
                                 \/ b \in bs /\ m.books[b].at = l.books[b].at

LEMMA FinalizedKeeps ==
    ASSUME NEW l, NEW f \in BOOLEAN, LedgerInv(l, f), NEW batch, AtEvents(l, batch),
           NEW n \in 0..Len(batch), NEW results \in [DOMAIN batch -> EventResults]
    PROVE  LET m == Finalized(l, batch, results, n) IN
           LedgerInv(m, f) /\ EventAnswer(l, m, BranchesOf(batch))
<1> DEFINE a == Answered(l, batch, results, n)
           m == Finalized(l, batch, results, n)
           bs == BranchesOf(batch)
           faulty == Faulty(batch, results, n)
           refs == DropRefs(l.refs, l.books, faulty)
<1>1. /\ l \in Ledgers /\ BookInv(l) /\ ReserveInv(l, f) /\ LinkInv(l, f) /\ RefInv(l)
  BY DEF LedgerInv
<1>2. results \in [DOMAIN batch -> Results]
  BY DEF Results
<1>3. a \in Ledgers /\ a.refs = l.refs /\ AnswerTo(l, a, bs, faulty)
  BY <1>1, <1>2, AnsweredFields DEF AtEvents
<1> HIDE DEF a, faulty, bs
<1>4. m = [a EXCEPT !.refs = refs]
  BY <1>3 DEF Finalized, a, faulty, Ledgers
<1>5. refs \in RefFns
  BY <1>1, LedgerFields, DroppedRefs
<1> HIDE DEF m, refs
<1>6. /\ m \in Ledgers
      /\ m.known = a.known /\ m.books = a.books /\ m.order = a.order /\ m.reserved = a.reserved
      /\ m.dps = a.dps /\ m.refs = refs /\ m.phase = a.phase
  BY <1>3, <1>4, <1>5 DEF Ledgers
<1>7. AnswerTo(l, m, bs, faulty)
  BY <1>3, <1>6 DEF AnswerTo
<1>8. /\ BookInv(m) /\ ReserveInv(m, f) /\ LinkInv(m, f)
      /\ \A b \in DOMAIN l.books : m.books[b].view = "none" \/ m.books[b].at = l.books[b].at
  BY <1>6, <1>7, AnswerKeeps DEF bs, AtEvents
<1>9. \A b \in DOMAIN l.books : l.books[b] \in Books
  BY <1>1, LedgerFields, BookFnsFacts
<1>10. \A b \in faulty : /\ b \in DOMAIN l.books /\ m.books[b].plan = NoKey
                         /\ m.books[b].internal = l.books[b].internal
  BY <1>7, <1>9, OverTypes DEF AnswerTo, Statuses
<1>11. RefInv(m)
  <2>1. DOMAIN m.books = DOMAIN l.books
    BY <1>7 DEF AnswerTo
  <2>2. \A b \in DOMAIN l.books \ faulty :
          m.books[b].plan = l.books[b].plan /\ m.books[b].status = l.books[b].status
    BY <1>7 DEF AnswerTo, SameWork
  <2>3. m.refs = DropRefs(l.refs, l.books, faulty)
    BY <1>6 DEF refs
  <2>4. \A b \in DOMAIN l.books \cap faulty : m.books[b].plan = NoKey
    BY <1>10
  <2> QED
    BY <1>1, <2>1, <2>2, <2>3, <2>4, DropKeeps
<1>12. \A b \in bs : m.books[b].internal = 0
  BY <1>7, <1>10 DEF AnswerTo, SameWork, bs, AtEvents
<1>13. /\ DOMAIN m.books = DOMAIN l.books /\ m.phase = l.phase
       /\ \A b \in DOMAIN l.books \ bs : m.books[b] = l.books[b]
  BY <1>7 DEF AnswerTo
<1> QED
  BY <1>6, <1>8, <1>11, <1>12, <1>13 DEF LedgerInv, EventAnswer, m, bs

-----------------------------------------------------------------------------
(***************************************************************************)
(* Event Branches.                                                         *)
(***************************************************************************)
LEMMA PublishedEventKeeps ==
    ASSUME NEW l, NEW f \in BOOLEAN, LedgerInv(l, f), ~l.phase.on, NEW batch, GoodBatch(batch, l),
           NEW books \in [DOMAIN batch -> Books],
           \A k \in DOMAIN batch : books[k].status = "completed" /\ books[k].internal = 0
    PROVE  LedgerInv(Published(l, batch, books), f)
<1> DEFINE m == Published(l, batch, books)
           new == BranchesOf(batch)
<1>1. /\ l \in Ledgers /\ BookInv(l) /\ ReserveInv(l, f) /\ LinkInv(l, f) /\ RefInv(l)
  BY DEF LedgerInv
<1>2. /\ m \in Ledgers /\ RefInv(m)
      /\ m.reserved = l.reserved /\ m.dps = l.dps /\ m.phase = l.phase
      /\ m.known = DOMAIN m.books \cup {Root}
      /\ DOMAIN m.books = DOMAIN l.books \cup new
      /\ DOMAIN m.books = {m.order[k] : k \in DOMAIN m.order}
      /\ \A b \in DOMAIN l.books : m.books[b] = l.books[b]
      /\ \A b \in new : m.books[b] = books[Place(batch, b)]
  BY <1>1, PublishedFields
<1>3. \A b \in new : Place(batch, b) \in DOMAIN batch
  BY BatchFacts
<1> HIDE DEF m, new
<1>4. \A b \in new : m.books[b].internal = 0
  BY <1>2, <1>3
<1>5. BookInv(m)
  BY <1>1, <1>2, <1>4 DEF BookInv
<1>6. ReserveInv(m, f)
  <2>1. l.reserved \subseteq DOMAIN l.books
    BY <1>1 DEF BookInv
  <2> QED
    BY <1>1, <1>2, <2>1 DEF ReserveInv, PaidFor, Knows
<1>7. LinkInv(m, f)
  BY <1>1, <1>2, <1>4 DEF LinkInv, AllOver, Follow
<1> QED
  BY <1>2, <1>5, <1>6, <1>7 DEF LedgerInv, m

LEMMA EventBookTypes ==
    ASSUME RunInv, NEW batch \in Batches, Admissible(batch), ~led.phase.on,
           \A p \in ParentsOf(batch) : EventParent(p), NEW k \in DOMAIN batch
    PROVE  /\ EventBook(batch[k]) \in Books
           /\ EventBook(batch[k]).status = "completed" /\ EventBook(batch[k]).internal = 0
           /\ ~faulted /\ ~closed /\ ~torn => EventBook(batch[k]).at = root.pos
<1> DEFINE item == batch[k]
           p == item.parent
<1>1. led \in Ledgers /\ BookInv(led) /\ RunTypes /\ WhereInv
  BY DEF RunInv, LedgerInv
<1>2. GoodBatch(batch, led)
  BY <1>1, AdmissibleBatch
<1>3. item \in ItemRec /\ (p = Root \/ p \in DOMAIN led.books)
  BY <1>2, BatchFacts DEF GoodBatch
<1>4. item.parent \in Ids /\ item.rng \in RngIds
  BY <1>3 DEF ItemRec
<1>5. led.dps \in Decisions /\ \A b \in DOMAIN led.books : led.books[b] \in Books
  BY <1>1, LedgerFields, BookFnsFacts
<1>6. \A b \in Ids : led.dps.current[b] \in Nat
  BY <1>5 DEF Decisions
<1>7. EventParent(p)
  BY DEF ParentsOf
<1> DEFINE Base(at) == NewBook(item, led.dps, at)
<1>8. ASSUME NEW at \in Nat, NEW plan \in PlanKeys
      PROVE  LET y == [Base(at) EXCEPT !.plan = plan] IN
             y \in Books /\ y.status = "completed" /\ y.internal = 0 /\ y.at = at
  <2>1. Base(at) \in Books /\ Base(at).status = "completed" /\ Base(at).internal = 0 /\ Base(at).at = at
    <3> HIDE DEF item
    <3> QED
      BY <1>4, <1>6 DEF NewBook, Books, Statuses, NoKey, Ids
  <2> HIDE DEF Base
  <2> QED
    BY <2>1 DEF Books, PlanKeys
<1>9. CASE p = Root
  <2> DEFINE plan == [decision |-> led.dps.current[Root], rng |-> item.rng]
  <2>1. EventBook(item) = [Base(root.replay) EXCEPT !.plan = plan]
    BY <1>9 DEF EventBook
  <2>2. root.replay \in Nat /\ plan \in PlanKeys
    BY <1>1, <1>4, <1>6, RootIsNoBranch DEF RunTypes, PlanKeys
  <2> HIDE DEF Base, plan
  <2>3. EventBook(item) \in Books /\ EventBook(item).status = "completed"
        /\ EventBook(item).internal = 0 /\ EventBook(item).at = root.replay
    BY <2>1, <2>2, <1>8
  <2>4. ~faulted /\ ~closed /\ ~torn => root.replay = root.pos
    <3>1. root.boundary = "event_choice"
      BY <1>7, <1>9 DEF EventParent
    <3> QED
      BY <3>1, <1>1 DEF WhereInv, BoundaryInv, DecisionInv, RunTypes
  <2> QED
    BY <2>3, <2>4
<1>10. CASE p # Root
  <2> DEFINE b == led.books[p]
  <2>1. b \in Books /\ p \in DOMAIN led.books
    BY <1>3, <1>5, <1>10
  <2>2. EventBook(item) = [Base(b.at) EXCEPT !.plan = b.plan]
    BY <1>10 DEF EventBook
  <2>3. b.at \in Nat /\ b.plan \in PlanKeys
    BY <2>1 DEF Books, PlanKeys
  <2>4. ~b.terminal /\ b.view = "event"
    BY <1>7, <1>10 DEF EventParent
  <2>5. ~faulted /\ ~closed /\ ~torn => b.at = root.pos
    <3> HIDE DEF p
    <3> QED
      BY <1>1, <2>1, <2>4 DEF WhereInv, DecisionInv, ViewsAt
  <2> HIDE DEF Base, b
  <2>6. EventBook(item) \in Books /\ EventBook(item).status = "completed"
        /\ EventBook(item).internal = 0 /\ EventBook(item).at = b.at
    BY <2>2, <2>3, <1>8
  <2> QED
    BY <2>5, <2>6
<1> QED
  BY <1>9, <1>10

LEMMA EmulateEventKeeps ==
    ASSUME RunInv, NEW batch \in Batches, NEW single \in BOOLEAN, EmulateEvent(batch, single)
    PROVE  RunInv'
<1> DEFINE books == [k \in DOMAIN batch |-> EventBook(batch[k])]
           admitted == Published(led, batch, books)
           bs == BranchesOf(batch)
<1>1. /\ led \in Ledgers /\ BookInv(led) /\ RefInv(led) /\ LedgerInv(led, faulted) /\ RunTypes /\ WhereInv
      /\ faulted \in BOOLEAN
  BY DEF RunInv, LedgerInv, RunTypes
<1>2. /\ ~led.phase.on /\ Admissible(batch) /\ \A p \in ParentsOf(batch) : EventParent(p)
      /\ UNCHANGED <<root, faulted, closed, issued_at, torn>>
  BY DEF EmulateEvent
<1>3. GoodBatch(batch, led)
  BY <1>1, <1>2, AdmissibleBatch
<1>4. /\ DOMAIN batch = 1..Len(batch) /\ Len(batch) \in {1, 2}
      /\ bs \cap DOMAIN led.books = {}
      /\ \A k \in DOMAIN batch : Place(batch, batch[k].branch) = k
      /\ \A b \in bs : Place(batch, b) \in DOMAIN batch
  BY <1>3, BatchFacts
<1>5. \A k \in DOMAIN batch :
        /\ EventBook(batch[k]) \in Books
        /\ EventBook(batch[k]).status = "completed" /\ EventBook(batch[k]).internal = 0
        /\ ~faulted /\ ~closed /\ ~torn => EventBook(batch[k]).at = root.pos
  BY <1>2, EventBookTypes
<1>6. /\ books \in [DOMAIN batch -> Books]
      /\ \A k \in DOMAIN batch :
           /\ books[k].status = "completed" /\ books[k].internal = 0
           /\ ~faulted /\ ~closed /\ ~torn => books[k].at = root.pos
  BY <1>5
<1>7. faults' \in Nat /\
      \/ \E results \in [DOMAIN batch -> EventResults] :
            led' = Finalized(admitted, batch, results, Len(batch))
      \/ led' = Retired(admitted, bs, "faulted")
      \/ \E n \in 0..(Len(batch) - 1), results \in [DOMAIN batch -> EventResults] :
            led' = Retired(Finalized(admitted, batch, results, n), bs, "released")
  <2>1. faults' \in Nat
    BY <1>1 DEF EmulateEvent, Fails, RunTypes
  <2> HIDE DEF admitted
  <2> QED
    BY <2>1 DEF EmulateEvent, admitted, books
<1> HIDE DEF books
<1>8. LedgerInv(admitted, faulted)
  BY <1>1, <1>2, <1>3, <1>6, PublishedEventKeeps
<1>9. /\ admitted.phase = led.phase
      /\ DOMAIN admitted.books = DOMAIN led.books \cup bs
      /\ \A b \in DOMAIN led.books : admitted.books[b] = led.books[b]
      /\ \A b \in bs : admitted.books[b] = books[Place(batch, b)]
  BY <1>1, <1>3, <1>6, PublishedFields
<1> HIDE DEF admitted
<1>10. \A b \in bs : /\ admitted.books[b].internal = 0
                     /\ ~faulted /\ ~closed /\ ~torn => admitted.books[b].at = root.pos
  BY <1>4, <1>6, <1>9
<1>11. /\ LedgerInv(led', faulted) /\ led'.phase = led.phase
       /\ DOMAIN led'.books = DOMAIN admitted.books
       /\ \A b \in DOMAIN admitted.books :
            \/ led'.books[b].view = "none" \/ led'.books[b] = admitted.books[b]
            \/ b \in bs /\ led'.books[b].at = admitted.books[b].at
  <2>0. bs \subseteq DOMAIN admitted.books /\ \A b \in bs : admitted.books[b].internal = 0
    BY <1>9, <1>10
  <2>1. ASSUME NEW n \in 0..Len(batch), NEW results \in [DOMAIN batch -> EventResults]
        PROVE  LET m == Finalized(admitted, batch, results, n) IN
               /\ LedgerInv(m, faulted) /\ DOMAIN m.books = DOMAIN admitted.books
               /\ m.phase = led.phase
               /\ \A b \in bs : m.books[b].internal = 0
               /\ \A b \in DOMAIN admitted.books :
                    \/ m.books[b].view = "none" \/ m.books[b] = admitted.books[b]
                    \/ b \in bs /\ m.books[b].at = admitted.books[b].at
    <3> DEFINE m == Finalized(admitted, batch, results, n)
    <3>1. LedgerInv(m, faulted) /\ EventAnswer(admitted, m, bs)
      <4>1. AtEvents(admitted, batch)
        BY <1>4, <2>0 DEF AtEvents
      <4> QED
        BY <1>1, <1>8, <4>1, FinalizedKeeps
    <3> QED
      BY <3>1, <1>9 DEF EventAnswer
  <2>2. CASE \E results \in [DOMAIN batch -> EventResults] :
               led' = Finalized(admitted, batch, results, Len(batch))
    <3>1. PICK results \in [DOMAIN batch -> EventResults] :
               led' = Finalized(admitted, batch, results, Len(batch))
      BY <2>2
    <3>2. Len(batch) \in 0..Len(batch)
      BY <1>4
    <3> QED
      BY <2>1, <3>1, <3>2
  <2>3. CASE led' = Retired(admitted, bs, "faulted")
    <3> DEFINE m == Retired(admitted, bs, "faulted")
    <3>1. "faulted" \in Statuses \ {"completed"} /\ "faulted" # "released"
      BY DEF Statuses
    <3>2. /\ LedgerInv(m, faulted) /\ m.phase = admitted.phase
          /\ DOMAIN m.books = DOMAIN admitted.books
          /\ \A b \in DOMAIN m.books : m.books[b].view = "none" \/ m.books[b] = admitted.books[b]
      BY <1>1, <1>2, <1>8, <1>9, <2>0, <3>1, RetiredKeeps
    <3> QED
      BY <2>3, <3>2, <1>9
  <2>4. CASE \E n \in 0..(Len(batch) - 1), results \in [DOMAIN batch -> EventResults] :
               led' = Retired(Finalized(admitted, batch, results, n), bs, "released")
    <3>1. PICK n \in 0..(Len(batch) - 1), results \in [DOMAIN batch -> EventResults] :
               led' = Retired(Finalized(admitted, batch, results, n), bs, "released")
      BY <2>4
    <3> DEFINE d == Finalized(admitted, batch, results, n)
               m == Retired(d, bs, "released")
    <3>2. n \in 0..Len(batch)
      BY <1>4
    <3>3. /\ LedgerInv(d, faulted) /\ DOMAIN d.books = DOMAIN admitted.books
          /\ d.phase = led.phase
          /\ \A b \in bs : d.books[b].internal = 0
          /\ \A b \in DOMAIN admitted.books :
               \/ d.books[b].view = "none" \/ d.books[b] = admitted.books[b]
               \/ b \in bs /\ d.books[b].at = admitted.books[b].at
      BY <2>1, <3>2
    <3> HIDE DEF d
    <3>4. "released" \in Statuses \ {"completed"}
      BY DEF Statuses
    <3>5. /\ LedgerInv(m, faulted) /\ m.phase = d.phase
          /\ DOMAIN m.books = DOMAIN d.books
          /\ \A b \in DOMAIN m.books : m.books[b].view = "none" \/ m.books[b] = d.books[b]
      BY <1>1, <1>2, <3>3, <3>4, RetiredKeeps
    <3>6. led' = m
      BY <3>1 DEF d
    <3> QED
      BY <3>3, <3>5, <3>6
  <2> QED
    BY <1>7, <2>2, <2>3, <2>4
<1>12. LedgerInv(led', faulted') /\ RunTypes'
  BY <1>1, <1>2, <1>7, <1>11 DEF RunTypes
<1>13. WhereInv'
  <2> SUFFICES ASSUME ~faulted, ~closed
               PROVE  BoundaryInv(root, led') /\ (~torn => DecisionInv(root, led', issued_at))
    BY <1>2 DEF WhereInv
  <2>1. BoundaryInv(root, led')
    BY <1>1, <1>11 DEF WhereInv, BoundaryInv
  <2>2. ASSUME ~torn PROVE ViewsAt(led', root.pos)
    <3>1. ViewsAt(led, root.pos)
      BY <1>1, <2>2 DEF WhereInv, DecisionInv
    <3> QED
      BY <2>2, <3>1, <1>9, <1>10, <1>11 DEF ViewsAt
  <2> QED
    BY <1>1, <2>1, <2>2 DEF WhereInv, DecisionInv
<1> QED
  BY <1>12, <1>13 DEF RunInv

-----------------------------------------------------------------------------
(***************************************************************************)
(* Combat Branches.                                                        *)
(***************************************************************************)
LEMMA SubmitManyFacts ==
    ASSUME NEW recs \in Records, NEW N \in Nat, NEW parents \in [1..N -> Nat],
           NEW states \in [1..N -> Statuses]
    PROVE  LET m == SubmitMany(recs, parents, states) IN
           /\ m \in Records /\ DOMAIN recs = 1..Len(recs) /\ Len(recs) \in Nat
           /\ DOMAIN m = 1..(Len(recs) + N)
           /\ \A i \in DOMAIN recs : m[i] = recs[i]
           /\ \A k \in 1..N : m[Len(recs) + k].state = states[k]
<1> DEFINE S == [state : Statuses, parent : Nat]
           new == [k \in 1..N |-> [state |-> states[k], parent |-> parents[k]]]
           m == SubmitMany(recs, parents, states)
<1>1. m = recs \o new
  BY DEF SubmitMany
<1>2. \A k \in 1..N : new[k] \in S /\ new[k].state = states[k]
  OBVIOUS
<1>3. new \in Seq(S) /\ Len(new) = N
  BY <1>2
<1>4. recs \in Seq(S)
  BY DEF Records
<1> HIDE DEF S, new, m
<1>5. /\ m \in Seq(S) /\ DOMAIN recs = 1..Len(recs) /\ Len(recs) \in Nat
      /\ DOMAIN m = 1..(Len(recs) + N)
      /\ \A i \in DOMAIN recs : m[i] = recs[i]
      /\ \A k \in 1..N : m[Len(recs) + k] = new[k]
  <2>0. recs \o new \in Seq(S) /\ Len(recs \o new) = Len(recs) + Len(new)
    <3>1. \A A : \A s, u \in Seq(A) : s \o u \in Seq(A) /\ Len(s \o u) = Len(s) + Len(u)
      OBVIOUS
    <3> QED
      BY <1>3, <1>4, <3>1
  <2>1. m \in Seq(S) /\ DOMAIN recs = 1..Len(recs) /\ Len(recs) \in Nat /\ Len(m) = Len(recs) + N
    <3>1. DOMAIN recs = 1..Len(recs) /\ Len(recs) \in Nat
      BY <1>4
    <3> QED
      BY <1>1, <1>3, <2>0, <3>1
  <2>2. DOMAIN m = 1..Len(m)
    BY <2>1
  <2>3. \A i \in DOMAIN recs : m[i] = recs[i]
    BY <1>1, <1>3, <1>4, <2>1
  <2>4. ASSUME NEW k \in 1..N PROVE m[Len(recs) + k] = new[k]
    <3>1. Len(recs) + k \in 1..(Len(recs) + Len(new)) /\ ~(Len(recs) + k <= Len(recs))
      BY <1>3, <2>1
    <3>2. (Len(recs) + k) - Len(recs) = k
      BY <2>1
    <3>3. (recs \o new)[Len(recs) + k] = new[(Len(recs) + k) - Len(recs)]
      BY <1>3, <1>4, <3>1
    <3> QED
      BY <1>1, <3>2, <3>3
  <2> QED
    BY <2>1, <2>2, <2>3, <2>4
<1> QED
  BY <1>2, <1>5 DEF S, Records, m

LEMMA AllocationFacts ==
    ASSUME led \in Ledgers, NEW batch, GoodBatch(batch, led)
    PROVE  /\ Allocations(batch) \in Tables
           /\ Continues(led.phase.table, Allocations(batch))
           /\ \A k \in DOMAIN batch : KeyOfItem(batch[k]) \in ToSet(Allocations(batch).keys)
           /\ Restore(Allocations(batch), Snapshot(led.phase.table)) = led.phase.table
<1> DEFINE keys == [k \in DOMAIN batch |-> KeyOfItem(batch[k])]
           t == led.phase.table
<1>1. DOMAIN batch = 1..Len(batch) /\ Len(batch) \in {1, 2} /\ \A k \in DOMAIN batch : batch[k] \in ItemRec
  BY BatchFacts
<1>2. led.dps \in Decisions /\ t \in Tables
  BY LedgerFields
<1>3. \A k \in DOMAIN batch : KeyOfItem(batch[k]) \in Keys
  BY <1>1, <1>2 DEF KeyOfItem, KeyOf, Keys, ItemRec, Decisions
<1>4. keys \in Seq(Keys) /\ Len(keys) = Len(batch) /\ DOMAIN keys = DOMAIN batch
  <2> HIDE DEF Keys
  <2> QED
    BY <1>1, <1>3
<1>5. Allocations(batch) = AllocatedAll(t, keys)
  BY DEF Allocations
<1>6. \A k \in DOMAIN batch : keys[k] = KeyOfItem(batch[k])
  OBVIOUS
<1> HIDE DEF keys, t
<1>7. /\ AllocatedAll(t, keys) \in Tables
      /\ Continues(t, AllocatedAll(t, keys))
      /\ \A k \in DOMAIN keys : keys[k] \in ToSet(AllocatedAll(t, keys).keys)
      /\ Restore(AllocatedAll(t, keys), Snapshot(t)) = t
  BY <1>1, <1>2, <1>4, BatchTable
<1> QED
  BY <1>4, <1>5, <1>6, <1>7 DEF t

LEMMA CombatBookFacts ==
    ASSUME led \in Ledgers, root.pos \in Nat, NEW batch, GoodBatch(batch, led), NEW k \in DOMAIN batch,
           NEW i \in Nat
    PROVE  LET y == CombatBook(batch[k], Allocations(batch), i) IN
           /\ y \in Books /\ y.status = "completed" /\ y.internal = i /\ y.plan = NoKey
           /\ y.view = "none" /\ y.at = root.pos
           /\ Linked(Allocations(batch), y)
<1> DEFINE y == CombatBook(batch[k], Allocations(batch), i)
           item == batch[k]
           table == Allocations(batch)
           h == HypothesisIndexFor(table, KeyOfItem(item))
           base == NewBook(item, led.dps, root.pos)
<1>1. item \in ItemRec /\ led.dps.current[item.parent] # 0
  BY BatchFacts DEF GoodBatch
<1>2. item.parent \in Ids /\ item.rng \in RngIds
  BY <1>1 DEF ItemRec
<1>3. led.dps.current[item.parent] \in Nat
  BY <1>2, LedgerFields DEF Decisions
<1>4. table \in Tables /\ KeyOfItem(item) \in ToSet(table.keys)
  BY AllocationFacts
<1>5. h \in Nat /\ \E j \in DOMAIN table.keys : table.keys[j] = KeyOfItem(item) /\ table.index[j] = h
  BY <1>4, HypothesisListed
<1>6. /\ base \in Books /\ base.status = "completed" /\ base.plan = NoKey /\ base.view = "none"
      /\ base.at = root.pos /\ base.parent = item.parent /\ base.rng = item.rng
      /\ base.decision = led.dps.current[item.parent]
  <2> HIDE DEF item
  <2> QED
    BY <1>2, <1>3 DEF NewBook, Books, Statuses, NoKey, Ids
<1>7. y = [base EXCEPT !.internal = i, !.hypothesis = h]
  BY DEF CombatBook
<1>8. KeyOfItem(item) = KeyOf(item.parent, led.dps.current[item.parent], item.rng)
  BY DEF KeyOfItem
<1> HIDE DEF y, item, table, h, base
<1>9. /\ y \in Books /\ y.status = "completed" /\ y.internal = i /\ y.plan = NoKey /\ y.view = "none"
      /\ y.at = root.pos /\ y.parent = item.parent /\ y.rng = item.rng
      /\ y.decision = led.dps.current[item.parent] /\ y.hypothesis = h
  BY <1>5, <1>6, <1>7 DEF Books
<1>10. Linked(table, y)
  BY <1>1, <1>5, <1>8, <1>9 DEF Linked
<1> QED
  BY <1>9, <1>10 DEF y, item, table

LEMMA LinkedContinues ==
    ASSUME NEW t, NEW u, Continues(t, u), NEW book, Linked(t, book)
    PROVE  Linked(u, book)
BY DEF Continues, Linked

(* A request holds as many more slots as it has items.                     *)
LEMMA ReservedMore ==
    ASSUME NEW S, IsFiniteSet(S), NEW T, IsFiniteSet(T), NEW n \in Nat, Cardinality(T) <= n,
           Cardinality(S) + n <= max_branches
    PROVE  IsFiniteSet(S \cup T) /\ Cardinality(S \cup T) <= max_branches
<1>1. IsFiniteSet(S \cup T) /\ IsFiniteSet(S \cap T)
  BY FS_Union, FS_Intersection
<1>2. Cardinality(S \cup T) = Cardinality(S) + Cardinality(T) - Cardinality(S \cap T)
  BY FS_Union
<1>3. Cardinality(S) \in Nat /\ Cardinality(T) \in Nat /\ Cardinality(S \cap T) \in Nat
      /\ Cardinality(S \cup T) \in Nat
  BY <1>1, FS_CardinalityType
<1> QED
  BY <1>1, <1>2, <1>3, CapacityIsNatural

(* What a submitted request leaves of the ledger.                          *)
IsSubmission(m, batch, states) ==
    /\ m.dps = led.dps /\ m.phase.on
    /\ m.known = led.known \cup BranchesOf(batch)
    /\ m.reserved = led.reserved \cup BranchesOf(batch)
    /\ m.phase.table = Allocations(batch)
    /\ DOMAIN led.phase.records = 1..Len(led.phase.records) /\ Len(led.phase.records) \in Nat
    /\ DOMAIN m.phase.records = 1..(Len(led.phase.records) + Len(batch))
    /\ \A i \in DOMAIN led.phase.records : m.phase.records[i] = led.phase.records[i]
    /\ \A k \in DOMAIN batch : m.phase.records[Len(led.phase.records) + k].state = states[k]
    /\ DOMAIN m.books = DOMAIN led.books \cup BranchesOf(batch)
    /\ \A b \in DOMAIN led.books : m.books[b] = led.books[b]
    /\ \A b \in BranchesOf(batch) :
         /\ m.books[b].internal = Len(led.phase.records) + Place(batch, b)
         /\ m.books[b].status = "completed" /\ m.books[b].plan = NoKey
         /\ m.books[b].view = "none" /\ m.books[b].at = root.pos
         /\ Linked(Allocations(batch), m.books[b])

LEMMA SubmittedFields ==
    ASSUME led \in Ledgers, BookInv(led), RefInv(led), led.phase.on, root.pos \in Nat,
           NEW batch, GoodBatch(batch, led), NEW states \in [DOMAIN batch -> Statuses]
    PROVE  LET m == Submitted(batch, states) IN
           /\ m \in Ledgers /\ RefInv(m) /\ IsSubmission(m, batch, states)
           /\ DOMAIN m.books = {m.order[k] : k \in DOMAIN m.order}
           /\ m.known = DOMAIN m.books \cup {Root}
<1> DEFINE recs == led.phase.records
           n == Len(recs)
           table == Allocations(batch)
           parents == [k \in DOMAIN batch |-> InternalOf(batch[k].parent)]
           books == [k \in DOMAIN batch |-> CombatBook(batch[k], table, n + k)]
           P == Published(led, batch, books)
           new == BranchesOf(batch)
           rs == SubmitMany(recs, parents, states)
           q == [led.phase EXCEPT !.table = table, !.records = rs]
           m == Submitted(batch, states)
<1>1. /\ DOMAIN batch = 1..Len(batch) /\ Len(batch) \in {1, 2}
      /\ \A k \in DOMAIN batch : batch[k] \in ItemRec
      /\ new \subseteq Branches /\ new \cap DOMAIN led.books = {}
      /\ \A b \in new : Place(batch, b) \in DOMAIN batch
  BY BatchFacts
<1>2. /\ led.phase \in [on : BOOLEAN, records : Records, table : Tables]
      /\ led.reserved \in SUBSET Branches /\ \A b \in DOMAIN led.books : led.books[b] \in Books
  BY LedgerFields, BookFnsFacts
<1>3. parents \in [1..Len(batch) -> Nat]
  <2>1. \A k \in DOMAIN batch : batch[k].parent = Root \/ batch[k].parent \in DOMAIN led.books
    BY DEF GoodBatch
  <2>2. \A k \in DOMAIN batch : InternalOf(batch[k].parent) \in Nat
    BY <1>2, <2>1 DEF InternalOf, Books
  <2> QED
    BY <1>1, <2>2
<1>4. recs \in Records /\ Len(batch) \in Nat /\ states \in [1..Len(batch) -> Statuses]
  BY <1>1, <1>2
<1> HIDE DEF parents
<1>5. /\ rs \in Records /\ DOMAIN recs = 1..n /\ n \in Nat
      /\ DOMAIN rs = 1..(n + Len(batch))
      /\ \A i \in DOMAIN recs : rs[i] = recs[i]
      /\ \A k \in 1..Len(batch) : rs[n + k].state = states[k]
  BY <1>3, <1>4, SubmitManyFacts
<1>6. table \in Tables
  BY AllocationFacts
<1>7. \A k \in DOMAIN batch :
        LET y == CombatBook(batch[k], table, n + k) IN
           /\ y \in Books /\ y.status = "completed" /\ y.internal = n + k /\ y.plan = NoKey
           /\ y.view = "none" /\ y.at = root.pos /\ Linked(table, y)
  <2> SUFFICES ASSUME NEW k \in DOMAIN batch
               PROVE LET y == CombatBook(batch[k], table, n + k) IN
                 /\ y \in Books /\ y.status = "completed" /\ y.internal = n + k /\ y.plan = NoKey
                 /\ y.view = "none" /\ y.at = root.pos /\ Linked(table, y)
    OBVIOUS
  <2> HIDE DEF n
  <2>1. n + k \in Nat
    <3>1. k \in Nat /\ n \in Nat
      BY <1>1, <1>5
    <3> QED
      BY <3>1
  <2> QED
    BY <2>1, CombatBookFacts
<1>8. /\ books \in [DOMAIN batch -> Books]
      /\ \A k \in DOMAIN batch : /\ books[k].status = "completed" /\ books[k].internal = n + k
                                 /\ books[k].plan = NoKey /\ books[k].view = "none"
                                 /\ books[k].at = root.pos /\ Linked(table, books[k])
  <2> HIDE DEF table, n
  <2> QED
    BY <1>7
<1>9. m = [P EXCEPT !.reserved = @ \cup new, !.phase.table = table,
                    !.phase.records = SubmitMany(@, parents, states)]
  BY DEF Submitted, parents
<1> HIDE DEF books, m
<1>10. /\ P \in Ledgers /\ RefInv(P)
       /\ P.reserved = led.reserved /\ P.dps = led.dps /\ P.phase = led.phase
       /\ P.known = DOMAIN P.books \cup {Root}
       /\ DOMAIN P.books = DOMAIN led.books \cup new
       /\ DOMAIN P.books = {P.order[k] : k \in DOMAIN P.order}
       /\ \A b \in DOMAIN led.books : P.books[b] = led.books[b]
       /\ \A b \in new : P.books[b] = books[Place(batch, b)]
  BY <1>8, PublishedFields
<1> HIDE DEF P, table, rs
<1>11. /\ q \in [on : BOOLEAN, records : Records, table : Tables]
       /\ q.on = led.phase.on /\ q.table = table /\ q.records = rs
  BY <1>2, <1>5, <1>6
<1>12. m = [P EXCEPT !.reserved = led.reserved \cup new, !.phase = q]
  <2>1. P.phase = led.phase /\ P.reserved = led.reserved
    BY <1>10
  <2> QED
    BY <1>2, <1>9, <1>10, <2>1 DEF Ledgers, rs
<1> HIDE DEF q
<1>13. /\ m \in Ledgers
       /\ m.known = P.known /\ m.books = P.books /\ m.order = P.order
       /\ m.reserved = led.reserved \cup new
       /\ m.dps = led.dps /\ m.refs = P.refs /\ m.phase = q
  <2>1. led.reserved \cup new \in SUBSET Branches
    BY <1>1, <1>2
  <2> HIDE DEF new
  <2> QED
    BY <1>10, <1>11, <1>12, <2>1 DEF Ledgers
<1>14. RefInv(m)
  BY <1>10, <1>13 DEF RefInv
<1>15. m.known = led.known \cup new
  BY <1>10, <1>13 DEF BookInv
<1>16. \A b \in new :
         /\ m.books[b].internal = n + Place(batch, b)
         /\ m.books[b].status = "completed" /\ m.books[b].plan = NoKey
         /\ m.books[b].view = "none" /\ m.books[b].at = root.pos
         /\ Linked(table, m.books[b])
  BY <1>1, <1>8, <1>10, <1>13
<1>17. IsSubmission(m, batch, states)
  <2>1. /\ m.dps = led.dps /\ m.phase.on
        /\ m.known = led.known \cup BranchesOf(batch)
        /\ m.reserved = led.reserved \cup BranchesOf(batch)
        /\ m.phase.table = Allocations(batch) /\ m.phase.records = rs
    BY <1>11, <1>13, <1>15 DEF table
  <2>2. /\ DOMAIN led.phase.records = 1..Len(led.phase.records) /\ Len(led.phase.records) \in Nat
        /\ DOMAIN m.phase.records = 1..(Len(led.phase.records) + Len(batch))
        /\ \A i \in DOMAIN led.phase.records : m.phase.records[i] = led.phase.records[i]
    BY <1>5, <2>1
  <2>3. \A k \in DOMAIN batch : m.phase.records[Len(led.phase.records) + k].state = states[k]
    BY <1>1, <1>5, <2>1
  <2>4. /\ DOMAIN m.books = DOMAIN led.books \cup BranchesOf(batch)
        /\ \A b \in DOMAIN led.books : m.books[b] = led.books[b]
    BY <1>10, <1>13
  <2> HIDE DEF new
  <2>5. \A b \in BranchesOf(batch) :
         /\ m.books[b].internal = Len(led.phase.records) + Place(batch, b)
         /\ m.books[b].status = "completed" /\ m.books[b].plan = NoKey
         /\ m.books[b].view = "none" /\ m.books[b].at = root.pos
         /\ Linked(Allocations(batch), m.books[b])
    BY <1>16 DEF new, table
  <2> QED
    BY <2>1, <2>2, <2>3, <2>4, <2>5 DEF IsSubmission
<1> QED
  BY <1>10, <1>13, <1>14, <1>17 DEF m

LEMMA SubmittedKeeps ==
    ASSUME RunInv, NEW batch \in Batches, MayEmulateCombat(batch),
           NEW states \in [DOMAIN batch -> Statuses]
    PROVE  LET m == Submitted(batch, states) IN
           LedgerInv(m, faulted) /\ IsSubmission(m, batch, states)
<1> DEFINE m == Submitted(batch, states)
           new == BranchesOf(batch)
           n == Len(led.phase.records)
<1>1. /\ led \in Ledgers /\ BookInv(led) /\ ReserveInv(led, faulted) /\ LinkInv(led, faulted)
      /\ RefInv(led) /\ root.pos \in Nat
  BY DEF RunInv, LedgerInv, RunTypes
<1>2. led.phase.on /\ Admissible(batch) /\ Cardinality(led.reserved) + Len(batch) <= max_branches
  BY DEF MayEmulateCombat
<1>3. GoodBatch(batch, led)
  BY <1>1, <1>2, AdmissibleBatch
<1>4. /\ m \in Ledgers /\ RefInv(m) /\ IsSubmission(m, batch, states)
      /\ DOMAIN m.books = {m.order[k] : k \in DOMAIN m.order}
      /\ m.known = DOMAIN m.books \cup {Root}
  BY <1>1, <1>2, <1>3, SubmittedFields
<1>5. /\ DOMAIN batch = 1..Len(batch) /\ Len(batch) \in {1, 2}
      /\ new \cap DOMAIN led.books = {}
      /\ \A k \in DOMAIN batch : Place(batch, batch[k].branch) = k /\ batch[k].branch \in new
      /\ \A b \in new : Place(batch, b) \in DOMAIN batch
      /\ IsFiniteSet(new) /\ Cardinality(new) <= Len(batch)
  BY <1>3, BatchFacts DEF BranchesOf
<1> HIDE DEF m
<1>6. /\ m.dps = led.dps /\ m.phase.on
      /\ m.reserved = led.reserved \cup new
      /\ m.phase.table = Allocations(batch)
      /\ DOMAIN led.phase.records = 1..n /\ n \in Nat
      /\ DOMAIN m.phase.records = 1..(n + Len(batch))
      /\ \A i \in DOMAIN led.phase.records : m.phase.records[i] = led.phase.records[i]
      /\ DOMAIN m.books = DOMAIN led.books \cup new
      /\ \A b \in DOMAIN led.books : m.books[b] = led.books[b]
      /\ \A b \in new :
           /\ m.books[b].internal = n + Place(batch, b)
           /\ m.books[b].status = "completed" /\ m.books[b].plan = NoKey
           /\ Linked(Allocations(batch), m.books[b])
  BY <1>4 DEF IsSubmission
<1> HIDE DEF n, new
<1>7. BookInv(m)
  <2>1. IsFiniteSet(led.reserved \cup new) /\ Cardinality(led.reserved \cup new) <= max_branches
    <3>1. IsFiniteSet(led.reserved)
      BY <1>1 DEF BookInv
    <3>2. Len(batch) \in Nat
      BY <1>5
    <3> QED
      BY <1>2, <1>5, <3>1, <3>2, ReservedMore
  <2>2. \A b \in DOMAIN m.books : m.books[b].internal # 0 => m.books[b].plan = NoKey
    BY <1>1, <1>6 DEF BookInv
  <2>3. led.reserved \cup new \subseteq DOMAIN m.books /\ led.dps.current[Root] <= led.dps.issued[Root]
    BY <1>1, <1>6 DEF BookInv
  <2> QED
    BY <1>4, <1>6, <2>1, <2>2, <2>3 DEF BookInv
<1>8. ReserveInv(m, faulted)
  <2>1. led.reserved \subseteq DOMAIN led.books /\ PaidFor(led) /\ Knows(led)
    BY <1>1, <1>2 DEF BookInv, ReserveInv
  <2>2. PaidFor(m)
    <3> SUFFICES ASSUME NEW i \in DOMAIN m.phase.records, m.phase.records[i].state # "released"
                 PROVE  \E b \in m.reserved : m.books[b].internal = i
      BY DEF PaidFor
    <3>1. CASE i \in DOMAIN led.phase.records
      <4>1. led.phase.records[i].state # "released"
        BY <3>1, <1>6
      <4>2. PICK b \in led.reserved : led.books[b].internal = i
        BY <3>1, <4>1, <2>1 DEF PaidFor
      <4> QED
        BY <4>2, <2>1, <1>6
    <3>2. CASE i \notin DOMAIN led.phase.records
      <4>1. PICK k \in DOMAIN batch : i = n + k
        <5>1. i \in 1..(n + Len(batch)) /\ i \notin 1..n /\ n \in Nat /\ Len(batch) \in Nat
          BY <3>2, <1>5, <1>6
        <5>2. i - n \in 1..Len(batch) /\ i = n + (i - n)
          BY <5>1
        <5> QED
          BY <5>2, <1>5
      <4>2. m.books[batch[k].branch].internal = i /\ batch[k].branch \in m.reserved
        BY <4>1, <1>5, <1>6
      <4> QED
        BY <4>2
    <3> QED
      BY <3>1, <3>2
  <2>3. Knows(m)
    <3> SUFFICES ASSUME NEW b \in m.reserved
                 PROVE  /\ m.books[b].internal \in DOMAIN m.phase.records
                        /\ m.books[b].status = "released" =>
                             m.phase.records[m.books[b].internal].state = "released"
      BY DEF Knows
    <3>1. CASE b \in led.reserved
      <4>1. m.books[b] = led.books[b] /\ led.books[b].internal \in DOMAIN led.phase.records
        BY <3>1, <2>1, <1>6 DEF Knows
      <4>2. led.books[b].internal \in DOMAIN m.phase.records
        BY <4>1, <1>5, <1>6
      <4> QED
        BY <3>1, <4>1, <4>2, <2>1, <1>6 DEF Knows
    <3>2. CASE b \in new
      <4>1. Place(batch, b) \in 1..Len(batch) /\ n \in Nat /\ Len(batch) \in Nat
        BY <3>2, <1>5, <1>6
      <4>2. n + Place(batch, b) \in 1..(n + Len(batch))
        BY <4>1
      <4> QED
        BY <3>2, <4>2, <1>6
    <3> QED
      BY <3>1, <3>2, <1>6
  <2> QED
    BY <1>6, <2>2, <2>3 DEF ReserveInv
<1>9. LinkInv(m, faulted)
  <2>1. Continues(led.phase.table, Allocations(batch)) /\ AllLinked(led)
    BY <1>1, <1>2, <1>3, AllocationFacts DEF LinkInv
  <2>2. AllLinked(m)
    BY <1>6, <2>1, LinkedContinues DEF AllLinked
  <2> QED
    BY <1>6, <2>2 DEF LinkInv
<1> QED
  BY <1>4, <1>7, <1>8, <1>9 DEF LedgerInv, m

(* The branch of every step that leaves the run where it was.              *)
LEMMA StandsStill ==
    ASSUME RunInv, UNCHANGED <<root, faulted, closed, issued_at, torn>>, faults' \in Nat,
           LedgerInv(led', faulted), led'.phase.on = led.phase.on,
           \A b \in DOMAIN led'.books :
             \/ led'.books[b].view = "none"
             \/ /\ b \in DOMAIN led.books /\ led'.books[b].view = led.books[b].view
                /\ led'.books[b].terminal = led.books[b].terminal
                /\ led'.books[b].at = led.books[b].at
             \/ led'.books[b].at = root.pos
    PROVE  RunInv'
<1>1. RunTypes /\ WhereInv
  BY DEF RunInv
<1>2. RunTypes' /\ LedgerInv(led', faulted')
  BY <1>1 DEF RunTypes
<1>3. WhereInv'
  <2> SUFFICES ASSUME ~faulted, ~closed
               PROVE  BoundaryInv(root, led') /\ (~torn => DecisionInv(root, led', issued_at))
    BY DEF WhereInv
  <2>1. BoundaryInv(root, led')
    BY <1>1 DEF WhereInv, BoundaryInv
  <2>2. ASSUME ~torn PROVE ViewsAt(led', root.pos)
    BY <1>1, <2>2 DEF WhereInv, DecisionInv, ViewsAt
  <2> QED
    BY <1>1, <2>1, <2>2 DEF WhereInv, DecisionInv
<1> QED
  BY <1>2, <1>3 DEF RunInv

LEMMA EmulateCombatKeeps ==
    ASSUME RunInv, NEW batch \in Batches, EmulateCombat(batch)
    PROVE  RunInv'
<1>1. MayEmulateCombat(batch) /\ UNCHANGED <<root, faulted, closed, issued_at, torn, faults>>
  BY DEF EmulateCombat
<1>2. PICK results \in [DOMAIN batch -> CombatResults] :
          led' = Answered(Submitted(batch, [k \in DOMAIN batch |-> StateOf(results[k])]),
                          batch, results, Len(batch))
  BY DEF EmulateCombat
<1> DEFINE states == [k \in DOMAIN batch |-> StateOf(results[k])]
           l == Submitted(batch, states)
           m == Answered(l, batch, results, Len(batch))
           bs == BranchesOf(batch)
           faulty == Faulty(batch, results, Len(batch))
<1>3. /\ led \in Ledgers /\ BookInv(led) /\ faulted \in BOOLEAN /\ faults \in Nat
  BY DEF RunInv, LedgerInv, RunTypes
<1>4. led.phase.on /\ Admissible(batch)
  BY <1>1 DEF MayEmulateCombat
<1>5. GoodBatch(batch, led)
  BY <1>3, <1>4, AdmissibleBatch
<1>6. /\ DOMAIN batch = 1..Len(batch) /\ Len(batch) \in {1, 2}
      /\ \A k \in DOMAIN batch : Place(batch, batch[k].branch) = k
  BY <1>5, BatchFacts
<1>7. states \in [DOMAIN batch -> Statuses]
  BY DEF StateOf, Statuses
<1>8. m = led'
  BY <1>2
<1> HIDE DEF states
<1>9. LedgerInv(l, faulted) /\ IsSubmission(l, batch, states)
  BY <1>1, <1>7, SubmittedKeeps
<1> HIDE DEF l
<1>10. l \in Ledgers /\ RefInv(l) /\ bs \subseteq DOMAIN l.books
  BY <1>9 DEF LedgerInv, IsSubmission
<1>11. Len(batch) \in 0..Len(batch) /\ results \in [DOMAIN batch -> Results]
  BY <1>6 DEF Results
<1>12. m \in Ledgers /\ m.refs = l.refs /\ AnswerTo(l, m, bs, faulty)
  BY <1>6, <1>10, <1>11, AnsweredFields
<1> HIDE DEF m, bs, faulty
<1>13. l.phase.on
  BY <1>9 DEF IsSubmission
<1>14. /\ BookInv(m) /\ ReserveInv(m, faulted) /\ LinkInv(m, faulted)
       /\ \A b \in DOMAIN l.books : m.books[b].view = "none" \/ m.books[b].at = l.books[b].at
  BY <1>3, <1>9, <1>12, <1>13, AnswerKeeps
<1>15. \A b \in bs : l.books[b].plan = NoKey /\ l.books[b].at = root.pos
  BY <1>9 DEF IsSubmission, bs
<1>16. \A b \in DOMAIN l.books : l.books[b] \in Books
  BY <1>10, LedgerFields, BookFnsFacts
<1>17. RefInv(m)
  <2>1. DOMAIN m.books = DOMAIN l.books
    BY <1>12 DEF AnswerTo
  <2>2. \A b \in faulty : b \in bs /\ m.books[b].plan = NoKey
    BY <1>12, <1>16, OverTypes DEF AnswerTo, Statuses
  <2>3. \A b \in DOMAIN l.books :
             \/ l.books[b].plan = NoKey /\ m.books[b].plan = NoKey
             \/ m.books[b].plan = l.books[b].plan /\ m.books[b].status = l.books[b].status
    BY <2>2, <1>12, <1>15 DEF AnswerTo, SameWork
  <2> QED
    BY <1>10, <1>12, <2>1, <2>3, SameRefs
<1>18. LedgerInv(m, faulted)
  BY <1>12, <1>14, <1>17 DEF LedgerInv
<1>19. m.phase.on = led.phase.on
  BY <1>4, <1>12, <1>13 DEF AnswerTo
<1>20. \A b \in DOMAIN m.books :
             \/ m.books[b].view = "none"
             \/ b \in DOMAIN led.books /\ m.books[b] = led.books[b]
             \/ m.books[b].at = root.pos
  <2> SUFFICES ASSUME NEW b \in DOMAIN m.books
               PROVE \/ m.books[b].view = "none"
                     \/ b \in DOMAIN led.books /\ m.books[b] = led.books[b]
                     \/ m.books[b].at = root.pos
    OBVIOUS
  <2>1. b \in DOMAIN l.books
    BY <1>12 DEF AnswerTo
  <2>2. CASE b \in bs
    BY <2>1, <2>2, <1>14, <1>15
  <2>3. CASE b \notin bs
    BY <2>1, <2>3, <1>9, <1>12 DEF AnswerTo, IsSubmission, bs
  <2> QED
    BY <2>2, <2>3
<1> QED
  BY <1>1, <1>3, <1>8, <1>18, <1>19, <1>20, StandsStill

LEMMA EmulateCombatLeaksKeeps ==
    ASSUME RunInv, NEW batch \in Batches, EmulateCombatLeaks(batch)
    PROVE  RunInv'
<1>1. /\ MayEmulateCombat(batch) /\ UNCHANGED <<root, faulted, closed, issued_at, torn>>
      /\ faults' = faults + 1 /\ faults \in Nat
  BY DEF EmulateCombatLeaks, Fails, RunInv, RunTypes
<1>2. PICK states \in [DOMAIN batch -> Statuses] : led' = Submitted(batch, states)
  <2>1. CASE led' = Submitted(batch, [k \in DOMAIN batch |-> "released"])
    <3>1. [k \in DOMAIN batch |-> "released"] \in [DOMAIN batch -> Statuses]
      BY DEF Statuses
    <3> QED
      BY <2>1, <3>1
  <2>2. CASE \E stuck \in DOMAIN batch :
             led' = Submitted(batch, [k \in DOMAIN batch |->
                        IF k < stuck THEN "released"
                        ELSE IF k = stuck THEN "running" ELSE "cancelled"])
    <3>1. PICK stuck \in DOMAIN batch :
             led' = Submitted(batch, [k \in DOMAIN batch |->
                        IF k < stuck THEN "released"
                        ELSE IF k = stuck THEN "running" ELSE "cancelled"])
      BY <2>2
    <3> DEFINE states == [k \in DOMAIN batch |->
                        IF k < stuck THEN "released"
                        ELSE IF k = stuck THEN "running" ELSE "cancelled"]
    <3>2. states \in [DOMAIN batch -> Statuses]
      BY DEF Statuses
    <3> QED
      BY <3>1, <3>2
  <2> QED
    BY <2>1, <2>2 DEF EmulateCombatLeaks
<1>3. LedgerInv(led', faulted) /\ IsSubmission(led', batch, states)
  BY <1>1, <1>2, SubmittedKeeps
<1>4. led'.phase.on = led.phase.on
  BY <1>1, <1>3 DEF IsSubmission, MayEmulateCombat, RunInv, LedgerInv, Ledgers
<1>5. \A b \in DOMAIN led'.books :
             \/ led'.books[b].view = "none"
             \/ b \in DOMAIN led.books /\ led'.books[b] = led.books[b]
             \/ led'.books[b].at = root.pos
  BY <1>3 DEF IsSubmission
<1> QED
  BY <1>1, <1>3, <1>4, <1>5, StandsStill

(* A failed request leaves released records behind, and nothing else.      *)
LEMMA EmulateCombatFailsKeeps ==
    ASSUME RunInv, NEW batch \in Batches, EmulateCombatFails(batch)
    PROVE  RunInv'
<1>1. /\ MayEmulateCombat(batch) /\ UNCHANGED <<root, faulted, closed, issued_at, torn>>
      /\ faults' = faults + 1 /\ faults \in Nat
  BY DEF EmulateCombatFails, Fails, RunInv, RunTypes
<1>2. PICK given \in 0..Len(batch) : led' = RolledBack(batch, given)
  BY DEF EmulateCombatFails
<1> DEFINE states == [k \in DOMAIN batch |-> "released"]
           after == Submitted(batch, states)
           used == {batch[k].branch : k \in 1..given}
           new == BranchesOf(batch)
           d == [led.dps EXCEPT !.issued =
                    [b \in DOMAIN @ |-> @[b] + (IF b \in used THEN 1 ELSE 0)]]
           n == Len(led.phase.records)
           recs == after.phase.records
           q == [led.phase EXCEPT !.records = recs]
           m == RolledBack(batch, given)
<1>3. /\ led \in Ledgers /\ BookInv(led) /\ ReserveInv(led, faulted) /\ LinkInv(led, faulted)
      /\ RefInv(led) /\ faulted \in BOOLEAN
  BY DEF RunInv, LedgerInv, RunTypes
<1>4. led.phase.on /\ Admissible(batch)
  BY <1>1 DEF MayEmulateCombat
<1>5. GoodBatch(batch, led)
  BY <1>3, <1>4, AdmissibleBatch
<1>6. /\ DOMAIN batch = 1..Len(batch) /\ Len(batch) \in {1, 2}
      /\ new \subseteq Branches /\ new \cap DOMAIN led.books = {}
  BY <1>5, BatchFacts
<1>7. states \in [DOMAIN batch -> Statuses]
  BY DEF Statuses
<1>8. \A k \in DOMAIN batch : states[k] = "released"
  OBVIOUS
<1> HIDE DEF states
<1>9. LedgerInv(after, faulted) /\ IsSubmission(after, batch, states)
  BY <1>1, <1>7, SubmittedKeeps
<1>10. after \in Ledgers
  BY <1>9 DEF LedgerInv
<1>11. m = [led EXCEPT !.dps.issued = [b \in DOMAIN @ |-> @[b] + (IF b \in used THEN 1 ELSE 0)],
                    !.known = RollbackRegistration(after.known, new),
                    !.reserved = after.reserved \ new,
                    !.phase.records = recs,
                    !.phase.table = Restore(after.phase.table, Snapshot(led.phase.table))]
  BY DEF RolledBack, states
<1> HIDE DEF after, m, used
<1>12. Restore(after.phase.table, Snapshot(led.phase.table)) = led.phase.table
  BY <1>3, <1>5, <1>9, AllocationFacts DEF IsSubmission
<1>13. RollbackRegistration(after.known, new) = led.known /\ after.reserved \ new = led.reserved
  <2>1. after.known = led.known \cup new /\ after.reserved = led.reserved \cup new
    BY <1>9 DEF IsSubmission
  <2>2. led.known = DOMAIN led.books \cup {Root} /\ led.reserved \subseteq DOMAIN led.books
    BY <1>3 DEF BookInv
  <2>3. Root \notin new
    BY <1>6, RootIsNoBranch
  <2> HIDE DEF new
  <2> QED
    BY <1>6, <2>1, <2>2, <2>3 DEF RollbackRegistration
<1>14. /\ led.phase \in [on : BOOLEAN, records : Records, table : Tables] /\ led.dps \in Decisions
       /\ recs \in Records
  BY <1>3, <1>10, LedgerFields
<1> HIDE DEF recs
<1>15. /\ q \in [on : BOOLEAN, records : Records, table : Tables]
       /\ q.on = led.phase.on /\ q.records = recs /\ q.table = led.phase.table
  BY <1>14, SamePhase
<1>16. m = [led EXCEPT !.dps = d, !.phase = q]
  <2> DEFINE r == [led.phase EXCEPT !.records = recs, !.table = led.phase.table]
  <2>1. r = q
    BY <1>14
  <2>2. m = [led EXCEPT !.dps = d, !.known = led.known, !.reserved = led.reserved, !.phase = r]
    BY <1>3, <1>11, <1>12, <1>13 DEF Ledgers
  <2> HIDE DEF r, q, d
  <2> QED
    BY <1>3, <2>1, <2>2 DEF Ledgers
<1>17. d \in Decisions /\ d.current = led.dps.current /\ d.issued[Root] = led.dps.issued[Root]
  <2>1. Root \notin used
    <3>1. 1..given \subseteq DOMAIN batch
      BY <1>6
    <3>2. used \subseteq new
      BY <3>1 DEF used, BranchesOf
    <3> QED
      BY <1>6, <3>2, RootIsNoBranch
  <2> DEFINE iss == [b \in DOMAIN led.dps.issued |-> led.dps.issued[b] + (IF b \in used THEN 1 ELSE 0)]
  <2>2. led.dps.issued \in [Ids -> Nat]
    BY <1>14 DEF Decisions
  <2>3. iss \in [Ids -> Nat] /\ iss[Root] = led.dps.issued[Root]
    BY <2>1, <2>2, RootIsNoBranch
  <2>4. d = [led.dps EXCEPT !.issued = iss]
    BY <1>14 DEF Decisions
  <2> HIDE DEF iss, d
  <2> QED
    BY <1>14, <2>3, <2>4 DEF Decisions
<1> HIDE DEF d, q
<1>18. /\ m \in Ledgers
       /\ m.known = led.known /\ m.books = led.books /\ m.order = led.order /\ m.reserved = led.reserved
       /\ m.dps = d /\ m.refs = led.refs /\ m.phase = q
  BY <1>3, <1>15, <1>16, <1>17 DEF Ledgers
<1>19. BookInv(m) /\ RefInv(m)
  BY <1>3, <1>17, <1>18 DEF BookInv, RefInv
<1>20. LinkInv(m, faulted)
  BY <1>3, <1>4, <1>15, <1>18 DEF LinkInv, AllLinked
<1>21. ReserveInv(m, faulted)
  <2>1. /\ DOMAIN led.phase.records = 1..n /\ n \in Nat /\ DOMAIN recs = 1..(n + Len(batch))
        /\ \A i \in DOMAIN led.phase.records : recs[i] = led.phase.records[i]
        /\ \A k \in DOMAIN batch : recs[n + k].state = "released"
    <3>1. /\ DOMAIN led.phase.records = 1..n /\ n \in Nat /\ DOMAIN recs = 1..(n + Len(batch))
          /\ \A i \in DOMAIN led.phase.records : recs[i] = led.phase.records[i]
          /\ \A k \in DOMAIN batch : recs[n + k].state = states[k]
      BY <1>9 DEF IsSubmission, recs
    <3> HIDE DEF recs, n
    <3> QED
      BY <1>8, <3>1
  <2> HIDE DEF n
  <2>2. \A i \in DOMAIN led.phase.records : i \in DOMAIN recs
    BY <2>1, <1>6
  <2>3. \A i \in DOMAIN recs : i \in DOMAIN led.phase.records \/ recs[i].state = "released"
    <3> SUFFICES ASSUME NEW i \in DOMAIN recs, i \notin DOMAIN led.phase.records
                 PROVE  recs[i].state = "released"
      OBVIOUS
    <3>1. i \in 1..(n + Len(batch)) /\ i \notin 1..n /\ n \in Nat /\ Len(batch) \in Nat
      BY <2>1, <1>6
    <3>2. i - n \in 1..Len(batch) /\ i = n + (i - n)
      BY <3>1
    <3> QED
      BY <3>2, <2>1, <1>6
  <2>4. PaidFor(m)
    BY <1>3, <1>15, <1>18, <2>1, <2>3 DEF ReserveInv, PaidFor
  <2>5. Knows(m)
    BY <1>3, <1>4, <1>15, <1>18, <2>1, <2>2 DEF ReserveInv, Knows
  <2> QED
    BY <1>4, <1>15, <1>18, <2>4, <2>5 DEF ReserveInv
<1>22. LedgerInv(m, faulted)
  BY <1>18, <1>19, <1>20, <1>21 DEF LedgerInv
<1>23. m = led'
  BY <1>2 DEF m
<1>24. m.phase.on = led.phase.on
  BY <1>15, <1>18
<1> QED
  BY <1>1, <1>18, <1>22, <1>23, <1>24, StandsStill

-----------------------------------------------------------------------------
(***************************************************************************)
(* Cancel, release, status and close.                                      *)
(***************************************************************************)
LEMMA RecordsKeep ==
    ASSUME NEW l, NEW f \in BOOLEAN, LedgerInv(l, f), l.phase.on, NEW recs \in Records,
           DOMAIN recs = DOMAIN l.phase.records,
           \A i \in DOMAIN recs : recs[i].state = "released" <=> l.phase.records[i].state = "released"
    PROVE  LET m == [l EXCEPT !.phase.records = recs] IN
           /\ LedgerInv(m, f) /\ m.books = l.books /\ m.phase.on /\ m.phase.records = recs
<1> DEFINE m == [l EXCEPT !.phase.records = recs]
           q == [l.phase EXCEPT !.records = recs]
<1>1. /\ l \in Ledgers /\ BookInv(l) /\ ReserveInv(l, f) /\ LinkInv(l, f) /\ RefInv(l)
  BY DEF LedgerInv
<1>2. m = [l EXCEPT !.phase = q]
  BY <1>1 DEF Ledgers
<1>3. l.phase \in [on : BOOLEAN, records : Records, table : Tables]
  BY <1>1, LedgerFields
<1>4. /\ q \in [on : BOOLEAN, records : Records, table : Tables]
      /\ q.on = l.phase.on /\ q.records = recs /\ q.table = l.phase.table
  BY <1>3, SamePhase
<1> HIDE DEF m, q
<1>5. /\ m \in Ledgers
      /\ m.known = l.known /\ m.books = l.books /\ m.order = l.order /\ m.reserved = l.reserved
      /\ m.dps = l.dps /\ m.refs = l.refs /\ m.phase = q
  BY <1>1, <1>2, <1>4 DEF Ledgers
<1>6. BookInv(m) /\ RefInv(m)
  BY <1>1, <1>5 DEF BookInv, RefInv
<1>7. ReserveInv(m, f)
  <2>1. PaidFor(l) /\ Knows(l)
    BY <1>1 DEF ReserveInv
  <2>2. m.phase.records = recs /\ m.reserved = l.reserved /\ m.books = l.books /\ m.phase.on
    BY <1>4, <1>5
  <2>3. PaidFor(m)
    BY <2>1, <2>2 DEF PaidFor
  <2>4. Knows(m)
    BY <2>1, <2>2 DEF Knows
  <2> QED
    BY <2>2, <2>3, <2>4 DEF ReserveInv
<1>8. LinkInv(m, f)
  BY <1>1, <1>4, <1>5 DEF LinkInv, AllLinked
<1> QED
  BY <1>4, <1>5, <1>6, <1>7, <1>8 DEF LedgerInv, m

LEMMA RecordsOf ==
    ASSUME NEW recs \in Records
    PROVE  /\ DOMAIN recs = 1..Len(recs) /\ Len(recs) \in Nat /\ 0 \notin DOMAIN recs
           /\ \A i \in DOMAIN recs : recs[i] \in [state : Statuses, parent : Nat]
           /\ \A m : /\ DOMAIN m = DOMAIN recs /\ m = [i \in DOMAIN recs |-> m[i]]
                     /\ \A i \in DOMAIN recs : m[i] \in [state : Statuses, parent : Nat]
                     => m \in Records
<1> DEFINE S == [state : Statuses, parent : Nat]
<1>1. recs \in Seq(S)
  BY DEF Records
<1> HIDE DEF S
<1>2. /\ DOMAIN recs = 1..Len(recs) /\ Len(recs) \in Nat /\ \A i \in DOMAIN recs : recs[i] \in S
  BY <1>1
<1>3. ASSUME NEW m, DOMAIN m = DOMAIN recs, m = [i \in DOMAIN recs |-> m[i]],
             \A i \in DOMAIN recs : m[i] \in S
      PROVE  m \in Seq(S)
  BY <1>2, <1>3
<1> QED
  BY <1>2, <1>3 DEF S, Records

(* Cancelling some records.                                                *)
LEMMA CancelledRecords ==
    ASSUME NEW recs \in Records, NEW D
    PROVE  LET m == [j \in DOMAIN recs |->
                        IF recs[j].state \notin Ended /\ j \in D
                        THEN [recs[j] EXCEPT !.state = "cancelled"] ELSE recs[j]] IN
           /\ m \in Records /\ DOMAIN m = DOMAIN recs
           /\ \A i \in DOMAIN recs : m[i].state = "released" <=> recs[i].state = "released"
<1> DEFINE m == [j \in DOMAIN recs |->
                    IF recs[j].state \notin Ended /\ j \in D
                    THEN [recs[j] EXCEPT !.state = "cancelled"] ELSE recs[j]]
<1>1. \A i \in DOMAIN recs : recs[i] \in [state : Statuses, parent : Nat]
  BY RecordsOf
<1>2. DOMAIN m = DOMAIN recs /\ m = [i \in DOMAIN recs |-> m[i]]
  OBVIOUS
<1>3. ASSUME NEW i \in DOMAIN recs
      PROVE  /\ m[i] \in [state : Statuses, parent : Nat]
             /\ m[i].state = "released" <=> recs[i].state = "released"
  BY <1>1 DEF Statuses, Ended
<1> HIDE DEF m
<1>4. m \in Records
  BY <1>2, <1>3, RecordsOf
<1> QED
  BY <1>2, <1>3, <1>4 DEF m

LEMMA CancelBranchKeeps ==
    ASSUME RunInv, NEW b \in Branches, CancelBranch(b)
    PROVE  RunInv'
<1> DEFINE i == led.books[b].internal
           recs == led.phase.records
           Some(D) == [j \in DOMAIN recs |-> IF recs[j].state \notin Ended /\ j \in D
                                             THEN [recs[j] EXCEPT !.state = "cancelled"] ELSE recs[j]]
<1>1. /\ ~faulted /\ faulted \in BOOLEAN /\ b \in DOMAIN led.books
      /\ UNCHANGED <<root, faulted, closed, issued_at, torn, faults>> /\ faults \in Nat
      /\ LedgerInv(led, faulted) /\ led \in Ledgers
  BY DEF CancelBranch, Mutable, RunInv, RunTypes, LedgerInv
<1>2. recs \in Records
  BY <1>1, LedgerFields
<1>3. ASSUME NEW l, LedgerInv(l, faulted), l.books = led.books, l.phase.on = led.phase.on,
             led' = Retired(l, {b}, "cancelled")
      PROVE  RunInv'
  <2> DEFINE m == Retired(l, {b}, "cancelled")
  <2>1. "cancelled" \in Statuses \ {"completed"} /\ "cancelled" # "released"
    BY DEF Statuses
  <2>2. /\ LedgerInv(m, faulted) /\ m.phase = l.phase /\ m.dps = l.dps
        /\ DOMAIN m.books = DOMAIN l.books
        /\ \A c \in DOMAIN m.books : m.books[c].view = "none" \/ m.books[c] = l.books[c]
    BY <1>1, <1>3, <2>1, RetiredKeeps
  <2>3. m = led'
    BY <1>3
  <2> HIDE DEF m
  <2> QED
    BY <1>1, <1>3, <2>2, <2>3, StandsStill
<1>4. ASSUME NEW D, led.phase.on
      PROVE  LET l == [led EXCEPT !.phase.records = Some(D)] IN
             LedgerInv(l, faulted) /\ l.books = led.books /\ l.phase.on
  <2>1. /\ Some(D) \in Records /\ DOMAIN Some(D) = DOMAIN recs
        /\ \A j \in DOMAIN recs : Some(D)[j].state = "released" <=> recs[j].state = "released"
    BY <1>2, CancelledRecords
  <2> HIDE DEF Some
  <2> QED
    BY <1>1, <1>4, <2>1, RecordsKeep
<1>5. CASE ~OnPhase(b) /\ led' = Retired(led, {b}, "cancelled")
  BY <1>1, <1>3, <1>5
<1>6. CASE led.phase.on /\ led' = Retired([led EXCEPT !.phase.records = CancelRecords(recs, {i})], {b}, "cancelled")
  <2> DEFINE D == {j \in DOMAIN recs : \E k \in {i} : j \in Lineage(recs, k)}
             l == [led EXCEPT !.phase.records = Some(D)]
  <2>1. CancelRecords(recs, {i}) = Some(D)
    BY DEF CancelRecords
  <2>2. LedgerInv(l, faulted) /\ l.books = led.books /\ l.phase.on
    BY <1>4, <1>6
  <2>3. led' = Retired(l, {b}, "cancelled")
    BY <1>6, <2>1
  <2> HIDE DEF l
  <2>4. l.phase.on = led.phase.on
    BY <1>1, <1>6, <2>2 DEF LedgerInv, Ledgers
  <2> QED
    BY <1>3, <2>2, <2>3, <2>4
<1>7. CASE /\ led.phase.on
           /\ \E reached \in SUBSET {j \in Lineage(recs, i) : recs[j].state # "running"} :
                    led' = [led EXCEPT !.phase.records = [j \in DOMAIN recs |->
                              IF j \in reached /\ recs[j].state \notin Ended
                              THEN [recs[j] EXCEPT !.state = "cancelled"] ELSE recs[j]]]
  <2>1. PICK reached \in SUBSET {j \in Lineage(recs, i) : recs[j].state # "running"} :
                    led' = [led EXCEPT !.phase.records = [j \in DOMAIN recs |->
                              IF j \in reached /\ recs[j].state \notin Ended
                              THEN [recs[j] EXCEPT !.state = "cancelled"] ELSE recs[j]]]
    BY <1>7
  <2>2. led' = [led EXCEPT !.phase.records = Some(reached)]
    BY <2>1
  <2>3. LedgerInv(led', faulted) /\ led'.books = led.books /\ led'.phase.on
    BY <1>4, <1>7, <2>2
  <2>4. led'.phase.on = led.phase.on
    BY <1>1, <1>7, <2>3 DEF LedgerInv, Ledgers
  <2> QED
    BY <1>1, <2>3, <2>4, StandsStill
<1> QED
  BY <1>5, <1>6, <1>7 DEF CancelBranch

LEMMA ReleaseBranchKeeps ==
    ASSUME RunInv, NEW b \in Branches, ReleaseBranch(b)
    PROVE  RunInv'
<1> DEFINE i == led.books[b].internal
           recs == led.phase.records
           ids == <<i>>
<1>1. /\ ~faulted /\ faulted \in BOOLEAN /\ b \in DOMAIN led.books
      /\ UNCHANGED <<root, faulted, closed, issued_at, torn, faults>> /\ faults \in Nat
      /\ LedgerInv(led, faulted) /\ led \in Ledgers
  BY DEF ReleaseBranch, Mutable, RunInv, RunTypes, LedgerInv
<1>2. /\ BookInv(led) /\ ReserveInv(led, faulted) /\ LinkInv(led, faulted) /\ RefInv(led)
      /\ led.phase \in [on : BOOLEAN, records : Records, table : Tables]
  BY <1>1, LedgerFields DEF LedgerInv
<1>3. ASSUME NEW l, LedgerInv(l, faulted), l.books = led.books, l.phase.on = led.phase.on,
             led' = Retired(l, {b}, "released"),
             l.phase.on /\ b \in l.reserved => l.phase.records[l.books[b].internal].state = "released"
      PROVE  RunInv'
  <2> DEFINE m == Retired(l, {b}, "released")
  <2>1. "released" \in Statuses \ {"completed"}
    BY DEF Statuses
  <2>2. /\ LedgerInv(m, faulted) /\ m.phase = l.phase /\ m.dps = l.dps
        /\ DOMAIN m.books = DOMAIN l.books
        /\ \A c \in DOMAIN m.books : m.books[c].view = "none" \/ m.books[c] = l.books[c]
    BY <1>1, <1>3, <2>1, RetiredKeeps
  <2>3. m = led'
    BY <1>3
  <2> HIDE DEF m
  <2> QED
    BY <1>1, <1>3, <2>2, <2>3, StandsStill
<1>4. CASE ~OnPhase(b) /\ led' = Retired(led, {b}, "released")
  <2>1. led.phase.on => b \notin led.reserved
    BY <1>2, <1>4, RecordsOf DEF ReserveInv, Knows, OnPhase
  <2> QED
    BY <1>1, <1>3, <1>4, <2>1
<1>5. ASSUME OnPhase(b), led.phase.on, NEW respawns, ~ReleaseRaises(recs, ids, respawns),
             led' = Retired([led EXCEPT !.phase.records = ReleaseRecords(@, ids, respawns),
                                        !.reserved = @ \ {b}], {b}, "released")
      PROVE  RunInv'
  <2> DEFINE new == ReleaseRecords(recs, ids, respawns)
             q == [led.phase EXCEPT !.records = new]
             m == [led EXCEPT !.phase = q, !.reserved = led.reserved \ {b}]
  <2>1. [led EXCEPT !.phase.records = ReleaseRecords(@, ids, respawns), !.reserved = @ \ {b}] = m
    BY <1>1 DEF Ledgers
  <2>2. /\ new \in Records /\ DOMAIN new = DOMAIN recs
        /\ \A j \in DOMAIN recs : new[j].state = recs[j].state \/ new[j].state = "released"
        /\ \A k \in DOMAIN ids : ids[k] \in DOMAIN recs /\ new[ids[k]].state = "released"
    BY <1>2, <1>5, ReleaseRecordsFacts
  <2>3. i \in DOMAIN recs /\ new[i].state = "released"
    <3>1. 1 \in DOMAIN ids /\ ids[1] = i
      OBVIOUS
    <3> HIDE DEF ids, new
    <3> QED
      BY <2>2, <3>1
  <2> HIDE DEF new
  <2>4. /\ q \in [on : BOOLEAN, records : Records, table : Tables]
        /\ q.on = led.phase.on /\ q.records = new /\ q.table = led.phase.table
    BY <1>2, <2>2, SamePhase
  <2>5. led' = Retired(m, {b}, "released")
    BY <1>5, <2>1
  <2> HIDE DEF q, m
  <2>6. /\ m \in Ledgers
        /\ m.known = led.known /\ m.books = led.books /\ m.order = led.order
        /\ m.reserved = led.reserved \ {b}
        /\ m.dps = led.dps /\ m.refs = led.refs /\ m.phase = q
    BY <1>1, <2>4, LedgerFields DEF Ledgers, m
  <2>7. BookInv(m) /\ LinkInv(m, faulted)
    <3>1. m.reserved \subseteq led.reserved /\ m.reserved \subseteq DOMAIN m.books
          /\ m.dps.current[Root] <= m.dps.issued[Root]
      BY <1>2, <2>6 DEF BookInv
    <3>2. \A c \in DOMAIN led.books : Kin(led.books[c], m.books[c])
      BY <2>6 DEF Kin
    <3>3. m.phase.on = led.phase.on /\ m.phase.table = led.phase.table
      BY <2>4, <2>6
    <3> QED
      BY <1>1, <2>6, <3>1, <3>2, <3>3, KinKeeps
  <2>8. PaidFor(m)
    BY <1>2, <2>2, <2>3, <2>4, <2>6 DEF ReserveInv, PaidFor
  <2>9. Knows(m)
    BY <1>2, <1>5, <2>2, <2>4, <2>6 DEF ReserveInv, Knows
  <2>10. ReserveInv(m, faulted) /\ RefInv(m)
    <3>1. m.phase.on
      BY <1>5, <2>4, <2>6
    <3>2. RefInv(m)
      BY <1>2, <2>6 DEF RefInv
    <3> QED
      BY <2>8, <2>9, <3>1, <3>2 DEF ReserveInv
  <2>11. LedgerInv(m, faulted) /\ m.books = led.books /\ m.phase.on = led.phase.on /\ b \notin m.reserved
    BY <2>4, <2>6, <2>7, <2>10 DEF LedgerInv
  <2> QED
    BY <1>3, <2>5, <2>11
<1> QED
  BY <1>4, <1>5 DEF ReleaseBranch

LEMMA GetBranchStatusKeeps ==
    ASSUME RunInv, NEW b \in Branches, GetBranchStatus(b)
    PROVE  RunInv'
<1> DEFINE i == led.books[b].internal
           recs == led.phase.records
           y == [led.books[b] EXCEPT !.status = recs[i].state]
           bks == [led.books EXCEPT ![b] = y]
<1>1. /\ faulted \in BOOLEAN /\ b \in DOMAIN led.books /\ i \in DOMAIN recs /\ i # 0
      /\ UNCHANGED <<root, faulted, closed, issued_at, torn, faults>> /\ faults \in Nat
      /\ LedgerInv(led, faulted) /\ led \in Ledgers
  BY DEF GetBranchStatus, OnPhase, RunInv, RunTypes, LedgerInv
<1>2. /\ BookInv(led) /\ ReserveInv(led, faulted) /\ LinkInv(led, faulted) /\ RefInv(led)
      /\ led.phase \in [on : BOOLEAN, records : Records, table : Tables]
      /\ led.books \in BookFns
  BY <1>1, LedgerFields DEF LedgerInv
<1>3. /\ DOMAIN led.books \subseteq Branches /\ \A c \in DOMAIN led.books : led.books[c] \in Books
      /\ recs[i].state \in Statuses
  BY <1>1, <1>2, BookFnsFacts, RecordsOf
<1>4. led.phase.on
  BY <1>1, <1>2, EmptyPhases DEF ReserveInv
<1>5. led' = [led EXCEPT !.books = bks]
  BY <1>1 DEF GetBranchStatus, Ledgers
<1>6. /\ y \in Books /\ y.status = recs[i].state /\ y.internal = i /\ y.parent = led.books[b].parent
      /\ y.rng = led.books[b].rng /\ y.decision = led.books[b].decision /\ y.plan = led.books[b].plan
      /\ y.hypothesis = led.books[b].hypothesis /\ y.view = led.books[b].view
      /\ y.terminal = led.books[b].terminal /\ y.at = led.books[b].at
  BY <1>1, <1>3 DEF Books
<1> HIDE DEF y
<1>7. /\ DOMAIN bks = DOMAIN led.books /\ bks[b] = y /\ \A c \in DOMAIN led.books \ {b} : bks[c] = led.books[c]
      /\ bks = [c \in DOMAIN led.books |-> bks[c]]
  BY <1>1, <1>2 DEF BookFns
<1> HIDE DEF bks
<1>8. bks \in BookFns
  BY <1>3, <1>6, <1>7, BookFnsFacts
<1> DEFINE m == led'
<1>9. /\ m \in Ledgers
      /\ m.known = led.known /\ m.books = bks /\ m.order = led.order /\ m.reserved = led.reserved
      /\ m.dps = led.dps /\ m.refs = led.refs /\ m.phase = led.phase
  BY <1>1, <1>5, <1>8 DEF Ledgers
<1> HIDE DEF m
<1>10. \A c \in DOMAIN led.books : Kin(led.books[c], m.books[c])
  BY <1>6, <1>7, <1>9 DEF Kin
<1>11. BookInv(m) /\ LinkInv(m, faulted)
  <2>1. m.reserved \subseteq led.reserved /\ m.reserved \subseteq DOMAIN m.books
        /\ m.dps.current[Root] <= m.dps.issued[Root] /\ DOMAIN m.books = DOMAIN led.books
    BY <1>2, <1>7, <1>9 DEF BookInv
  <2> QED
    BY <1>1, <1>4, <1>9, <1>10, <2>1, KinKeeps
<1>12. ReserveInv(m, faulted)
  <2>1. led.reserved \subseteq DOMAIN led.books /\ PaidFor(led) /\ Knows(led)
    BY <1>2, <1>4 DEF BookInv, ReserveInv
  <2>2. PaidFor(m)
    BY <1>9, <1>10, <2>1 DEF PaidFor, Kin
  <2>3. Knows(m)
    <3> SUFFICES ASSUME NEW c \in led.reserved
                 PROVE  /\ m.books[c].internal \in DOMAIN recs
                        /\ m.books[c].status = "released" => recs[m.books[c].internal].state = "released"
      BY <1>9 DEF Knows
    <3>1. CASE c = b
      BY <3>1, <1>1, <1>6, <1>7, <1>9
    <3>2. CASE c # b
      <4>1. m.books[c] = led.books[c]
        BY <3>2, <1>7, <1>9, <2>1
      <4> QED
        BY <4>1, <2>1 DEF Knows
    <3> QED
      BY <3>1, <3>2
  <2> QED
    BY <1>4, <1>9, <2>2, <2>3 DEF ReserveInv
<1>13. RefInv(m)
  <2>1. led.books[b].plan = NoKey
    BY <1>1, <1>2 DEF BookInv
  <2>2. \A c \in DOMAIN led.books :
             \/ led.books[c].plan = NoKey /\ m.books[c].plan = NoKey
             \/ m.books[c].plan = led.books[c].plan /\ m.books[c].status = led.books[c].status
    BY <2>1, <1>6, <1>7, <1>9
  <2> QED
    BY <1>2, <1>7, <1>9, <2>2, SameRefs
<1>14. LedgerInv(m, faulted)
  BY <1>9, <1>11, <1>12, <1>13 DEF LedgerInv
<1>15. m = led'
  BY DEF m
<1> QED
  BY <1>1, <1>6, <1>7, <1>9, <1>14, <1>15, StandsStill

LEMMA FreshInv ==
    ASSUME NEW f \in BOOLEAN
    PROVE  LedgerInv(Fresh, f) /\ DOMAIN Fresh.books = {} /\ ~Fresh.phase.on
<1> DEFINE d == Issue(NoDecisions, {Root})
<1>1. NoDecisions \in Decisions /\ NoDecisions.issued[Root] = 0
  BY RootIsNoBranch DEF NoDecisions, Decisions, Ids
<1>2. d \in Decisions /\ d.current[Root] <= d.issued[Root]
  <2>1. d \in Decisions /\ d.current[Root] = 0 + 1 /\ d.issued[Root] = 0 + 1
    BY <1>1, IssueTypes, RootIsNoBranch
  <2> HIDE DEF d
  <2> QED
    BY <2>1
<1>3. << >> \in BookFns
  <2>1. << >> \in [{} -> Books]
    OBVIOUS
  <2> QED
    BY <2>1, BookFnsFacts
<1> HIDE DEF d
<1>4. Fresh = [known |-> {Root}, books |-> << >>, order |-> <<>>, reserved |-> {},
               dps |-> d, phase |-> NoPhase, refs |-> << >>]
  BY DEF Fresh, d
<1>5. {Root} \in SUBSET Ids /\ <<>> \in Seq(Branches)
  BY RootIsNoBranch
<1> DEFINE m == Fresh
<1> HIDE DEF m
<1>6. /\ m \in Ledgers /\ m.known = {Root} /\ m.books = << >> /\ m.order = <<>> /\ m.reserved = {}
      /\ m.dps = d /\ m.phase = NoPhase /\ m.refs = << >>
  BY <1>2, <1>3, <1>4, <1>5, EmptyPhases, EmptyRefs DEF Ledgers, m
<1>7. IsFiniteSet({}) /\ Cardinality({}) = 0
  BY FS_EmptySet
<1>8. DOMAIN m.books = {} /\ {m.order[k] : k \in DOMAIN m.order} = {}
  BY <1>6
<1>9. BookInv(m)
  BY <1>2, <1>6, <1>7, <1>8, CapacityIsNatural DEF BookInv
<1>10. ReserveInv(m, f) /\ LinkInv(m, f)
  BY <1>6, <1>8, EmptyPhases DEF ReserveInv, PaidFor, Knows, LinkInv, AllLinked, AllOver, Follow
<1>11. RefInv(m)
  BY <1>6, <1>8, EmptyRefs DEF RefInv
<1> QED
  BY <1>6, <1>8, <1>9, <1>10, <1>11, EmptyPhases DEF LedgerInv, m

LEMMA CloseKeeps ==
    ASSUME RunInv, Close
    PROVE  RunInv'
<1>1. RunTypes /\ closed' = TRUE /\ led' = Fresh /\ issued_at' = 0 /\ torn' = FALSE
      /\ UNCHANGED <<root, faulted, faults>> /\ faulted \in BOOLEAN
  BY DEF RunInv, Close, RunTypes
<1>2. LedgerInv(Fresh, faulted)
  BY <1>1, FreshInv
<1>3. RunTypes' /\ WhereInv' /\ LedgerInv(led', faulted')
  BY <1>1, <1>2 DEF RunTypes, WhereInv
<1> QED
  BY <1>3 DEF RunInv

LEMMA RunInitInv == RunInit => RunInv
<1> SUFFICES ASSUME RunInit PROVE RunInv
  OBVIOUS
<1>1. LedgerInv(led, faulted) /\ DOMAIN led.books = {} /\ ~led.phase.on
  BY FreshInv DEF RunInit
<1>2. RunTypes /\ root.pos = 0 /\ root.replay = 0 /\ ~root.fought /\ issued_at = 0
  <2>1. PICK b \in {"event_choice", "map_select"} :
          root = [boundary |-> b, pos |-> 0, replay |-> 0, snap |-> b = "map_select", fought |-> FALSE]
    BY DEF RunInit
  <2>2. (b = "map_select") \in BOOLEAN /\ b \in Boundaries
    BY DEF Boundaries
  <2>3. /\ root \in [boundary : Boundaries, pos : Nat, replay : Nat, snap : BOOLEAN, fought : BOOLEAN]
        /\ root.pos = 0 /\ root.replay = 0 /\ ~root.fought
    BY <2>1, <2>2
  <2> QED
    BY <2>3 DEF RunInit, RunTypes
<1>3. WhereInv
  BY <1>1, <1>2 DEF WhereInv, BoundaryInv, DecisionInv, ViewsAt
<1> QED
  BY <1>1, <1>2, <1>3 DEF RunInv

-----------------------------------------------------------------------------
(***************************************************************************)
(* The commits.                                                            *)
(***************************************************************************)
Roots == [boundary : Boundaries, pos : Nat, replay : Nat, snap : BOOLEAN, fought : BOOLEAN]

LEMMA CapturedFacts ==
    ASSUME NEW r \in Roots
    PROVE  /\ Captured(r) \in Roots /\ Captured(r).pos = r.pos /\ Captured(r).boundary = r.boundary
           /\ r.boundary = "map_select" => Captured(r).replay = r.pos /\ ~Captured(r).fought
           /\ r.boundary # "map_select" => Captured(r) = r
BY DEF Captured, Roots

(* The ledger after a release of everything.                               *)
AllReleased(l, m) ==
    /\ LedgerInv(m, FALSE) /\ LedgerInv([m EXCEPT !.phase = NoPhase], FALSE)
    /\ DOMAIN m.books = DOMAIN l.books
    /\ \A b \in DOMAIN m.books : m.books[b].view = "none"
    /\ m.dps.current[Root] = l.dps.current[Root]
    /\ m.dps.issued[Root] = l.dps.issued[Root] /\ m.phase.on = l.phase.on

LEMMA EverythingReleased ==
    ASSUME NEW l, NEW respawns, LedgerInv(l, FALSE), ~ReleaseAllRaises(l, respawns)
    PROVE  AllReleased(l, ReleaseAll(l, respawns))
<1>1. PICK f \in BOOLEAN : f = FALSE
  OBVIOUS
<1>2. LedgerInv(l, f)
  BY <1>1
<1> DEFINE m == ReleaseAll(l, respawns)
<1>3. /\ LedgerInv(m, f) /\ LedgerInv([m EXCEPT !.phase = NoPhase], f)
      /\ DOMAIN m.books = DOMAIN l.books
      /\ \A b \in DOMAIN m.books : m.books[b].view = "none"
      /\ m.dps.current[Root] = l.dps.current[Root]
      /\ m.dps.issued[Root] = l.dps.issued[Root] /\ m.phase.on = l.phase.on
  BY <1>2, ReleaseAllKeeps
<1> HIDE DEF m
<1> QED
  BY <1>1, <1>3 DEF AllReleased, m

(* A commit that is recorded leaves no view behind, and a decision point   *)
(* issued where the run stands.                                            *)
LEMMA RecordKeeps ==
    ASSUME RunTypes, NEW r \in Roots, NEW l, NEW release \in BOOLEAN, NEW issue \in BOOLEAN,
           NEW respawns, ~faulted, faulted' = faulted, closed' = closed,
           LedgerInv(l, FALSE), release => ~ReleaseAllRaises(l, respawns),
           ~release => \A b \in DOMAIN l.books : l.books[b].view = "none",
           issue => l.dps.current[Root] = led.dps.current[Root] /\ led.dps.current[Root] <= l.dps.issued[Root],
           ~issue => l.dps.current[Root] # led.dps.current[Root],
           led.dps.current[Root] \in Nat,
           r.fought => r.boundary # "event_choice",
           l.phase.on => r.boundary = "combat",
           ~torn /\ ~r.fought => r.replay = r.pos,
           Record(r, l, release, issue, respawns)
    PROVE  RunInv'
<1> DEFINE kept == IF release THEN ReleaseAll(l, respawns) ELSE l
           done == IF issue THEN [kept EXCEPT !.dps = Issue(@, {Root})] ELSE kept
<1>1. /\ root' = Captured(r) /\ led' = done
      /\ issued_at' = IF led'.dps.current[Root] = led.dps.current[Root] THEN issued_at ELSE r.pos
      /\ torn' = (torn /\ r.boundary # "map_select") /\ faults' = faults
  BY DEF Record
<1>2. FALSE \in BOOLEAN
  OBVIOUS
<1>3. /\ LedgerInv(kept, FALSE) /\ kept.phase.on = l.phase.on
      /\ \A b \in DOMAIN kept.books : kept.books[b].view = "none"
      /\ kept.dps.current[Root] = l.dps.current[Root]
      /\ kept.dps.issued[Root] = l.dps.issued[Root]
  <2>1. CASE release
    <3> DEFINE m == ReleaseAll(l, respawns)
    <3>1. /\ LedgerInv(m, FALSE)
          /\ \A b \in DOMAIN m.books : m.books[b].view = "none"
          /\ m.dps.current[Root] = l.dps.current[Root]
          /\ m.dps.issued[Root] = l.dps.issued[Root] /\ m.phase.on = l.phase.on
      <4>1. ~ReleaseAllRaises(l, respawns)
        BY <2>1
      <4> QED
        BY <4>1, EverythingReleased DEF AllReleased
    <3>2. kept = m
      BY <2>1
    <3> QED
      BY <3>1, <3>2
  <2>2. CASE ~release
    BY <2>2
  <2> QED
    BY <2>1, <2>2
<1> HIDE DEF kept
<1>4. /\ LedgerInv(done, FALSE) /\ done.books = kept.books /\ done.phase = kept.phase
      /\ done.dps.current[Root] # led.dps.current[Root]
  <2>1. CASE issue
    <3> DEFINE m == [kept EXCEPT !.dps = Issue(@, {Root})]
    <3>1. /\ LedgerInv(m, FALSE) /\ m.books = kept.books /\ m.phase = kept.phase
          /\ m.dps.current[Root] # kept.dps.current[Root]
      BY <1>2, <1>3, IssueRootKeeps
    <3>2. done = m
      BY <2>1
    <3> HIDE DEF m
    <3> QED
      BY <2>1, <3>1, <3>2, <1>3
  <2>2. CASE ~issue
    BY <2>2, <1>3
  <2> QED
    BY <2>1, <2>2
<1> HIDE DEF done
<1>5. issued_at' = r.pos
  BY <1>1, <1>4
<1>6. /\ Captured(r) \in Roots /\ Captured(r).pos = r.pos /\ Captured(r).boundary = r.boundary
      /\ r.boundary = "map_select" => Captured(r).replay = r.pos /\ ~Captured(r).fought
      /\ r.boundary # "map_select" => Captured(r) = r
  BY CapturedFacts
<1>7. RunTypes'
  <2>1. root' \in Roots /\ torn' \in BOOLEAN /\ issued_at' \in Nat
    BY <1>1, <1>5, <1>6 DEF RunTypes, Roots
  <2> QED
    BY <1>1, <2>1 DEF RunTypes, Roots
<1>8. LedgerInv(led', faulted')
  BY <1>1, <1>4 DEF RunTypes
<1>9. WhereInv'
  <2>1. BoundaryInv(root', led')
    BY <1>1, <1>3, <1>4, <1>6 DEF BoundaryInv
  <2>2. ASSUME ~torn' PROVE DecisionInv(root', led', issued_at')
    <3>1. ViewsAt(led', root'.pos)
      BY <1>1, <1>3, <1>4 DEF ViewsAt
    <3>2. ~root'.fought => root'.replay = root'.pos
      BY <1>1, <1>6, <2>2 DEF RunTypes
    <3> QED
      BY <1>1, <1>5, <1>6, <3>1, <3>2 DEF DecisionInv
  <2> QED
    BY <2>1, <2>2 DEF WhereInv
<1> QED
  BY <1>7, <1>8, <1>9 DEF RunInv

LEMMA RecordRaisesKeeps ==
    ASSUME RunTypes, NEW r \in Roots, NEW l, NEW respawns,
           ~faulted, faulted' = faulted, closed' = closed, LedgerInv(l, FALSE),
           r.fought => r.boundary # "event_choice",
           l.phase.on => r.boundary = "combat",
           RecordRaises(r, l, respawns)
    PROVE  RunInv'
<1> DEFINE m == Interrupted(l, respawns)
<1>1. /\ root' = r /\ led' = m /\ torn' = TRUE /\ faults' = faults
      /\ issued_at' = IF l.dps = led.dps THEN issued_at ELSE r.pos
  BY DEF RecordRaises
<1>2. LedgerInv(m, FALSE) /\ m.phase.on = l.phase.on
  <2>1. PICK f \in BOOLEAN : f = FALSE
    OBVIOUS
  <2>2. LedgerInv(l, f)
    BY <2>1
  <2>3. LedgerInv(m, f) /\ m.phase.on = l.phase.on
    BY <2>2, InterruptedKeeps
  <2> QED
    BY <2>1, <2>3
<1> HIDE DEF m
<1>3. RunTypes'
  BY <1>1 DEF RunTypes, Roots
<1>4. LedgerInv(led', faulted')
  BY <1>1, <1>2 DEF RunTypes
<1>5. WhereInv'
  BY <1>1, <1>2 DEF WhereInv, BoundaryInv
<1> QED
  BY <1>3, <1>4, <1>5 DEF RunInv

(* What a commit may count on.                                             *)
LEMMA MutableRun ==
    ASSUME RunInv, Mutable
    PROVE  /\ RunTypes /\ root \in Roots /\ ~faulted /\ ~closed /\ faulted \in BOOLEAN
           /\ LedgerInv(led, FALSE) /\ led \in Ledgers /\ led.phase.on \in BOOLEAN
           /\ root.fought => root.boundary # "event_choice"
           /\ led.phase.on => root.boundary = "combat"
           /\ ~torn /\ ~root.fought => root.replay = root.pos
           /\ led.dps.current[Root] \in Nat /\ led.dps.issued[Root] \in Nat
           /\ led.dps.current[Root] <= led.dps.issued[Root]
<1>1. RunTypes /\ LedgerInv(led, faulted) /\ WhereInv /\ ~faulted /\ ~closed
  BY DEF RunInv, Mutable
<1>2. root \in Roots /\ faulted \in BOOLEAN
  BY <1>1 DEF RunTypes, Roots
<1>3. LedgerInv(led, FALSE)
  BY <1>1, <1>2
<1>4. led \in Ledgers /\ led.dps.current[Root] <= led.dps.issued[Root]
  BY <1>3 DEF LedgerInv, BookInv
<1>5. led.dps \in Decisions /\ led.phase.on \in BOOLEAN
  BY <1>4, LedgerFields
<1>6. led.dps.current[Root] \in Nat /\ led.dps.issued[Root] \in Nat
  BY <1>5, RootIsNoBranch DEF Decisions
<1> QED
  BY <1>1, <1>2, <1>3, <1>4, <1>5, <1>6 DEF WhereInv, BoundaryInv, DecisionInv

LEMMA MovedFacts ==
    ASSUME root \in Roots, NEW b \in Boundaries
    PROVE  /\ Moved(b) \in Roots /\ Moved(b).boundary = b /\ Moved(b).fought = root.fought
           /\ Moved(b).pos = root.pos + 1 /\ Moved(b).replay = root.replay + 1
           /\ MovedInCombat(b) \in Roots /\ MovedInCombat(b).boundary = b
           /\ MovedInCombat(b).fought = TRUE /\ MovedInCombat(b).pos = root.pos + 1
<1>1. root.pos + 1 \in Nat /\ root.replay + 1 \in Nat
  BY DEF Roots
<1>2. /\ Moved(b) = [root EXCEPT !.boundary = b, !.pos = root.pos + 1, !.replay = root.replay + 1]
      /\ MovedInCombat(b) = [root EXCEPT !.boundary = b, !.pos = root.pos + 1, !.fought = TRUE]
  BY DEF Moved, MovedInCombat, Roots
<1>3. \A p, q \in Nat : LET m == [root EXCEPT !.boundary = b, !.pos = p, !.replay = q] IN
        m \in Roots /\ m.boundary = b /\ m.fought = root.fought /\ m.pos = p /\ m.replay = q
  BY DEF Roots
<1>4. \A p \in Nat : \A t \in BOOLEAN : LET m == [root EXCEPT !.boundary = b, !.pos = p, !.fought = t] IN
        m \in Roots /\ m.boundary = b /\ m.fought = t /\ m.pos = p
  BY DEF Roots
<1> DEFINE x == [root EXCEPT !.boundary = b, !.pos = root.pos + 1, !.replay = root.replay + 1]
           y == [root EXCEPT !.boundary = b, !.pos = root.pos + 1, !.fought = TRUE]
<1>5. x \in Roots /\ x.boundary = b /\ x.fought = root.fought /\ x.pos = root.pos + 1 /\ x.replay = root.replay + 1
  BY <1>1, <1>3
<1>6. y \in Roots /\ y.boundary = b /\ y.fought = TRUE /\ y.pos = root.pos + 1
  BY <1>1, <1>4
<1>7. Moved(b) = x /\ MovedInCombat(b) = y
  BY <1>2
<1> HIDE DEF x, y
<1> QED
  BY <1>5, <1>6, <1>7

LEMMA CommitRunKeeps ==
    ASSUME RunInv, CommitRun
    PROVE  RunInv'
<1>1. Mutable /\ ~led.phase.on /\ faulted' = faulted /\ closed' = closed
  BY DEF CommitRun, MayCommit
<1>2. /\ RunTypes /\ root \in Roots /\ ~faulted /\ LedgerInv(led, FALSE)
      /\ ~torn /\ ~root.fought => root.replay = root.pos
      /\ led.dps.current[Root] \in Nat /\ led.dps.current[Root] <= led.dps.issued[Root]
  BY <1>1, MutableRun
<1>3. PICK b \in OutsideCombat, respawns \in Respawns :
          /\ EngineReaches(b)
          /\ \/ /\ ~ReleaseAllRaises(led, respawns)
                /\ Record(Moved(b), led, TRUE, TRUE, respawns)
             \/ RecordRaises(Moved(b), led, respawns)
  BY DEF CommitRun, RecordRootCommit
<1> DEFINE r == Moved(b)
<1>4. /\ r \in Roots /\ r.boundary = b /\ r.fought = root.fought
      /\ r.pos = root.pos + 1 /\ r.replay = root.replay + 1
  BY <1>2, MovedFacts DEF OutsideCombat
<1> HIDE DEF r
<1>5. /\ r.fought => r.boundary # "event_choice"
      /\ ~torn /\ ~r.fought => r.replay = r.pos
  BY <1>2, <1>3, <1>4 DEF EngineReaches, Roots
<1>6. CASE ~ReleaseAllRaises(led, respawns) /\ Record(r, led, TRUE, TRUE, respawns)
  <2>1. PICK t \in BOOLEAN : t = TRUE
    OBVIOUS
  <2>2. Record(r, led, t, t, respawns)
    BY <1>6, <2>1
  <2> QED
    BY <1>1, <1>2, <1>4, <1>5, <1>6, <2>1, <2>2, RecordKeeps
<1>7. CASE RecordRaises(r, led, respawns)
  BY <1>1, <1>2, <1>4, <1>5, <1>7, RecordRaisesKeeps
<1> QED
  BY <1>3, <1>6, <1>7 DEF r

LEMMA CommitRunFaultsKeeps ==
    ASSUME RunInv, CommitRunFaults
    PROVE  RunInv'
<1>1. /\ Mutable /\ ~led.phase.on /\ UNCHANGED <<led, faulted, closed, issued_at>>
      /\ root'.pos = root.pos => root' = root
      /\ torn' = (torn \/ root'.pos # root.pos)
      /\ faults' = faults + 1
  BY DEF CommitRunFaults, MayCommit, Fails
<1>2. /\ RunTypes /\ root \in Roots /\ ~faulted /\ faulted \in BOOLEAN /\ LedgerInv(led, FALSE)
  BY <1>1, MutableRun
<1>3. PICK b \in Boundaries, extra \in 0..1, in_prefix \in BOOLEAN :
          /\ EngineReaches(b)
          /\ root' = [root EXCEPT !.boundary = b, !.pos = @ + extra + (IF in_prefix THEN 1 ELSE 0),
                                  !.replay = @ + (IF in_prefix THEN 1 ELSE 0)]
  BY DEF CommitRunFaults
<1>4. root' \in Roots /\ root'.boundary = b /\ root'.fought = root.fought
  <2> DEFINE one == IF in_prefix THEN 1 ELSE 0
             p == root.pos + extra + one
             q == root.replay + one
  <2>1. p \in Nat /\ q \in Nat
    BY <1>2 DEF Roots
  <2>2. root' = [root EXCEPT !.boundary = b, !.pos = p, !.replay = q]
    BY <1>2, <1>3 DEF Roots
  <2> HIDE DEF p, q
  <2> QED
    BY <1>2, <2>1, <2>2 DEF Roots
<1>5. RunTypes'
  BY <1>1, <1>2, <1>4 DEF RunTypes, Roots
<1>6. LedgerInv(led', faulted')
  BY <1>1, <1>2
<1>7. WhereInv'
  <2>1. BoundaryInv(root', led')
    BY <1>1, <1>3, <1>4 DEF BoundaryInv, EngineReaches
  <2>2. ~torn' => DecisionInv(root', led', issued_at')
    BY <1>1, <1>2 DEF RunInv, WhereInv, Mutable
  <2> QED
    BY <2>1, <2>2 DEF WhereInv
<1> QED
  BY <1>5, <1>6, <1>7 DEF RunInv

LEMMA EnterCombatKeeps ==
    ASSUME RunInv, EnterCombat
    PROVE  RunInv'
<1> DEFINE adopted == [led EXCEPT !.phase = NewPhase, !.dps = Issue(@, {Root})]
           r == Moved("combat")
<1>1. Mutable /\ ~led.phase.on /\ faulted' = faulted /\ closed' = closed
  BY DEF EnterCombat, MayCommit
<1>2. /\ RunTypes /\ root \in Roots /\ ~faulted /\ LedgerInv(led, FALSE)
      /\ ~torn /\ ~root.fought => root.replay = root.pos
      /\ led.dps.current[Root] \in Nat
  BY <1>1, MutableRun
<1>3. PICK respawns \in Respawns :
        \/ ~ReleaseAllRaises(adopted, respawns) /\ Record(r, adopted, TRUE, FALSE, respawns)
        \/ RecordRaises(r, adopted, respawns)
  BY DEF EnterCombat, RecordRootCommit
<1>4. /\ LedgerInv(adopted, FALSE) /\ adopted.dps.current[Root] # led.dps.current[Root]
  BY <1>1, <1>2, AdoptKeeps
<1>5. /\ r \in Roots /\ r.boundary = "combat" /\ r.fought = root.fought
      /\ r.pos = root.pos + 1 /\ r.replay = root.replay + 1
  <2>1. "combat" \in Boundaries
    BY DEF Boundaries
  <2> QED
    BY <1>2, <2>1, MovedFacts
<1> HIDE DEF adopted, r
<1>6. ~torn /\ ~r.fought => r.replay = r.pos
  BY <1>2, <1>5
<1>7. CASE ~ReleaseAllRaises(adopted, respawns) /\ Record(r, adopted, TRUE, FALSE, respawns)
  <2>1. PICK t \in BOOLEAN, f \in BOOLEAN : t = TRUE /\ f = FALSE
    OBVIOUS
  <2>2. Record(r, adopted, t, f, respawns)
    BY <1>7, <2>1
  <2> QED
    BY <1>1, <1>2, <1>4, <1>5, <1>6, <1>7, <2>1, <2>2, RecordKeeps
<1>8. CASE RecordRaises(r, adopted, respawns)
  BY <1>1, <1>2, <1>4, <1>5, <1>8, RecordRaisesKeeps
<1> QED
  BY <1>3, <1>7, <1>8

LEMMA EnterCombatFaultsKeeps ==
    ASSUME RunInv, EnterCombatFaults
    PROVE  RunInv'
<1> DEFINE reissued == [led EXCEPT !.dps = Issue(@, {Root})]
           r == Moved("combat")
<1>1. Mutable /\ ~led.phase.on /\ root' = r /\ torn' = TRUE /\ closed' = closed /\ faults' = faults + 1
  BY DEF EnterCombatFaults, MayCommit, Fails
<1>2. /\ RunTypes /\ root \in Roots /\ LedgerInv(led, FALSE)
      /\ led.dps.current[Root] \in Nat /\ led.dps.issued[Root] \in Nat
      /\ led.dps.current[Root] <= led.dps.issued[Root]
  BY <1>1, MutableRun
<1>3. r \in Roots /\ r.boundary = "combat" /\ r.pos \in Nat
  <2>1. "combat" \in Boundaries
    BY DEF Boundaries
  <2> QED
    BY <1>2, <2>1, MovedFacts DEF Roots
<1>4. PICK f \in BOOLEAN : f = FALSE
  OBVIOUS
<1>5. LedgerInv(led, f)
  BY <1>2, <1>4
<1>6. /\ LedgerInv(reissued, f) /\ reissued.phase = led.phase /\ reissued.dps = Issue(led.dps, {Root})
  BY <1>5, IssueRootKeeps
<1>7. PICK committed \in BOOLEAN :
          /\ faulted' = committed
          /\ IF committed
             THEN led' = Poisoned(reissued, FALSE, TRUE) /\ issued_at' = root'.pos
             ELSE /\ led' = [reissued EXCEPT !.dps = RestoreCurrent(@, Root, led.dps.current[Root])]
                  /\ UNCHANGED issued_at
  BY DEF EnterCombatFaults
<1> HIDE DEF reissued, r
<1>8. CASE committed
  <2>1. LedgerInv(Poisoned(reissued, f, TRUE), TRUE)
    BY <1>6, PoisonedKeeps
  <2>2. LedgerInv(led', TRUE) /\ faulted' = TRUE /\ issued_at' = r.pos
    BY <1>1, <1>4, <1>7, <1>8, <2>1
  <2>3. RunTypes' /\ WhereInv'
    BY <1>1, <1>2, <1>3, <2>2 DEF RunTypes, Roots, WhereInv
  <2> QED
    BY <2>2, <2>3 DEF RunInv
<1>9. CASE ~committed
  <2> DEFINE d == RestoreCurrent(reissued.dps, Root, led.dps.current[Root])
             m == [reissued EXCEPT !.dps = d]
  <2>1. reissued \in Ledgers /\ led \in Ledgers
    BY <1>5, <1>6 DEF LedgerInv
  <2>2. reissued.dps \in Decisions /\ reissued.dps.issued[Root] = led.dps.issued[Root] + 1
    <3>1. led.dps \in Decisions
      BY <2>1, LedgerFields
    <3> QED
      BY <1>6, <3>1, IssueTypes, RootIsNoBranch
  <2>3. d \in Decisions /\ d.current[Root] <= d.issued[Root]
    BY <1>2, <2>2, RootIsNoBranch DEF RestoreCurrent, Decisions
  <2>4. led' = m
    BY <1>7, <1>9, <2>1 DEF Ledgers
  <2> HIDE DEF d
  <2>5. LedgerInv(m, f) /\ m.phase = reissued.phase
    BY <1>6, <2>3, DecisionsKeep
  <2>6. LedgerInv(led', FALSE) /\ ~led'.phase.on /\ faulted' = FALSE /\ issued_at' = issued_at
    BY <1>1, <1>4, <1>6, <1>7, <1>9, <2>4, <2>5
  <2>7. RunTypes'
    <3>1. issued_at \in Nat /\ faults + 1 \in Nat /\ closed \in BOOLEAN
      BY <1>2 DEF RunTypes
    <3>2. root' \in Roots /\ torn' \in BOOLEAN /\ faulted' \in BOOLEAN
      BY <1>1, <1>3, <2>6
    <3> QED
      BY <1>1, <2>6, <3>1, <3>2 DEF RunTypes, Roots
  <2>8. WhereInv'
    BY <1>1, <1>3, <2>6 DEF WhereInv, BoundaryInv
  <2> QED
    BY <2>6, <2>7, <2>8 DEF RunInv
<1> QED
  BY <1>8, <1>9

LEMMA CommitCombatKeeps ==
    ASSUME RunInv, CommitCombat
    PROVE  RunInv'
<1> DEFINE r == MovedInCombat("combat")
<1>1. Mutable /\ faulted' = faulted /\ closed' = closed
  BY DEF CommitCombat, MayCommit
<1>2. /\ RunTypes /\ root \in Roots /\ ~faulted /\ LedgerInv(led, FALSE)
      /\ led.dps.current[Root] \in Nat /\ led.dps.current[Root] <= led.dps.issued[Root]
  BY <1>1, MutableRun
<1>3. PICK respawns \in Respawns :
        ~ReleaseAllRaises(led, respawns) /\ Record(r, led, TRUE, TRUE, respawns)
  BY DEF CommitCombat, RecordRootCommit
<1>4. r \in Roots /\ r.boundary = "combat" /\ r.fought = TRUE
  <2>1. "combat" \in Boundaries
    BY DEF Boundaries
  <2> QED
    BY <1>2, <2>1, MovedFacts
<1> HIDE DEF r
<1>5. PICK t \in BOOLEAN : t = TRUE
  OBVIOUS
<1>6. Record(r, led, t, t, respawns)
  BY <1>3, <1>5
<1> QED
  BY <1>1, <1>2, <1>3, <1>4, <1>5, <1>6, RecordKeeps

LEMMA LeaveCombatKeeps ==
    ASSUME RunInv, LeaveCombat
    PROVE  RunInv'
<1>1. Mutable /\ faulted' = faulted /\ closed' = closed
  BY DEF LeaveCombat, MayCommit
<1>2. /\ RunTypes /\ root \in Roots /\ ~faulted /\ LedgerInv(led, FALSE)
      /\ led.dps.current[Root] \in Nat /\ led.dps.current[Root] <= led.dps.issued[Root]
  BY <1>1, MutableRun
<1>3. PICK b \in OutsideCombat \ {"event_choice"}, respawns \in Respawns :
          /\ ~ReleaseAllRaises(led, respawns)
          /\ Record(MovedInCombat(b),
                [ReleaseAll(led, respawns) EXCEPT !.phase = NoPhase], FALSE, TRUE, respawns)
  BY DEF LeaveCombat, RecordRootCommit
<1> DEFINE r == MovedInCombat(b)
           m == ReleaseAll(led, respawns)
           w == [m EXCEPT !.phase = NoPhase]
<1>4. r \in Roots /\ r.boundary = b /\ r.fought = TRUE
  BY <1>2, MovedFacts DEF OutsideCombat
<1>5. AllReleased(led, m)
  BY <1>2, <1>3, EverythingReleased
<1>6. LedgerInv(m, FALSE) /\ LedgerInv(w, FALSE)
  BY <1>5 DEF AllReleased
<1>7. /\ m.dps.current[Root] = led.dps.current[Root] /\ m.dps.issued[Root] = led.dps.issued[Root]
      /\ \A c \in DOMAIN m.books : m.books[c].view = "none"
  BY <1>5 DEF AllReleased
<1> HIDE DEF m
<1>8. w.books = m.books /\ w.dps = m.dps /\ w.phase = NoPhase
  BY <1>6 DEF LedgerInv, Ledgers
<1>9. PICK t \in BOOLEAN, f \in BOOLEAN : t = TRUE /\ f = FALSE
  OBVIOUS
<1>10. Record(r, w, f, t, respawns)
  BY <1>3, <1>9 DEF m
<1> HIDE DEF r, w
<1>11. /\ w.dps.current[Root] = led.dps.current[Root] /\ led.dps.current[Root] <= w.dps.issued[Root]
       /\ \A c \in DOMAIN w.books : w.books[c].view = "none"
       /\ ~w.phase.on
  BY <1>2, <1>7, <1>8, EmptyPhases
<1>12. r.boundary # "event_choice"
  BY <1>4
<1> QED
  BY <1>1, <1>2, <1>4, <1>6, <1>9, <1>10, <1>11, <1>12, RecordKeeps

LEMMA CommitCombatFaultsKeeps ==
    ASSUME RunInv, CommitCombatFaults
    PROVE  RunInv'
<1>1. /\ Mutable /\ led.phase.on /\ UNCHANGED <<led, faulted, closed, issued_at>> /\ faults' = faults + 1
  BY DEF CommitCombatFaults, MayCommit, Fails
<1>2. PICK moved \in 0..1 : /\ root' = [root EXCEPT !.pos = @ + moved, !.fought = TRUE]
                            /\ torn' = (torn \/ moved = 1)
  BY DEF CommitCombatFaults
<1>3. /\ RunTypes /\ root \in Roots /\ ~faulted /\ faulted \in BOOLEAN /\ LedgerInv(led, FALSE)
      /\ led.phase.on => root.boundary = "combat"
  BY <1>1, MutableRun
<1>4. /\ root' \in Roots /\ root'.boundary = "combat" /\ root'.fought = TRUE /\ root'.pos = root.pos + moved
  <2> DEFINE p == root.pos + moved
  <2>1. p \in Nat
    BY <1>3 DEF Roots
  <2>2. root' = [root EXCEPT !.pos = p, !.fought = TRUE]
    BY <1>2, <1>3 DEF Roots
  <2> HIDE DEF p
  <2>3. root' \in Roots /\ root'.boundary = root.boundary /\ root'.fought = TRUE /\ root'.pos = p
    BY <1>3, <2>1, <2>2 DEF Roots
  <2> QED
    BY <1>1, <1>3, <2>3 DEF p
<1>5. RunTypes'
  <2>1. torn' \in BOOLEAN /\ faults + 1 \in Nat
    BY <1>2, <1>3 DEF RunTypes
  <2> QED
    BY <1>1, <1>3, <1>4, <2>1 DEF RunTypes, Roots
<1>6. LedgerInv(led', faulted')
  BY <1>1, <1>3
<1>7. WhereInv'
  <2>1. BoundaryInv(root', led')
    BY <1>4 DEF BoundaryInv
  <2>2. ASSUME ~torn' PROVE DecisionInv(root', led', issued_at')
    <3>1. ~torn /\ moved = 0
      <4>1. ~torn /\ moved # 1
        BY <1>2, <2>2
      <4> QED
        BY <4>1
    <3>2. root'.pos = root.pos
      BY <1>3, <1>4, <3>1 DEF Roots
    <3>3. DecisionInv(root, led, issued_at)
      BY <1>1, <3>1 DEF RunInv, WhereInv, Mutable
    <3> QED
      BY <1>1, <1>4, <3>2, <3>3 DEF DecisionInv
  <2> QED
    BY <2>1, <2>2 DEF WhereInv
<1> QED
  BY <1>5, <1>6, <1>7 DEF RunInv

LEMMA CommitCombatPoisonsKeeps ==
    ASSUME RunInv, CommitCombatPoisons
    PROVE  RunInv'
<1>1. /\ Mutable /\ closed' = closed /\ issued_at' = issued_at /\ faulted' = TRUE /\ torn' = TRUE
      /\ faults' = IF MayFail THEN faults + 1 ELSE faults
  BY DEF CommitCombatPoisons, MayCommit
<1>2. PICK b \in {"combat", "other"}, first \in Respawns, second \in Respawns, folded \in BOOLEAN :
          /\ folded => ~ReleaseAllRaises(led, first) /\ b # "combat"
          /\ root' = MovedInCombat(b)
          /\ led' = IF folded
                    THEN Poisoned([ReleaseAll(led, first) EXCEPT !.phase = NoPhase], FALSE, second)
                    ELSE Poisoned(IF ReleaseAllRaises(led, first)
                                  THEN Interrupted(led, first) ELSE led, TRUE, second)
  BY DEF CommitCombatPoisons
<1>3. /\ RunTypes /\ root \in Roots /\ LedgerInv(led, FALSE)
  BY <1>1, MutableRun
<1>4. root' \in Roots
  <2>1. b \in Boundaries
    BY DEF Boundaries
  <2> QED
    BY <1>2, <1>3, <2>1, MovedFacts
<1>5. PICK t \in BOOLEAN, f \in BOOLEAN : t = TRUE /\ f = FALSE
  OBVIOUS
<1>6. LedgerInv(led, f)
  BY <1>3, <1>5
<1>7. LedgerInv(led', TRUE)
  <2>1. CASE folded
    <3> DEFINE w == [ReleaseAll(led, first) EXCEPT !.phase = NoPhase]
    <3>1. AllReleased(led, ReleaseAll(led, first))
      BY <1>2, <1>3, <2>1, EverythingReleased
    <3>2. LedgerInv(w, f)
      BY <1>5, <3>1 DEF AllReleased
    <3>3. led' = Poisoned(w, f, second)
      BY <1>2, <1>5, <2>1
    <3> HIDE DEF w
    <3> QED
      BY <3>2, <3>3, PoisonedKeeps
  <2>2. CASE ~folded
    <3> DEFINE l == IF ReleaseAllRaises(led, first) THEN Interrupted(led, first) ELSE led
    <3>1. LedgerInv(Interrupted(led, first), f)
      BY <1>6, InterruptedKeeps
    <3>2. LedgerInv(l, f)
      BY <1>6, <3>1
    <3>3. led' = Poisoned(l, t, second)
      BY <1>2, <1>5, <2>2
    <3> HIDE DEF l
    <3> QED
      BY <3>2, <3>3, PoisonedKeeps
  <2> QED
    BY <2>1, <2>2
<1>9. RunTypes'
  <2>1. faults' \in Nat
    BY <1>1, <1>3 DEF RunTypes
  <2> QED
    BY <1>1, <1>3, <1>4, <2>1 DEF RunTypes, Roots
<1> QED
  BY <1>1, <1>7, <1>9 DEF RunInv, WhereInv

LEMMA RunNextKeeps ==
    ASSUME RunInv, RunNext
    PROVE  RunInv'
<1>1. CASE CommitRun
  BY <1>1, CommitRunKeeps
<1>2. CASE CommitRunFaults
  BY <1>2, CommitRunFaultsKeeps
<1>3. CASE EnterCombat
  BY <1>3, EnterCombatKeeps
<1>4. CASE EnterCombatFaults
  BY <1>4, EnterCombatFaultsKeeps
<1>5. CASE CommitCombat
  BY <1>5, CommitCombatKeeps
<1>6. CASE LeaveCombat
  BY <1>6, LeaveCombatKeeps
<1>7. CASE CommitCombatFaults
  BY <1>7, CommitCombatFaultsKeeps
<1>8. CASE CommitCombatPoisons
  BY <1>8, CommitCombatPoisonsKeeps
<1>9. ASSUME NEW batch \in Batches, NEW single \in BOOLEAN, EmulateEvent(batch, single) PROVE RunInv'
  BY <1>9, EmulateEventKeeps
<1>10. ASSUME NEW batch \in Batches, EmulateCombat(batch) PROVE RunInv'
  BY <1>10, EmulateCombatKeeps
<1>11. ASSUME NEW batch \in Batches, EmulateCombatFails(batch) PROVE RunInv'
  BY <1>11, EmulateCombatFailsKeeps
<1>12. ASSUME NEW batch \in Batches, EmulateCombatLeaks(batch) PROVE RunInv'
  BY <1>12, EmulateCombatLeaksKeeps
<1>13. ASSUME NEW b \in Branches, CancelBranch(b) PROVE RunInv'
  BY <1>13, CancelBranchKeeps
<1>14. ASSUME NEW b \in Branches, ReleaseBranch(b) PROVE RunInv'
  BY <1>14, ReleaseBranchKeeps
<1>15. ASSUME NEW b \in Branches, GetBranchStatus(b) PROVE RunInv'
  BY <1>15, GetBranchStatusKeeps
<1>16. CASE Close
  BY <1>16, CloseKeeps
<1> QED
  BY <1>1, <1>2, <1>3, <1>4, <1>5, <1>6, <1>7, <1>8, <1>9, <1>10, <1>11, <1>12, <1>13, <1>14,
     <1>15, <1>16 DEF RunNext

LEMMA RunStays ==
    ASSUME RunInv, UNCHANGED runVars
    PROVE  RunInv'
BY DEF runVars, RunInv, RunTypes, WhereInv

(***************************************************************************)
(* What the invariant says of a run.                                       *)
(***************************************************************************)
LEMMA RunNoGhosts ==
    ASSUME RunInv
    PROVE  NoGhostBranch
BY DEF RunInv, LedgerInv, BookInv, ReserveInv, PaidFor, NoGhostBranch

LEMMA RunBooksAgree ==
    ASSUME RunInv
    PROVE  HypothesesFollowRngIds /\ EventReferencesAreExact
<1>1. LedgerInv(led, faulted)
  BY DEF RunInv
<1>2. Follow(led)
  BY <1>1, LedgersFollow
<1>3. HypothesesFollowRngIds
  BY <1>2 DEF Follow, HypothesesFollowRngIds, OnPhase
<1>4. led \in Ledgers /\ RefInv(led)
  BY <1>1 DEF LedgerInv
<1>5. /\ DOMAIN led.refs \subseteq PlanKeys
      /\ \A b \in DOMAIN led.books : led.books[b].plan \in PlanKeys
  BY <1>4, LedgerFields, BookFnsFacts, RefFnsFacts DEF Books, PlanKeys
<1>6. EventReferencesAreExact
  <2> SUFFICES ASSUME NEW key \in (DOMAIN led.refs \cup {led.books[b].plan : b \in DOMAIN led.books}) \ {NoKey}
               PROVE  Ref(led.refs, key) = {b \in DOMAIN led.books :
                        led.books[b].plan = key /\ led.books[b].status = "completed"}
    BY DEF EventReferencesAreExact
  <2>1. key \in PlanKeys \ {NoKey}
    BY <1>5
  <2> QED
    BY <1>4, <2>1 DEF RefInv
<1> QED
  BY <1>3, <1>6

LEMMA RunDecisions ==
    ASSUME RunInv
    PROVE  NothingOutlivesTheDecision
BY DEF RunInv, WhereInv, DecisionInv, ViewsAt, NothingOutlivesTheDecision, Mutable, Usable

-----------------------------------------------------------------------------
(***************************************************************************)
(* The ledger of a standalone combat.                                      *)
(***************************************************************************)
IsCombatBook(x) ==
    /\ x = [internal |-> x.internal, parent |-> x.parent, rng |-> x.rng, view |-> x.view,
            decision |-> x.decision, hypothesis |-> x.hypothesis, at |-> x.at]
    /\ x.view \in BOOLEAN
IsCombatLedger(l) ==
    /\ l = [known |-> l.known, books |-> l.books, dps |-> l.dps, records |-> l.records,
            table |-> l.table]
    /\ l.dps \in Decisions /\ l.records \in Records
    /\ DOMAIN l.books \subseteq Branches \cap l.known
    /\ \A b \in DOMAIN l.books :
         /\ IsCombatBook(l.books[b])
         /\ l.books[b].internal \in DOMAIN l.records
         /\ l.books[b].view => l.dps.current[b] # 0
(* No worker is busy, and a record that is not released has its Branch.    *)
NobodyWorks(l) ==
    \A i \in DOMAIN l.records :
      /\ l.records[i].state \notin {"queued", "running"}
      /\ l.records[i].state # "released" => \E b \in DOMAIN l.books : l.books[b].internal = i
CombatViewsAt(l, pos) == \A b \in DOMAIN l.books : l.books[b].view => l.books[b].at = pos

CombatInv ==
    /\ combat \in [pos : Nat, issued_at : Nat, torn : BOOLEAN] /\ cclosed \in BOOLEAN
    /\ IsCombatLedger(cled)
    /\ ~cclosed => NobodyWorks(cled)
    /\ ~cclosed /\ ~combat.torn => CombatViewsAt(cled, combat.pos)

LEMMA CombatDecisions ==
    ASSUME NEW d \in Decisions, NEW bs
    PROVE  Standalone!Issue(d, bs) = Issue(d, bs) /\ Standalone!Clear(d, bs) = Clear(d, bs)
BY DEF Standalone!Issue, Issue, Standalone!Clear, Clear

LEMMA CombatInitInv == Standalone!CInit => CombatInv
<1> SUFFICES ASSUME Standalone!CInit PROVE CombatInv
  OBVIOUS
<1> DEFINE d == Issue(NoDecisions, {Root})
<1>1. NoDecisions \in Decisions
  BY RootIsNoBranch DEF NoDecisions, Decisions, Ids
<1>2. d \in Decisions
  BY <1>1, IssueTypes
<1>3. Standalone!Issue(Standalone!NoDecisions, {Root}) = d
  <2>1. Standalone!NoDecisions = NoDecisions
    BY DEF Standalone!NoDecisions, NoDecisions
  <2> QED
    BY <1>1, <2>1, CombatDecisions
<1> HIDE DEF d
<1>4. cled = [known |-> {Root}, books |-> << >>, dps |-> d, records |-> <<>>,
              table |-> Standalone!NoHypotheses]
  BY <1>3 DEF Standalone!CInit
<1>5. <<>> \in Records
  BY DEF Records
<1>6. IsCombatLedger(cled) /\ DOMAIN cled.books = {} /\ DOMAIN cled.records = {}
  BY <1>2, <1>4, <1>5 DEF IsCombatLedger
<1>7. combat \in [pos : Nat, issued_at : Nat, torn : BOOLEAN] /\ cclosed \in BOOLEAN
  BY DEF Standalone!CInit
<1> QED
  BY <1>6, <1>7 DEF CombatInv, NobodyWorks, CombatViewsAt

LEMMA CombatReleasedFacts ==
    ASSUME NEW l, IsCombatLedger(l), NEW bs \in SUBSET DOMAIN l.books
    PROVE  LET m == Standalone!Released(l, bs) IN
           /\ IsCombatLedger(m) /\ DOMAIN m.books = DOMAIN l.books
           /\ DOMAIN m.records = DOMAIN l.records
           /\ \A i \in DOMAIN l.records : m.records[i].state = l.records[i].state \/ m.records[i].state = "released"
           /\ \A b \in bs : m.records[l.books[b].internal].state = "released" /\ ~m.books[b].view
           /\ \A b \in DOMAIN l.books : m.books[b].internal = l.books[b].internal
           /\ \A b \in DOMAIN l.books \ bs : m.books[b] = l.books[b]
<1> DEFINE m == Standalone!Released(l, bs)
           hit(i) == \E b \in bs : l.books[b].internal = i
           rs == [i \in DOMAIN l.records |->
                    IF hit(i) THEN [l.records[i] EXCEPT !.state = "released"] ELSE l.records[i]]
           bks == [b \in DOMAIN l.books |->
                     IF b \in bs THEN Standalone!Compacted(l.books[b]) ELSE l.books[b]]
           d == Clear(l.dps, bs)
<1>1. /\ l = [known |-> l.known, books |-> l.books, dps |-> l.dps, records |-> l.records, table |-> l.table]
      /\ l.dps \in Decisions /\ l.records \in Records /\ DOMAIN l.books \subseteq Branches \cap l.known
      /\ \A b \in DOMAIN l.books :
           /\ IsCombatBook(l.books[b]) /\ l.books[b].internal \in DOMAIN l.records
           /\ l.books[b].view => l.dps.current[b] # 0
  BY DEF IsCombatLedger
<1>2. \A i \in DOMAIN l.records : l.records[i] \in [state : Statuses, parent : Nat]
  BY <1>1, RecordsOf
<1>3. m = [known |-> l.known, books |-> bks, dps |-> Standalone!Clear(l.dps, bs), records |-> rs,
           table |-> l.table]
  <2> DEFINE w == [l EXCEPT !.records = rs]
  <2>1. w = [known |-> l.known, books |-> l.books, dps |-> l.dps, records |-> rs, table |-> l.table]
    BY <1>1
  <2>2. m = Standalone!Compact(w, bs)
    BY <1>1 DEF Standalone!Released
  <2> HIDE DEF w, rs
  <2>3. w.books = l.books /\ w.dps = l.dps
    BY <2>1
  <2> DEFINE dd == Standalone!Clear(l.dps, bs)
  <2>4. m = [w EXCEPT !.books = bks, !.dps = dd]
    BY <2>2, <2>3 DEF Standalone!Compact
  <2> HIDE DEF bks, dd, m
  <2>5. m = [known |-> l.known, books |-> bks, dps |-> dd, records |-> rs, table |-> l.table]
    BY <2>1, <2>4
  <2> QED
    BY <2>5 DEF dd
<1>4. /\ DOMAIN rs = DOMAIN l.records /\ rs = [i \in DOMAIN l.records |-> rs[i]]
      /\ \A i \in DOMAIN l.records :
           /\ rs[i] \in [state : Statuses, parent : Nat]
           /\ rs[i].state = l.records[i].state \/ rs[i].state = "released"
           /\ hit(i) => rs[i].state = "released"
  <2> HIDE DEF hit
  <2> QED
    BY <1>2 DEF Statuses
<1>5. DOMAIN bks = DOMAIN l.books /\ \A b \in DOMAIN l.books :
        bks[b] = IF b \in bs THEN Standalone!Compacted(l.books[b]) ELSE l.books[b]
  OBVIOUS
<1> HIDE DEF rs, bks
<1>6. rs \in Records
  BY <1>1, <1>4, RecordsOf
<1>7. d \in Decisions /\ \A b \in Branches : d.current[b] = IF b \in bs THEN 0 ELSE l.dps.current[b]
  BY <1>1, ClearTypes DEF Ids
<1>8. \A x : LET c == Standalone!Compacted(x) IN IsCombatBook(c) /\ c.internal = x.internal /\ ~c.view
  BY DEF Standalone!Compacted, IsCombatBook
<1>9. /\ m.known = l.known /\ m.books = bks /\ m.dps = d /\ m.records = rs /\ m.table = l.table
      /\ m = [known |-> m.known, books |-> m.books, dps |-> m.dps, records |-> m.records, table |-> m.table]
  <2>1. Standalone!Clear(l.dps, bs) = d
    BY <1>1, CombatDecisions
  <2> HIDE DEF d, m
  <2> QED
    BY <1>3, <2>1
<1> HIDE DEF d, m
<1>10. \A b \in DOMAIN l.books :
         /\ IsCombatBook(bks[b]) /\ bks[b].internal = l.books[b].internal
         /\ b \in bs => ~bks[b].view
         /\ b \notin bs => bks[b] = l.books[b]
  BY <1>1, <1>5, <1>8
<1>11. IsCombatLedger(m)
  BY <1>1, <1>4, <1>5, <1>6, <1>7, <1>9, <1>10 DEF IsCombatLedger
<1>12. \A b \in bs : rs[l.books[b].internal].state = "released"
  BY <1>1, <1>4
<1> QED
  BY <1>4, <1>5, <1>9, <1>10, <1>11, <1>12 DEF m

LEMMA CombatCommitKeeps ==
    ASSUME CombatInv, Standalone!CommitAction
    PROVE  CombatInv'
<1> DEFINE m == Standalone!Released(cled, DOMAIN cled.books)
           w == [m EXCEPT !.dps = Standalone!Issue(@, {Root})]
<1>1. /\ ~cclosed /\ cclosed' = cclosed /\ cclosed \in BOOLEAN
      /\ combat' = [combat EXCEPT !.pos = @ + 1, !.issued_at = combat.pos + 1]
      /\ combat \in [pos : Nat, issued_at : Nat, torn : BOOLEAN]
      /\ IsCombatLedger(cled) /\ NobodyWorks(cled)
  BY DEF CombatInv, Standalone!CommitAction, Standalone!Open
<1>2. cled' = w
  BY DEF Standalone!CommitAction, Standalone!Committed, Standalone!ReleasedAll
<1>3. /\ IsCombatLedger(m) /\ DOMAIN m.books = DOMAIN cled.books
      /\ DOMAIN m.records = DOMAIN cled.records
      /\ \A i \in DOMAIN cled.records : m.records[i].state = cled.records[i].state \/ m.records[i].state = "released"
      /\ \A b \in DOMAIN cled.books : m.records[cled.books[b].internal].state = "released" /\ ~m.books[b].view
  BY <1>1, CombatReleasedFacts
<1> HIDE DEF m
<1>4. /\ m.dps \in Decisions
      /\ m = [known |-> m.known, books |-> m.books, dps |-> m.dps, records |-> m.records, table |-> m.table]
  BY <1>3 DEF IsCombatLedger
<1> DEFINE d == Issue(m.dps, {Root})
<1>5. Standalone!Issue(m.dps, {Root}) = d /\ d \in Decisions
  BY <1>4, IssueTypes, CombatDecisions
<1> HIDE DEF d
<1>6. w = [known |-> m.known, books |-> m.books, dps |-> d, records |-> m.records, table |-> m.table]
  BY <1>4, <1>5
<1>7. IsCombatLedger(w) /\ w.books = m.books /\ w.records = m.records
  <2> HIDE DEF w
  <2>1. /\ w = [known |-> w.known, books |-> w.books, dps |-> w.dps, records |-> w.records, table |-> w.table]
        /\ w.known = m.known /\ w.books = m.books /\ w.dps = d /\ w.records = m.records
    BY <1>6
  <2> QED
    BY <1>3, <1>5, <2>1 DEF IsCombatLedger
<1> HIDE DEF w
<1>8. NobodyWorks(w)
  <2> SUFFICES ASSUME NEW i \in DOMAIN cled.records
               PROVE  /\ m.records[i].state \notin {"queued", "running"}
                      /\ m.records[i].state # "released" => \E b \in DOMAIN m.books : m.books[b].internal = i
    BY <1>3, <1>7 DEF NobodyWorks
  <2>1. m.records[i].state = cled.records[i].state \/ m.records[i].state = "released"
    BY <1>3
  <2>2. /\ cled.records[i].state \notin {"queued", "running"}
        /\ cled.records[i].state # "released" => \E b \in DOMAIN cled.books : cled.books[b].internal = i
    BY <1>1 DEF NobodyWorks
  <2> QED
    BY <1>3, <2>1, <2>2
<1>9. \A p : CombatViewsAt(w, p)
  BY <1>3, <1>7 DEF CombatViewsAt
<1>10. combat' \in [pos : Nat, issued_at : Nat, torn : BOOLEAN]
  <2> DEFINE p == combat.pos + 1
  <2>1. p \in Nat
    BY <1>1
  <2>2. combat' = [combat EXCEPT !.pos = p, !.issued_at = p]
    BY <1>1
  <2> HIDE DEF p
  <2> QED
    BY <1>1, <2>1, <2>2
<1> QED
  BY <1>1, <1>2, <1>7, <1>8, <1>9, <1>10 DEF CombatInv

LEMMA CombatCommitFailsKeeps ==
    ASSUME CombatInv, Standalone!CommitFails
    PROVE  CombatInv'
<1>1. ~cclosed /\ cled' = cled
  BY DEF Standalone!CommitFails, Standalone!Open
<1>2. PICK advanced \in BOOLEAN, moved \in 0..1 :
          /\ advanced => moved = 1
          /\ cclosed' = advanced
          /\ combat' = [combat EXCEPT !.pos = @ + moved, !.torn = @ \/ moved = 1]
  BY DEF Standalone!CommitFails
<1>3. combat \in [pos : Nat, issued_at : Nat, torn : BOOLEAN]
  BY DEF CombatInv
<1>4. /\ combat' \in [pos : Nat, issued_at : Nat, torn : BOOLEAN]
      /\ combat'.pos = combat.pos + moved /\ combat'.torn = (combat.torn \/ moved = 1)
  <2> DEFINE p == combat.pos + moved
             t == (combat.torn \/ moved = 1)
  <2>1. p \in Nat /\ t \in BOOLEAN
    BY <1>3
  <2>2. combat' = [combat EXCEPT !.pos = p, !.torn = t]
    BY <1>2, <1>3
  <2> HIDE DEF p, t
  <2>3. combat' \in [pos : Nat, issued_at : Nat, torn : BOOLEAN] /\ combat'.pos = p /\ combat'.torn = t
    BY <1>3, <2>1, <2>2
  <2> QED
    BY <2>3 DEF p, t
<1>5. ASSUME ~combat'.torn PROVE CombatViewsAt(cled', combat'.pos)
  <2>1. ~combat.torn /\ moved # 1
    BY <1>4, <1>5
  <2>2. combat'.pos = combat.pos
    BY <1>3, <1>4, <2>1
  <2>3. CombatViewsAt(cled, combat.pos)
    BY <1>1, <2>1 DEF CombatInv
  <2> QED
    BY <1>1, <2>2, <2>3
<1> QED
  BY <1>1, <1>2, <1>4, <1>5 DEF CombatInv

LEMMA CombatReleaseKeeps ==
    ASSUME CombatInv, NEW bs \in SUBSET DOMAIN cled.books, Standalone!ReleaseBranches(bs)
    PROVE  CombatInv'
<1> DEFINE m == Standalone!Released(cled, bs)
<1>1. /\ ~cclosed /\ cclosed' = cclosed /\ combat' = combat /\ cled' = m
      /\ IsCombatLedger(cled) /\ NobodyWorks(cled)
  BY DEF CombatInv, Standalone!ReleaseBranches, Standalone!Open
<1>2. /\ IsCombatLedger(m) /\ DOMAIN m.books = DOMAIN cled.books
      /\ DOMAIN m.records = DOMAIN cled.records
      /\ \A i \in DOMAIN cled.records : m.records[i].state = cled.records[i].state \/ m.records[i].state = "released"
      /\ \A b \in bs : ~m.books[b].view
      /\ \A b \in DOMAIN cled.books : m.books[b].internal = cled.books[b].internal
      /\ \A b \in DOMAIN cled.books \ bs : m.books[b] = cled.books[b]
  BY <1>1, CombatReleasedFacts
<1> HIDE DEF m
<1>3. NobodyWorks(m)
  <2> SUFFICES ASSUME NEW i \in DOMAIN cled.records
               PROVE  /\ m.records[i].state \notin {"queued", "running"}
                      /\ m.records[i].state # "released" => \E b \in DOMAIN m.books : m.books[b].internal = i
    BY <1>2 DEF NobodyWorks
  <2>1. m.records[i].state = cled.records[i].state \/ m.records[i].state = "released"
    BY <1>2
  <2>2. /\ cled.records[i].state \notin {"queued", "running"}
        /\ cled.records[i].state # "released" => \E b \in DOMAIN cled.books : cled.books[b].internal = i
    BY <1>1 DEF NobodyWorks
  <2> QED
    BY <1>2, <2>1, <2>2
<1>4. \A p : CombatViewsAt(cled, p) => CombatViewsAt(m, p)
  BY <1>2 DEF CombatViewsAt
<1> QED
  BY <1>1, <1>2, <1>3, <1>4 DEF CombatInv

LEMMA CombatCancelKeeps ==
    ASSUME CombatInv, NEW bs, Standalone!CancelBranches(bs)
    PROVE  CombatInv'
<1> DEFINE ids == {cled.books[b].internal : b \in bs}
           recs == cled.records
           rs == Standalone!CancelRecords(recs, ids)
           D == {j \in DOMAIN recs : \E i \in ids : j \in Standalone!Lineage(recs, i)}
           some == [j \in DOMAIN recs |-> IF recs[j].state \notin Ended /\ j \in D
                                          THEN [recs[j] EXCEPT !.state = "cancelled"] ELSE recs[j]]
<1>1. /\ ~cclosed /\ cclosed' = cclosed /\ combat' = combat
      /\ cled' = [cled EXCEPT !.records = Standalone!CancelRecords(@, ids)]
      /\ IsCombatLedger(cled) /\ NobodyWorks(cled)
  BY DEF CombatInv, Standalone!CancelBranches, Standalone!Open
<1>2. recs \in Records
  BY <1>1 DEF IsCombatLedger
<1>3. rs = some
  <2> HIDE DEF ids
  <2> QED
    BY DEF Standalone!CancelRecords, Standalone!Ended, Ended
<1>4. /\ some \in Records /\ DOMAIN some = DOMAIN recs
      /\ \A i \in DOMAIN recs : some[i].state = "released" <=> recs[i].state = "released"
  <2> HIDE DEF D, recs
  <2> QED
    BY <1>2, CancelledRecords
<1>5. \A i \in DOMAIN recs : some[i].state = recs[i].state \/ some[i].state = "cancelled"
  <2>1. \A i \in DOMAIN recs : recs[i] \in [state : Statuses, parent : Nat]
    BY <1>2, RecordsOf
  <2> HIDE DEF D
  <2> QED
    BY <2>1
<1> HIDE DEF some, recs
<1>6. /\ cled' = [known |-> cled.known, books |-> cled.books, dps |-> cled.dps, records |-> some,
                  table |-> cled.table]
  BY <1>1, <1>3 DEF IsCombatLedger, recs
<1>7. IsCombatLedger(cled')
  <2>1. /\ cled'.known = cled.known /\ cled'.books = cled.books /\ cled'.dps = cled.dps
        /\ cled'.records = some
        /\ cled' = [known |-> cled'.known, books |-> cled'.books, dps |-> cled'.dps,
                    records |-> cled'.records, table |-> cled'.table]
    BY <1>6
  <2>2. /\ cled.dps \in Decisions /\ DOMAIN cled.books \subseteq Branches \cap cled.known
        /\ \A b \in DOMAIN cled.books :
             /\ IsCombatBook(cled.books[b]) /\ cled.books[b].internal \in DOMAIN some
             /\ cled.books[b].view => cled.dps.current[b] # 0
    BY <1>1, <1>4 DEF IsCombatLedger, recs
  <2> QED
    BY <1>4, <2>1, <2>2 DEF IsCombatLedger
<1>8. NobodyWorks(cled')
  <2>1. cled'.records = some /\ cled'.books = cled.books
    BY <1>6
  <2> QED
    BY <1>1, <1>4, <1>5, <2>1 DEF NobodyWorks, recs
<1>9. \A p : CombatViewsAt(cled, p) => CombatViewsAt(cled', p)
  BY <1>6 DEF CombatViewsAt
<1> QED
  BY <1>1, <1>7, <1>8, <1>9 DEF CombatInv

LEMMA CombatCloseKeeps ==
    ASSUME CombatInv, Standalone!CClose
    PROVE  CombatInv'
BY DEF CombatInv, Standalone!CClose, Standalone!Open

LEMMA CombatBatchFacts ==
    ASSUME IsCombatLedger(cled), NEW batch \in Standalone!CBatches
    PROVE  /\ DOMAIN batch = 1..Len(batch) /\ Len(batch) \in {1, 2}
           /\ \A k \in DOMAIN batch :
                /\ batch[k].branch \in Branches \ cled.known
                /\ batch[k].branch \notin DOMAIN cled.books
                /\ batch[k].parent \in DOMAIN cled.books \cup {Root}
<1> DEFINE C == Standalone!CItems
<1>1. \A x \in C : /\ x.branch \in Branches \ cled.known
                   /\ x.parent \in DOMAIN cled.books \cup {Root}
  BY DEF Standalone!CItems
<1>2. DOMAIN cled.books \subseteq cled.known
  BY DEF IsCombatLedger
<1>3. batch \in {<<x>> : x \in C} \/ batch \in {<<x, y>> : x, y \in C}
  BY DEF Standalone!CBatches
<1> HIDE DEF C
<1>4. CASE batch \in {<<x>> : x \in C}
  <2>1. PICK x \in C : batch = <<x>>
    BY <1>4
  <2>2. DOMAIN batch = 1..Len(batch) /\ Len(batch) = 1 /\ batch[1] = x
    BY <2>1
  <2>3. DOMAIN batch = {1}
    BY <2>2
  <2> QED
    BY <1>1, <1>2, <2>1, <2>2, <2>3
<1>5. CASE batch \in {<<x, y>> : x, y \in C}
  <2>1. PICK x \in C, y \in C : batch = <<x, y>>
    BY <1>5
  <2>2. DOMAIN batch = 1..Len(batch) /\ Len(batch) = 2 /\ batch[1] = x /\ batch[2] = y
    BY <2>1
  <2>3. DOMAIN batch = {1, 2}
    BY <2>2
  <2> QED
    BY <1>1, <1>2, <2>1, <2>2, <2>3
<1> QED
  BY <1>3, <1>4, <1>5

LEMMA CombatEmulatedFacts ==
    ASSUME IsCombatLedger(cled), NEW batch \in Standalone!CBatches, NEW states \in [DOMAIN batch -> Statuses],
           \A k, j \in DOMAIN batch : k # j => batch[k].branch # batch[j].branch
    PROVE  LET m == Standalone!Emulated(batch, states)
               n == Len(cled.records)
               ids == Standalone!BatchIds(batch) IN
           /\ m = [known |-> m.known, books |-> m.books, dps |-> m.dps, records |-> m.records, table |-> m.table]
           /\ m.known = cled.known \cup ids /\ m.dps = cled.dps
           /\ m.records \in Records /\ n \in Nat
           /\ DOMAIN cled.records = 1..n /\ DOMAIN m.records = 1..(n + Len(batch))
           /\ \A i \in DOMAIN cled.records : m.records[i] = cled.records[i]
           /\ \A k \in DOMAIN batch : m.records[n + k].state = states[k]
           /\ DOMAIN m.books = DOMAIN cled.books \cup ids
           /\ \A b \in DOMAIN cled.books : m.books[b] = cled.books[b]
           /\ \A k \in DOMAIN batch : LET y == m.books[batch[k].branch] IN
                /\ IsCombatBook(y) /\ y.internal = n + k /\ ~y.view /\ y.at = combat.pos
                /\ Standalone!Place(batch, batch[k].branch) = k
<1> DEFINE m == Standalone!Emulated(batch, states)
           n == Len(cled.records)
           ids == Standalone!BatchIds(batch)
           table == Standalone!Grown(batch)
           parents == Standalone!Parents(batch)
           book(k) == [internal |-> n + k, parent |-> batch[k].parent, rng |-> batch[k].rng,
                       view |-> FALSE, decision |-> cled.dps.current[batch[k].parent],
                       hypothesis |-> Standalone!HypothesisIndexFor(table, Standalone!KeyOfItem(batch[k])),
                       at |-> combat.pos]
           bks == [b \in DOMAIN cled.books \cup ids |->
                     IF b \in ids THEN book(Standalone!Place(batch, b)) ELSE cled.books[b]]
           rs == SubmitMany(cled.records, parents, states)
           kn == cled.known \cup ids
<1>1. /\ cled = [known |-> cled.known, books |-> cled.books, dps |-> cled.dps, records |-> cled.records,
                 table |-> cled.table]
      /\ cled.records \in Records
      /\ \A b \in DOMAIN cled.books : cled.books[b].internal \in DOMAIN cled.records
  BY DEF IsCombatLedger
<1>2. /\ DOMAIN batch = 1..Len(batch) /\ Len(batch) \in {1, 2}
      /\ \A k \in DOMAIN batch :
           batch[k].branch \notin DOMAIN cled.books /\ batch[k].parent \in DOMAIN cled.books \cup {Root}
  BY CombatBatchFacts
<1>3. DOMAIN cled.records = 1..n /\ n \in Nat
  BY <1>1, RecordsOf
<1>4. parents \in [1..Len(batch) -> Nat]
  <2>1. parents = [k \in 1..Len(batch) |->
                     IF batch[k].parent = Root THEN 0 ELSE cled.books[batch[k].parent].internal]
    BY <1>2 DEF Standalone!Parents
  <2>2. \A k \in 1..Len(batch) : batch[k].parent # Root => cled.books[batch[k].parent].internal \in Nat
    BY <1>1, <1>2, <1>3
  <2> HIDE DEF parents, n
  <2> QED
    BY <2>1, <2>2
<1>5. Standalone!SubmitMany(cled.records, parents, states) = rs
  BY DEF Standalone!SubmitMany, SubmitMany
<1>6. /\ rs \in Records /\ DOMAIN rs = 1..(n + Len(batch))
      /\ \A i \in DOMAIN cled.records : rs[i] = cled.records[i]
      /\ \A k \in DOMAIN batch : rs[n + k].state = states[k]
  <2> HIDE DEF parents
  <2>1. Len(batch) \in Nat /\ states \in [1..Len(batch) -> Statuses]
    BY <1>2
  <2> DEFINE recs == cled.records
             N == Len(batch)
             out == SubmitMany(recs, parents, states)
  <2>2. recs \in Records /\ N \in Nat /\ parents \in [1..N -> Nat] /\ states \in [1..N -> Statuses]
    BY <1>1, <1>4, <2>1
  <2> HIDE DEF recs, N
  <2>3. /\ out \in Records /\ DOMAIN out = 1..(Len(recs) + N)
        /\ \A i \in DOMAIN recs : out[i] = recs[i]
        /\ \A k \in 1..N : out[Len(recs) + k].state = states[k]
    <3>1. PICK u \in [1..N -> Statuses] : u = states
      BY <2>2
    <3>2. PICK p \in [1..N -> Nat] : p = parents
      BY <2>2
    <3>3. PICK r \in Records, M \in Nat : r = recs /\ M = N
      BY <2>2
    <3>4. p \in [1..M -> Nat] /\ u \in [1..M -> Statuses]
      BY <3>3
    <3>5. LET z == SubmitMany(r, p, u) IN
          /\ z \in Records /\ DOMAIN r = 1..Len(r) /\ Len(r) \in Nat
          /\ DOMAIN z = 1..(Len(r) + M)
          /\ \A i \in DOMAIN r : z[i] = r[i]
          /\ \A k \in 1..M : z[Len(r) + k].state = u[k]
      BY ONLY <3>4, SubmitManyFacts
    <3> QED
      BY <3>1, <3>2, <3>3, <3>5
  <2>4. out = rs
    BY DEF recs
  <2> HIDE DEF out, rs
  <2> QED
    BY <1>2, <2>3, <2>4 DEF recs, N
<1>7. m = [cled EXCEPT !.known = kn, !.books = bks, !.table = table, !.records = rs]
  <2>1. Standalone!Register(cled.known, ids) = kn
    BY DEF Standalone!Register
  <2> HIDE DEF ids, table, parents, rs, kn
  <2> QED
    BY <1>5, <2>1 DEF Standalone!Emulated, ids, table, parents
<1>8. \A k \in DOMAIN batch : Standalone!Place(batch, batch[k].branch) = k
  BY DEF Standalone!Place
<1>9. /\ DOMAIN bks = DOMAIN cled.books \cup ids
      /\ \A b \in DOMAIN cled.books \cup ids :
           bks[b] = IF b \in ids THEN book(Standalone!Place(batch, b)) ELSE cled.books[b]
  <2> HIDE DEF book, ids
  <2> QED
    OBVIOUS
<1>10. \A k \in DOMAIN batch : LET y == book(k) IN
          IsCombatBook(y) /\ y.internal = n + k /\ ~y.view /\ y.at = combat.pos
  <2> HIDE DEF n, table
  <2> QED
    BY DEF IsCombatBook
<1> HIDE DEF m, bks, rs, kn, table, book, n
<1>11. m = [known |-> kn, books |-> bks, dps |-> cled.dps, records |-> rs, table |-> table]
  BY <1>1, <1>7
<1>12. /\ m.known = kn /\ m.books = bks /\ m.dps = cled.dps /\ m.records = rs
       /\ m = [known |-> m.known, books |-> m.books, dps |-> m.dps, records |-> m.records, table |-> m.table]
  BY <1>11
<1>13. \A k \in DOMAIN batch : batch[k].branch \in ids
  BY DEF Standalone!BatchIds
<1>14. \A b \in DOMAIN cled.books : b \notin ids
  BY <1>2 DEF Standalone!BatchIds
<1> HIDE DEF ids
<1>15. \A b \in DOMAIN cled.books : bks[b] = cled.books[b]
  BY <1>9, <1>14
<1>16. \A k \in DOMAIN batch : bks[batch[k].branch] = book(k)
  BY <1>8, <1>9, <1>13
<1> QED
  BY <1>3, <1>6, <1>8, <1>9, <1>10, <1>12, <1>15, <1>16 DEF m, n, ids, kn

LEMMA CombatEmulateKeeps ==
    ASSUME CombatInv, NEW batch \in Standalone!CBatches, Standalone!EmulateActions(batch)
    PROVE  CombatInv'
<1>1. /\ ~cclosed /\ cclosed' = cclosed /\ combat' = combat
      /\ combat \in [pos : Nat, issued_at : Nat, torn : BOOLEAN] /\ cclosed \in BOOLEAN
      /\ IsCombatLedger(cled) /\ NobodyWorks(cled)
      /\ ~combat.torn => CombatViewsAt(cled, combat.pos)
      /\ \A k, j \in DOMAIN batch : k # j => batch[k].branch # batch[j].branch
  BY DEF CombatInv, Standalone!EmulateActions, Standalone!Open, Standalone!Valid
<1>2. PICK answers \in [DOMAIN batch -> Standalone!Answers] :
          cled' = Standalone!FinalizedBranches(
                     Standalone!Emulated(batch, [k \in DOMAIN batch |->
                        IF answers[k] = "fault" THEN "faulted" ELSE "completed"]), batch, answers)
  BY DEF Standalone!EmulateActions
<1> DEFINE states == [k \in DOMAIN batch |-> IF answers[k] = "fault" THEN "faulted" ELSE "completed"]
           m == Standalone!Emulated(batch, states)
           n == Len(cled.records)
           ids == Standalone!BatchIds(batch)
           a == {batch[k].branch : k \in {j \in DOMAIN batch : answers[j] # "fault"}}
           d == Issue(m.dps, a)
           isdec(b) == answers[Standalone!Place(batch, b)] = "decision"
           bks == [b \in DOMAIN m.books |-> IF b \in a THEN [m.books[b] EXCEPT !.view = isdec(b)] ELSE m.books[b]]
           w == cled'
<1>3. states \in [DOMAIN batch -> Statuses] /\ \A k \in DOMAIN batch : states[k] \in {"faulted", "completed"}
  BY DEF Statuses
<1> HIDE DEF states
<1>4. /\ m = [known |-> m.known, books |-> m.books, dps |-> m.dps, records |-> m.records, table |-> m.table]
      /\ m.known = cled.known \cup ids /\ m.dps = cled.dps
      /\ m.records \in Records /\ n \in Nat
      /\ DOMAIN cled.records = 1..n /\ DOMAIN m.records = 1..(n + Len(batch))
      /\ \A i \in DOMAIN cled.records : m.records[i] = cled.records[i]
      /\ \A k \in DOMAIN batch : m.records[n + k].state = states[k]
      /\ DOMAIN m.books = DOMAIN cled.books \cup ids
      /\ \A b \in DOMAIN cled.books : m.books[b] = cled.books[b]
      /\ \A k \in DOMAIN batch : LET y == m.books[batch[k].branch] IN
           /\ IsCombatBook(y) /\ y.internal = n + k /\ ~y.view /\ y.at = combat.pos
           /\ Standalone!Place(batch, batch[k].branch) = k
  BY <1>1, <1>3, CombatEmulatedFacts
<1>5. cled' = Standalone!FinalizedBranches(m, batch, answers)
  BY <1>2 DEF states
<1> HIDE DEF m
<1>6. /\ cled.dps \in Decisions /\ DOMAIN cled.books \subseteq Branches \cap cled.known
      /\ \A b \in DOMAIN cled.books :
           /\ IsCombatBook(cled.books[b]) /\ cled.books[b].internal \in DOMAIN cled.records
           /\ cled.books[b].view => cled.dps.current[b] # 0
  BY <1>1 DEF IsCombatLedger
<1>7. /\ DOMAIN batch = 1..Len(batch) /\ Len(batch) \in {1, 2}
      /\ \A k \in DOMAIN batch : /\ batch[k].branch \in Branches
                                 /\ batch[k].branch \notin DOMAIN cled.books
  BY <1>1, CombatBatchFacts
<1>8. ids = {batch[k].branch : k \in DOMAIN batch}
  BY DEF Standalone!BatchIds
<1>9. a \subseteq ids /\ ids \subseteq Branches /\ \A b \in DOMAIN cled.books : b \notin ids
  BY <1>7, <1>8
<1>10. /\ d \in Decisions /\ Standalone!Issue(m.dps, a) = d
       /\ \A b \in Branches : d.current[b] = IF b \in a THEN m.dps.issued[b] + 1 ELSE m.dps.current[b]
       /\ \A b \in Branches : m.dps.issued[b] \in Nat
  <2>1. m.dps \in Decisions
    BY <1>4, <1>6
  <2> HIDE DEF a
  <2>2. \A b \in Ids : d.current[b] = IF b \in a THEN m.dps.issued[b] + 1 ELSE m.dps.current[b]
    BY <2>1, IssueTypes
  <2> QED
    BY <2>1, <2>2, IssueTypes, CombatDecisions DEF Ids, Decisions
<1>11. cled' = [m EXCEPT !.dps = d, !.books = bks]
  <2>1. cled' = [m EXCEPT !.dps = Standalone!Issue(@, a), !.books = bks]
    BY <1>5 DEF Standalone!FinalizedBranches
  <2> HIDE DEF a, bks, d
  <2> QED
    BY <1>10, <2>1
<1>12. /\ DOMAIN bks = DOMAIN m.books
       /\ \A b \in DOMAIN m.books : bks[b] = IF b \in a THEN [m.books[b] EXCEPT !.view = isdec(b)] ELSE m.books[b]
  <2> HIDE DEF isdec, a
  <2> QED
    OBVIOUS
<1> HIDE DEF d, bks
<1>13. /\ w.known = m.known /\ w.books = bks /\ w.dps = d /\ w.records = m.records
       /\ w = [known |-> w.known, books |-> w.books, dps |-> w.dps, records |-> w.records, table |-> w.table]
  <2> HIDE DEF w
  <2>1. w = [known |-> m.known, books |-> bks, dps |-> d, records |-> m.records, table |-> m.table]
    BY <1>4, <1>11 DEF w
  <2> QED
    BY <2>1
<1> HIDE DEF a
<1>14. \A b \in DOMAIN cled.books : bks[b] = cled.books[b] /\ d.current[b] = cled.dps.current[b]
  BY <1>4, <1>6, <1>9, <1>10, <1>12
<1>15. \A x : \A t \in BOOLEAN : IsCombatBook(x) =>
         LET y == [x EXCEPT !.view = t] IN
         IsCombatBook(y) /\ y.internal = x.internal /\ y.at = x.at /\ y.view = t
  <2> SUFFICES ASSUME NEW x, NEW t \in BOOLEAN, IsCombatBook(x)
               PROVE  LET y == [x EXCEPT !.view = t] IN
                      IsCombatBook(y) /\ y.internal = x.internal /\ y.at = x.at /\ y.view = t
    OBVIOUS
  <2> DEFINE y == [x EXCEPT !.view = t]
  <2>1. x = [internal |-> x.internal, parent |-> x.parent, rng |-> x.rng, view |-> x.view,
             decision |-> x.decision, hypothesis |-> x.hypothesis, at |-> x.at]
    BY DEF IsCombatBook
  <2>2. y = [internal |-> x.internal, parent |-> x.parent, rng |-> x.rng, view |-> t,
             decision |-> x.decision, hypothesis |-> x.hypothesis, at |-> x.at]
    BY <2>1
  <2> HIDE DEF y
  <2>3. y.internal = x.internal /\ y.at = x.at /\ y.view = t
    BY <2>2
  <2>4. IsCombatBook(y)
    BY <2>2 DEF IsCombatBook
  <2> QED
    BY <2>3, <2>4 DEF y
<1>16. ASSUME NEW k \in DOMAIN batch
       PROVE  LET b == batch[k].branch
                  y == bks[b] IN
              /\ b \in ids /\ IsCombatBook(y) /\ y.internal = n + k /\ y.at = combat.pos
              /\ y.view => d.current[b] # 0
  <2> DEFINE b == batch[k].branch
             x == m.books[b]
  <2>1. b \in ids /\ b \in Branches /\ b \in DOMAIN m.books
    BY <1>4, <1>7, <1>8
  <2>2. IsCombatBook(x) /\ x.internal = n + k /\ ~x.view /\ x.at = combat.pos
    BY <1>4
  <2>3. bks[b] = IF b \in a THEN [x EXCEPT !.view = isdec(b)] ELSE x
    BY <1>12, <2>1
  <2>4. isdec(b) \in BOOLEAN
    OBVIOUS
  <2>5. b \in a => d.current[b] # 0
    BY <1>10, <2>1
  <2> HIDE DEF b, x, isdec
  <2>6. CASE b \in a
    BY <1>15, <2>1, <2>2, <2>3, <2>4, <2>5, <2>6 DEF b
  <2>7. CASE b \notin a
    BY <2>1, <2>2, <2>3, <2>7 DEF b
  <2> QED
    BY <2>6, <2>7
<1> HIDE DEF isdec
<1>17. \A b \in DOMAIN bks : b \in DOMAIN cled.books \/ \E k \in DOMAIN batch : b = batch[k].branch
  BY <1>4, <1>8, <1>12
<1>18. \A k \in DOMAIN batch : n + k \in DOMAIN m.records
  BY <1>4, <1>7
<1>19. \A i \in DOMAIN cled.records : i \in DOMAIN m.records
  BY <1>4, <1>7
<1> HIDE DEF ids, n
<1>20. ASSUME NEW b \in DOMAIN bks
       PROVE  /\ IsCombatBook(bks[b]) /\ bks[b].internal \in DOMAIN m.records
              /\ bks[b].view => d.current[b] # 0
              /\ b \in Branches \cap m.known
  <2>1. CASE b \in DOMAIN cled.books
    BY <1>4, <1>6, <1>14, <1>19, <2>1
  <2>2. ASSUME NEW k \in DOMAIN batch, b = batch[k].branch
        PROVE  /\ IsCombatBook(bks[b]) /\ bks[b].internal \in DOMAIN m.records
               /\ bks[b].view => d.current[b] # 0
               /\ b \in Branches \cap m.known
    BY <1>4, <1>7, <1>16, <1>18, <2>2
  <2> QED
    BY <1>17, <2>1, <2>2
<1> HIDE DEF w
<1>21. IsCombatLedger(w)
  BY <1>4, <1>10, <1>13, <1>20 DEF IsCombatLedger
<1>22. NobodyWorks(w)
  <2> SUFFICES ASSUME NEW i \in DOMAIN m.records
               PROVE  /\ m.records[i].state \notin {"queued", "running"}
                      /\ m.records[i].state # "released" => \E b \in DOMAIN bks : bks[b].internal = i
    BY <1>13 DEF NobodyWorks
  <2>1. CASE i \in DOMAIN cled.records
    <3>1. /\ cled.records[i].state \notin {"queued", "running"}
          /\ cled.records[i].state # "released" => \E b \in DOMAIN cled.books : cled.books[b].internal = i
      BY <1>1, <2>1 DEF NobodyWorks
    <3>2. \A b \in DOMAIN cled.books : b \in DOMAIN bks
      BY <1>4, <1>12
    <3> QED
      BY <1>4, <1>14, <2>1, <3>1, <3>2
  <2>2. CASE i \notin DOMAIN cled.records
    <3>1. PICK k \in DOMAIN batch : i = n + k
      <4>1. i \in 1..(n + Len(batch)) /\ i \notin 1..n /\ n \in Nat /\ Len(batch) \in Nat
        BY <1>4, <1>7, <2>2
      <4>2. i - n \in 1..Len(batch) /\ i = n + (i - n)
        BY <4>1
      <4> QED
        BY <1>7, <4>2
    <3>2. m.records[i].state = states[k] /\ states[k] \in {"faulted", "completed"}
      BY <1>3, <1>4, <3>1
    <3>3. batch[k].branch \in DOMAIN bks /\ bks[batch[k].branch].internal = i
      BY <1>4, <1>12, <1>16, <3>1
    <3> QED
      BY <3>2, <3>3
  <2> QED
    BY <2>1, <2>2
<1>23. ~combat.torn => CombatViewsAt(w, combat.pos)
  <2> SUFFICES ASSUME ~combat.torn, NEW b \in DOMAIN bks, bks[b].view
               PROVE  bks[b].at = combat.pos
    BY <1>13 DEF CombatViewsAt
  <2>1. CASE b \in DOMAIN cled.books
    BY <1>1, <1>14, <2>1 DEF CombatViewsAt
  <2>2. CASE \E k \in DOMAIN batch : b = batch[k].branch
    BY <1>16, <2>2
  <2> QED
    BY <1>17, <2>1, <2>2
<1> QED
  BY <1>1, <1>21, <1>22, <1>23 DEF CombatInv, w

LEMMA CombatCleanedFacts ==
    ASSUME IsCombatLedger(cled), NEW batch \in Standalone!CBatches, NEW states \in [DOMAIN batch -> Statuses],
           NEW registered \in BOOLEAN,
           \A k, j \in DOMAIN batch : k # j => batch[k].branch # batch[j].branch
    PROVE  LET m == Standalone!CleanedUp(batch, registered, states)
               n == Len(cled.records) IN
           /\ IsCombatLedger(m) /\ m.books = cled.books
           /\ \A i \in DOMAIN m.records :
                \/ i \in DOMAIN cled.records /\ m.records[i] = cled.records[i]
                \/ \E k \in DOMAIN batch : m.records[i].state = states[k]
<1> DEFINE e == Standalone!Emulated(batch, states)
           m == Standalone!CleanedUp(batch, registered, states)
           n == Len(cled.records)
           kn == IF registered THEN e.known ELSE cled.known
           rs == e.records
           table == Standalone!Restore(e.table, Standalone!Snapshot(cled.table))
<1>1. /\ cled = [known |-> cled.known, books |-> cled.books, dps |-> cled.dps, records |-> cled.records,
                 table |-> cled.table]
      /\ cled.dps \in Decisions /\ DOMAIN cled.books \subseteq Branches \cap cled.known
      /\ \A b \in DOMAIN cled.books :
           /\ IsCombatBook(cled.books[b]) /\ cled.books[b].internal \in DOMAIN cled.records
           /\ cled.books[b].view => cled.dps.current[b] # 0
  BY DEF IsCombatLedger
<1>2. /\ e.known = cled.known \cup Standalone!BatchIds(batch) /\ rs \in Records /\ n \in Nat
      /\ DOMAIN cled.records = 1..n /\ DOMAIN rs = 1..(n + Len(batch))
      /\ \A i \in DOMAIN cled.records : rs[i] = cled.records[i]
      /\ \A k \in DOMAIN batch : rs[n + k].state = states[k]
  BY CombatEmulatedFacts
<1>3. DOMAIN batch = 1..Len(batch) /\ Len(batch) \in Nat
  BY CombatBatchFacts
<1>4. m = [cled EXCEPT !.known = kn, !.records = rs, !.table = table]
  BY DEF Standalone!CleanedUp
<1>5. cled.known \subseteq kn
  BY <1>2
<1> HIDE DEF m, kn, rs, table, n
<1>6. m = [known |-> kn, books |-> cled.books, dps |-> cled.dps, records |-> rs, table |-> table]
  BY <1>1, <1>4
<1>7. /\ m.known = kn /\ m.books = cled.books /\ m.dps = cled.dps /\ m.records = rs
      /\ m = [known |-> m.known, books |-> m.books, dps |-> m.dps, records |-> m.records, table |-> m.table]
  BY <1>6
<1>8. \A i \in DOMAIN cled.records : i \in DOMAIN rs
  BY <1>2, <1>3
<1>9. IsCombatLedger(m)
  <2>1. \A b \in DOMAIN cled.books :
          /\ IsCombatBook(cled.books[b]) /\ cled.books[b].internal \in DOMAIN rs
          /\ cled.books[b].view => cled.dps.current[b] # 0
    BY <1>1, <1>8
  <2> QED
    BY <1>1, <1>2, <1>5, <1>7, <2>1 DEF IsCombatLedger
<1>10. ASSUME NEW i \in DOMAIN rs, i \notin DOMAIN cled.records
       PROVE  \E k \in DOMAIN batch : rs[i].state = states[k]
  <2>1. i \in 1..(n + Len(batch)) /\ i \notin 1..n
    BY <1>2, <1>10
  <2>2. i - n \in 1..Len(batch) /\ i = n + (i - n)
    BY <1>2, <1>3, <2>1
  <2> QED
    BY <1>2, <1>3, <2>2
<1> QED
  BY <1>2, <1>7, <1>9, <1>10 DEF m, n

(* Only the set of registered ids grew. *)
LEMMA CombatKnownGrows ==
    ASSUME CombatInv, ~cclosed, NEW ids, cclosed' = cclosed, combat' = combat,
           cled' = [cled EXCEPT !.known = Standalone!Register(@, ids)]
    PROVE  CombatInv'
<1> DEFINE kn == cled.known \cup ids
           w == cled'
<1>1. /\ IsCombatLedger(cled) /\ NobodyWorks(cled) /\ cclosed \in BOOLEAN
      /\ combat \in [pos : Nat, issued_at : Nat, torn : BOOLEAN]
      /\ ~combat.torn => CombatViewsAt(cled, combat.pos)
  BY DEF CombatInv
<1>2. w = [cled EXCEPT !.known = kn]
  BY DEF Standalone!Register
<1>3. cled.known \subseteq kn
  OBVIOUS
<1> HIDE DEF kn, w
<1>4. /\ w.known = kn /\ w.books = cled.books /\ w.dps = cled.dps /\ w.records = cled.records
      /\ w = [known |-> w.known, books |-> w.books, dps |-> w.dps, records |-> w.records, table |-> w.table]
  <2>1. cled = [known |-> cled.known, books |-> cled.books, dps |-> cled.dps, records |-> cled.records,
                table |-> cled.table]
    BY <1>1 DEF IsCombatLedger
  <2>2. w = [known |-> kn, books |-> cled.books, dps |-> cled.dps, records |-> cled.records,
             table |-> cled.table]
    BY <1>2, <2>1
  <2> QED
    BY <2>2
<1>5. IsCombatLedger(w)
  BY <1>1, <1>3, <1>4 DEF IsCombatLedger
<1>6. NobodyWorks(w) /\ \A p : CombatViewsAt(cled, p) => CombatViewsAt(w, p)
  BY <1>1, <1>4 DEF NobodyWorks, CombatViewsAt
<1> QED
  BY <1>1, <1>5, <1>6 DEF CombatInv, w

LEMMA CombatEmulateFailsKeeps ==
    ASSUME CombatInv, NEW batch \in Standalone!CBatches, Standalone!EmulateFails(batch)
    PROVE  CombatInv'
<1>1. /\ ~cclosed /\ cclosed' = cclosed /\ combat' = combat
      /\ combat \in [pos : Nat, issued_at : Nat, torn : BOOLEAN] /\ cclosed \in BOOLEAN
      /\ IsCombatLedger(cled) /\ NobodyWorks(cled)
      /\ ~combat.torn => CombatViewsAt(cled, combat.pos)
      /\ \A k, j \in DOMAIN batch : k # j => batch[k].branch # batch[j].branch
  BY DEF CombatInv, Standalone!EmulateFails, Standalone!Open, Standalone!Valid
<1>2. PICK registered \in BOOLEAN :
          \/ cled' = Standalone!CleanedUp(batch, registered, [k \in DOMAIN batch |-> "released"])
          \/ cled' = [cled EXCEPT !.known =
                         Standalone!Register(@, IF registered THEN Standalone!BatchIds(batch) ELSE {})]
  BY DEF Standalone!EmulateFails
<1>3. CASE cled' = [cled EXCEPT !.known =
                       Standalone!Register(@, IF registered THEN Standalone!BatchIds(batch) ELSE {})]
  <2> DEFINE ids == IF registered THEN Standalone!BatchIds(batch) ELSE {}
  <2>1. cled' = [cled EXCEPT !.known = Standalone!Register(@, ids)]
    BY <1>3
  <2> HIDE DEF ids
  <2> QED
    BY <1>1, <2>1, CombatKnownGrows
<1>4. CASE cled' = Standalone!CleanedUp(batch, registered, [k \in DOMAIN batch |-> "released"])
  <2> DEFINE states == [k \in DOMAIN batch |-> "released"]
             w == cled'
  <2>1. states \in [DOMAIN batch -> Statuses] /\ \A k \in DOMAIN batch : states[k] = "released"
    BY DEF Statuses
  <2>2. w = Standalone!CleanedUp(batch, registered, states)
    BY <1>4
  <2> HIDE DEF states, w
  <2>3. /\ IsCombatLedger(w) /\ w.books = cled.books
        /\ \A i \in DOMAIN w.records :
             \/ i \in DOMAIN cled.records /\ w.records[i] = cled.records[i]
             \/ \E k \in DOMAIN batch : w.records[i].state = states[k]
    BY <1>1, <2>1, <2>2, CombatCleanedFacts
  <2>4. NobodyWorks(w)
    BY <1>1, <2>1, <2>3 DEF NobodyWorks
  <2>5. ~combat.torn => CombatViewsAt(w, combat.pos)
    BY <1>1, <2>3 DEF CombatViewsAt
  <2> QED
    BY <1>1, <2>3, <2>4, <2>5 DEF CombatInv, w
<1> QED
  BY <1>2, <1>3, <1>4

LEMMA CombatCleanupFailsKeeps ==
    ASSUME CombatInv, NEW batch \in Standalone!CBatches, Standalone!CleanupFails(batch)
    PROVE  CombatInv'
<1>1. /\ cclosed' = TRUE /\ combat' = combat
      /\ combat \in [pos : Nat, issued_at : Nat, torn : BOOLEAN] /\ IsCombatLedger(cled)
      /\ \A k, j \in DOMAIN batch : k # j => batch[k].branch # batch[j].branch
  BY DEF CombatInv, Standalone!CleanupFails, Standalone!Open, Standalone!Valid
<1>2. PICK stuck \in DOMAIN batch, gone \in BOOLEAN :
          cled' = Standalone!CleanedUp(batch, TRUE, [k \in DOMAIN batch |->
                     IF k = stuck /\ ~gone THEN "running" ELSE "released"])
  BY DEF Standalone!CleanupFails
<1> DEFINE states == [k \in DOMAIN batch |-> IF k = stuck /\ ~gone THEN "running" ELSE "released"]
<1>3. states \in [DOMAIN batch -> Statuses]
  BY DEF Statuses
<1>4. PICK t \in BOOLEAN : t = TRUE
  OBVIOUS
<1>5. cled' = Standalone!CleanedUp(batch, t, states)
  BY <1>2, <1>4
<1> HIDE DEF states
<1>6. IsCombatLedger(cled')
  BY <1>1, <1>3, <1>5, CombatCleanedFacts
<1> QED
  BY <1>1, <1>6 DEF CombatInv

LEMMA CombatNextKeeps ==
    ASSUME CombatInv, Standalone!CNext
    PROVE  CombatInv'
<1>1. CASE Standalone!CommitAction
  BY <1>1, CombatCommitKeeps
<1>2. CASE Standalone!CommitFails
  BY <1>2, CombatCommitFailsKeeps
<1>3. ASSUME NEW batch \in Standalone!CBatches,
             Standalone!EmulateActions(batch) \/ Standalone!EmulateFails(batch) \/ Standalone!CleanupFails(batch)
      PROVE  CombatInv'
  BY <1>3, CombatEmulateKeeps, CombatEmulateFailsKeeps, CombatCleanupFailsKeeps
<1>4. ASSUME NEW item \in Standalone!CItems, Standalone!EmulateActionRefused(item)
      PROVE  CombatInv'
  <2> DEFINE ids == {item.branch}
  <2>1. /\ ~cclosed /\ cclosed' = cclosed /\ combat' = combat
        /\ cled' = [cled EXCEPT !.known = Standalone!Register(@, ids)]
    BY <1>4 DEF Standalone!EmulateActionRefused, Standalone!Open
  <2> HIDE DEF ids
  <2> QED
    BY <2>1, CombatKnownGrows
<1>5. ASSUME NEW bs \in SUBSET DOMAIN cled.books,
             Standalone!CancelBranches(bs) \/ Standalone!ReleaseBranches(bs)
      PROVE  CombatInv'
  BY <1>5, CombatCancelKeeps, CombatReleaseKeeps
<1>6. CASE Standalone!CClose
  BY <1>6, CombatCloseKeeps
<1> QED
  BY <1>1, <1>2, <1>3, <1>4, <1>5, <1>6 DEF Standalone!CNext

LEMMA CombatNoGhosts == CombatInv => Standalone!NoGhostWhileOpen
BY DEF CombatInv, NobodyWorks, Standalone!NoGhostWhileOpen, Standalone!Open, Standalone!Active

LEMMA CombatExtensible == CombatInv => Standalone!ExtensibleBranchesStartAtTheRoot
BY DEF CombatInv, IsCombatLedger, CombatViewsAt, Standalone!ExtensibleBranchesStartAtTheRoot,
       Standalone!Open, Standalone!HasDecision

-----------------------------------------------------------------------------
(***************************************************************************)
(* The two instance types together.                                        *)
(***************************************************************************)
InstancesInv == RunInv /\ CombatInv

(* Whatever an instance of either type is asked to do, and however it      *)
(* fails, the inductive invariant of its ledger is kept.                   *)
THEOREM InstancesInvariance == InstancesSpec => []InstancesInv
<1>1. InstancesInit => InstancesInv
  BY RunInitInv, CombatInitInv DEF InstancesInit, InstancesInv
<1>2. InstancesInv /\ [InstancesNext]_all => InstancesInv'
  <2> SUFFICES ASSUME RunInv, CombatInv, [InstancesNext]_all PROVE RunInv' /\ CombatInv'
    BY DEF InstancesInv
  <2>1. UNCHANGED <<combat, cled, cclosed>> => CombatInv'
    BY DEF CombatInv, IsCombatLedger, NobodyWorks, CombatViewsAt
  <2>2. UNCHANGED runVars => RunInv'
    BY RunStays
  <2>3. CASE RunNext /\ UNCHANGED <<kind, combat, cled, cclosed, reply, failures>>
    BY <2>1, <2>3, RunNextKeeps
  <2>4. CASE Standalone!CNext /\ UNCHANGED <<kind, runVars>>
    BY <2>2, <2>4, CombatNextKeeps
  <2>5. CASE UNCHANGED all
    BY <2>1, <2>2, <2>5 DEF all
  <2> QED
    BY <2>3, <2>4, <2>5 DEF InstancesNext
<1> QED
  BY <1>1, <1>2, PTL DEF InstancesSpec

(* No ghost Branch in either instance type: a whole run holds no slot      *)
(* beyond max_branches and no internal Branch without a public one, and an *)
(* open standalone combat has no worker executing a Branch nobody waits    *)
(* for (rollback_registration, emulate_action, emulate_actions).           *)
THEOREM InstancesHaveNoGhosts == InstancesSpec => []NoGhosts
<1>1. InstancesInv => NoGhosts
  BY RunNoGhosts, CombatNoGhosts DEF InstancesInv, NoGhosts
<1> QED
  BY <1>1, InstancesInvariance, PTL

(* The hypothesis table, the event registry and the ledger agree about     *)
(* every Branch (RngHypothesisTable, EventRngHypothesisRegistry).          *)
THEOREM InstancesBooksAgree == InstancesSpec => []BooksAgree
<1>1. InstancesInv => BooksAgree
  BY RunBooksAgree DEF InstancesInv, BooksAgree
<1> QED
  BY <1>1, InstancesInvariance, PTL

(* What can still be extended belongs to the decision the root stands at:  *)
(* no Branch survives the commit that left it (_record_root_commit,        *)
(* enter_combat_phase, leave_combat_phase,                                 *)
(* _cancel_and_release_all_branches).                                      *)
THEOREM InstancesKeepToTheDecision == InstancesSpec => []BranchesBelongToTheDecision
<1>1. InstancesInv => BranchesBelongToTheDecision
  BY RunDecisions, CombatExtensible DEF InstancesInv, BranchesBelongToTheDecision
<1> QED
  BY <1>1, InstancesInvariance, PTL
=============================================================================
