-------------------------- MODULE GameAccessProofs --------------------------
(***************************************************************************)
(* Proofs about GameAccess, for any set of holders and any number of       *)
(* operations.                                                             *)
(*                                                                         *)
(* Neither OwnerHasTheLease nor the refinement is inductive: both compare  *)
(* issued leases with the guard's generation, so they need to know that    *)
(* generations of issued leases never exceed the guard's and identify the  *)
(* lease.  LeaseInv says that, and where the lease of the present owner    *)
(* is.                                                                     *)
(***************************************************************************)
EXTENDS GameAccess, TLAPS

LeaseInv ==
    /\ \A l \in issued : l.generation <= generation
    /\ \A l, m \in issued : l.generation = m.generation => l = m
    /\ state = "TRANSFERRING" =>
         /\ transfer_origin \in Origins
         /\ Lease(transfer_origin.holder, "TRANSFERRING", generation) \in issued
    /\ state # "TRANSFERRING" => transfer_origin = NoOrigin
    /\ state \in OwnerStates /\ holder # NoHolder =>
         Lease(holder, state, generation) \in issued
    /\ state = "POISONED" => holder = NoHolder

IInv == TypeOK /\ LeaseInv

(* The guard's own None-marker of transfer_origin is not a real origin.    *)
LEMMA NoOriginIsNone == NoOrigin \notin Origins
BY DEF NoOrigin, Origins, OwnerStates

(* A lease record the guard builds for a session is a well-typed lease.    *)
LEMMA LeaseType ==
    ASSUME NEW h \in Holders, NEW s \in OwnerStates \cup {"TRANSFERRING"},
           NEW g \in Nat
    PROVE  /\ Lease(h, s, g + 1) \in GameLease
           /\ Lease(h, s, g + 1).holder = h
           /\ Lease(h, s, g + 1).state = s
           /\ Lease(h, s, g + 1).generation = g + 1
BY DEF Lease, GameLease

LEMMA InitIInv == Init => IInv
BY DEF Init, IInv, TypeOK, LeaseInv, LeaseStates, OwnerStates, Origins

(***************************************************************************)
(* An operation that issues one lease carrying the new generation keeps    *)
(* generations bounded by the guard's and identifying.                     *)
(***************************************************************************)
LEMMA FreshGeneration ==
    ASSUME IInv,
           NEW h \in Holders, NEW s \in OwnerStates \cup {"TRANSFERRING"},
           generation' = generation + 1,
           issued' = issued \cup {Lease(h, s, generation + 1)}
    PROVE  /\ issued' \subseteq GameLease
           /\ Lease(h, s, generation') \in issued'
           /\ \A l \in issued' : l.generation <= generation'
           /\ \A l, m \in issued' : l.generation = m.generation => l = m
<1>1. generation \in Nat /\ issued \subseteq GameLease
  BY DEF IInv, TypeOK
<1>2. /\ Lease(h, s, generation + 1) \in GameLease
      /\ Lease(h, s, generation + 1).generation = generation + 1
  BY <1>1, LeaseType
<1>3. \A l \in issued : l.generation \in Nat /\ l.generation <= generation
  BY <1>1 DEF IInv, LeaseInv, GameLease
<1>4. \A l, m \in issued : l.generation = m.generation => l = m
  BY DEF IInv, LeaseInv
<1>5. \A l \in issued' : l.generation <= generation'
  BY <1>1, <1>2, <1>3
<1>6. \A l, m \in issued' : l.generation = m.generation => l = m
  BY <1>1, <1>2, <1>3, <1>4
<1> QED
  BY <1>1, <1>2, <1>5, <1>6

(* An operation that issues nothing keeps the same two facts.              *)
LEMMA NoGrant ==
    ASSUME IInv, generation' = generation + 1, issued' = issued
    PROVE  /\ issued' \subseteq GameLease
           /\ \A l \in issued' : l.generation <= generation'
           /\ \A l, m \in issued' : l.generation = m.generation => l = m
<1>1. generation \in Nat /\ issued \subseteq GameLease
  BY DEF IInv, TypeOK
<1>2. \A l \in issued : l.generation \in Nat /\ l.generation <= generation
  BY <1>1 DEF IInv, LeaseInv, GameLease
<1> QED
  BY <1>1, <1>2 DEF IInv, LeaseInv

LEMMA NextIInv == IInv /\ [Next]_gaVars => IInv'
<1> SUFFICES ASSUME IInv, [Next]_gaVars PROVE IInv'
  OBVIOUS
<1> USE NoOriginIsNone
<1>1. ASSUME NEW h \in Holders, NEW s \in OwnerStates, Claim(h, s)
      PROVE  IInv'
  <2>1. /\ issued' \subseteq GameLease
        /\ Lease(h, s, generation') \in issued'
        /\ \A l \in issued' : l.generation <= generation'
        /\ \A l, m \in issued' : l.generation = m.generation => l = m
    BY <1>1, FreshGeneration DEF Claim
  <2>2. TypeOK'
    BY <1>1, <2>1 DEF IInv, TypeOK, Claim, LeaseStates
  <2>3. LeaseInv'
    BY <1>1, <2>1 DEF IInv, LeaseInv, Claim, OwnerStates
  <2> QED
    BY <2>2, <2>3 DEF IInv
<1>2. ASSUME NEW l \in issued, Release(l)
      PROVE  IInv'
  <2>1. /\ issued' \subseteq GameLease
        /\ \A m \in issued' : m.generation <= generation'
        /\ \A m, n \in issued' : m.generation = n.generation => m = n
    BY <1>2, NoGrant DEF Release
  <2>2. TypeOK'
    BY <1>2, <2>1 DEF IInv, TypeOK, Release
  <2>3. LeaseInv'
    BY <1>2, <2>1 DEF IInv, LeaseInv, Release, ValidateCurrent
  <2> QED
    BY <2>2, <2>3 DEF IInv
<1>3. ASSUME NEW l \in issued, Begin(l)
      PROVE  IInv'
  <2>1. /\ state \in OwnerStates
        /\ l.holder \in Holders
        /\ l.holder = holder
    BY <1>3 DEF Begin, ValidateCurrent, IInv, TypeOK, LeaseStates, GameLease
  <2>2. /\ issued' \subseteq GameLease
        /\ Lease(l.holder, "TRANSFERRING", generation') \in issued'
        /\ \A m \in issued' : m.generation <= generation'
        /\ \A m, n \in issued' : m.generation = n.generation => m = n
    BY <1>3, <2>1, FreshGeneration DEF Begin
  <2>3. transfer_origin' \in Origins /\ transfer_origin'.holder = l.holder
    BY <1>3, <2>1 DEF Begin, Origins
  <2>4. TypeOK'
    BY <1>3, <2>2, <2>3 DEF IInv, TypeOK, Begin, LeaseStates
  <2>5. LeaseInv'
    BY <1>3, <2>2, <2>3 DEF IInv, LeaseInv, Begin, OwnerStates
  <2> QED
    BY <2>4, <2>5 DEF IInv
<1>4. ASSUME NEW t \in issued, NEW s \in OwnerStates, NEW h \in Holders,
             Commit(t, s, h)
      PROVE  IInv'
  <2>1. /\ issued' \subseteq GameLease
        /\ Lease(h, s, generation') \in issued'
        /\ \A l \in issued' : l.generation <= generation'
        /\ \A l, m \in issued' : l.generation = m.generation => l = m
    BY <1>4, FreshGeneration DEF Commit
  <2>2. TypeOK'
    BY <1>4, <2>1 DEF IInv, TypeOK, Commit, LeaseStates
  <2>3. LeaseInv'
    BY <1>4, <2>1 DEF IInv, LeaseInv, Commit, OwnerStates
  <2> QED
    BY <2>2, <2>3 DEF IInv
<1>5. ASSUME NEW t \in issued, Rollback(t)
      PROVE  IInv'
  <2>1. /\ transfer_origin \in Origins
        /\ transfer_origin.state \in OwnerStates
        /\ transfer_origin.holder \in Holders
    BY <1>5 DEF Rollback, ValidateTransfer, IInv, TypeOK, Origins
  <2>2. /\ issued' \subseteq GameLease
        /\ Lease(transfer_origin.holder, transfer_origin.state, generation')
             \in issued'
        /\ \A l \in issued' : l.generation <= generation'
        /\ \A l, m \in issued' : l.generation = m.generation => l = m
    BY <1>5, <2>1, FreshGeneration DEF Rollback
  <2>3. TypeOK'
    BY <1>5, <2>1, <2>2 DEF IInv, TypeOK, Rollback, LeaseStates
  <2>4. LeaseInv'
    BY <1>5, <2>1, <2>2 DEF IInv, LeaseInv, Rollback, OwnerStates
  <2> QED
    BY <2>3, <2>4 DEF IInv
<1>6. ASSUME Poison
      PROVE  IInv'
  <2>1. /\ issued' \subseteq GameLease
        /\ \A m \in issued' : m.generation <= generation'
        /\ \A m, n \in issued' : m.generation = n.generation => m = n
    BY <1>6, NoGrant DEF Poison
  <2>2. TypeOK'
    BY <1>6, <2>1 DEF IInv, TypeOK, Poison, LeaseStates
  <2>3. LeaseInv'
    BY <1>6, <2>1 DEF IInv, LeaseInv, Poison, OwnerStates
  <2> QED
    BY <2>2, <2>3 DEF IInv
<1>7. ASSUME UNCHANGED gaVars
      PROVE  IInv'
  BY <1>7 DEF gaVars, IInv, TypeOK, LeaseInv
<1> QED
  BY <1>1, <1>2, <1>3, <1>4, <1>5, <1>6, <1>7 DEF Next

(* The fields of GameAccess keep their types, whoever calls what.          *)
THEOREM TypeCorrect == Spec => []TypeOK
<1>1. IInv => TypeOK
  BY DEF IInv
<1> QED
  BY InitIInv, NextIInv, <1>1, PTL DEF Spec

-----------------------------------------------------------------------------
(* In a state of the invariant, the usable leases are exactly the lease of *)
(* the present owner.                                                      *)
LEMMA UsableIsOwners ==
    ASSUME IInv
    PROVE  /\ state = "TRANSFERRING" =>
                {l \in issued : Usable(l)} =
                  {Lease(transfer_origin.holder, "TRANSFERRING", generation)}
           /\ state \in OwnerStates /\ holder # NoHolder =>
                {l \in issued : Usable(l)} = {Lease(holder, state, generation)}
           /\ state = "POISONED" \/ (state \in OwnerStates /\ holder = NoHolder)
                => {l \in issued : Usable(l)} = {}
<1> USE DEF IInv
<1>1. ASSUME state = "TRANSFERRING"
      PROVE  {l \in issued : Usable(l)} =
               {Lease(transfer_origin.holder, "TRANSFERRING", generation)}
  <2> DEFINE t == Lease(transfer_origin.holder, "TRANSFERRING", generation)
  <2>1. t \in issued /\ transfer_origin # NoOrigin
    BY <1>1, NoOriginIsNone DEF LeaseInv
  <2>2. /\ t.generation = generation
        /\ t.state = "TRANSFERRING"
        /\ t.holder = transfer_origin.holder
    BY DEF Lease
  <2>3. Usable(t)
    BY <1>1, <2>1, <2>2 DEF Usable, ValidateTransfer
  <2>4. ASSUME NEW l \in issued, Usable(l) PROVE l = t
    <3>1. l.generation = generation
      BY <2>4 DEF Usable, ValidateCurrent, ValidateTransfer
    <3> QED
      BY <2>1, <2>2, <3>1 DEF LeaseInv
  <2> QED
    BY <2>1, <2>3, <2>4
<1>2. ASSUME state \in OwnerStates, holder # NoHolder
      PROVE  {l \in issued : Usable(l)} = {Lease(holder, state, generation)}
  <2> DEFINE t == Lease(holder, state, generation)
  <2>1. t \in issued
    BY <1>2 DEF LeaseInv
  <2>2. t.generation = generation /\ t.state = state /\ t.holder = holder
    BY DEF Lease
  <2>3. Usable(t)
    BY <1>2, <2>2 DEF Usable, ValidateCurrent, OwnerStates
  <2>4. ASSUME NEW l \in issued, Usable(l) PROVE l = t
    <3>1. l.generation = generation
      BY <2>4 DEF Usable, ValidateCurrent, ValidateTransfer
    <3> QED
      BY <2>1, <2>2, <3>1 DEF LeaseInv
  <2> QED
    BY <2>1, <2>3, <2>4
<1>3. ASSUME state = "POISONED" \/ (state \in OwnerStates /\ holder = NoHolder)
      PROVE  {l \in issued : Usable(l)} = {}
  <2>1. \A l \in issued : l.holder # NoHolder
    BY NoHolderAssumption DEF TypeOK, GameLease
  <2> QED
    BY <1>3, <2>1 DEF Usable, ValidateCurrent, ValidateTransfer, OwnerStates
<1> QED
  BY <1>1, <1>2, <1>3

(* A guard that is owned or in hand-off has given out exactly one usable   *)
(* lease, and a free or poisoned guard none.                               *)
THEOREM OwnerKeepsLease == Spec => []OwnerHasTheLease
<1>1. IInv => OwnerHasTheLease
  <2> SUFFICES ASSUME IInv PROVE OwnerHasTheLease
    OBVIOUS
  <2>1. ASSUME state = "TRANSFERRING"
        PROVE  \E t \in issued : /\ {l \in issued : Usable(l)} = {t}
                                 /\ ValidateTransfer(t)
    <3> DEFINE t == Lease(transfer_origin.holder, "TRANSFERRING", generation)
    <3>1. {l \in issued : Usable(l)} = {t}
      BY <2>1, UsableIsOwners
    <3>2. t \in issued /\ Usable(t)
      BY <3>1
    <3>3. ValidateTransfer(t)
      BY <3>2, <2>1 DEF Usable, ValidateCurrent
    <3> QED
      BY <3>1, <3>2, <3>3
  <2>2. ASSUME state \in OwnerStates, holder # NoHolder
        PROVE  \E t \in issued : /\ {l \in issued : Usable(l)} = {t}
                                 /\ t.holder = holder
    <3>1. {l \in issued : Usable(l)} = {Lease(holder, state, generation)}
      BY <2>2, UsableIsOwners
    <3>2. Lease(holder, state, generation) \in issued
      BY <3>1
    <3>3. Lease(holder, state, generation).holder = holder
      BY DEF Lease
    <3> QED
      BY <3>1, <3>2, <3>3
  <2>3. ASSUME state = "POISONED" \/ (state \in OwnerStates /\ holder = NoHolder)
        PROVE  {l \in issued : Usable(l)} = {}
    BY <2>3, UsableIsOwners
  <2> QED
    BY <2>1, <2>2, <2>3 DEF OwnerHasTheLease
<1> QED
  BY InitIInv, NextIInv, <1>1, PTL DEF Spec

-----------------------------------------------------------------------------
(* The usable leases, in the words of the owner's state.                   *)
OwnersLease ==
    IF state = "TRANSFERRING"
    THEN {Lease(transfer_origin.holder, "TRANSFERRING", generation)}
    ELSE IF holder # NoHolder
    THEN {Lease(holder, state, generation)}
    ELSE {}

LEMMA UsableDetermined == IInv => {l \in issued : Usable(l)} = OwnersLease
<1> SUFFICES ASSUME IInv PROVE {l \in issued : Usable(l)} = OwnersLease
  OBVIOUS
<1>1. state \in OwnerStates \/ state = "TRANSFERRING"
        \/ (state = "POISONED" /\ holder = NoHolder)
  BY DEF IInv, TypeOK, LeaseInv, LeaseStates
<1> QED
  BY <1>1, UsableIsOwners DEF OwnersLease, OwnerStates

LEMMA UsableDeterminedNext ==
    IInv' => {l \in issued' : Usable(l)'} = OwnersLease'
<1> DEFINE Determined == IInv => {l \in issued : Usable(l)} = OwnersLease
<1> HIDE DEF Determined
<1>1. Determined
  BY UsableDetermined DEF Determined
<1>2. Determined'
  BY <1>1, PTL
<1> QED
  BY <1>2 DEF Determined

(***************************************************************************)
(* A step after which one fresh lease is usable is a Grant of the abstract *)
(* guard.                                                                  *)
(***************************************************************************)
LEMMA FreshLeaseIsGrant ==
    ASSUME IInv, state # "POISONED", state' # "POISONED",
           NEW h \in Holders, NEW s \in OwnerStates \cup {"TRANSFERRING"},
           generation' = generation + 1,
           issued' = issued \cup {Lease(h, s, generation + 1)},
           {l \in issued' : Usable(l)'} = {Lease(h, s, generation + 1)}
    PROVE  Capabilities!Grant
<1> DEFINE c == Lease(h, s, generation + 1)
<1>1. generation \in Nat /\ c \in GameLease /\ c.generation = generation + 1
  BY LeaseType DEF IInv, TypeOK
<1>2. \A l \in issued : l.generation \in Nat /\ l.generation <= generation
  BY DEF IInv, TypeOK, LeaseInv, GameLease
<1>3. c \notin issued
  BY <1>1, <1>2
<1>4. {l \in issued' : ~Usable(l)'} = issued
  BY <1>3
<1>5. {l \in issued : ~Usable(l)} \cup {l \in issued : Usable(l)} = issued
  OBVIOUS
<1> QED
  BY <1>1, <1>3, <1>4, <1>5 DEF Capabilities!Grant


(* A step after which no lease is usable, that issues none, is a Withdraw  *)
(* of the abstract guard, or its Shut when it poisons.                     *)
LEMMA NothingUsable ==
    ASSUME issued' = issued, {l \in issued' : Usable(l)'} = {}
    PROVE  /\ {l \in issued' : Usable(l)'} = {}
           /\ {l \in issued' : ~Usable(l)'} =
                {l \in issued : ~Usable(l)} \cup {l \in issued : Usable(l)}
<1>1. {l \in issued' : ~Usable(l)'} = issued
  OBVIOUS
<1> QED
  BY <1>1

LEMMA StepRefines ==
    ASSUME IInv, IInv', [Next]_gaVars
    PROVE  [Capabilities!Next]_Capabilities!ecVars
<1>0. {l \in issued' : Usable(l)'} = OwnersLease'
  BY UsableDeterminedNext
<1>t. generation \in Nat /\ "TRANSFERRING" \notin OwnerStates
        /\ "POISONED" \notin OwnerStates
  BY DEF IInv, TypeOK, OwnerStates
<1>1. ASSUME NEW h \in Holders, NEW s \in OwnerStates, Claim(h, s)
      PROVE  Capabilities!Grant
  <2>1. {l \in issued' : Usable(l)'} = {Lease(h, s, generation + 1)}
    BY <1>0, <1>1, <1>t, NoHolderAssumption DEF OwnersLease, Claim
  <2> QED
    BY <1>1, <1>t, <2>1, FreshLeaseIsGrant DEF Claim
<1>2. ASSUME NEW l \in issued, Release(l)
      PROVE  Capabilities!Withdraw
  <2>1. {m \in issued' : Usable(m)'} = {}
    BY <1>0, <1>2 DEF OwnersLease, Release, ValidateCurrent
  <2>2. issued' = issued /\ state' = state
    BY <1>2 DEF Release
  <2> QED
    BY <2>1, <2>2, NothingUsable DEF Capabilities!Withdraw
<1>3. ASSUME NEW l \in issued, Begin(l)
      PROVE  Capabilities!Grant
  <2>1. l.holder \in Holders /\ l.holder = holder /\ state # "POISONED"
    BY <1>3 DEF Begin, ValidateCurrent, IInv, TypeOK, GameLease
  <2>2. {m \in issued' : Usable(m)'} =
          {Lease(l.holder, "TRANSFERRING", generation + 1)}
    BY <1>0, <1>3, <2>1 DEF OwnersLease, Begin
  <2> QED
    BY <1>3, <2>1, <2>2, FreshLeaseIsGrant DEF Begin
<1>4. ASSUME NEW t \in issued, NEW s \in OwnerStates, NEW h \in Holders,
             Commit(t, s, h)
      PROVE  Capabilities!Grant
  <2>1. {l \in issued' : Usable(l)'} = {Lease(h, s, generation + 1)}
    BY <1>0, <1>4, <1>t, NoHolderAssumption DEF OwnersLease, Commit
  <2> QED
    BY <1>4, <1>t, <2>1, FreshLeaseIsGrant DEF Commit, ValidateTransfer
<1>5. ASSUME NEW t \in issued, Rollback(t)
      PROVE  Capabilities!Grant
  <2>1. /\ transfer_origin.state \in OwnerStates
        /\ transfer_origin.holder \in Holders
        /\ state = "TRANSFERRING"
    BY <1>5 DEF Rollback, ValidateTransfer, IInv, TypeOK, Origins
  <2>2. {l \in issued' : Usable(l)'} =
          {Lease(transfer_origin.holder, transfer_origin.state, generation + 1)}
    BY <1>0, <1>5, <1>t, <2>1, NoHolderAssumption DEF OwnersLease, Rollback
  <2> QED
    BY <1>5, <1>t, <2>1, <2>2, FreshLeaseIsGrant DEF Rollback
<1>6. ASSUME Poison
      PROVE  Capabilities!Shut
  <2>1. {m \in issued' : Usable(m)'} = {}
    BY <1>0, <1>6 DEF OwnersLease, Poison
  <2>2. issued' = issued /\ state' = "POISONED"
    BY <1>6 DEF Poison
  <2> QED
    BY <2>1, <2>2, NothingUsable DEF Capabilities!Shut
<1>7. ASSUME UNCHANGED gaVars
      PROVE  UNCHANGED Capabilities!ecVars
  BY <1>7 DEF gaVars, Capabilities!ecVars, Usable, ValidateCurrent,
              ValidateTransfer
<1> QED
  BY <1>1, <1>2, <1>3, <1>4, <1>5, <1>6, <1>7 DEF Next, Capabilities!Next

(* The generation-checked leases of GameAccess implement exclusive         *)
(* one-time capabilities, for any number of sessions and operations.       *)
THEOREM ImplementsCapabilities == Spec => ImplementsExclusiveCapability
<1>1. Init => Capabilities!Init
  BY DEF Init, Capabilities!Init
<1>2. IInv /\ IInv' /\ [Next]_gaVars => [Capabilities!Next]_Capabilities!ecVars
  BY StepRefines
<1> QED
  BY InitIInv, NextIInv, <1>1, <1>2, PTL
  DEF Spec, ImplementsExclusiveCapability, Capabilities!Spec
=============================================================================
