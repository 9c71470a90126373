----------------------------- MODULE GameAccess -----------------------------
(***************************************************************************)
(* game_access.py: the process-wide guard of the one CLR GameInstance.     *)
(* A caller may mutate the game only by presenting the lease it was given; *)
(* a lease is current when its holder, its state and its generation are    *)
(* those of the guard.  A RUN/COMBAT hand-off goes through TRANSFERRING,   *)
(* in which no mutation lease is current and only the transfer lease may   *)
(* complete or roll back the hand-off.                                     *)
(*                                                                         *)
(* "issued" is a history variable: every lease ever returned to a caller.  *)
(* Python callers keep leases as long as they like, so any issued lease    *)
(* may be presented at any time.                                           *)
(***************************************************************************)
EXTENDS Naturals

CONSTANTS
    Holders,    \* the opaque lease_holder objects of the sessions
    NoHolder    \* Python's None

ASSUME NoHolderAssumption == NoHolder \notin Holders

VARIABLES
    state,              \* _state
    holder,             \* _holder
    generation,         \* _generation
    transfer_origin,    \* _transfer_origin
    issued              \* history: the leases handed out

gaVars == <<state, holder, generation, transfer_origin, issued>>

OwnerStates == {"RUN", "COMBAT"}
LeaseStates == OwnerStates \cup {"TRANSFERRING", "POISONED"}

GameLease ==
    [holder : Holders,
     state : OwnerStates \cup {"TRANSFERRING"},
     generation : Nat \ {0}]

NoOrigin == [state |-> "POISONED", holder |-> NoHolder]
Origins == [state : OwnerStates, holder : Holders]

Lease(h, s, g) == [holder |-> h, state |-> s, generation |-> g]

Init ==
    /\ state = "RUN"
    /\ holder = NoHolder
    /\ generation = 0
    /\ transfer_origin = NoOrigin
    /\ issued = {}

(***************************************************************************)
(* _validate_current, for a caller that presents lease l.                  *)
(***************************************************************************)
ValidateCurrentWithoutGeneration(l) ==
    /\ state \in OwnerStates
    /\ l.holder = holder
    /\ l.state = state

ValidateCurrent(l) ==
    /\ state \notin {"POISONED", "TRANSFERRING"}
    /\ l.generation = generation
    /\ l.holder = holder
    /\ l.state = state

(***************************************************************************)
(* _validate_transfer, for a caller that presents transfer lease t.        *)
(***************************************************************************)
ValidateTransfer(t) ==
    /\ state = "TRANSFERRING"
    /\ t.state = "TRANSFERRING"
    /\ t.generation = generation
    /\ transfer_origin # NoOrigin
    /\ t.holder = transfer_origin.holder

(* Some guarded call accepts the lease in the present state.               *)
Usable(l) == ValidateCurrent(l) \/ ValidateTransfer(l)

(***************************************************************************)
(* The operations.  Each returning a lease returns Lease(_, _, the new     *)
(* generation); a call that raises leaves the guard as it was, which is    *)
(* the action's absence.                                                   *)
(***************************************************************************)
Claim(h, s) ==
    /\ state \notin {"POISONED", "TRANSFERRING"}
    /\ state' = s
    /\ holder' = h
    /\ generation' = generation + 1
    /\ issued' = issued \cup {Lease(h, s, generation + 1)}
    /\ UNCHANGED transfer_origin

Release(l) ==
    /\ ValidateCurrent(l)
    /\ holder' = NoHolder
    /\ generation' = generation + 1
    /\ UNCHANGED <<state, transfer_origin, issued>>

BeginKeepingGeneration(l) ==
    /\ ValidateCurrent(l)
    /\ transfer_origin' = [state |-> state, holder |-> holder]
    /\ state' = "TRANSFERRING"
    /\ generation' = generation + 1
    /\ issued' = issued \cup {Lease(l.holder, "TRANSFERRING", generation)}
    /\ UNCHANGED holder

Begin(l) ==
    /\ ValidateCurrent(l)
    /\ transfer_origin' = [state |-> state, holder |-> holder]
    /\ state' = "TRANSFERRING"
    /\ generation' = generation + 1
    /\ issued' = issued \cup {Lease(l.holder, "TRANSFERRING", generation + 1)}
    /\ UNCHANGED holder

Commit(t, target, h) ==
    /\ ValidateTransfer(t)
    /\ target \in OwnerStates
    /\ state' = target
    /\ holder' = h
    /\ transfer_origin' = NoOrigin
    /\ generation' = generation + 1
    /\ issued' = issued \cup {Lease(h, target, generation + 1)}

Rollback(t) ==
    /\ ValidateTransfer(t)
    /\ state' = transfer_origin.state
    /\ holder' = transfer_origin.holder
    /\ transfer_origin' = NoOrigin
    /\ generation' = generation + 1
    /\ issued' = issued \cup
         {Lease(transfer_origin.holder, transfer_origin.state, generation + 1)}

Poison ==
    /\ state' = "POISONED"
    /\ holder' = NoHolder
    /\ transfer_origin' = NoOrigin
    /\ generation' = generation + 1
    /\ UNCHANGED issued

Next ==
    \/ \E h \in Holders, s \in OwnerStates : Claim(h, s)
    \/ \E l \in issued : Release(l) \/ Begin(l) \/ Rollback(l)
    \/ \E t \in issued, s \in OwnerStates, h \in Holders : Commit(t, s, h)
    \/ Poison

Spec == Init /\ [][Next]_gaVars

-----------------------------------------------------------------------------
(* Every variable keeps the type its Python field has.                     *)
TypeOK ==
    /\ state \in LeaseStates
    /\ holder \in Holders \cup {NoHolder}
    /\ generation \in Nat
    /\ transfer_origin \in Origins \cup {NoOrigin}
    /\ issued \subseteq GameLease

(***************************************************************************)
(* The guard never strands its owner: while a hand-off is open exactly one *)
(* issued lease completes it and no lease mutates; while a holder is set   *)
(* exactly one issued lease mutates; otherwise none does.  A hand-off that *)
(* lost its lease, or a rollback returning a lease the guard would refuse, *)
(* breaks it.                                                              *)
(***************************************************************************)
OwnerHasTheLease ==
    /\ state = "TRANSFERRING" =>
         \E t \in issued : {l \in issued : Usable(l)} = {t} /\ ValidateTransfer(t)
    /\ state \in OwnerStates /\ holder # NoHolder =>
         \E t \in issued : {l \in issued : Usable(l)} = {t} /\ t.holder = holder
    /\ state = "POISONED" \/ (state \in OwnerStates /\ holder = NoHolder) =>
         {l \in issued : Usable(l)} = {}

(***************************************************************************)
(* The generation comparison makes leases exclusive one-time capabilities: *)
(* at most one lease is usable, a stale one never becomes usable again     *)
(* (whatever sequence of claims, hand-offs and rollbacks returns the guard *)
(* to an earlier state and holder), and POISONED ends all access.          *)
(***************************************************************************)
Capabilities == INSTANCE ExclusiveCapability WITH
    Capability <- GameLease,
    live <- {l \in issued : Usable(l)},
    spent <- {l \in issued : ~Usable(l)},
    shut <- state = "POISONED"

ImplementsExclusiveCapability == Capabilities!Spec
=============================================================================
