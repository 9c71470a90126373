----------------------------- MODULE GameHandoff -----------------------------
(***************************************************************************)
(* The API instances of one RL server process sharing the one GameAccess:  *)
(* WholeRunInstance (a WholeRunSession, and while it is in a combat room a *)
(* CombatPhase around a LiveCombatSession) and the standalone              *)
(* CombatInstance (a CombatPhase only).  The server runs one handler at a  *)
(* time (RLTcpServer._handler_lock), so a handler is a sequence of steps   *)
(* "pc" of instance "who"; every step makes at most one GameAccess call,   *)
(* and every point where the code can raise has its failure step.          *)
(*                                                                         *)
(* A handler that is refused before it changes anything (a stale lease, a  *)
(* faulted instance, a faulted live session) is the absence of a step.     *)
(***************************************************************************)
EXTENDS Naturals, FiniteSets

CONSTANTS
    Instances,      \* the instance serials the server hands out
    WholeRuns,      \* those started with instance_type "whole_run"
    NoInstance

ASSUME InstanceAssumption ==
    /\ WholeRuns \subseteq Instances
    /\ NoInstance \notin Instances

VARIABLES
    state, holder, generation, transfer_origin, issued,   \* GameAccess
    inst,       \* per instance: the Python objects it consists of
    pc, who,    \* the running handler and the instance it runs for
    transfer,   \* its local variable "transfer" / "lease"
    board,      \* external: whose run or scenario the CLR game holds
    foreign     \* history: a mutation reached another instance's board

gaVars == <<state, holder, generation, transfer_origin, issued>>
vars == <<gaVars, inst, pc, who, transfer, board, foreign>>

(* WholeRunSession._lease_holder and the LiveCombatSession's.  The live    *)
(* sessions of one instance's successive combats share a holder here; the  *)
(* code makes a new object for each, so it refuses at least as much.       *)
RunHolder(i) == <<"run", i>>
LiveHolder(i) == <<"combat", i>>
NoHolder == <<"none", NoInstance>>
SessionHolders == {RunHolder(i) : i \in Instances} \cup {LiveHolder(i) : i \in Instances}

GA == INSTANCE GameAccess WITH Holders <- SessionHolders

NoLease == [holder |-> NoHolder, state |-> "POISONED", generation |-> 0]
Leases == GA!GameLease \cup {NoLease}

Steps == {"idle", "constructing", "entered", "adopting", "committed",
          "advanced", "leaving", "folded", "returned", "draining"}

InstanceState ==
    [status : {"absent", "live", "gone"},   \* in RLApiServer._instances
     phase : BOOLEAN,           \* _combat_phase is not None
     faulted : BOOLEAN,         \* WholeRunInstance._faulted, CombatInstance._closed
     runLease : Leases,         \* WholeRunSession._lease
     combatLease : Leases,      \* LiveCombatSession._lease
     synced : BOOLEAN,          \* _current_frame is the game's frame
     sessionFaulted : BOOLEAN,  \* LiveCombatSession._session_faulted
     runReset : BOOLEAN]        \* ResetFromScenario replaced the live run

Init ==
    /\ GA!Init
    /\ inst = [i \in Instances |->
                 [status |-> "absent", phase |-> FALSE, faulted |-> FALSE,
                  runLease |-> NoLease, combatLease |-> NoLease,
                  synced |-> FALSE, sessionFaulted |-> FALSE, runReset |-> FALSE]]
    /\ pc = "idle"
    /\ who = NoInstance
    /\ transfer = NoLease
    /\ board = NoInstance
    /\ foreign = FALSE

NewLease(h, s) == GA!Lease(h, s, generation + 1)

Finish == pc' = "idle" /\ who' = NoInstance /\ transfer' = NoLease
Goto(step) == pc' = step /\ UNCHANGED who
Mutates(i) == foreign' = (foreign \/ board # i)

(***************************************************************************)
(* start_instance.  The session claims on its first mutating access,       *)
(* superseding whoever holds the game; a poisoned guard refuses and the    *)
(* constructor's exception leaves no instance behind.                      *)
(***************************************************************************)
StartInstance(i) ==
    /\ pc = "idle"
    /\ inst[i].status = "absent"
    /\ IF i \in WholeRuns
       THEN /\ GA!Claim(RunHolder(i), "RUN")
            /\ inst' = [inst EXCEPT ![i].runLease = NewLease(RunHolder(i), "RUN")]
       ELSE /\ GA!Claim(LiveHolder(i), "COMBAT")
            /\ inst' = [inst EXCEPT ![i].combatLease = NewLease(LiveHolder(i), "COMBAT")]
    /\ pc' = "constructing"
    /\ who' = i
    /\ UNCHANGED <<transfer, board, foreign>>

StartRefused(i) ==
    /\ pc = "idle"
    /\ inst[i].status = "absent"
    /\ state \in {"POISONED", "TRANSFERRING"}
    /\ inst' = [inst EXCEPT ![i].status = "gone"]
    /\ UNCHANGED <<gaVars, pc, who, transfer, board, foreign>>

Constructed ==
    /\ pc = "constructing"
    /\ board' = who
    /\ inst' = [inst EXCEPT ![who].status = "live",
                            ![who].phase = who \notin WholeRuns,
                            ![who].synced = who \notin WholeRuns]
    /\ Finish
    /\ UNCHANGED <<gaVars, foreign>>

(* An exception out of the constructor: nobody closes the session, so its  *)
(* lease stays current although nothing can present it.                    *)
ConstructorRaises ==
    /\ pc = "constructing"
    /\ board' \in {board, who}
    /\ inst' = [inst EXCEPT ![who].status = "gone"]
    /\ Finish
    /\ UNCHANGED <<gaVars, foreign>>

(* The standalone combat that starts on a pending choice, and the instance *)
(* whose start_instance_response raises, are closed before they are dropped. *)
StartedThenClosed ==
    /\ pc = "constructing"
    /\ GA!Release(IF who \in WholeRuns THEN inst[who].runLease ELSE inst[who].combatLease)
    /\ board' = who
    /\ inst' = [inst EXCEPT ![who].status = "gone",
                            ![who].runLease = NoLease,
                            ![who].combatLease = NoLease]
    /\ Finish
    /\ UNCHANGED foreign

(***************************************************************************)
(* The sessions' _mutating_game: claim when there is no lease, then have   *)
(* the lease checked.                                                      *)
(***************************************************************************)
RunMutatingGameUnchecked(i) ==
    IF inst[i].runLease = NoLease
    THEN GA!Claim(RunHolder(i), "RUN")
    ELSE UNCHANGED gaVars

RunMutatingGame(i) ==
    IF inst[i].runLease = NoLease
    THEN GA!Claim(RunHolder(i), "RUN")
    ELSE GA!ValidateCurrent(inst[i].runLease) /\ UNCHANGED gaVars

RunLeaseAfter(i) ==
    IF inst[i].runLease = NoLease THEN NewLease(RunHolder(i), "RUN") ELSE inst[i].runLease

LiveMutatingGameReclaiming(i) ==
    IF inst[i].combatLease = NoLease \/ ~GA!ValidateCurrent(inst[i].combatLease)
    THEN GA!Claim(LiveHolder(i), "COMBAT")
    ELSE UNCHANGED gaVars

LiveMutatingGame(i) ==
    IF inst[i].combatLease = NoLease
    THEN GA!Claim(LiveHolder(i), "COMBAT")
    ELSE GA!ValidateCurrent(inst[i].combatLease) /\ UNCHANGED gaVars

LiveLeaseAfter(i) ==
    IF inst[i].combatLease = NoLease THEN NewLease(LiveHolder(i), "COMBAT") ELSE inst[i].combatLease

Serving(i) ==
    /\ pc = "idle"
    /\ inst[i].status = "live"
    /\ ~inst[i].faulted

(***************************************************************************)
(* commit_action outside combat: choose_room or step, then the drain.  A   *)
(* room that is a CombatRoom continues in enter_combat_phase; an emulator  *)
(* error ends the handler with a faulted response and no other change.     *)
(***************************************************************************)
CommitOutsideCombat(i) ==
    /\ Serving(i)
    /\ i \in WholeRuns
    /\ ~inst[i].phase
    /\ RunMutatingGame(i)
    /\ inst' = [inst EXCEPT ![i].runLease = RunLeaseAfter(i)]
    /\ Mutates(i)
    /\ \/ UNCHANGED <<pc, who>>
       \/ pc' = "entered" /\ who' = i
    /\ UNCHANGED <<transfer, board>>

EnterBegin ==
    /\ pc = "entered"
    /\ GA!Begin(inst[who].runLease)
    /\ transfer' = NewLease(inst[who].runLease.holder, "TRANSFERRING")
    /\ inst' = [inst EXCEPT ![who].runLease = NoLease]
    /\ Goto("adopting")
    /\ UNCHANGED <<board, foreign>>

(* Adoption or the worker pool fails: roll back and take the lease back.   *)
RollbackForgettingLease ==
    /\ pc = "adopting"
    /\ GA!Rollback(transfer)
    /\ Finish
    /\ UNCHANGED <<inst, board, foreign>>

EnterRollback ==
    /\ pc = "adopting"
    /\ GA!Rollback(transfer)
    /\ inst' = [inst EXCEPT ![who].runLease = NewLease(RunHolder(who), "RUN")]
    /\ Finish
    /\ UNCHANGED <<board, foreign>>

EnterCommit ==
    /\ pc = "adopting"
    /\ GA!Commit(transfer, "COMBAT", LiveHolder(who))
    /\ transfer' = NewLease(LiveHolder(who), "COMBAT")
    /\ Goto("committed")
    /\ UNCHANGED <<inst, board, foreign>>

EnterAccept ==
    /\ pc = "committed"
    /\ GA!ValidateCurrent(transfer)
    /\ inst' = [inst EXCEPT ![who].combatLease = transfer,
                            ![who].phase = TRUE,
                            ![who].synced = TRUE,
                            ![who].sessionFaulted = FALSE]
    /\ Finish
    /\ UNCHANGED <<gaVars, board, foreign>>

(***************************************************************************)
(* _poison_combat_transaction: the run is faulted, the guard poisoned, the *)
(* phase retired; closing the live session drops its lease (the release    *)
(* is refused and swallowed).                                              *)
(***************************************************************************)
PoisonTransaction ==
    /\ GA!Poison
    /\ inst' = [inst EXCEPT ![who].faulted = TRUE,
                            ![who].phase = FALSE,
                            ![who].runLease = NoLease,
                            ![who].combatLease = NoLease]
    /\ Finish
    /\ UNCHANGED <<board, foreign>>

EnterFailsAfterCommit == pc = "committed" /\ PoisonTransaction

(***************************************************************************)
(* commit_action in combat: LiveCombatSession.step.  When its retained     *)
(* frame is not the game's it first restores its own state with            *)
(* ResetFromScenario, which replaces a live whole run by a scenario.       *)
(***************************************************************************)
LiveStep(i) ==
    /\ Serving(i)
    /\ inst[i].phase
    /\ ~inst[i].sessionFaulted
    /\ LiveMutatingGame(i)
    /\ Mutates(i)
    /\ UNCHANGED <<transfer, board>>

Resynchronized(i) == ~inst[i].synced /\ i \in WholeRuns

CombatStepAdvances(i) ==
    /\ LiveStep(i)
    /\ inst' = [inst EXCEPT ![i].combatLease = LiveLeaseAfter(i),
                            ![i].synced = TRUE,
                            ![i].runReset = @ \/ Resynchronized(i)]
    /\ pc' = "advanced"
    /\ who' = i

(* The engine reports the action faulted: only this session is closed to   *)
(* further steps; root_commit_advanced() is false, so nothing is poisoned. *)
CombatActionFaults(i) ==
    /\ LiveStep(i)
    /\ inst' = [inst EXCEPT ![i].combatLease = LiveLeaseAfter(i),
                            ![i].sessionFaulted = TRUE,
                            ![i].runReset = @ \/ Resynchronized(i)]
    /\ UNCHANGED <<pc, who>>

(* step_live_action raises between its two Step calls, or while it wraps   *)
(* the result: the game moved, the retained frame did not.                 *)
CombatStepRaisesMidway(i) ==
    /\ LiveStep(i)
    /\ inst' = [inst EXCEPT ![i].combatLease = LiveLeaseAfter(i),
                            ![i].synced = FALSE,
                            ![i].runReset = @ \/ Resynchronized(i)]
    /\ UNCHANGED <<pc, who>>

(* The rest of the commit succeeds and combat goes on.                     *)
CommitRecorded ==
    /\ pc = "advanced"
    /\ Finish
    /\ UNCHANGED <<gaVars, inst, board, foreign>>

CommitFailsAfterAdvance ==
    /\ pc = "advanced"
    /\ who \in WholeRuns
    /\ PoisonTransaction

(* CombatInstance.commit_action only marks itself closed.                  *)
StandaloneFailsAfterAdvance ==
    /\ pc = "advanced"
    /\ who \notin WholeRuns
    /\ inst' = [inst EXCEPT ![who].faulted = TRUE]
    /\ Finish
    /\ UNCHANGED <<gaVars, board, foreign>>

(***************************************************************************)
(* leave_combat_phase, when the step carried a combat_completion.          *)
(***************************************************************************)
LeaveBegin ==
    /\ pc = "advanced"
    /\ who \in WholeRuns
    /\ GA!Begin(inst[who].combatLease)
    /\ transfer' = NewLease(inst[who].combatLease.holder, "TRANSFERRING")
    /\ inst' = [inst EXCEPT ![who].combatLease = NoLease]
    /\ Goto("leaving")
    /\ UNCHANGED <<board, foreign>>

LeaveFold ==
    /\ pc = "leaving"
    /\ inst' = [inst EXCEPT ![who].phase = FALSE]
    /\ Goto("folded")
    /\ UNCHANGED <<gaVars, transfer, board, foreign>>

LeaveCommit ==
    /\ pc = "folded"
    /\ GA!Commit(transfer, "RUN", RunHolder(who))
    /\ transfer' = NewLease(RunHolder(who), "RUN")
    /\ Goto("returned")
    /\ UNCHANGED <<inst, board, foreign>>

LeaveAccept ==
    /\ pc = "returned"
    /\ GA!ValidateCurrent(transfer)
    /\ inst' = [inst EXCEPT ![who].runLease = transfer]
    /\ Goto("draining")
    /\ UNCHANGED <<gaVars, transfer, board, foreign>>

LeaveDrained ==
    /\ pc = "draining"
    /\ RunMutatingGame(who)
    /\ Mutates(who)
    /\ Finish
    /\ UNCHANGED <<inst, board>>

LeaveFails ==
    /\ pc \in {"leaving", "folded", "returned", "draining"}
    /\ PoisonTransaction

(***************************************************************************)
(* close_instance: the phase's live session and the run session release    *)
(* the lease they still own; a stale one is dropped.  A CombatInstance     *)
(* that marked itself closed returns at once.                              *)
(***************************************************************************)
HeldLeases(i) ==
    {l \in {inst[i].runLease} \cup (IF inst[i].phase THEN {inst[i].combatLease} ELSE {}) :
        l # NoLease}

CloseInstance(i) ==
    /\ pc = "idle"
    /\ inst[i].status = "live"
    /\ IF inst[i].faulted /\ i \notin WholeRuns
       THEN /\ inst' = [inst EXCEPT ![i].status = "gone"]
            /\ UNCHANGED gaVars
       ELSE /\ inst' = [inst EXCEPT ![i].status = "gone",
                                    ![i].phase = FALSE,
                                    ![i].runLease = NoLease,
                                    ![i].combatLease = NoLease]
            /\ \/ \E l \in HeldLeases(i) : GA!Release(l)
               \/ /\ \A l \in HeldLeases(i) : ~GA!ValidateCurrent(l)
                  /\ UNCHANGED gaVars
    /\ UNCHANGED <<pc, who, transfer, board, foreign>>

(* Every serial of the model has been used: the bounded server has nothing *)
(* left to do.                                                             *)
Exhausted ==
    /\ pc = "idle"
    /\ \A i \in Instances : inst[i].status = "gone"
    /\ UNCHANGED vars

Next ==
    \/ \E i \in Instances :
         \/ StartInstance(i) \/ StartRefused(i)
         \/ CommitOutsideCombat(i)
         \/ CombatStepAdvances(i) \/ CombatActionFaults(i) \/ CombatStepRaisesMidway(i)
         \/ CloseInstance(i)
    \/ Constructed \/ ConstructorRaises \/ StartedThenClosed
    \/ EnterBegin \/ EnterRollback \/ EnterCommit \/ EnterAccept
    \/ EnterFailsAfterCommit
    \/ CommitRecorded \/ CommitFailsAfterAdvance \/ StandaloneFailsAfterAdvance
    \/ LeaveBegin \/ LeaveFold \/ LeaveCommit \/ LeaveAccept \/ LeaveDrained
    \/ LeaveFails
    \/ Exhausted

Spec == Init /\ [][Next]_vars

-----------------------------------------------------------------------------
(* The Python objects and the guard keep their types.                      *)
TypeOK ==
    /\ GA!TypeOK
    /\ inst \in [Instances -> InstanceState]
    /\ pc \in Steps
    /\ who \in Instances \cup {NoInstance}
    /\ transfer \in Leases
    /\ board \in Instances \cup {NoInstance}
    /\ foreign \in BOOLEAN

(* The instance that owns the game according to the guard.                 *)
Owns(i) == holder \in {RunHolder(i), LiveHolder(i)}

(***************************************************************************)
(* No instance ever mutates another one's run: whatever was started,       *)
(* superseded, rolled back or closed in between, a mutation that passes    *)
(* the lease check reaches the board its own instance set up.              *)
(***************************************************************************)
NoForeignMutation == ~foreign

(***************************************************************************)
(* Between handlers the guard is never left TRANSFERRING, and a serving    *)
(* whole run that owns the game holds exactly the lease the guard would    *)
(* accept: the COMBAT one while it has a phase, the RUN one otherwise.     *)
(***************************************************************************)
HandoffSettles ==
    pc = "idle" =>
      /\ state # "TRANSFERRING"
      /\ \A i \in Instances :
           (Serving(i) /\ Owns(i)) =>
             /\ inst[i].phase => GA!ValidateCurrent(inst[i].combatLease)
             /\ ~inst[i].phase => GA!ValidateCurrent(inst[i].runLease)

(***************************************************************************)
(* A superseded instance fails on its next mutation and disturbs nobody:   *)
(* ownership only ever passes to an instance that is being started, and    *)
(* only the owning instance can poison the guard.  A session that lost its *)
(* lease and forgot it would claim the game back instead.                  *)
(***************************************************************************)
SupersededStaysOut ==
    [][/\ \A i \in Instances : ~Owns(i) /\ Owns(i)' => inst[i].status = "absent"
       /\ state # "POISONED" /\ state' = "POISONED" => Owns(who)]_vars

-----------------------------------------------------------------------------
(* What the design note says of the process; a run shows where the code    *)
(* differs.                                                                *)

(* The resynchronizing ResetFromScenario never fires on a whole run.       *)
ResynchronizeNeverFires == \A i \in WholeRuns : ~inst[i].runReset
=============================================================================
