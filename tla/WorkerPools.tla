---------------------------- MODULE WorkerPools ----------------------------
(***************************************************************************)
(* The three ways the combat code drives its workers: a batch on worker    *)
(* processes through dispatch_work_items (SearchDispatch), single requests *)
(* of several callers on worker threads through execute (AlcPool), and the *)
(* Branches of a BranchManager whose thread workers may be replaced        *)
(* ManagerRespawns times (BranchManager).  A behaviour uses one of them;   *)
(* they share no state.                                                    *)
(***************************************************************************)
EXTENDS SearchDispatch, AlcPool

CONSTANTS
    ManagerWorkers, NoManagerWorker, ManagerRespawns,
    ManagerBranches     \* bound: Branches submitted in one behaviour

VARIABLES
    driver,     \* which of the three is used
    records, managerLeases, workers, abandoned, managerResults,
    pc, op, admitted, waiting, slots, todo, visited, lineage

Manager == INSTANCE BranchManager WITH
    Workers <- ManagerWorkers, NoWorker <- NoManagerWorker, RespawnLimit <- ManagerRespawns,
    MaxSerial <- ManagerBranches, max_branches <- ManagerBranches,
    leases <- managerLeases, results <- managerResults

managerVars ==
    <<records, managerLeases, workers, abandoned, managerResults,
      pc, op, admitted, waiting, slots, todo, visited, lineage>>
poolsVars == <<driver, vars, alcVars, managerVars>>

PoolsInit ==
    /\ driver \in {"dispatch", "execute", "manager"}
    /\ Init /\ AlcInit /\ Manager!Init

PoolsNext ==
    \/ driver = "dispatch" /\ Next /\ UNCHANGED <<driver, alcVars, managerVars>>
    \/ driver = "execute" /\ AlcNext /\ UNCHANGED <<driver, vars, managerVars>>
    \/ driver = "manager" /\ Manager!Next /\ UNCHANGED <<driver, vars, alcVars>>

(* The coordinators are running threads whose get has a timeout; nothing   *)
(* is asked of the workers.                                                *)
PoolsSpec ==
    /\ PoolsInit /\ [][PoolsNext]_poolsVars
    /\ WF_vars(Coordinates)
    /\ Manager!Fairness

-----------------------------------------------------------------------------
(* BranchManager.poll returns or raises although the workers may never     *)
(* answer, also when the respawn that a timeout or its clean-up needs is   *)
(* refused.                                                                *)
PollReturns == Manager!PollReturns
=============================================================================
