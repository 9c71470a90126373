---------------------------- MODULE ApiInstances ----------------------------
(***************************************************************************)
(* The two instance types behind the API server: a client starts either a  *)
(* whole run or a standalone combat and drives it to its end.  Their       *)
(* ledgers share nothing but the operators of BranchLedger; what they      *)
(* share of the game is module GameHandoff.                                *)
(***************************************************************************)
EXTENDS WholeRunBranches

CONSTANTS MaxCommits, MaxFailures
VARIABLES kind, combat, cled, cclosed, reply, failures

Standalone == INSTANCE CombatInstance

all == <<runVars, kind, combat, cled, cclosed, reply, failures>>

InstancesInit ==
    /\ kind \in {"whole_run", "combat"}
    /\ RunInit /\ Standalone!CInit
    /\ kind = "combat" => root.boundary = "map_select"   \* unused there

InstancesNext ==
    \/ kind = "whole_run" /\ RunNext
       /\ UNCHANGED <<kind, combat, cled, cclosed, reply, failures>>
    \/ kind = "combat" /\ Standalone!CNext /\ UNCHANGED <<kind, runVars>>

InstancesSpec == InstancesInit /\ [][InstancesNext]_all

(* No ghost Branch: a whole run holds no slot beyond max_branches and no   *)
(* internal Branch without a public one, and a standalone combat that      *)
(* still serves requests has no worker executing a Branch nobody waits     *)
(* for, however an operation failed (rollback_registration, emulate_action *)
(* and emulate_actions of both instance types).                            *)
NoGhosts == NoGhostBranch /\ Standalone!NoGhostWhileOpen

(* The books the two RNG tables and the ledger keep of one Branch agree:   *)
(* Branches of one decision share hidden cards exactly when they share     *)
(* their rng_id, and an event hypothesis is held exactly for the Branches  *)
(* still usable under it (RngHypothesisTable, EventRngHypothesisRegistry). *)
BooksAgree == HypothesesFollowRngIds /\ EventReferencesAreExact

(* What Training can still extend belongs to the decision the root stands  *)
(* at: nothing survives the commit that left it, by whichever path the     *)
(* commit released the Branches (_cancel_and_release_all_branches,         *)
(* _record_root_commit, enter_combat_phase, leave_combat_phase).           *)
BranchesBelongToTheDecision ==
    NothingOutlivesTheDecision /\ Standalone!ExtensibleBranchesStartAtTheRoot
=============================================================================
