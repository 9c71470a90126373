---------------------------- MODULE BranchLedger ----------------------------
(***************************************************************************)
(* What the two public instance types share: the registries of             *)
(* API/identifiers.py and, behind API/combat_phase.py, the records of      *)
(* Combat/search/branch_manager.py as they stand between two calls.        *)
(*                                                                         *)
(* Module BranchManager shows what one poll does; here a poll has ended    *)
(* and every record is completed, faulted, cancelled or released - or      *)
(* still running, when its worker could not even be replaced.              *)
(***************************************************************************)
EXTENDS Integers, SequencesExt

CONSTANTS
    Branches,       \* the branch_ids Training invents
    Root,           \* ROOT_BRANCH_ID
    RngIds          \* positive rng_ids

ASSUME RootAssumption == Root \notin Branches

(* dict.pop of a set of keys *)
Without(f, keys) == [k \in DOMAIN f \ keys |-> f[k]]

(* ----------------------- DecisionPointRegistry ------------------------- *)
(* "d-<branch>-<counter>": no id is issued twice.  Here it is the how      *)
(* manieth of its Branch; 0: none is current.                              *)
NoDecisions ==
    LET none == [b \in Branches \cup {Root} |-> 0] IN [issued |-> none, current |-> none]
Issue(dps, bs) ==
    [issued |-> [b \in DOMAIN dps.issued |-> dps.issued[b] + (IF b \in bs THEN 1 ELSE 0)],
     current |-> [b \in DOMAIN dps.current |->
                     IF b \in bs THEN dps.issued[b] + 1 ELSE dps.current[b]]]
Clear(dps, bs) ==
    [dps EXCEPT !.current = [b \in DOMAIN @ |-> IF b \in bs THEN 0 ELSE @[b]]]
RestoreCurrent(dps, b, id) == [dps EXCEPT !.current[b] = id]
Validates(dps, b, id) == dps.current[b] # 0 /\ dps.current[b] = id

(* -------------------------- BranchIdRegistry --------------------------- *)
IsKnown(known, b) == b \in known
Register(known, bs) == known \cup bs
RollbackRegistration(known, bs) == known \ bs

(* ------------------------- RngHypothesisTable -------------------------- *)
(* _index_by_key, in insertion order, and _next_index_by_parent_decision   *)
NoHypotheses == [keys |-> <<>>, index |-> <<>>, next |-> << >>]

KeyOf(parent, decision, rng) == [parent |-> parent, decision |-> decision, rng |-> rng]
ParentDecision(key) == <<key.parent, key.decision>>
NextIndex(table, pd) == IF pd \in DOMAIN table.next THEN table.next[pd] ELSE 0
Position(table, key) == CHOOSE i \in DOMAIN table.keys : table.keys[i] = key

HypothesisIndexFor(table, key) ==
    IF key \in ToSet(table.keys) THEN table.index[Position(table, key)]
    ELSE NextIndex(table, ParentDecision(key))

Allocated(table, key) ==
    IF key \in ToSet(table.keys) THEN table
    ELSE LET pd == ParentDecision(key)
             n == NextIndex(table, pd)
         IN  [keys |-> Append(table.keys, key), index |-> Append(table.index, n),
              next |-> [x \in DOMAIN table.next \cup {pd} |->
                           IF x = pd THEN n + 1 ELSE table.next[x]]]

AllocatedAll(table, keys) ==
    LET grown[n \in 0..Len(keys)] ==
            IF n = 0 THEN table ELSE Allocated(grown[n - 1], keys[n])
    IN  grown[Len(keys)]

Snapshot(table) == Len(table.keys)

(* mutant: the counter starts again at 0 *)
PoppedTooFar(table) ==
    LET last == Len(table.keys)
        pd == ParentDecision(table.keys[last])
    IN  [keys |-> SubSeq(table.keys, 1, last - 1), index |-> SubSeq(table.index, 1, last - 1),
         next |-> Without(table.next, {pd})]

Popped(table) ==
    LET last == Len(table.keys)
        n == table.index[last]
        pd == ParentDecision(table.keys[last])
    IN  [keys |-> SubSeq(table.keys, 1, last - 1), index |-> SubSeq(table.index, 1, last - 1),
         next |-> IF n = 0 THEN Without(table.next, {pd}) ELSE [table.next EXCEPT ![pd] = n]]

(* pops the newest keys until "mark" are left *)
Restore(table, mark) ==
    LET left[i \in 0..(Len(table.keys) - mark)] ==
            IF i = 0 THEN table ELSE Popped(left[i - 1])
    IN  left[Len(table.keys) - mark]

(* ----------------------- BranchManager's records ----------------------- *)
(* The internal id "branch-n" is the index n, and every manager counts     *)
(* from 1.  A parent of 0 is the root.                                     *)
Ended == {"cancelled", "released"}
Active == {"queued", "running"}
ActiveCount(recs) == Cardinality({i \in DOMAIN recs : recs[i].state \in Active})

(* "states": what the poll that follows leaves of the new records          *)
SubmitMany(recs, parents, states) ==
    recs \o [k \in DOMAIN parents |-> [state |-> states[k], parent |-> parents[k]]]

(* the item of a request that names a Branch; no two of them do            *)
Place(batch, b) == CHOOSE k \in DOMAIN batch : batch[k].branch = b

(* Cancelling reaches every registered descendant (BranchManager's         *)
(* AncestorsReachDescendants).                                             *)
Lineage(recs, i) ==
    LET under[j \in 0..Len(recs)] == j # 0 /\ (j = i \/ under[recs[j].parent])
    IN  {j \in DOMAIN recs : under[j]}
CancelRecords(recs, ids) ==
    [j \in DOMAIN recs |->
        IF recs[j].state \notin Ended /\ \E i \in ids : j \in Lineage(recs, i)
        THEN [recs[j] EXCEPT !.state = "cancelled"] ELSE recs[j]]

(* A release stops at an id it does not know, and at a running record      *)
(* whose worker it cannot replace; what it passed stays released.  "ids"   *)
(* gives the ids their places in the order of the release.                 *)
Blocked(recs, i, respawns) ==
    i \in DOMAIN recs => recs[i].state = "running" /\ ~respawns
ReleaseRaises(recs, ids, respawns) ==
    \E k \in DOMAIN ids : Blocked(recs, ids[k], respawns)
ReleaseRecords(recs, ids, respawns) ==
    [i \in DOMAIN recs |->
        IF \E k \in DOMAIN ids :
              ids[k] = i /\ \A j \in DOMAIN ids : j <= k => ~Blocked(recs, ids[j], respawns)
        THEN [recs[i] EXCEPT !.state = "released"] ELSE recs[i]]
=============================================================================
