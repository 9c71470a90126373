------------------------ MODULE ExclusiveCapability ------------------------
(***************************************************************************)
(* What a mutation guard promises its callers, independently of how it     *)
(* recognises them: at any time at most one capability is usable, every    *)
(* grant is of a capability never seen before, a capability that stopped   *)
(* being usable never becomes usable again, and once the guard is shut     *)
(* nothing is granted or usable any more.                                  *)
(***************************************************************************)

CONSTANT Capability

VARIABLES
    live,   \* the usable capabilities: a set of at most one element
    spent,  \* the capabilities that were usable once
    shut    \* the guard is terminally closed

ecVars == <<live, spent, shut>>

Init ==
    /\ live = {}
    /\ spent = {}
    /\ shut = FALSE

(* A fresh capability replaces whatever was usable.                        *)
Grant ==
    /\ ~shut
    /\ \E c \in live' :
         /\ c \in Capability
         /\ c \notin live \cup spent
         /\ live' = {c}
    /\ spent' = spent \cup live
    /\ UNCHANGED shut

Withdraw ==
    /\ live' = {}
    /\ spent' = spent \cup live
    /\ UNCHANGED shut

Shut ==
    /\ live' = {}
    /\ spent' = spent \cup live
    /\ shut' = TRUE

Next == Grant \/ Withdraw \/ Shut

Spec == Init /\ [][Next]_ecVars
=============================================================================
