---------------------------- MODULE DrawEvidence ----------------------------
(***************************************************************************)
(* What Main learns of the hidden draw pile by watching its own steps      *)
(* (replay_draw_restore.py), and how a Search Hypothesis is made to agree  *)
(* with it (rng_hypothesis.py).  A card is its observable key; the copies  *)
(* of a card in a pile are told apart by their place.                      *)
(***************************************************************************)
EXTENDS CombatGame, FiniteSetsExt

Count(s, card) == Len(SelectSeq(s, LAMBDA x : x = card))
Multiset(s) == [card \in ToSet(s) |-> Count(s, card)]
CounterSubset(s, t) == \A card \in ToSet(s) : Count(s, card) <= Count(t, card)
LastN(s, n) == SubSeq(s, Len(s) - n + 1, Len(s))
FirstN(s, n) == SubSeq(s, 1, n)

(* _matches_one_card_consumed *)
OneCardConsumed(before, after) ==
    /\ Len(before) = Len(after) + 1
    /\ \E i \in DOMAIN before : RemoveAt(before, i) = after

(* _visible_hand_draw_sequence: the draw piles are compared as multisets,  *)
(* the order comes from the end of the hand                                *)
DrawCount(pre, post) == Len(pre.draw) - Len(post.draw)
Explained(pre, post) ==
    LET n == DrawCount(pre, post) IN
    /\ CounterSubset(post.draw, pre.draw)
    /\ n > 0 =>
         /\ n <= Len(post.hand)
         /\ \A card \in ToSet(pre.draw) :
               Count(LastN(post.hand, n), card) = Count(pre.draw, card) - Count(post.draw, card)
         /\ ToSet(LastN(post.hand, n)) \subseteq ToSet(pre.draw)
         /\ OneCardConsumed(pre.hand, FirstN(post.hand, Len(post.hand) - n))

Blocked(prefix) == \E i \in DOMAIN prefix : prefix[i].blocked
PinnedOf(prefix) == FlattenSeq([i \in DOMAIN prefix |-> prefix[i].draws])

(* mutant: a step that cannot be explained is taken to have drawn nothing *)
EvidenceNeverBlocking(pre, post, prefix) ==
    [draws |-> IF ~Blocked(prefix) /\ Explained(pre, post)
               THEN LastN(post.hand, DrawCount(pre, post)) ELSE <<>>,
     blocked |-> FALSE]

(* visible_draw_transition_evidence_from_committed_transition.  The        *)
(* offsets of the constraints are their places in PinnedOf.                *)
Evidence(pre, post, prefix) ==
    [draws |-> IF ~Blocked(prefix) /\ Explained(pre, post)
               THEN LastN(post.hand, DrawCount(pre, post)) ELSE <<>>,
     blocked |-> \/ Blocked(prefix)
                 \/ ~Explained(pre, post) /\ Multiset(pre.draw) # Multiset(post.draw)]

(* generate_belief_hypotheses: orders of compute_public_multiset *)
BeliefHypotheses(root) ==
    {[i \in DOMAIN root.draw |-> root.draw[p[i]]] :
        p \in {q \in [DOMAIN root.draw -> DOMAIN root.draw] : IsInjective(q)}}

(* _reorder_hypothesis_for_visible_draw_constraints *)
(* mutant: the observed cards are found, but left where they are *)
ReorderedInPlace(order, pinned) == order
Reordered(order, pinned) ==
    pinned \o FoldLeft(LAMBDA rest, card : Removed(rest, card), order, pinned)

(* _draw_pile_instances_for_hypothesis refuses a pinned card with two      *)
(* copies in the root pile: snapshot_card_replay_internal_key keeps their  *)
(* PileIndex, so they always look different.                               *)
Materializes(root, pinned) == \A card \in ToSet(pinned) : Count(root.draw, card) = 1

(* apply_hypothesis_to_context: the root a hypothesis is replayed from *)
SubstitutedRoot(root, order, prefix) ==
    [root EXCEPT !.draw = Reordered(order, PinnedOf(prefix))]
DerivedRoots(root, prefix) ==
    {SubstitutedRoot(root, order, prefix) : order \in BeliefHypotheses(root)}
=============================================================================
