----------------------------- MODULE CombatGame -----------------------------
(***************************************************************************)
(* The combat emulator as main_loop.py, decision_context.py and            *)
(* replay_draw_restore.py use it: an ordered draw pile and a hand,         *)
(* semantic actions, and three kinds of boundary.  The emulator is not     *)
(* part of the repository; only what its callers rely on is stated: a      *)
(* step is a function of the state and the action, cards are drawn from    *)
(* the top into the end of the hand, and a Pending choice either           *)
(* discards a card and draws ("cycle") or puts one back on the draw pile   *)
(* ("topdeck").  A card may open several choices, one after the other.     *)
(***************************************************************************)
EXTENDS Naturals, SequencesExt

CONSTANTS
    Effect,         \* card -> [draws, choices]
    Reshuffles      \* does an empty draw pile take the discards back?

Cards == DOMAIN Effect
ChoiceKinds == {"cycle", "topdeck"}
ASSUME EffectAssumption == \A card \in Cards : Effect[card] \in [draws : Nat, choices : Seq(ChoiceKinds)]

NoChoice == <<>>
System == [type |-> "system", key |-> "end"]
Confirm == [type |-> "choice_confirm", key |-> "confirm"]
Skip == [type |-> "choice_skip", key |-> "skip"]
Play(card) == [type |-> "card", key |-> card]
Choose(card) == [type |-> "choice_card", key |-> card]

Deal(hand, draw, discard, left, opening) ==
    [hand |-> hand, draw |-> draw, discard |-> discard, left |-> left, step |-> 0,
     choices |-> opening]

(* boundary_of_battle_state *)
Boundary(g) ==
    IF g.left = 0 THEN "terminal" ELSE IF g.choices # NoChoice THEN "pending" ELSE "stable"

(* _cached_legal_actions, in the emulator's order *)
Legal(g) ==
    CASE Boundary(g) = "terminal" -> <<>>
      [] Boundary(g) = "pending" -> [i \in DOMAIN g.hand |-> Choose(g.hand[i])] \o <<Confirm, Skip>>
      [] OTHER -> [i \in DOMAIN g.hand |-> Play(g.hand[i])] \o <<System>>

DrawOne(g) ==
    LET full == IF g.draw = <<>> /\ Reshuffles
                THEN [g EXCEPT !.draw = Reverse(g.discard), !.discard = <<>>] ELSE g
    IN  IF full.draw = <<>> THEN full
        ELSE [full EXCEPT !.hand = Append(@, Head(full.draw)), !.draw = Tail(@)]
Draws(g, n) ==
    LET after[i \in 0..n] == IF i = 0 THEN g ELSE DrawOne(after[i - 1]) IN after[n]

Removed(s, card) == RemoveAt(s, SelectInSeq(s, LAMBDA x : x = card))
Discarded(g, card) ==
    [g EXCEPT !.hand = Removed(@, card), !.discard = Append(@, card), !.step = @ + 1]

Played(g, card) ==
    LET e == Effect[card]
        drawn == Draws(Discarded(g, card), e.draws)
    IN  IF e.choices = NoChoice THEN [drawn EXCEPT !.left = @ - 1]
        ELSE [drawn EXCEPT !.choices = e.choices]

ChoiceSpent(g) == [g EXCEPT !.choices = Tail(@)]
Chosen(g, card) ==
    ChoiceSpent(IF Head(g.choices) = "cycle" THEN Draws(Discarded(g, card), 1)
                ELSE [g EXCEPT !.hand = Removed(@, card), !.draw = <<card>> \o @, !.step = @ + 1])

(* the cards an action draws *)
DrawsOf(g, a) ==
    CASE a.type = "card" -> Effect[a.key].draws
      [] a.type = "choice_card" -> IF Head(g.choices) = "cycle" THEN 1 ELSE 0
      [] a.type = "system" -> 1
      [] OTHER -> 0

TurnEnds(g) ==
    Draws([g EXCEPT !.discard = @ \o g.hand, !.hand = <<>>, !.left = @ - 1, !.step = @ + 1], 1)

GameStep(g, a) ==
    CASE a.type = "card" -> Played(g, a.key)
      [] a.type = "choice_card" -> Chosen(g, a.key)
      [] a.type = "system" -> TurnEnds(g)
      [] a.type = "choice_confirm" -> ChoiceSpent([g EXCEPT !.step = @ + 1])
      [] OTHER -> [g EXCEPT !.choices = NoChoice, !.step = @ + 1]

(* candidate_multiset: the Semantic Keys offered, with their number *)
CandidateMultiset(g) ==
    [a \in ToSet(Legal(g)) |-> Len(SelectSeq(Legal(g), LAMBDA x : x = a))]

(* DecisionSignature, in the fields matches_for_replay compares: nothing   *)
(* of the board but the Pending candidates                                 *)
Signature(g, a) ==
    [step |-> g.step, action |-> a, boundary |-> Boundary(g),
     candidates |-> IF Boundary(g) = "pending" THEN CandidateMultiset(g) ELSE <<>>]

(* SemanticAction.resolve *)
Resolves(g, a) == a \in ToSet(Legal(g))
=============================================================================
