------------------------ MODULE FloorReconstruction -------------------------
(* Combat/data/reconstruct_floor_state.py and the scripts around it.  The    *)
(* history of a real run lists, per map point, what happened to the player's *)
(* cards, relics, potions and hit points, by kind and without the identity   *)
(* of a card; the replay of it guesses the state before every combat, says   *)
(* how far it trusts the guess, and the trusted states become scenarios.     *)
(*                                                                           *)
(* The played run is external: "real" is what the player has, "point" the    *)
(* record of the map point being played.  Gold, which nothing compares, and  *)
(* counters are left out; histories are well-formed.                         *)
EXTENDS Integers, FiniteSets, SequencesExt

CONSTANTS StartingDeck,     \* card ids of the character, ASCENDERS_BANE included
          StartingRelic,
          CardIds, MadScience, RelicIds, PotionIds,
          Evidence,         \* the <<props, choices>> a MAD_SCIENCE may come with
          CanonicalIds,     \* the ids of Common/ids/*.json
          MaxHp,
          HandSize,         \* cards dealt to the opening hand
          MaxPoints,        \* bound on the map points of a run
          MaxEvents,        \* bound on what happens to the player
          MaxRooms          \* bound on the combat rooms of a run

ASSUME StartAssumption == /\ StartingDeck \in Seq(CardIds) /\ MadScience \in CardIds
                          /\ MaxHp \in Nat \ {0} /\ HandSize \in Nat

VARIABLES run,      \* the real run and its recorded history
          floors    \* what the scripts made of it

\* A card as the deck and the log know it; tinker is MAD_SCIENCE's choice.
Card(id, floor, upgraded, tinker) == [id |-> id, floor |-> floor, upgraded |-> upgraded, tinker |-> tinker]

NoHp == -1     \* None

EmptyStats == [cards_gained |-> <<>>, cards_removed |-> <<>>, cards_transformed |-> <<>>,
               upgraded_cards |-> <<>>, downgraded_cards |-> <<>>,
               relics_gained |-> <<>>, relics_removed |-> <<>>,
               potions_gained |-> <<>>, potions_lost |-> <<>>, hp |-> NoHp]

-----------------------------------------------------------------------------
(* ReplayState                                                               *)

StartingState ==
  [deck |-> [i \in DOMAIN StartingDeck |-> Card(StartingDeck[i], 1, FALSE, "none")],
   relics |-> <<StartingRelic>>, potions |-> <<>>, hp |-> MaxHp, warnings |-> {}]

Warn(s, w) == [s EXCEPT !.warnings = @ \cup {w}]

\* _find_card_candidates, as positions in the deck.
WithId(s, id) == {i \in DOMAIN s.deck : s.deck[i].id = id}
First(positions) == CHOOSE i \in positions : \A j \in positions : i <= j

\* reconcile_mad_science_state: the card's own props win, the titles of the
\* event's choices stand in for them, two that disagree are a conflict.
Reconciled(ref) == CASE ref.props # "none" /\ ref.choices \notin {"none", ref.props} -> "conflict"
                     [] ref.props # "none" -> ref.props
                     [] ref.choices # "none" -> ref.choices
                     [] OTHER -> "missing"

AddCard(s, ref) ==
  LET tinker == Reconciled(ref)
      known == ref.id # MadScience \/ tinker \notin {"conflict", "missing"}
      card == Card(ref.id, ref.floor, ref.upgraded, IF ref.id = MadScience /\ known THEN tinker ELSE "none")
  IN [s EXCEPT !.deck = Append(@, card), !.warnings = IF known THEN @ ELSE @ \cup {"TINKER"}]

\* The floor pins the card down; without a match any card of the id will do.
RemovalCandidates(s, ref) ==
  LET pinned == {i \in WithId(s, ref.id) : s.deck[i].floor = ref.floor}
  IN IF pinned # {} THEN pinned ELSE WithId(s, ref.id)

RemoveCardUnflagged(s, ref) ==
  IF RemovalCandidates(s, ref) = {} THEN Warn(s, "NOTFOUND")
  ELSE [s EXCEPT !.deck = RemoveAt(@, First(RemovalCandidates(s, ref)))]

RemoveCard(s, ref) ==
  LET found == RemovalCandidates(s, ref)
      removed == [s EXCEPT !.deck = RemoveAt(@, First(found))]
  IN IF found = {} THEN Warn(s, "NOTFOUND")
     ELSE IF \E i, j \in found : s.deck[i].upgraded # s.deck[j].upgraded THEN Warn(removed, "AMBIGUOUS")
     ELSE removed

\* upgrade_card and downgrade_card: the first copy that is not so yet.
SetUpgraded(s, id, upgraded) ==
  LET found == {i \in WithId(s, id) : s.deck[i].upgraded # upgraded}
  IN IF found = {} THEN Warn(s, "NOTFOUND") ELSE [s EXCEPT !.deck[First(found)].upgraded = upgraded]

UpgradeCard(s, id) == SetUpgraded(s, id, TRUE)
DowngradeCard(s, id) == SetUpgraded(s, id, FALSE)

TransformCard(s, t) == AddCard(RemoveCard(s, t.original), t.final)

\* list.remove: the first one goes.
WithoutFirst(seq, x) == RemoveAt(seq, First({i \in DOMAIN seq : seq[i] = x}))

GainRelic(s, r) == [s EXCEPT !.relics = IF Contains(@, r) THEN @ ELSE Append(@, r)]
LoseRelic(s, r) == IF Contains(s.relics, r) THEN [s EXCEPT !.relics = WithoutFirst(@, r)] ELSE Warn(s, "NOTFOUND")
GainPotion(s, p) == [s EXCEPT !.potions = Append(@, p)]
LosePotion(s, p) == IF Contains(s.potions, p) THEN [s EXCEPT !.potions = WithoutFirst(@, p)] ELSE Warn(s, "NOTFOUND")

\* One entry of one of the lists of a point, and a list from its first entry.
ApplyEntry(s, list, x) ==
  CASE list = "cards_gained" -> AddCard(s, x)
    [] list = "cards_removed" -> RemoveCard(s, x)
    [] list = "cards_transformed" -> TransformCard(s, x)
    [] list = "upgraded_cards" -> UpgradeCard(s, x)
    [] list = "downgraded_cards" -> DowngradeCard(s, x)
    [] list = "relics_gained" -> GainRelic(s, x)
    [] list = "relics_removed" -> LoseRelic(s, x)
    [] list = "potions_gained" -> GainPotion(s, x)
    [] list = "potions_lost" -> LosePotion(s, x)

ApplyList(s, list, entries) ==
  LET after[n \in 0..Len(entries)] ==
        IF n = 0 THEN s ELSE ApplyEntry(after[n - 1], list, entries[n])
  IN after[Len(entries)]

ApplyCards(s, ps) ==
  LET gained == ApplyList(s, "cards_gained", ps.cards_gained)
      removed == ApplyList(gained, "cards_removed", ps.cards_removed)
      transformed == ApplyList(removed, "cards_transformed", ps.cards_transformed)
      upgraded == ApplyList(transformed, "upgraded_cards", ps.upgraded_cards)
  IN ApplyList(upgraded, "downgraded_cards", ps.downgraded_cards)

ApplyItems(s, ps) ==
  LET gained == ApplyList(s, "relics_gained", ps.relics_gained)
      relics == ApplyList(gained, "relics_removed", ps.relics_removed)
      potions == ApplyList(relics, "potions_gained", ps.potions_gained)
  IN ApplyList(potions, "potions_lost", ps.potions_lost)

\* A shop purchase is listed twice: as a gain and as something bought.
ApplyPointStatsTwice(s, ps) ==
  LET items == ApplyItems(ApplyList(ApplyCards(s, ps), "cards_gained", ps.cards_gained), ps)
  IN [IF ps.hp = NoHp THEN Warn(items, "NOTFOUND") ELSE items EXCEPT !.hp = ps.hp]

\* apply_point_stats: every list in turn, then the absolute hit points.
ApplyPointStats(s, ps) ==
  LET items == ApplyItems(ApplyCards(s, ps), ps)
  IN [IF ps.hp = NoHp THEN Warn(items, "NOTFOUND") ELSE items EXCEPT !.hp = ps.hp]

-----------------------------------------------------------------------------
(* The passes over one run                                                   *)

HpStatus(s) == IF s.hp = NoHp THEN "unavailable" ELSE IF s.hp > MaxHp THEN "inconsistent" ELSE "exact"

Encounter(s, point, room) == [state |-> s, point |-> point, room |-> room, hp_status |-> HpStatus(s)]

\* reconstruct_encounters_for_run: the combat rooms of a point see the state
\* before any of what the point did.
ReconstructPoint(acc, point) ==
  LET at == acc.point
  IN [state |-> ApplyPointStats(acc.state, point.stats),
      point |-> at + 1,
      encounters |-> acc.encounters \o [r \in 1..point.rooms |-> Encounter(acc.state, at, r)]]

ReconstructStart == [state |-> StartingState, point |-> 1, encounters |-> <<>>]
ReconstructAll(history) ==
  LET after[n \in 0..Len(history)] ==
        IF n = 0 THEN ReconstructStart ELSE ReconstructPoint(after[n - 1], history[n])
  IN after[Len(history)]

ReconstructEncounters(history) == ReconstructAll(history).encounters

\* final_state_for_run passes over the points without player_stats.
FinalState(history) ==
  FoldLeft(LAMBDA s, point : IF point.stats = EmptyStats THEN s ELSE ApplyPointStats(s, point.stats),
           StartingState, history)

UnsupportedIds(s) == ({s.deck[i].id : i \in DOMAIN s.deck} \cup ToSet(s.relics) \cup ToSet(s.potions)) \ CanonicalIds

\* classify_restore_status, the worst verdict first.
ClassifyRestoreStatus(e) ==
  CASE e.hp_status # "exact" \/ "NOTFOUND" \in e.state.warnings -> "history_inconsistent"
    [] OTHER -> IF UnsupportedIds(e.state) # {} THEN "unsupported_id"
                ELSE IF "AMBIGUOUS" \in e.state.warnings THEN "ambiguous_upgrade" ELSE "exact"

Count(seq, Test(_)) == Cardinality({i \in DOMAIN seq : Test(seq[i])})
SameCards(d1, d2) ==
  \A id \in CardIds, u \in BOOLEAN :
    Count(d1, LAMBDA c : c.id = id /\ c.upgraded = u) = Count(d2, LAMBDA c : c.id = id /\ c.upgraded = u)
SameItems(s, t) == \A x \in ToSet(s) \cup ToSet(t) : Count(s, LAMBDA y : y = x) = Count(t, LAMBDA y : y = x)

\* validate_run_reconstruction against the run's own final summary.
ValidateRun(final, real) == SameCards(final.deck, real.deck) /\ SameItems(final.relics, real.relics)

-----------------------------------------------------------------------------
(* The run as it is played and recorded (external)                           *)

\* "entered" is what the player had on coming to the point.
NewPoint(real) == [rooms |-> 0, stats |-> EmptyStats, entered |-> real]
NewRun == [pc |-> "playing", real |-> StartingState, point |-> NewPoint(StartingState),
           history |-> <<>>, truths |-> <<>>, events |-> 0]
NoRun == [NewRun EXCEPT !.pc = "none"]
NoFloors == [records |-> <<>>, matches |-> FALSE, scenario |-> <<>>]

Floor == Len(run.history) + 1
Ref(id, upgraded, props, choices) ==
  [id |-> id, floor |-> Floor, upgraded |-> upgraded, props |-> props, choices |-> choices]
PlainRef(id, upgraded) == Ref(id, upgraded, "none", "none")

\* What happens to the player, and the list of the point that tells of it.
Happens(real, list, entry) ==
  /\ run.pc = "playing" /\ run.events < MaxEvents
  /\ run' = [run EXCEPT !.real = real, !.point.stats[list] = Append(@, entry), !.events = @ + 1]
  /\ UNCHANGED floors

Deck == run.real.deck
PlayGain(id, upgraded) ==
  /\ id # MadScience
  /\ Happens([run.real EXCEPT !.deck = Append(@, Card(id, Floor, upgraded, "none"))],
             "cards_gained", PlainRef(id, upgraded))

\* The log may lack the card's props or the event's choices, or disagree.
PlayTinker(props, choices) ==
  Happens([run.real EXCEPT !.deck = Append(@, Card(MadScience, Floor, FALSE, "chosen"))],
          "cards_gained", Ref(MadScience, FALSE, props, choices))

PlayRemove(i) ==
  Happens([run.real EXCEPT !.deck = RemoveAt(@, i)], "cards_removed", [id |-> Deck[i].id, floor |-> Deck[i].floor])

PlayTransform(i, id) ==
  /\ id # MadScience
  /\ Happens([run.real EXCEPT !.deck = Append(RemoveAt(@, i), Card(id, Floor, FALSE, "none"))], "cards_transformed",
             [original |-> [id |-> Deck[i].id, floor |-> Deck[i].floor], final |-> PlainRef(id, FALSE)])

PlayUpgrade(i) ==
  /\ ~Deck[i].upgraded
  /\ Happens([run.real EXCEPT !.deck[i].upgraded = TRUE], "upgraded_cards", Deck[i].id)

PlayDowngrade(i) ==
  /\ Deck[i].upgraded
  /\ Happens([run.real EXCEPT !.deck[i].upgraded = FALSE], "downgraded_cards", Deck[i].id)

PlayRelic(r) == Happens(GainRelic(run.real, r), "relics_gained", r)
PlayLoseRelic(r) == Contains(run.real.relics, r) /\ Happens(LoseRelic(run.real, r), "relics_removed", r)
PlayPotion(p) == Happens(GainPotion(run.real, p), "potions_gained", p)
PlayLosePotion(p) == Contains(run.real.potions, p) /\ Happens(LosePotion(run.real, p), "potions_lost", p)

\* Hit points change without an entry: the point records what is left.
PlayHp(hp) ==
  /\ run.pc = "playing" /\ run.events < MaxEvents /\ hp # run.real.hp
  /\ run' = [run EXCEPT !.real.hp = hp, !.events = @ + 1]
  /\ UNCHANGED floors

\* A combat begins, the first of its point or one that an event of the point
\* or an earlier combat led to; "truths" keeps with what the point was entered.
PlayCombat ==
  /\ run.pc = "playing" /\ Len(run.truths) < MaxRooms
  /\ run' = [run EXCEPT
       !.point.rooms = @ + 1,
       !.truths = Append(@, run.point.entered)]
  /\ UNCHANGED floors

\* The point is recorded, now and then without its player_stats; the run ends
\* with its last point or its last combat.
PlayNextPoint(recorded) ==
  /\ run.pc = "playing" /\ Len(run.history) < MaxPoints
  /\ run' = [run EXCEPT
       !.history = Append(@, [rooms |-> run.point.rooms,
                              stats |-> IF recorded THEN [run.point.stats EXCEPT !.hp = run.real.hp] ELSE EmptyStats]),
       !.point = NewPoint(run.real),
       !.pc = IF Len(run.history) + 1 = MaxPoints \/ Len(run.truths) = MaxRooms THEN "recorded" ELSE "playing"]
  /\ UNCHANGED floors

-----------------------------------------------------------------------------
(* The scripts                                                               *)

\* reconstruct_all_runs: the encounters of the run with their verdicts, and
\* whether the replayed final state is the real one.
ReconstructRun ==
  /\ run.pc = "recorded"
  /\ LET encounters == ReconstructEncounters(run.history)
     IN floors' = [floors EXCEPT
          !.records = [i \in DOMAIN encounters |->
                         [encounter |-> encounters[i], status |-> ClassifyRestoreStatus(encounters[i])]],
          !.matches = ValidateRun(FinalState(run.history), run.real)]
  /\ run' = [run EXCEPT !.pc = "reconstructed"]

\* encounter_to_scenario_spec: the shuffled deck is dealt, the potions are
\* numbered; "dealt" are the positions of the deck that end up in the hand.
Scenario(e, dealt) ==
  [hand |-> {<<i, e.state.deck[i]>> : i \in dealt},
   draw |-> {<<i, e.state.deck[i]>> : i \in DOMAIN e.state.deck \ dealt},
   hp |-> e.state.hp, relics |-> e.state.relics, potions |-> e.state.potions]

\* load_reconstructed_sample draws from the states it trusts.
Trusted(record) == record.status \in {"exact", "ambiguous_upgrade"}

DrawScenario(k, dealt) ==
  /\ run.pc = "reconstructed" /\ floors.scenario = <<>>
  /\ k \in DOMAIN floors.records /\ Trusted(floors.records[k])
  /\ LET e == floors.records[k].encounter
         size == Len(e.state.deck)
     IN /\ dealt \subseteq DOMAIN e.state.deck
        /\ Cardinality(dealt) = IF size < HandSize THEN size ELSE HandSize
        /\ floors' = [floors EXCEPT !.scenario = <<[of |-> k, spec |-> Scenario(e, dealt)]>>]
  /\ UNCHANGED run

ReconstructionStep ==
  \/ \E id \in CardIds, u \in BOOLEAN : PlayGain(id, u)
  \/ \E e \in Evidence : PlayTinker(e[1], e[2])
  \/ \E i \in DOMAIN Deck : PlayRemove(i) \/ PlayUpgrade(i) \/ PlayDowngrade(i)
  \/ \E i \in DOMAIN Deck, id \in CardIds : PlayTransform(i, id)
  \/ \E r \in RelicIds : PlayRelic(r) \/ PlayLoseRelic(r)
  \/ \E p \in PotionIds : PlayPotion(p) \/ PlayLosePotion(p)
  \/ PlayCombat \/ \E hp \in 1..MaxHp : PlayHp(hp)
  \/ \E recorded \in BOOLEAN : PlayNextPoint(recorded)
  \/ ReconstructRun
  \/ \E k \in DOMAIN floors.records :
       \E dealt \in SUBSET DOMAIN floors.records[k].encounter.state.deck : DrawScenario(k, dealt)

-----------------------------------------------------------------------------
(* What the states are worth                                                 *)

\* The log determines the history up to a point: no point before it mixes two
\* kinds of card or relic events, whose order the lists lose; and no card id of
\* which a copy was removed or transformed comes from two floors, where the
\* floor of the removal tells apart copies of which the replay may have
\* upgraded the wrong one.  Elsewhere the code does call states exact that are
\* not: upgrade_card's docstring says the ambiguity is always benign (:189).
CardLists == {"cards_gained", "cards_removed", "cards_transformed", "upgraded_cards", "downgraded_cards"}
RelicLists == {"relics_gained", "relics_removed"}
Kinds(stats, lists) == {l \in lists : stats[l] # <<>>}
CardsGained(stats) == ToSet(stats.cards_gained) \cup {t.final : t \in ToSet(stats.cards_transformed)}
CardsLost(stats) == ToSet(stats.cards_removed) \cup {t.original : t \in ToSet(stats.cards_transformed)}
Determined(e) ==
  LET before == {run.history[p].stats : p \in 1..(e.point - 1)}
      origins == {<<id, 1>> : id \in ToSet(StartingDeck)}
                   \cup {<<ref.id, ref.floor>> : ref \in UNION {CardsGained(stats) : stats \in before}}
      lost == {ref.id : ref \in UNION {CardsLost(stats) : stats \in before}}
  IN /\ \A stats \in before :
          Cardinality(Kinds(stats, CardLists)) <= 1 /\ Cardinality(Kinds(stats, RelicLists)) <= 1
     /\ \A x, y \in origins : x[1] = y[1] /\ x[1] \in lost => x = y

\* A combat state the reconstruction calls exact is the one the player came to
\* the map point with (cards, upgrades, relics, potions and hit points; not the
\* variant of a MAD_SCIENCE, whose warning classify_restore_status ignores),
\* wherever the log determines it.  Every combat room of the point is given
\* that state: in the point's first combat, before anything else happened, it
\* is "what the player had entering this fight" as the module's docstring has
\* it (:17-20); after an event or an earlier combat of the point it is not.
ExactStatesAreReal ==
  \A k \in DOMAIN floors.records :
    LET e == floors.records[k].encounter
        entered == run.truths[k]
    IN floors.records[k].status = "exact" /\ Determined(e) =>
         /\ SameCards(e.state.deck, entered.deck)
         /\ SameItems(e.state.relics, entered.relics)
         /\ SameItems(e.state.potions, entered.potions)
         /\ e.state.hp = entered.hp

\* A scenario drawn for training, of any combat room of any point, deals every
\* card the player came to the map point with, no more and no fewer copies of
\* each, with the potions and hit points of that moment: whatever order the
\* events of earlier points had, whichever copies the replay took for the
\* removed ones, and also where ExactStatesAreReal claims nothing.  Upgrades
\* and relics are left to ExactStatesAreReal.
ScenariosDealTheRealDeck ==
  \A n \in DOMAIN floors.scenario :
    LET spec == floors.scenario[n].spec
        entered == run.truths[floors.scenario[n].of]
    IN /\ \A id \in CardIds :
            Cardinality({c \in spec.hand \cup spec.draw : c[2].id = id})
              = Count(entered.deck, LAMBDA c : c.id = id)
       /\ spec.hp = entered.hp
       /\ SameItems(spec.potions, entered.potions)
=============================================================================
