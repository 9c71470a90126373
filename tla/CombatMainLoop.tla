--------------------------- MODULE CombatMainLoop ---------------------------
(***************************************************************************)
(* The Main decision loop of a combat (main_loop.py), the Decision         *)
(* Contexts it hands out (decision_context.py), and the two search         *)
(* strategies it may be given: one Root Action Evaluation Segment          *)
(* (search_coordinator.py) or a beam of plain rounds                       *)
(* (multi_round_search.py).  How WorkItems reach the workers and are       *)
(* retried is SearchDispatch; here each of them ends as a success or a     *)
(* fault.                                                                  *)
(***************************************************************************)
EXTENDS DrawEvidence, Integers

CONSTANTS
    Openings,           \* the combats a scenario may start
    Width,              \* SearchCoordinatorConfig.width
    HypothesisCount,
    BeamWidth, MaxRounds,
    InProcessLoader,    \* is _default_snapshot_state_loader in use?
    MaxIterations

CombatStates ==
    [hand : Seq(Cards), draw : Seq(Cards), discard : Seq(Cards), left : Int, step : Nat, choices : Seq(ChoiceKinds)]
ASSUME OpeningsAssumption == Openings \subseteq CombatStates
ASSUME WidthAssumption == Width \in Nat

VARIABLES
    game,       \* the combat of Main's session, which is its current_result
    held,       \* held_stable_snapshot
    prefix,     \* replay_prefix
    plan,       \* planned_sequence
    loop,       \* where run_until_terminal_or_fault stands, and its outcome
    search,     \* the strategy call
    engine      \* whose lease the process's GameInstance is under

vars == <<game, held, prefix, plan, loop, search, engine>>

None == [none |-> TRUE]
NoSignature == [none |-> TRUE]
NoSearch == [on |-> FALSE]

(* ------------------------------- replay ---------------------------------- *)
(* replay_decision_context: every action of the prefix must resolve, and    *)
(* every observed signature must match the recorded one.                    *)
ReplayOne(acc, entry) ==
    IF acc.mismatch \/ ~Resolves(acc.state, entry.action) THEN [acc EXCEPT !.mismatch = TRUE]
    ELSE LET next == GameStep(acc.state, entry.action)
         IN  [state |-> next, mismatch |-> Signature(next, entry.action) # entry.expected]
Replay(root, entries) ==
    LET after[n \in 0..Len(entries)] ==
            IF n = 0 THEN [state |-> root, mismatch |-> FALSE] ELSE ReplayOne(after[n - 1], entries[n])
    IN  after[Len(entries)]

(* _raise_if_root_snapshot_not_restore_eligible: only a Combat Start Replay  *)
(* Root may be pending; any other root was captured at a Stable boundary.    *)
RestoreEligible(root) == root = loop.start \/ Boundary(root) = "stable"

PlannedStep(action, expected) == [action |-> action, expected |-> expected]

(* a Decision Context: the root, the prefix and the Plan Path *)
DecisionContext(root, entries, path) == [root |-> root, prefix |-> entries, path |-> path]
(* both constructors start a Plan Path; the caller fills in the prefix *)
FromMainStableCapture(root) == DecisionContext(root, <<>>, <<>>)
FromCombatStartPending(start) == DecisionContext(start, <<>>, <<>>)
MainContext == [FromMainStableCapture(held) EXCEPT !.prefix = prefix]
CombatStartContext == [FromCombatStartPending(loop.start) EXCEPT !.prefix = prefix]
ContextState(ctx) == Replay(ctx.root, ctx.prefix).state
FromPrevChild(ctx, entry) ==
    DecisionContext(GameStep(ContextState(ctx), entry.action), <<>>, Append(ctx.path, entry))
FromPending(ctx, entry) ==
    DecisionContext(ctx.root,
                    Append(ctx.prefix, [action |-> entry.action, expected |-> entry.expected,
                                        draws |-> <<>>, blocked |-> FALSE]),
                    Append(ctx.path, entry))
(* mutant: the child starts a Plan Path of its own *)
ChildForgettingPath(ctx, entry) ==
    IF Boundary(GameStep(ContextState(ctx), entry.action)) = "stable"
    THEN [FromPrevChild(ctx, entry) EXCEPT !.path = <<entry>>]
    ELSE FromPending(ctx, entry)
ChildContext(ctx, entry) ==
    IF Boundary(GameStep(ContextState(ctx), entry.action)) = "stable"
    THEN FromPrevChild(ctx, entry) ELSE FromPending(ctx, entry)

(* -------------------------- candidate pipeline --------------------------- *)
Score(a) ==
    CASE a.type = "card" -> 20 [] a.type = "choice_card" -> 12 [] a.type = "choice_confirm" -> 8
      [] a.type = "choice_skip" -> -5 [] OTHER -> 0
(* The chosen places of a sequence of n, in order *)
Places(chosen, n) ==
    LET upTo[i \in 0..n] ==
            IF i = 0 THEN <<>> ELSE IF i \in chosen THEN Append(upTo[i - 1], i) ELSE upTo[i - 1]
    IN  upTo[n]
AtPlaces(s, places) == [k \in DOMAIN places |-> s[places[k]]]
OfType(actions, type) ==
    AtPlaces(actions, Places({i \in DOMAIN actions : actions[i].type = type}, Len(actions)))
(* rank_candidates: best score first, then the emulator's order *)
Ranked(actions) ==
    OfType(actions, "card") \o OfType(actions, "choice_card") \o OfType(actions, "choice_confirm")
    \o OfType(actions, "system") \o OfType(actions, "choice_skip")
(* extract_candidates: the legal actions the result cached, in its order *)
ExtractCandidates(g) == Legal(g)
Candidates(g) ==
    LET ranked == Ranked(ExtractCandidates(g)) IN FirstN(ranked, Min({Width, Len(ranked)}))
(* consume_check of the pruned batch: one candidate is enough *)
RequiresHypothesis(batch) ==
    \E a \in ToSet(batch) : a.type \notin {"system", "choice_confirm", "choice_skip"}

(* aggregate_plain_results: actions of one score are told apart by digests  *)
BestScored(actions) == {a \in actions : \A b \in actions : Score(a) >= Score(b)}

(* aggregate_hypothesis_results: an action needs half of the samples, and   *)
(* what is missing counts as the worst score seen.  ok: the samples that    *)
(* succeeded.                                                               *)
Hypotheses == 1..HypothesisCount
SamplesOf(ok, a) == {s \in ok : s[1] = a}
Required == (HypothesisCount + 1) \div 2
ViableActions(ok) == {a \in {s[1] : s \in ok} : Cardinality(SamplesOf(ok, a)) >= Required}
AggregateScore(ok, a) ==
    LET n == Cardinality(SamplesOf(ok, a))
        worst == Min({Score(s[1]) : s \in ok})
    IN  n * Score(a) + (HypothesisCount - n) * worst
BestActions(ok) ==
    {a \in ViableActions(ok) :
        \A b \in ViableActions(ok) : AggregateScore(ok, a) >= AggregateScore(ok, b)}

(* ------------------------------ main loop -------------------------------- *)
At(pc) == loop.pc = pc
Ends(outcome) == loop' = [loop EXCEPT !.pc = "ended", !.outcome = outcome]
Quiet == UNCHANGED <<search, engine>>

(* mutant: the prefix of the last Stable boundary is kept *)
CaptureKeepingPrefix(g) == held' = g /\ prefix' = prefix
(* _capture_stable *)
CaptureStable(g) == held' = g /\ prefix' = <<>>

(* The top of the loop: BOUNDARY. *)
ReachesTerminal ==
    /\ At("boundary") /\ loop.iterations < MaxIterations
    /\ Boundary(game) = "terminal" /\ Ends("terminal")
    /\ UNCHANGED <<game, held, prefix, plan>> /\ Quiet

Decides ==
    /\ At("boundary") /\ loop.iterations < MaxIterations /\ Boundary(game) # "terminal"
    /\ IF Boundary(game) = "stable" THEN CaptureStable(game) ELSE UNCHANGED <<held, prefix>>
    /\ loop' = [loop EXCEPT !.pc = IF plan = <<>> THEN "route" ELSE "exec",
                            !.iterations = @ + 1, !.source = "own"]
    /\ UNCHANGED <<game, plan>> /\ Quiet

ExceedsIterations ==
    /\ At("boundary") /\ loop.iterations >= MaxIterations /\ Ends("raised")
    /\ UNCHANGED <<game, held, prefix, plan>> /\ Quiet

Executes(steps) == plan' = steps /\ loop' = [loop EXCEPT !.pc = "exec"]

(* direct_selector: any candidate the caller's selector may return *)
RouteDirect ==
    /\ At("route")
    /\ \E a \in ToSet(Legal(game)) : Executes(<<PlannedStep(a, NoSignature)>>)
    /\ UNCHANGED <<game, held, prefix>> /\ Quiet

(* pending_static_select: the first candidate that resolves the choice *)
RoutePendingStatic ==
    /\ At("route") /\ Boundary(game) = "pending"
    /\ LET resolving == {i \in DOMAIN Legal(game) : Legal(game)[i].type # "choice_skip"} IN
       Executes(<<PlannedStep(Legal(game)[Min(resolving)], NoSignature)>>)
    /\ UNCHANGED <<game, held, prefix>> /\ Quiet

SearchAllowed ==
    Boundary(game) = "stable" \/ (held = None /\ loop.start # None)
RouteSearchRefused ==
    /\ At("route") /\ ~SearchAllowed /\ Ends("raised")
    /\ UNCHANGED <<game, held, prefix, plan>> /\ Quiet

SearchContext == IF Boundary(game) = "stable" THEN MainContext ELSE CombatStartContext
(* A strategy of the caller's own may return any plan. *)
RouteInjected ==
    /\ At("route") /\ SearchAllowed
    /\ \E a \in ToSet(Legal(game)), b \in {System, Confirm} :
       \E expected \in {NoSignature, Signature(game, a)} :
         plan' = <<PlannedStep(a, expected), PlannedStep(b, NoSignature)>>
    /\ loop' = [loop EXCEPT !.pc = "exec", !.source = "injected"]
    /\ UNCHANGED <<game, held, prefix>> /\ Quiet

BeamEntry(ctx, score) == [ctx |-> ctx, score |-> score]
RouteSearch(strategy) ==
    /\ At("route") /\ SearchAllowed
    /\ search' = [on |-> TRUE, strategy |-> strategy, start |-> SearchContext,
                  active |-> <<BeamEntry(SearchContext, 0)>>,
                  todo |-> 1, round |-> 1, expansions |-> <<>>, completed |-> {}, viable |-> FALSE]
    /\ loop' = [loop EXCEPT !.pc = "search"]
    /\ UNCHANGED <<game, held, prefix, plan, engine>>

(* ------------------------- one-segment strategy -------------------------- *)
(* build_search_strategy; a hypothesis result says nothing of Main's own    *)
(* future, so only a plain step carries the signature to expect.            *)
SegmentContext == search.active[1].ctx
SegmentBatch == Candidates(ContextState(SegmentContext))
SearchFails == Ends("aborted") /\ search' = NoSearch /\ plan' = <<>>
(* _check_main_invariant: nothing moved Main while the strategy ran *)
MainUnmoved ==
    /\ ContextState(search.start) = game
    /\ search.start.root = (IF held = None THEN loop.start ELSE held)
    /\ search.start.prefix = prefix
SearchSucceeds(steps) ==
    /\ search' = NoSearch
    /\ IF MainUnmoved THEN plan' = steps /\ loop' = [loop EXCEPT !.pc = "exec"]
       ELSE Ends("raised") /\ UNCHANGED plan

PlainSegment ==
    /\ At("search") /\ search.strategy = "segment" /\ ~RequiresHypothesis(SegmentBatch)
    /\ \E ok \in SUBSET DOMAIN SegmentBatch :
         IF ok = {} THEN SearchFails
         ELSE \E a \in BestScored({SegmentBatch[i] : i \in ok}) :
                 SearchSucceeds(<<PlannedStep(a,
                     Signature(GameStep(ContextState(SegmentContext), a), a))>>)
    /\ UNCHANGED <<game, held, prefix, engine>>

HypothesisSegment ==
    /\ At("search") /\ search.strategy = "segment" /\ RequiresHypothesis(SegmentBatch)
    /\ \E ok \in SUBSET (ToSet(SegmentBatch) \X Hypotheses) :
         IF ViableActions(ok) = {} THEN SearchFails
         ELSE \E a \in BestActions(ok) : SearchSucceeds(<<PlannedStep(a, NoSignature)>>)
    /\ UNCHANGED <<game, held, prefix, engine>>

(* ---------------------------- beam strategy ------------------------------ *)
Beam == search.active[search.todo]
BeamBatch == Candidates(ContextState(Beam.ctx))
Completed(path, score) == [path |-> path, score |-> score]
NextBeam(s) == [s EXCEPT !.todo = @ + 1]
Expanding == At("search") /\ search.strategy = "beam" /\ search.todo <= Len(search.active)

(* _plain_round_expansions *)
Expansion(a) ==
    LET child == GameStep(ContextState(Beam.ctx), a)
    IN  [ctx |-> Beam.ctx, entry |-> PlannedStep(a, Signature(child, a)),
         boundary |-> Boundary(child), score |-> Beam.score + Score(a)]
PlainRound ==
    /\ Expanding /\ ~RequiresHypothesis(BeamBatch)
    /\ \E ok \in SUBSET DOMAIN BeamBatch :
         search' = NextBeam(
            IF ok # {}
            THEN [search EXCEPT !.viable = TRUE, !.expansions = @ \o
                     [i \in DOMAIN Places(ok, Len(BeamBatch)) |->
                         Expansion(BeamBatch[Places(ok, Len(BeamBatch))[i]])]]
            ELSE IF search.round > 1
            THEN [search EXCEPT !.completed = @ \cup {Completed(Beam.ctx.path, Beam.score)}]
            ELSE search)
    /\ UNCHANGED <<game, held, prefix, plan, loop, engine>>

(* _completed_hypothesis_round: the beam ends with one more step, or, when  *)
(* no action is viable, with the path it had                                *)
HypothesisRound ==
    /\ Expanding /\ RequiresHypothesis(BeamBatch)
    /\ \E ok \in SUBSET (ToSet(BeamBatch) \X Hypotheses) :
         \E done \in (IF ViableActions(ok) = {} THEN {Completed(Beam.ctx.path, Beam.score)}
                      ELSE {Completed(Append(Beam.ctx.path, PlannedStep(a, NoSignature)),
                                      Beam.score + (AggregateScore(ok, a) \div HypothesisCount)) :
                               a \in BestActions(ok)}) :
           search' = NextBeam([search EXCEPT !.viable = TRUE, !.completed = @ \cup {done}])
    /\ UNCHANGED <<game, held, prefix, plan, loop, engine>>

(* The survivors of a round; digests decide between equal scores. *)
SurvivorChoices ==
    LET n == Len(search.expansions) IN
    {kept \in kSubset(Min({BeamWidth, n}), 1..n) :
        \A i \in kept, j \in (1..n) \ kept :
            search.expansions[i].score >= search.expansions[j].score}
LastRound == search.round >= MaxRounds
Continues(i) == search.expansions[i].boundary # "terminal" /\ ~LastRound
RoundCompleted(kept) ==
    {Completed(Append(x.ctx.path, x.entry), x.score) :
        x \in {search.expansions[i] : i \in {j \in kept : ~Continues(j)}}}
NextActive(kept) ==
    LET next == Places({i \in kept : Continues(i)}, Len(search.expansions))
    IN  [k \in DOMAIN next |->
            LET x == search.expansions[next[k]] IN BeamEntry(ChildContext(x.ctx, x.entry), x.score)]

(* load_state of a Stable child: the default loader restores it on the      *)
(* GameInstance of Main's own process.                                      *)
LoadsChild(kept) ==
    \E i \in kept : Continues(i) /\ search.expansions[i].boundary = "stable"
RoundOver == At("search") /\ search.strategy = "beam" /\ search.todo > Len(search.active)
RoundEnds ==
    /\ RoundOver
    /\ \E kept \in SurvivorChoices :
         /\ NextActive(kept) # <<>>
         /\ search' = [search EXCEPT !.active = NextActive(kept), !.todo = 1, !.round = @ + 1,
                          !.expansions = <<>>, !.completed = @ \cup RoundCompleted(kept)]
         /\ engine' = IF LoadsChild(kept) /\ InProcessLoader THEN "search" ELSE engine
    /\ UNCHANGED <<game, held, prefix, plan, loop>>

(* The beams left when a round expands nothing are complete with the path   *)
(* they have, if any.                                                       *)
ExhaustedActive ==
    IF search.expansions # <<>> THEN {}
    ELSE {Completed(b.ctx.path, b.score) : b \in {c \in ToSet(search.active) : c.ctx.path # <<>>}}
BestCompleted(all) ==
    {x \in all : \A y \in all :
        x.score > y.score \/ (x.score = y.score /\ Len(x.path) <= Len(y.path))}
BeamEnds ==
    /\ RoundOver
    /\ \E kept \in SurvivorChoices :
         LET all == search.completed \cup ExhaustedActive \cup RoundCompleted(kept) IN
         /\ NextActive(kept) = <<>>
         /\ IF ~search.viable \/ all = {} THEN SearchFails
            ELSE \E x \in BestCompleted(all) : SearchSucceeds(x.path)
    /\ UNCHANGED <<game, held, prefix, engine>>

(* ------------------------------ EXEC_LOOP -------------------------------- *)
Step == Head(plan)

(* The recorded action is not offered any more: the plan is discarded. *)
Discards ==
    /\ At("exec") /\ plan # <<>> /\ ~Resolves(game, Step.action)
    /\ plan' = <<>> /\ loop' = [loop EXCEPT !.pc = "boundary"]
    /\ UNCHANGED <<game, held, prefix>> /\ Quiet

(* The step raises: a fault of Main's combat ends the loop with an outcome. *)
(* A lease that another session superseded is refused by GameAccess, and    *)
(* nothing here catches that.                                               *)
StepRaises ==
    /\ At("exec") /\ plan # <<>> /\ Resolves(game, Step.action)
    /\ Ends(IF engine = "main" THEN "fault" ELSE "raised")
    /\ plan' = IF engine = "main" THEN <<>> ELSE plan
    /\ UNCHANGED <<game, held, prefix>> /\ Quiet

(* The observed transition, as a later replay will expect it *)
Transition(next) ==
    LET e == IF held # None THEN Evidence(game, next, prefix)
             ELSE [draws |-> <<>>, blocked |-> FALSE]
    IN  [action |-> Step.action, expected |-> Signature(next, Step.action),
         draws |-> e.draws, blocked |-> e.blocked]
Matches(next) ==
    Step.expected # NoSignature => Signature(next, Step.action) = Step.expected

Steps ==
    /\ At("exec") /\ plan # <<>> /\ Resolves(game, Step.action) /\ engine = "main"
    /\ LET next == GameStep(game, Step.action)
           goesOn == Matches(next) /\ Boundary(next) # "terminal"
       IN  /\ game' = next
           /\ plan' = IF Matches(next) THEN Tail(plan) ELSE <<>>
           /\ IF goesOn /\ Boundary(next) = "stable" THEN CaptureStable(next)
              ELSE prefix' = Append(prefix, Transition(next)) /\ UNCHANGED held
           /\ loop' = [loop EXCEPT !.pc = IF goesOn THEN "exec" ELSE "boundary"]
    /\ Quiet

SequenceExhausted ==
    /\ At("exec") /\ plan = <<>>
    /\ loop' = [loop EXCEPT !.pc = "boundary"]
    /\ UNCHANGED <<game, held, prefix, plan>> /\ Quiet

(* initialize_main_loop_state, with or without a Combat Start Replay Root *)
Init ==
    /\ game \in Openings
    /\ held = None /\ prefix = <<>> /\ plan = <<>>
    /\ \E start \in {game, None} :
         loop = [pc |-> "boundary", outcome |-> "none", iterations |-> 0, start |-> start, source |-> "own"]
    /\ search = NoSearch /\ engine = "main"

Searches ==
    \/ \E strategy \in {"segment", "beam"} : RouteSearch(strategy)
    \/ PlainSegment \/ HypothesisSegment
    \/ PlainRound \/ HypothesisRound \/ RoundEnds \/ BeamEnds
Executing == Discards \/ StepRaises \/ Steps \/ SequenceExhausted
Next ==
    \/ ReachesTerminal \/ Decides \/ ExceedsIterations
    \/ RouteDirect \/ RoutePendingStatic \/ RouteSearchRefused \/ RouteInjected
    \/ Searches \/ Executing

Spec == Init /\ [][Next]_vars

-----------------------------------------------------------------------------
TypeOK ==
    /\ loop.pc \in {"boundary", "route", "search", "exec", "ended"}
    /\ loop.outcome \in {"none", "terminal", "aborted", "fault", "raised"}
    /\ loop.iterations \in 0..MaxIterations
    /\ held = None \/ Boundary(held) = "stable"
    /\ At("search") <=> search.on
    /\ engine \in {"main", "search"}

(* Main can always be put back where it stands: restoring the Held Stable   *)
(* Snapshot (or starting the scenario again) and replaying the prefix       *)
(* reaches Main's own state with every signature matching, also after a     *)
(* discarded plan, and the root is one that may be restored (main_loop.py   *)
(* _capture_stable and APPEND_RECORD, decision_context.py                   *)
(* replay_decision_context).                                                *)
Root == IF held # None THEN held ELSE loop.start
PrefixReplaysToMain ==
    Root # None =>
        /\ RestoreEligible(Root)
        /\ LET replayed == Replay(Root, prefix) IN ~replayed.mismatch /\ replayed.state = game

(* The gap of _visible_hand_draw_sequence: a step of the prefix drew the    *)
(* whole pile and went on from the discards, which left a pile of the same  *)
(* cards.  The multisets are equal, so replay_draw_restore.py:219 returns   *)
(* an empty sequence: neither a draw nor a reason to block, although the    *)
(* class promises that a change of the pile the step does not explain       *)
(* blocks later pinning (:27-33).                                           *)
UnseenRefill ==
    \E i \in DOMAIN prefix :
        LET pre == Replay(held, FirstN(prefix, i - 1)).state
            post == Replay(held, FirstN(prefix, i)).state
        IN  /\ pre.draw # <<>> /\ DrawsOf(pre, prefix[i].action) > Len(pre.draw)
            /\ Multiset(pre.draw) = Multiset(post.draw)

(* Until tracking is blocked, the draws recorded with the prefix are the    *)
(* top of the root's hidden draw pile, in that order                        *)
(* (replay_draw_restore.py), unless a refill went unseen; an Opening of the *)
(* run has such a refill, and the code then pins cards that were not there. *)
PinnedDrawsAreReal ==
    held # None /\ ~Blocked(prefix) /\ ~UnseenRefill =>
        /\ Len(PinnedOf(prefix)) <= Len(held.draw)
        /\ PinnedOf(prefix) = FirstN(held.draw, Len(PinnedOf(prefix)))

(* Whatever order a Search Hypothesis gives the unseen cards, replaying the *)
(* prefix from the root rewritten for it ends at what Main has seen: no     *)
(* signature diverges, and hand and public draw pile are Main's             *)
(* (rng_hypothesis.py apply_hypothesis_to_context).  Two cases are not      *)
(* claimed: after an unseen refill the code's hypotheses may diverge; and   *)
(* the ones _draw_pile_instances_for_hypothesis refuses, for a pinned card  *)
(* with copies in the root pile, are never replayed.                        *)
HypothesesAgreeWithMain ==
    held # None /\ ~Blocked(prefix) /\ ~UnseenRefill /\ Materializes(held, PinnedOf(prefix)) =>
        \A root \in DerivedRoots(held, prefix) :
            LET replayed == Replay(root, prefix) IN
            /\ ~replayed.mismatch
            /\ replayed.state.hand = game.hand
            /\ Multiset(replayed.state.draw) = Multiset(game.draw)

(* A plan of the two search strategies comes true on Main: each step still  *)
(* resolves when its turn comes, and one that carries an expected signature *)
(* meets it (multi_round_search.py, main_loop.py VERIFY_TRANSITION).        *)
PlansComeTrue ==
    At("exec") /\ plan # <<>> /\ loop.source = "own" =>
        /\ Resolves(game, Step.action)
        /\ Matches(GameStep(game, Step.action))

(* A search never touches the combat Main is playing.                       *)
SearchLeavesMainAlone == engine = "main"
=============================================================================
