--------------------------- MODULE CombatEpisode ----------------------------
(* One combat played to its end by a decider: generate_trajectory            *)
(* (Combat/data/generate_heuristic_trajectories.py) and run_episode          *)
(* (Combat/evaluation/online_eval/online_policy_eval.py), which share the    *)
(* preflight, the CombatEnv and the shape of the loop.  The decider and the  *)
(* shadow heuristic evaluate their candidates on the game of the episode, so *)
(* every committed decision follows a sweep of foreign restores.             *)
EXTENDS LiveCombat, Sequences

CONSTANTS MaxDecisions,      \* max_decisions
          NoProgressWindow   \* NO_PROGRESS_WINDOW

ASSUME EpisodeAssumption == MaxDecisions \in Nat /\ NoProgressWindow \in Nat \ {0}

VARIABLE ep   \* the episode that runs, if one does

NoEpisode == [pc |-> "idle", scen |-> "none", arm |-> "none", base |-> NoState,
              decisions |-> <<>>, chosen |-> "none", reason |-> "none"]

\* Each arm has a CombatEnv, and so a LiveCombatSession, of its own.
SessionOf(arm) == IF arm \in {"heuristic_baseline", "heuristic_choice"} THEN 2 ELSE 1
BattleStateOf(e) == session[SessionOf(e.arm)].state

\* seen_state_keys: the state of every decision that was recorded.
SeenKeys(e) == {<<e.decisions[i].turn, e.decisions[i].before>> : i \in DOMAIN e.decisions}

Ended(reason) == [ep EXCEPT !.pc = "done", !.reason = reason, !.chosen = "none"]

Quarantined(why) == [ep EXCEPT !.pc = "quarantined", !.reason = why]

BeginEpisode(c, arm) == [NoEpisode EXCEPT !.pc = "preflight", !.scen = c, !.arm = arm]

\* preflight_validate: initialize, enumerate, compare with the spec.  Whether
\* the board the engine built matches the spec is the engine's affair.
Preflight ==
  /\ ep.pc = "preflight"
  /\ \/ ep' = Quarantined("mismatch") /\ UNCHANGED engine
     \/ \E r \in Initialize(engine, HeldIds, ep.scen) :
          IF r.how # "ok"
          THEN engine' = r.engine /\ ep' = Quarantined("mismatch")
          ELSE \E q \in EnumerateLegalActions(r.engine, HeldIds, Wrap(r.engine, 1)) :
                 /\ engine' = q.engine
                 /\ \/ ep' = Quarantined("mismatch")
                    \/ q.how = "ok" /\ ep' = Quarantined("unsupported_pending_choice")
                    \/ /\ q.how = "ok"
                       /\ ep' = [ep EXCEPT !.pc = "adopt", !.base = Wrap(r.engine, 1)]
  /\ committed' = NoCommit
  /\ UNCHANGED <<owner, session>>

\* CombatEnv() and adopt_state: a new session, and one resume_from, which
\* claims the game whoever holds it.
AdoptState ==
  /\ ep.pc = "adopt"
  /\ LET k == SessionOf(ep.arm)
     IN \E r \in Restore(engine, HeldIds, ep.base) :
          /\ engine' = r.engine
          /\ owner' = k
          /\ session' = [session EXCEPT ![k] =
               IF r.how = "ok" THEN Established(Wrap(r.engine, ep.base.turn)) ELSE Claimed(NewSession)]
          /\ ep' = [ep EXCEPT !.pc = IF r.how = "ok" THEN "loop" ELSE "raised"]
  /\ committed' = NoCommit

\* The head of the loop: its condition, the cycle check, the choices it cannot
\* restore, the wall-clock deadline, an empty list of legal actions.
LoopHead ==
  /\ ep.pc = "loop"
  /\ LET st == BattleStateOf(ep)
     IN IF IsTerminal(st) \/ Len(ep.decisions) >= MaxDecisions THEN ep' = Ended(ep.reason)
        ELSE IF BattleStateKey(st) \in SeenKeys(ep) THEN ep' = Ended("cycle_detected")
        ELSE IF IsActionContinuation(st.board) THEN ep' = Ended("unsupported_pending_choice")
        ELSE \/ ep' = Ended("time_budget")
             \/ ep' = Ended("no_legal_actions")
             \/ ep' = [ep EXCEPT !.pc = "decide"]
  /\ committed' = NoCommit
  /\ UNCHANGED <<engine, owner, session>>

\* choose_action_with_detail: restore and try the candidates one after the
\* other on the shared game, skip the ones that raise, give up when all did;
\* past the deadline the first one is taken untried.
Candidates(e, held, st) == UNION {ApplyAction(e, held, st, a) : a \in LegalActions(st.board)}

Sweep(e, held, st) ==
  LET listed == EnumerateLegalActions(e, held, st)
      tried == UNION {Candidates(r.engine, held, st) : r \in {q \in listed : q.how = "ok"}}
      Chosen(engines) == {[how |-> "ok", chosen |-> a, engine |-> f] :
                            a \in LegalActions(st.board), f \in engines}
  IN Chosen({r.engine : r \in tried \cup {q \in listed : q.how = "ok"}})
       \cup {[how |-> "raised", chosen |-> "none", engine |-> r.engine] :
               r \in {q \in listed \cup tried : q.how # "ok"}}

\* PolicyAgent.decide: the network reads the state only; whatever it cannot
\* decide goes to the heuristic.
PolicyDecides(e, held, st) ==
  {[how |-> "ok", chosen |-> a, engine |-> e] : a \in LegalActions(st.board)} \cup Sweep(e, held, st)

\* The shadow heuristic of the policy arm, whose exceptions are swallowed.
Shadowed(held, st, d) ==
  {d} \cup {[d EXCEPT !.engine = s.engine] : s \in Sweep(d.engine, held, st)}

\* run_episode: the policy arm is shadowed, the baseline is the heuristic.
EvaluatedDecisions(held, st) ==
  IF ep.arm = "policy"
  THEN UNION {IF d.how = "ok" THEN Shadowed(held, st, d) ELSE {d} : d \in PolicyDecides(engine, held, st)}
  ELSE Sweep(engine, held, st)

\* What a decision does to the episode, once the decider returned or raised.
Decided(decisions, endings) ==
  /\ ep.pc = "decide"
  /\ \E d \in decisions :
       /\ engine' = d.engine
       /\ \/ d.how = "raised" /\ \E why \in endings : ep' = Ended(why)
          \/ d.how = "ok" /\ ep' = [ep EXCEPT !.pc = "commit", !.chosen = d.chosen]
          \/ /\ d.how = "ok" /\ ep.arm # "batch"
             /\ ep' = Ended("illegal_action_selected")
  /\ committed' = NoCommit
  /\ UNCHANGED <<owner, session>>

\* generate_trajectory: candidates that all timed out count as a step that
\* raised.  What the heuristic picked is from a list it enumerated afresh, which
\* need not be the cached one: the other two loops compare, this one does not.
DecideTrajectory ==
  /\ ep.arm = "batch"
  /\ Decided(Sweep(engine, HeldIds, BattleStateOf(ep)), {"heuristic_exception", "step_exception"})

DecideEvaluated ==
  /\ ep.arm \in {"policy", "heuristic_baseline"}
  /\ Decided(EvaluatedDecisions(HeldIds, BattleStateOf(ep)), {"decider_exception"})

\* run_episode_ab: both arms are the policy, they differ in who answers the
\* choices; only a choice on top of a decision is shadowed.
DecideChoiceArm ==
  /\ ep.arm \in {"choice_policy", "heuristic_choice"}
  /\ Decided(PolicyDecides(engine, HeldIds, BattleStateOf(ep)), {"decider_exception"})

Decision(st, a, after) == [turn |-> st.turn, before |-> st.board, action |-> a, after |-> after]

\* The last NoProgressWindow decisions ended the turn and hurt nobody.
NoProgress(ds) ==
  /\ Len(ds) >= NoProgressWindow
  /\ \A i \in (Len(ds) - NoProgressWindow + 1)..Len(ds) :
       ds[i].action = "end" /\ ds[i].before.hp = ds[i].after.hp

AfterStep(e, ds) ==
  IF e.arm = "batch" /\ NoProgress(ds)
  THEN [Ended("no_progress") EXCEPT !.decisions = ds]
  ELSE [e EXCEPT !.pc = "loop", !.chosen = "none", !.decisions = ds]

\* An exception of env.step ends the episode and leaves no decision behind.
StepRaised(st) == Ended("step_exception")

\* CombatEnv.step and the record of the decision.
Commit ==
  /\ ep.pc = "commit"
  /\ LET k == SessionOf(ep.arm)
         st == session[k].state
     IN IF ~StepAccepted(k)
        THEN /\ ep' = StepRaised(st)
             /\ committed' = NoCommit
             /\ UNCHANGED <<engine, owner, session>>
        ELSE \E r \in StepOutcomes(k, ep.chosen, FALSE) :
               /\ Stepped(k, ep.chosen, r)
               /\ ep' = IF r.how = "ok"
                        THEN AfterStep(ep, Append(ep.decisions, Decision(st, ep.chosen, r.engine.board)))
                        ELSE StepRaised(st)

EpisodeStep == Preflight \/ AdoptState \/ LoopHead \/ DecideTrajectory \/ DecideEvaluated \/ DecideChoiceArm \/ Commit

-----------------------------------------------------------------------------
(* The result of an episode. *)

EpisodeOver == ep.pc \in {"done", "quarantined", "raised"}

Truncated == ~IsTerminal(BattleStateOf(ep))
               /\ (Len(ep.decisions) >= MaxDecisions \/ ep.reason = "time_budget")

\* The data_usage of analyze_trajectory_result; an adopt that raised is the
\* worker_exception of _run_single_scenario.
DataUsage ==
  IF ep.pc # "done"
  THEN IF ep.reason = "unsupported_pending_choice" THEN "exclude_emulator_issue" ELSE "exclude_state_mismatch"
  ELSE CASE ep.reason = "cycle_detected" -> "exclude_cycle"
         [] ep.reason = "heuristic_exception" -> "exclude_heuristic_exception"
         [] ep.reason \in {"unsupported_pending_choice", "step_exception"} -> "exclude_emulator_issue"
         [] OTHER -> IF IsTerminal(BattleStateOf(ep)) /\ ~Truncated THEN "usable_complete" ELSE "usable_partial"

Status == IF ep.pc = "done" THEN "ok" ELSE "quarantined"

\* The recorded decisions are one play of the scenario: they start at its
\* opening board, each was played on the board it names, and the next one
\* starts where it ended; data classified usable_complete ends the combat.
\* (generate_trajectory and run_episode record a state before the step and the
\* observation after it, with a sweep of candidate restores in between.)
TrajectoryIsOnePlay ==
  LET ds == ep.decisions
  IN /\ \A i \in DOMAIN ds :
          /\ ds[i].before = IF i = 1 THEN [hp |-> Opening[ep.scen], prompt |-> "none"] ELSE ds[i - 1].after
          /\ ds[i].after \in PlayedOut(ds[i].before, ds[i].action) \ {[ds[i].before EXCEPT !.prompt = "choice"]}
          /\ ds[i].action = "end" => (i < Len(ds) => ds[i + 1].turn = ds[i].turn + 1)
     /\ EpisodeOver /\ DataUsage = "usable_complete" => Len(ds) > 0 /\ ds[Len(ds)].after.hp = 0
=============================================================================
