----------------------------- MODULE OnlineEval -----------------------------
(* The evaluation scripts of Combat/evaluation/online_eval: every scenario is *)
(* initialized once and played by two arms, one after the other, each from a *)
(* clone of that initial state; then its rows are written.                   *)
EXTENDS CombatEpisode

CONSTANT EvalList   \* the scenarios of the evaluation's manifest, in order

ASSUME EvalAssumption == EvalList \in Seq(Scenarios)

VARIABLE eval   \* [pc, at, pair, quarantined]

\* The policy against the heuristic (run_scenario), and the choice policy
\* against the heuristic's choices (run_scenario_ab).
ArmPairs == {<<"policy", "heuristic_baseline">>, <<"choice_policy", "heuristic_choice">>}

NoEval == [pc |-> "idle", at |-> 1, pair |-> <<>>, quarantined |-> FALSE]
Evaluations == {[NoEval EXCEPT !.pc = "next", !.pair = pair] : pair \in ArmPairs}

NextScenario ==
  /\ eval.pc = "next" /\ eval.at <= Len(EvalList)
  /\ ep' = BeginEpisode(EvalList[eval.at], eval.pair[1])
  /\ eval' = [eval EXCEPT !.pc = "first", !.quarantined = FALSE]
  /\ committed' = NoCommit
  /\ UNCHANGED <<engine, owner, session>>

DropEnv ==
  /\ session' = [session EXCEPT ![SessionOf(ep.arm)] = NewSession]
  /\ committed' = NoCommit
  /\ UNCHANGED <<engine, owner>>

\* A quarantined scenario is reported as such; the second arm starts from the
\* same base state, on the game the first arm left behind.
FirstArmOver ==
  /\ eval.pc = "first" /\ ep.pc \in {"done", "quarantined"}
  /\ IF ep.pc = "quarantined"
     THEN eval' = [eval EXCEPT !.pc = "write", !.quarantined = TRUE] /\ ep' = NoEpisode
     ELSE /\ eval' = [eval EXCEPT !.pc = "second"]
          /\ ep' = [NoEpisode EXCEPT !.pc = "adopt", !.scen = ep.scen, !.arm = eval.pair[2], !.base = ep.base]
  /\ DropEnv

SecondArmOver ==
  /\ eval.pc = "second" /\ ep.pc = "done"
  /\ eval' = [eval EXCEPT !.pc = "write"]
  /\ ep' = NoEpisode
  /\ DropEnv

\* adopt_state is outside every try: its exception ends the script.
EvalDies ==
  /\ eval.pc \in {"first", "second"} /\ ep.pc = "raised"
  /\ eval' = [eval EXCEPT !.pc = "raised"]
  /\ ep' = NoEpisode
  /\ DropEnv

\* The combats row, then the decisions of both arms; the last scenario is
\* followed by the summary.
WriteScenario ==
  /\ eval.pc = "write"
  /\ eval' = [eval EXCEPT !.pc = "next", !.at = @ + 1]
  /\ committed' = NoCommit
  /\ UNCHANGED <<engine, owner, session, ep>>

EvalStep == NextScenario \/ FirstArmOver \/ SecondArmOver \/ EvalDies \/ WriteScenario
=============================================================================
