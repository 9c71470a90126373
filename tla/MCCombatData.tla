---- MODULE MCCombatData ----
EXTENDS CombatData

\* Two scenarios whose opening boards differ, so that a decision played on the
\* board of the other one shows.
MCOpening == [c \in Scenarios |-> IF c = "long" THEN 2 ELSE 1]
MCSnapshots == {[board |-> [hp |-> 1, prompt |-> p], step |-> 1] : p \in {"none", "choice"}}
MCManifest == <<"long", "short">>
MCEvalList == <<"long">>
\* Two copies of one card; a tinkered card whose log has props, choices, both
\* in conflict, or neither; a relic the dictionaries do not know.
MCStartingDeck == <<"strike", "strike">>
MCEvidence == {<<"none", "none">>, <<"chosen", "none">>, <<"none", "chosen">>, <<"chosen", "other">>}
====
