-------------------------- MODULE MCDecisionLoops --------------------------
EXTENDS DecisionLoops
(* strike; survey: draw a card, then twice discard one and draw one;        *)
(* reflex: draw a card, put one back on the draw pile, then as survey;      *)
(* dig: draw three cards, then as survey.  In the last combat dig empties   *)
(* the pile, refills it and leaves one of the same cards: UnseenRefill.     *)
CardEffects == [strike |-> [draws |-> 0, choices |-> NoChoice],
                survey |-> [draws |-> 1, choices |-> <<"cycle", "cycle">>],
                reflex |-> [draws |-> 1, choices |-> <<"topdeck", "cycle", "cycle">>],
                dig |-> [draws |-> 3, choices |-> <<"cycle", "cycle">>]]
Combats == {Deal(<<"survey", "strike">>, <<"reflex", "strike", "survey">>, <<>>, 2, NoChoice),
            Deal(<<"reflex", "survey">>, <<"strike", "dig">>, <<>>, 2, NoChoice),
            Deal(<<"strike">>, <<"survey", "reflex">>, <<>>, 2, <<"cycle">>),
            Deal(<<>>, <<>>, <<"strike">>, 2, <<"cycle", "cycle">>),
            Deal(<<>>, <<>>, <<"strike">>, 3, NoChoice),
            Deal(<<"dig", "reflex">>, <<"strike", "survey">>, <<"strike", "survey">>, 2, NoChoice)}

\* Every map of three floors over forks with and without a way on: rooms to
\* route around, a treasure in front of them, a fork that is exhausted.
MCForks == {<<>>, <<"treasure">>, <<"stuck", "trap">>, <<"stuck", "treasure", "event">>,
            <<"stuck", "stuck">>, <<"combat", "event">>}
MCMaps == [1..3 -> MCForks]
=============================================================================
