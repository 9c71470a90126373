--------------------------- MODULE ApiTransports ---------------------------
(* The two ways a Training client reaches RLApiServer: the TCP transport   *)
(* of ApiSession, or the queues of a spawned child process.  A behaviour   *)
(* uses one of them; they share no state.                                  *)
EXTENDS ApiSession, RuntimeProcess

VARIABLE transport

transportVars == <<transport, vars, runtimeVars>>

TransportInit == transport \in {"tcp", "queue"} /\ Init /\ RuntimeInit

TransportNext ==
    \/ transport = "tcp" /\ Next /\ UNCHANGED <<transport, runtimeVars>>
    \/ transport = "queue" /\ RuntimeNext /\ UNCHANGED <<transport, vars>>

(* Fairness is that of ApiSession; the queue client asks for none.         *)
TransportSpec == TransportInit /\ [][TransportNext]_transportVars /\ Fairness
=============================================================================
