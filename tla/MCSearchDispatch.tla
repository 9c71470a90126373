-------------------------- MODULE MCSearchDispatch --------------------------
EXTENDS WorkerPools
(* one candidate, and two with a copy of the second *)
TwoCandidates == {<<1>>, <<1, 2, 2>>}
=============================================================================
