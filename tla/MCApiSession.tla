---------------------------- MODULE MCApiSession ----------------------------
(* The API server over TCP, with two sessions, a table that holds one of   *)
(* them and a restart; and over the queues of a child process.             *)
EXTENDS ApiTransports
=============================================================================
