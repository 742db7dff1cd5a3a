---------------------------- MODULE MCTaskTable -----------------------------
(* Callers of two keys that share one thread. *)
EXTENDS TaskTable

CONSTANTS c1, c2, c3, k1, k2
=============================================================================
