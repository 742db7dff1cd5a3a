----------------------------- MODULE MCRealtime -----------------------------
(* Two sockets that watch the deployments of one project. *)
EXTENDS Realtime, TLC

CONSTANTS c1, c2, d, r

Symmetry == Permutations(Clients)
=============================================================================
