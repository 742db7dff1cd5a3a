--------------------------- MODULE MCDeployments ---------------------------
(* The deployments of one project, on small sets of requests. *)
EXTENDS Deployments, TLC

CONSTANTS w1, w2, r1, r2

TwoWorkers == {w1, w2}
Symmetry == Permutations(TwoWorkers)
=============================================================================
