------------------------------ MODULE MCIssues ------------------------------
(* Two reports and up to two findings about deployments of one project. *)
EXTENDS Issues

CONSTANTS r1, r2, f1, f2, k, a, s1, s2
=============================================================================
