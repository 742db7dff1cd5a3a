------------------------------- MODULE MCRows -------------------------------
(* Two handlers at once, of three, on two rows of each table. *)
EXTENDS Fitting, TLC

CONSTANTS a1, a2

Symmetry == Permutations({a1, a2})
=============================================================================
