----------------------------- MODULE MCMembers ------------------------------
(* The members of one project, and two requests about them. *)
EXTENDS Members

CONSTANTS u1, u2, root, t1, t2
=============================================================================
