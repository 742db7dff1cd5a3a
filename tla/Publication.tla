---------------------------- MODULE Publication ----------------------------
(***************************************************************************)
(* What readers of a project are promised, whatever its deployments do:    *)
(* they are sent to one deployment or to none; they only ever move to a    *)
(* newer one; and content that was taken away does not come back.          *)
(***************************************************************************)
EXTENDS Naturals

CONSTANTS Dep,    \* deployments, numbered by age
          NoDep   \* readers find nothing

VARIABLES served, \* the deployment readers are sent to
          gone    \* deployments whose content was taken away

vars == <<served, gone>>

Init ==
  /\ served = NoDep
  /\ gone = {}

\* Readers move to newer content; what they leave may be cleared with it.
Publish(d) ==
  /\ d \notin gone
  /\ d > served
  /\ served' = d
  /\ UNCHANGED gone

\* Content is taken away, possibly that of the deployment being read.
Withdraw(D) ==
  /\ gone' = gone \cup D
  /\ served' = IF served \in D THEN NoDep ELSE served

\* The deployment being read is taken off the list, its content still there.
Unlist ==
  /\ served' = NoDep
  /\ UNCHANGED gone

Next ==
  \/ \E d \in Dep : Publish(d)
  \/ \E D \in SUBSET Dep : Withdraw(D)
  \/ Unlist

Spec == Init /\ [][Next]_vars
=============================================================================
