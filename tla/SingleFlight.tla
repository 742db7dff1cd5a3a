---------------------------- MODULE SingleFlight ----------------------------
(***************************************************************************)
(* What callers of a shared computation are promised: a key's value is     *)
(* computed once for all who ask while it is under way, each of them gets  *)
(* the value of a computation of its own key that was not over when it     *)
(* asked, and no value before its computation has ended.                   *)
(***************************************************************************)
EXTENDS Naturals

CONSTANTS Callers, Keys,
          None     \* no computation

VARIABLES
  current,  \* the computation of each key that is under way
  newest,   \* the newest one of all
  ended,    \* computations with a value
  role,     \* of each caller: "out", "asking", "computing", "ending" or "sharing"
  asks,     \* the key it asks for
  shares    \* the computation whose value it will get

vars == <<current, newest, ended, role, asks, shares>>

Init ==
  /\ current = [k \in Keys |-> None]
  /\ newest = 0
  /\ ended = {}
  /\ role = [c \in Callers |-> "out"]
  /\ asks \in [Callers -> Keys]
  /\ shares = [c \in Callers |-> None]

Becomes(c, r, n) ==
  /\ role' = [role EXCEPT ![c] = r]
  /\ shares' = [shares EXCEPT ![c] = n]

Ask(c, k) ==
  /\ role[c] = "out"
  /\ Becomes(c, "asking", None)
  /\ asks' = [asks EXCEPT ![c] = k]
  /\ UNCHANGED <<current, newest, ended>>

\* Nobody computes the value: this caller does.
Begin(c) ==
  /\ role[c] = "asking"
  /\ current[asks[c]] = None
  /\ newest' = newest + 1
  /\ current' = [current EXCEPT ![asks[c]] = newest']
  /\ Becomes(c, "computing", newest')
  /\ UNCHANGED <<ended, asks>>

\* Somebody does, or has done so just now.
Share(c) ==
  /\ role[c] = "asking"
  /\ current[asks[c]] # None
  /\ Becomes(c, "sharing", current[asks[c]])
  /\ UNCHANGED <<current, newest, ended, asks>>

\* The computation has its value, once.
End(c) ==
  /\ role[c] = "computing"
  /\ shares[c] \notin ended
  /\ ended' = ended \cup {shares[c]}
  /\ Becomes(c, "ending", shares[c])
  /\ UNCHANGED <<current, newest, asks>>

\* Who asks from now on gets another.  It was this caller's own.
Answer(c) ==
  /\ role[c] = "ending"
  /\ current[asks[c]] = shares[c]
  /\ current' = [current EXCEPT ![asks[c]] = None]
  /\ Becomes(c, "out", None)
  /\ UNCHANGED <<newest, ended, asks>>

AnswerShared(c) ==
  /\ role[c] = "sharing"
  /\ shares[c] \in ended
  /\ Becomes(c, "out", None)
  /\ UNCHANGED <<current, newest, ended, asks>>

\* An exception instead of an answer.  A computation that its caller leaves stays.
Fail(c) ==
  /\ role[c] \in {"asking", "computing"}
  /\ Becomes(c, "out", None)
  /\ UNCHANGED <<current, newest, ended, asks>>

Next ==
  \E c \in Callers :
    \/ \E k \in Keys : Ask(c, k)
    \/ Begin(c) \/ Share(c) \/ End(c) \/ Answer(c) \/ AnswerShared(c) \/ Fail(c)

Spec == Init /\ [][Next]_vars
=============================================================================
