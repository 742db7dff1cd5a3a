-------------------------- MODULE TaskTable_proofs --------------------------
(***************************************************************************)
(* What TaskTable guarantees for any number of callers, keys, pool loops   *)
(* and promises.                                                           *)
(***************************************************************************)
EXTENDS TaskTable, TLAPS

\* The entry of an owner's key is the owner's promise, and nobody else's.
OwnerInv ==
  /\ \A c \in Callers : pc[c] \in Owning => future[c] \in Tasks
  /\ OneOwner

\* Promises are numbered in the order they were made: an entry is newer than
\* what was erased under its key, which is no older than what a caller of the
\* key saw when it asked.
OrderInv ==
  /\ \A k \in Keys : erased[k] <= lastTask
  /\ \A k \in Keys : table[k] \in Tasks =>
       erased[k] < table[k] /\ table[k] <= lastTask
  /\ \A c \in Callers : before[c] <= erased[key[c]]
  /\ \A c \in Callers : pc[c] \in Waiting \cup Owning =>
       future[c] \in Tasks /\ before[c] < future[c] /\ future[c] <= lastTask

\* An unanswered entry is the promise of a caller who still computes.
PromiseInv ==
  leaks = 0 => \A k \in Keys : table[k] \in Tasks \ resolved =>
    \E c \in Callers : pc[c] \in {"compute", "resolve"} /\ future[c] = table[k]

\* What the proofs about callers and entries use of TypeOK.
Types ==
  /\ MaxTasks \in Nat /\ lastTask \in Nat /\ leaks \in Nat
  /\ table \in [Keys -> Nat]
  /\ pc \in [Callers -> CallerPc]
  /\ key \in [Callers -> Keys]
  /\ future \in [Callers -> Nat]
  /\ erased \in [Keys -> Nat]
  /\ before \in [Callers -> Nat]

-----------------------------------------------------------------------------
(* Types *)

\* TypeOK is inductive.
LEMMA TypeStep ==
  ASSUME TypeOK, [Next]_vars
  PROVE  TypeOK'
<1> USE BoundsAssumption DEF TypeOK, Tasks, NoTask, Broken, CallerPc,
    vars, entries, pool, asked
<1>1. ASSUME NEW c \in Callers, NEW k \in Keys, Call(c, k) PROVE TypeOK'
  BY <1>1 DEF Call, Goto, Return
<1>2. ASSUME NEW c \in Callers, Find(c) PROVE TypeOK'
  BY <1>2 DEF Find, Goto, Return
<1>3. ASSUME NEW c \in Callers, Fetch(c) PROVE TypeOK'
  BY <1>3 DEF Fetch, Goto, Return
<1>4. ASSUME NEW c \in Callers, Start(c) PROVE TypeOK'
  BY <1>4 DEF Start, Goto, Return
<1>5. ASSUME NEW c \in Callers, Join(c) PROVE TypeOK'
  BY <1>5 DEF Join, Goto, Return
<1>6. ASSUME NEW c \in Callers, Compute(c) PROVE TypeOK'
  BY <1>6 DEF Compute, Goto, Return
<1>7. ASSUME NEW c \in Callers, Leak(c) PROVE TypeOK'
  BY <1>7 DEF Leak, Goto, Return
<1>8. ASSUME NEW c \in Callers, Resolve(c) PROVE TypeOK'
  BY <1>8 DEF Resolve, Goto, Return
<1>9. ASSUME NEW c \in Callers, Erase(c) PROVE TypeOK'
  BY <1>9 DEF Erase, Goto, Return
<1>10. ASSUME NEW c \in Callers, Dispatch(c) PROVE TypeOK'
  BY <1>10 DEF Dispatch, Goto, Return
<1>11. ASSUME NEW l \in 1..Loops, Get(l) PROVE TypeOK'
  BY <1>11 DEF Get, Goto, Return
<1>12. CASE UNCHANGED vars
  BY <1>12
<1> QED
  BY <1>1, <1>2, <1>3, <1>4, <1>5, <1>6, <1>7, <1>8, <1>9, <1>10, <1>11, <1>12 DEF Next, CallerStep

\* Every variable keeps its type: numbers of promises stay within the ones
\* that exist, and a caller that waits or computes always stands at a step of
\* getOrStartTask, patientlyAwaitTaskResult or completeTask.
THEOREM TypeCorrect == Spec => []TypeOK
<1>1. Init => TypeOK
  BY BoundsAssumption
  DEF Init, TypeOK, CallerPc, Tasks, NoTask, Broken
<1>2. TypeOK /\ [Next]_vars => TypeOK'
  BY TypeStep
<1> QED
  BY <1>1, <1>2, PTL DEF Spec

\* The part of TypeOK that the other proofs use, in plainer sets.
LEMMA TypesHold == TypeOK => Types
<1> SUFFICES ASSUME TypeOK PROVE Types
  OBVIOUS
<1>1. MaxTasks \in Nat /\ MaxLeaks \in Nat
  BY BoundsAssumption
<1>2. Tasks \cup {NoTask, Broken} \subseteq Nat
  BY <1>1 DEF Tasks, NoTask, Broken
<1>3. lastTask \in Nat /\ leaks \in Nat
  BY <1>1 DEF TypeOK
<1>4. table \in [Keys -> Nat] /\ erased \in [Keys -> Nat]
  BY <1>2 DEF TypeOK
<1>5. future \in [Callers -> Nat] /\ before \in [Callers -> Nat]
  BY <1>2 DEF TypeOK
<1> QED
  BY <1>1, <1>3, <1>4, <1>5 DEF TypeOK, Types

-----------------------------------------------------------------------------
(* Owners *)

\* A step keeps the entry of every owner's key in the owner's hands.
LEMMA OwnerStep ==
  ASSUME TypeOK, OwnerInv, [Next]_vars
  PROVE  OwnerInv'
<1>0. Types
  BY TypesHold
<1> USE <1>0 DEF Types, Tasks, NoTask, Broken, vars, entries, pool, asked,
    Owning, Waiting
<1> USE DEF OwnerInv, OneOwner
<1>1. ASSUME NEW c \in Callers, NEW k \in Keys, Call(c, k) PROVE OwnerInv'
  BY <1>1 DEF Call, Goto, Return
<1>2. ASSUME NEW c \in Callers, Find(c) PROVE OwnerInv'
  BY <1>2 DEF Find, Goto, Return
<1>3. ASSUME NEW c \in Callers, Fetch(c) PROVE OwnerInv'
  <2>1. CASE table[key[c]] \in Tasks
    BY <1>3, <2>1 DEF Fetch, Goto, Return
  <2>2. CASE table[key[c]] \notin Tasks
    BY <1>3, <2>2 DEF Fetch, Goto, Return
  <2> QED
    BY <2>1, <2>2
<1>4. ASSUME NEW c \in Callers, Start(c) PROVE OwnerInv'
  BY <1>4 DEF Start, Goto, Return
<1>5. ASSUME NEW c \in Callers, Join(c) PROVE OwnerInv'
  <2>1. CASE table[key[c]] \in Tasks
    BY <1>5, <2>1 DEF Join, Goto, Return
  <2>2. CASE table[key[c]] \notin Tasks
    BY <1>5, <2>2 DEF Join, Goto, Return
  <2> QED
    BY <2>1, <2>2
<1>6. ASSUME NEW c \in Callers, Compute(c) PROVE OwnerInv'
  BY <1>6 DEF Compute, Goto, Return
<1>7. ASSUME NEW c \in Callers, Leak(c) PROVE OwnerInv'
  BY <1>7 DEF Leak, Goto, Return
<1>8. ASSUME NEW c \in Callers, Resolve(c) PROVE OwnerInv'
  BY <1>8 DEF Resolve, Goto, Return
<1>9. ASSUME NEW c \in Callers, Erase(c) PROVE OwnerInv'
  BY <1>9 DEF Erase, Goto, Return
<1>10. ASSUME NEW c \in Callers, Dispatch(c) PROVE OwnerInv'
  BY <1>10 DEF Dispatch, Goto, Return
<1>11. ASSUME NEW l \in 1..Loops, Get(l) PROVE OwnerInv'
  BY <1>11 DEF Get, Goto, Return
<1>12. CASE UNCHANGED vars
  BY <1>12
<1> QED
  BY <1>1, <1>2, <1>3, <1>4, <1>5, <1>6, <1>7, <1>8, <1>9, <1>10, <1>11, <1>12 DEF Next, CallerStep

\* startTask's look under the mutex is enough for one owner per key, and
\* completeTask, which finds and erases by key, always hits its own entry.
THEOREM OwnerUnique == Spec => []OneOwner
<1>1. Init => OwnerInv
  BY DEF Init, OwnerInv, OneOwner, Owning
<1>2. TypeOK /\ OwnerInv /\ [Next]_vars => OwnerInv'
  BY OwnerStep
<1>3. OwnerInv => OneOwner
  BY DEF OwnerInv
<1> QED
  BY <1>1, <1>2, <1>3, TypeCorrect, PTL DEF Spec

-----------------------------------------------------------------------------
(* Answers *)

\* A step keeps the promises in order.
LEMMA OrderStep ==
  ASSUME TypeOK, OwnerInv, OrderInv, [Next]_vars
  PROVE  OrderInv'
<1>0. Types
  BY TypesHold
<1> USE <1>0 DEF Types, Tasks, NoTask, Broken, vars, entries, pool, asked,
    Owning, Waiting
<1> USE DEF OrderInv
<1>1. ASSUME NEW c \in Callers, NEW k \in Keys, Call(c, k) PROVE OrderInv'
  BY <1>1 DEF Call, Goto, Return
<1>2. ASSUME NEW c \in Callers, Find(c) PROVE OrderInv'
  BY <1>2 DEF Find, Goto, Return
<1>3. ASSUME NEW c \in Callers, Fetch(c) PROVE OrderInv'
  <2>1. CASE table[key[c]] \in Tasks
    BY <1>3, <2>1 DEF Fetch, Goto, Return
  <2>2. CASE table[key[c]] \notin Tasks
    BY <1>3, <2>2 DEF Fetch, Goto, Return
  <2> QED
    BY <2>1, <2>2
<1>4. ASSUME NEW c \in Callers, Start(c) PROVE OrderInv'
  <2>1. \A k \in Keys : table'[k] \in Tasks =>
          erased'[k] < table'[k] /\ table'[k] <= lastTask'
    BY <1>4 DEF Start
  <2>2. \A d \in Callers : pc'[d] \in Waiting \cup Owning =>
          future'[d] \in Tasks /\ before'[d] < future'[d]
          /\ future'[d] <= lastTask'
    <3>1. ASSUME NEW d \in Callers, d # c PROVE
            /\ pc'[d] = pc[d] /\ future'[d] = future[d]
            /\ before'[d] = before[d]
      BY <1>4, <3>1 DEF Start, Goto
    <3>2. /\ future'[c] = lastTask + 1 /\ lastTask' = lastTask + 1
          /\ before'[c] = before[c] /\ lastTask < MaxTasks
      BY <1>4 DEF Start
    <3>3. before[c] <= lastTask
      OBVIOUS
    <3> QED
      BY <3>1, <3>2, <3>3
  <2>3. \A d \in Callers : before'[d] <= erased'[key'[d]]
    BY <1>4 DEF Start
  <2>4. \A k \in Keys : erased'[k] <= lastTask'
    BY <1>4 DEF Start
  <2> QED
    BY <2>1, <2>2, <2>3, <2>4
<1>5. ASSUME NEW c \in Callers, Join(c) PROVE OrderInv'
  <2>1. CASE table[key[c]] \in Tasks
    BY <1>5, <2>1 DEF Join, Goto, Return
  <2>2. CASE table[key[c]] \notin Tasks
    BY <1>5, <2>2 DEF Join, Goto, Return
  <2> QED
    BY <2>1, <2>2
<1>6. ASSUME NEW c \in Callers, Compute(c) PROVE OrderInv'
  BY <1>6 DEF Compute, Goto, Return
<1>7. ASSUME NEW c \in Callers, Leak(c) PROVE OrderInv'
  BY <1>7 DEF Leak, Goto, Return
<1>8. ASSUME NEW c \in Callers, Resolve(c) PROVE OrderInv'
  BY <1>8 DEF Resolve, Goto, Return
<1>9. ASSUME NEW c \in Callers, Erase(c) PROVE OrderInv'
  BY <1>9 DEF Erase, Goto, Return, OwnerInv, OneOwner
<1>10. ASSUME NEW c \in Callers, Dispatch(c) PROVE OrderInv'
  BY <1>10 DEF Dispatch, Goto, Return
<1>11. ASSUME NEW l \in 1..Loops, Get(l) PROVE OrderInv'
  BY <1>11 DEF Get, Goto, Return
<1>12. CASE UNCHANGED vars
  BY <1>12
<1> QED
  BY <1>1, <1>2, <1>3, <1>4, <1>5, <1>6, <1>7, <1>8, <1>9, <1>10, <1>11, <1>12 DEF Next, CallerStep

\* No caller is given the value of a computation that was over, and out of the
\* table, when it asked.
THEOREM AnswerCurrent == Spec => []AnswersAreCurrent
<1>1. Init => OwnerInv /\ OrderInv
  BY BoundsAssumption
  DEF Init, OwnerInv, OneOwner, OrderInv, Owning, Waiting, Tasks, NoTask
<1>2. TypeOK /\ OwnerInv /\ OrderInv /\ [Next]_vars => (OwnerInv /\ OrderInv)'
  BY OwnerStep, OrderStep
<1>3. TypeOK /\ OrderInv => AnswersAreCurrent
  BY DEF OrderInv, AnswersAreCurrent, TypeOK
<1> QED
  BY <1>1, <1>2, <1>3, TypeCorrect, PTL DEF Spec

-----------------------------------------------------------------------------
(* Waiters *)

\* A step leaves every unanswered entry with a caller who computes for it.
LEMMA PromiseStep ==
  ASSUME TypeOK, OwnerInv, PromiseInv, [Next]_vars
  PROVE  PromiseInv'
<1>0. Types
  BY TypesHold
<1> USE <1>0 DEF Types, Tasks, NoTask, Broken, vars, entries, pool, asked,
    Owning, Waiting
<1> USE DEF PromiseInv
<1>1. ASSUME NEW c \in Callers, NEW k \in Keys, Call(c, k) PROVE PromiseInv'
  BY <1>1 DEF Call, Goto, Return
<1>2. ASSUME NEW c \in Callers, Find(c) PROVE PromiseInv'
  BY <1>2 DEF Find, Goto, Return
<1>3. ASSUME NEW c \in Callers, Fetch(c) PROVE PromiseInv'
  <2>1. CASE table[key[c]] \in Tasks
    BY <1>3, <2>1 DEF Fetch, Goto, Return
  <2>2. CASE table[key[c]] \notin Tasks
    BY <1>3, <2>2 DEF Fetch, Goto, Return
  <2> QED
    BY <2>1, <2>2
<1>4. ASSUME NEW c \in Callers, Start(c) PROVE PromiseInv'
  BY <1>4 DEF Start, Goto, Return
<1>5. ASSUME NEW c \in Callers, Join(c) PROVE PromiseInv'
  <2>1. CASE table[key[c]] \in Tasks
    BY <1>5, <2>1 DEF Join, Goto, Return
  <2>2. CASE table[key[c]] \notin Tasks
    BY <1>5, <2>2 DEF Join, Goto, Return
  <2> QED
    BY <2>1, <2>2
<1>6. ASSUME NEW c \in Callers, Compute(c) PROVE PromiseInv'
  BY <1>6 DEF Compute, Goto, Return
<1>7. ASSUME NEW c \in Callers, Leak(c) PROVE PromiseInv'
  BY <1>7 DEF Leak, Goto, Return
<1>8. ASSUME NEW c \in Callers, Resolve(c) PROVE PromiseInv'
  BY <1>8 DEF Resolve, Goto, Return, OwnerInv, OneOwner
<1>9. ASSUME NEW c \in Callers, Erase(c) PROVE PromiseInv'
  BY <1>9 DEF Erase, Goto, Return, OwnerInv, OneOwner
<1>10. ASSUME NEW c \in Callers, Dispatch(c) PROVE PromiseInv'
  BY <1>10 DEF Dispatch, Goto, Return
<1>11. ASSUME NEW l \in 1..Loops, Get(l) PROVE PromiseInv'
  BY <1>11 DEF Get, Goto, Return
<1>12. CASE UNCHANGED vars
  BY <1>12
<1> QED
  BY <1>1, <1>2, <1>3, <1>4, <1>5, <1>6, <1>7, <1>8, <1>9, <1>10, <1>11, <1>12 DEF Next, CallerStep

\* A step leaves every unanswered waiter with such a caller too.
LEMMA WaiterStep ==
  ASSUME TypeOK, OwnerInv, PromiseInv, WaitersHaveOwner, [Next]_vars
  PROVE  WaitersHaveOwner'
<1>0. Types
  BY TypesHold
<1> USE <1>0 DEF Types, Tasks, NoTask, Broken, vars, entries, pool, asked,
    Owning, Waiting
<1> USE DEF WaitersHaveOwner
<1>1. ASSUME NEW c \in Callers, NEW k \in Keys, Call(c, k) PROVE WaitersHaveOwner'
  BY <1>1 DEF Call, Goto, Return
<1>2. ASSUME NEW c \in Callers, Find(c) PROVE WaitersHaveOwner'
  BY <1>2 DEF Find, Goto, Return
<1>3. ASSUME NEW c \in Callers, Fetch(c) PROVE WaitersHaveOwner'
  <2>1. CASE table[key[c]] \in Tasks
    BY <1>3, <2>1 DEF Fetch, Goto, Return, PromiseInv
  <2>2. CASE table[key[c]] \notin Tasks
    BY <1>3, <2>2 DEF Fetch, Goto, Return, PromiseInv
  <2> QED
    BY <2>1, <2>2
<1>4. ASSUME NEW c \in Callers, Start(c) PROVE WaitersHaveOwner'
  BY <1>4 DEF Start, Goto, Return
<1>5. ASSUME NEW c \in Callers, Join(c) PROVE WaitersHaveOwner'
  <2>1. CASE table[key[c]] \in Tasks
    BY <1>5, <2>1 DEF Join, Goto, Return, PromiseInv
  <2>2. CASE table[key[c]] \notin Tasks
    BY <1>5, <2>2 DEF Join, Goto, Return, PromiseInv
  <2> QED
    BY <2>1, <2>2
<1>6. ASSUME NEW c \in Callers, Compute(c) PROVE WaitersHaveOwner'
  BY <1>6 DEF Compute, Goto, Return
<1>7. ASSUME NEW c \in Callers, Leak(c) PROVE WaitersHaveOwner'
  BY <1>7 DEF Leak, Goto, Return
<1>8. ASSUME NEW c \in Callers, Resolve(c) PROVE WaitersHaveOwner'
  <2>1. future[c] = table[key[c]] /\ future[c] \in Tasks
    BY <1>8 DEF Resolve, OwnerInv, OneOwner
  <2>2. CASE future[c] \in resolved
    BY <1>8, <2>1, <2>2 DEF Resolve, Goto, Return
  <2>3. CASE future[c] \notin resolved
    BY <1>8, <2>1, <2>3 DEF Resolve, Goto, Return
  <2> QED
    BY <2>2, <2>3
<1>9. ASSUME NEW c \in Callers, Erase(c) PROVE WaitersHaveOwner'
  BY <1>9 DEF Erase, Goto, Return
<1>10. ASSUME NEW c \in Callers, Dispatch(c) PROVE WaitersHaveOwner'
  BY <1>10 DEF Dispatch, Goto, Return
<1>11. ASSUME NEW l \in 1..Loops, Get(l) PROVE WaitersHaveOwner'
  <2> DEFINE c == Head(queue[l])
  <2>1. c \in Callers
    <3>1. queue[l] \in Seq(Callers) /\ queue[l] # <<>>
      BY <1>11 DEF Get, TypeOK
    <3> QED
      BY <3>1
  <2>2. /\ pc' = [pc EXCEPT ![c] = "idle"]
        /\ future' = [future EXCEPT ![c] = NoTask]
        /\ UNCHANGED <<resolved, leaks>>
    BY <1>11 DEF Get, Goto, Return
  <2> HIDE DEF c
  <2>3. ASSUME NEW d \in Callers, leaks = 0, d # c, pc[d] \in Waiting,
               future[d] \notin resolved
        PROVE  \E e \in Callers : pc'[e] \in {"compute", "resolve"}
                                  /\ future'[e] = future[d]
    <3>1. PICK e \in Callers : pc[e] \in {"compute", "resolve"}
                               /\ future[e] = future[d]
      BY <2>3
    <3>2. e # c
      BY <1>11, <3>1, <2>3 DEF Get, c
    <3> QED
      BY <3>1, <3>2, <2>2
  <2> QED
    BY <2>1, <2>2, <2>3
<1>12. CASE UNCHANGED vars
  BY <1>12
<1> QED
  BY <1>1, <1>2, <1>3, <1>4, <1>5, <1>6, <1>7, <1>8, <1>9, <1>10, <1>11, <1>12 DEF Next, CallerStep

\* While every owner completes, nobody waits for a promise that has been
\* abandoned.
THEOREM WaiterServed == Spec => []WaitersHaveOwner
<1>1. Init => OwnerInv /\ PromiseInv /\ WaitersHaveOwner
  BY DEF Init, OwnerInv, OneOwner, PromiseInv, WaitersHaveOwner, Owning,
         Waiting, Tasks, NoTask
<1>2. TypeOK /\ OwnerInv /\ PromiseInv /\ WaitersHaveOwner /\ [Next]_vars
      => (OwnerInv /\ PromiseInv /\ WaitersHaveOwner)'
  BY OwnerStep, PromiseStep, WaiterStep
<1> QED
  BY <1>1, <1>2, TypeCorrect, PTL DEF Spec
-----------------------------------------------------------------------------
(* Refinement *)

\* A caller that has not been given a promise has none, and one in the queue of a loop
\* stands there and nowhere else.
SeatInv ==
  /\ \A c \in Callers : pc[c] \notin Owning \cup Waiting => future[c] = NoTask
  /\ \A l \in 1..Loops : \A i \in 1..Len(queue[l]) : pc[queue[l][i]] = "queued"
  /\ \A l, m \in 1..Loops : \A i \in 1..Len(queue[l]), j \in 1..Len(queue[m]) :
       queue[l][i] = queue[m][j] => l = m /\ i = j

\* Only Dispatch and Get touch the queues; the others move a caller that is in none.
LEMMA SeatElsewhere ==
  ASSUME TypeOK, SeatInv, NEW c \in Callers, pc[c] # "queued",
         UNCHANGED queue,
         NEW l \in CallerPc, Goto(c, l), l # "queued",
         \/ UNCHANGED future
         \/ \E n : future' = [future EXCEPT ![c] = n],
         l \notin Owning \cup Waiting => future'[c] = NoTask
  PROVE  SeatInv'
<1>1. pc \in [Callers -> CallerPc] /\ future \in [Callers -> Tasks \cup {NoTask}]
  BY DEF TypeOK
<1>2. \A d \in Callers : d # c => pc'[d] = pc[d] /\ future'[d] = future[d]
  BY <1>1 DEF Goto
<1>3. pc'[c] = l
  BY <1>1 DEF Goto
<1>4. \A d \in Callers : pc'[d] \notin Owning \cup Waiting => future'[d] = NoTask
  BY <1>2, <1>3 DEF SeatInv
<1>5. \A m \in 1..Loops : \A i \in 1..Len(queue[m]) : queue[m][i] \in Callers
  BY DEF TypeOK
<1>6. \A m \in 1..Loops : \A i \in 1..Len(queue[m]) : pc'[queue[m][i]] = "queued"
  BY <1>2, <1>5 DEF SeatInv
<1> QED
  BY <1>4, <1>6 DEF SeatInv

\* A step seats callers as they should be.
LEMMA SeatStep ==
  ASSUME TypeOK, OwnerInv, SeatInv, [Next]_vars
  PROVE  SeatInv'
<1> USE DEF CallerPc, Owning, Waiting, entries, pool, asked
<1>0. /\ pc \in [Callers -> CallerPc] /\ future \in [Callers -> Tasks \cup {NoTask}]
      /\ queue \in [1..Loops -> Seq(Callers)] /\ nextLoop \in 1..Loops
  BY DEF TypeOK
<1>1. ASSUME NEW c \in Callers, NEW k \in Keys, Call(c, k) PROVE SeatInv'
  <2>1. future[c] = NoTask
    BY <1>1 DEF Call, SeatInv
  <2> QED
    BY <1>1, <2>1, SeatElsewhere DEF Call
<1>2. ASSUME NEW c \in Callers, Find(c) PROVE SeatInv'
  <2>1. future[c] = NoTask
    BY <1>2 DEF Find, SeatInv
  <2>2. CASE table[key[c]] = NoTask
    BY <1>2, <2>1, <2>2, SeatElsewhere DEF Find
  <2>3. CASE table[key[c]] # NoTask
    BY <1>2, <2>1, <2>3, SeatElsewhere DEF Find
  <2> QED
    BY <2>2, <2>3
<1>3. ASSUME NEW c \in Callers, Fetch(c) PROVE SeatInv'
  <2>1. CASE table[key[c]] \in Tasks
    BY <1>3, <2>1, SeatElsewhere DEF Fetch
  <2>2. CASE table[key[c]] \notin Tasks
    BY <1>3, <2>2, <1>0, SeatElsewhere DEF Fetch, Return
  <2> QED
    BY <2>1, <2>2
<1>4. ASSUME NEW c \in Callers, Start(c) PROVE SeatInv'
  BY <1>4, SeatElsewhere DEF Start
<1>5. ASSUME NEW c \in Callers, Join(c) PROVE SeatInv'
  <2>1. CASE table[key[c]] \in Tasks
    BY <1>5, <2>1, SeatElsewhere DEF Join
  <2>2. CASE table[key[c]] \notin Tasks
    BY <1>5, <2>2, <1>0, SeatElsewhere DEF Join, Return
  <2> QED
    BY <2>1, <2>2
<1>6. ASSUME NEW c \in Callers, Compute(c) PROVE SeatInv'
  BY <1>6, SeatElsewhere DEF Compute
<1>7. ASSUME NEW c \in Callers, Leak(c) PROVE SeatInv'
  BY <1>7, <1>0, SeatElsewhere DEF Leak, Return
<1>8. ASSUME NEW c \in Callers, Resolve(c) PROVE SeatInv'
  <2>1. CASE table[key[c]] \in Tasks \ resolved
    BY <1>8, <2>1, SeatElsewhere DEF Resolve
  <2>2. CASE table[key[c]] \notin Tasks \ resolved
    BY <1>8, <2>2, <1>0, SeatElsewhere DEF Resolve, Return
  <2> QED
    BY <2>1, <2>2
<1>9. ASSUME NEW c \in Callers, Erase(c) PROVE SeatInv'
  BY <1>9, <1>0, SeatElsewhere DEF Erase, Return
<1>10. ASSUME NEW c \in Callers, Dispatch(c) PROVE SeatInv'
  <2> DEFINE n == nextLoop
             old == queue[n]
  <2>1. old \in Seq(Callers) /\ n \in 1..Loops
    BY <1>0
  <2>2. /\ queue'[n] = Append(old, c) /\ Len(queue'[n]) = Len(old) + 1
        /\ queue'[n][Len(old) + 1] = c
        /\ \A i \in 1..Len(old) : queue'[n][i] = old[i]
    BY <1>0, <1>10, <2>1 DEF Dispatch
  <2>3. \A m \in 1..Loops : m # n => queue'[m] = queue[m]
    BY <1>0, <1>10 DEF Dispatch
  <2>4. /\ pc'[c] = "queued" /\ future' = future
        /\ \A d \in Callers : d # c => pc'[d] = pc[d]
    BY <1>0, <1>10 DEF Dispatch, Goto
  <2>5. \A m \in 1..Loops : \A i \in 1..Len(queue[m]) : queue[m][i] \in Callers /\ queue[m][i] # c
    BY <1>0, <1>10 DEF Dispatch, SeatInv
  <2>6. \A d \in Callers : pc'[d] \notin Owning \cup Waiting => future'[d] = NoTask
    BY <2>4 DEF SeatInv
  <2>7. ASSUME NEW m \in 1..Loops, NEW i \in 1..Len(queue'[m]) PROVE
          \/ m = n /\ i = Len(old) + 1 /\ queue'[m][i] = c
          \/ i \in 1..Len(queue[m]) /\ queue'[m][i] = queue[m][i]
    BY <2>1, <2>2, <2>3
  <2>8. \A m \in 1..Loops : \A i \in 1..Len(queue'[m]) : pc'[queue'[m][i]] = "queued"
    BY <2>4, <2>5, <2>7 DEF SeatInv
  <2> HIDE DEF n, old
  <2>9. ASSUME NEW l \in 1..Loops, NEW m \in 1..Loops,
               NEW i \in 1..Len(queue'[l]), NEW j \in 1..Len(queue'[m]),
               queue'[l][i] = queue'[m][j]
        PROVE  l = m /\ i = j
    <3>1. CASE queue'[l][i] = c
      <4>1. l = n /\ i = Len(old) + 1
        BY <2>5, <2>7, <3>1
      <4>2. queue'[m][j] = c
        BY <2>9, <3>1
      <4>3. m = n /\ j = Len(old) + 1
        BY <2>5, <2>7, <4>2
      <4> QED
        BY <4>1, <4>3
    <3>2. CASE queue'[l][i] # c
      <4>1. i \in 1..Len(queue[l]) /\ queue'[l][i] = queue[l][i]
        BY <2>7, <3>2
      <4>2. j \in 1..Len(queue[m]) /\ queue'[m][j] = queue[m][j]
        BY <2>7, <2>9, <3>2
      <4>3. queue[l][i] = queue[m][j]
        BY <2>9, <4>1, <4>2
      <4> QED
        BY <4>1, <4>2, <4>3 DEF SeatInv
    <3> QED
      BY <3>1, <3>2
  <2> QED
    BY <2>6, <2>8, <2>9, <1>10 DEF SeatInv, Dispatch
<1>11. ASSUME NEW l \in 1..Loops, Get(l) PROVE SeatInv'
  <2> DEFINE old == queue[l]
             c == Head(old)
  <2>1. old \in Seq(Callers) /\ Len(old) # 0 /\ c = old[1] /\ c \in Callers
    BY <1>0, <1>11 DEF Get
  <2>2. /\ Len(queue'[l]) = Len(old) - 1
        /\ \A i \in 1..Len(queue'[l]) : queue'[l][i] = old[i + 1]
    BY <1>0, <1>11, <2>1 DEF Get
  <2>3. \A m \in 1..Loops : m # l => queue'[m] = queue[m]
    BY <1>0, <1>11 DEF Get
  <2>4. /\ pc'[c] = "idle" /\ future'[c] = NoTask
        /\ \A d \in Callers : d # c => pc'[d] = pc[d] /\ future'[d] = future[d]
    BY <1>0, <1>11, <2>1 DEF Get, Goto, Return
  <2>5. ASSUME NEW m \in 1..Loops, NEW i \in 1..Len(queue'[m]) PROVE
          \E j \in 1..Len(queue[m]) :
            /\ queue'[m][i] = queue[m][j] /\ j = IF m = l THEN i + 1 ELSE i
            /\ queue[m][j] # c /\ queue[m][j] \in Callers
    <3>1. CASE m = l
      <4>1. i + 1 \in 1..Len(old) /\ i + 1 # 1
        BY <2>1, <2>2, <3>1
      <4>2. old[i + 1] # old[1]
        BY <2>1, <4>1 DEF SeatInv
      <4> QED
        BY <2>1, <2>2, <3>1, <4>1, <4>2
    <3>2. CASE m # l
      <4>1. queue'[m] = queue[m] /\ queue[m] \in Seq(Callers)
        BY <1>0, <2>3, <3>2
      <4>2. queue[m][i] # old[1]
        BY <2>1, <3>2, <4>1 DEF SeatInv
      <4> QED
        BY <2>1, <3>2, <4>1, <4>2
    <3> QED
      BY <3>1, <3>2
  <2>6. \A d \in Callers : pc'[d] \notin Owning \cup Waiting => future'[d] = NoTask
    BY <2>4 DEF SeatInv
  <2> HIDE DEF c, old
  <2>7. ASSUME NEW m \in 1..Loops, NEW i \in 1..Len(queue'[m])
        PROVE  pc'[queue'[m][i]] = "queued"
    <3>1. PICK j \in 1..Len(queue[m]) :
            queue'[m][i] = queue[m][j] /\ queue[m][j] # c /\ queue[m][j] \in Callers
      BY <2>5
    <3>2. pc[queue[m][j]] = "queued"
      BY DEF SeatInv
    <3> QED
      BY <2>4, <3>1, <3>2
  <2>8. ASSUME NEW k \in 1..Loops, NEW m \in 1..Loops,
               NEW i \in 1..Len(queue'[k]), NEW j \in 1..Len(queue'[m]),
               queue'[k][i] = queue'[m][j]
        PROVE  k = m /\ i = j
    <3>1. PICK g \in 1..Len(queue[k]) :
            queue'[k][i] = queue[k][g] /\ g = IF k = l THEN i + 1 ELSE i
      BY <2>5
    <3>2. PICK h \in 1..Len(queue[m]) :
            queue'[m][j] = queue[m][h] /\ h = IF m = l THEN j + 1 ELSE j
      BY <2>5
    <3>3. queue[k][g] = queue[m][h]
      BY <2>8, <3>1, <3>2
    <3>4. k = m /\ g = h
      BY <3>3 DEF SeatInv
    <3> QED
      BY <3>1, <3>2, <3>4
  <2> QED
    BY <2>6, <2>7, <2>8 DEF SeatInv
<1>12. CASE UNCHANGED vars
  BY <1>12 DEF SeatInv, vars
<1> QED
  BY <1>1, <1>2, <1>3, <1>4, <1>5, <1>6, <1>7, <1>8, <1>9, <1>10, <1>11, <1>12 DEF Next, CallerStep

\* What each place of a caller is to SingleFlight.
LEMMA Roles ==
  /\ RoleOf("idle") = "out"
  /\ RoleOf("find") = "asking" /\ RoleOf("fetch") = "asking" /\ RoleOf("start") = "asking"
  /\ RoleOf("compute") = "computing" /\ RoleOf("resolve") = "computing"
  /\ RoleOf("erase") = "ending"
  /\ RoleOf("dispatch") = "sharing" /\ RoleOf("queued") = "sharing"
BY DEF RoleOf, Waiting

\* A step of the table is a step of SingleFlight, or none that its callers could see.
LEMMA SharingStep ==
  ASSUME TypeOK, OwnerInv, SeatInv, [Next]_vars
  PROVE  [Sharing!Next]_Sharing!vars
<1> DEFINE current(t) == [k \in Keys |-> IF t[k] = Broken THEN NoTask ELSE t[k]]
           role(p) == [c \in Callers |-> RoleOf(p[c])]
<1> USE DEF Sharing!Next, Sharing!vars, Sharing!Becomes
<1>0. /\ pc \in [Callers -> CallerPc] /\ future \in [Callers -> Tasks \cup {NoTask}]
      /\ table \in [Keys -> Tasks \cup {NoTask, Broken}] /\ key \in [Callers -> Keys]
      /\ lastTask \in Nat /\ MaxTasks \in Nat /\ NoTask = 0 /\ Broken = MaxTasks + 1
      /\ Tasks = 1..MaxTasks
  BY BoundsAssumption DEF TypeOK, Tasks, NoTask, Broken
<1>a. ASSUME NEW c \in Callers, NEW l, Goto(c, l)
      PROVE  role(pc') = [role(pc) EXCEPT ![c] = RoleOf(l)]
  BY <1>a, <1>0 DEF Goto
<1>c. \A c \in Callers : role(pc)[c] = RoleOf(pc[c])
  OBVIOUS
<1>d. ASSUME NEW c \in Callers, NEW l, Goto(c, l), RoleOf(l) = RoleOf(pc[c])
      PROVE  role(pc') = role(pc)
  <2>1. \A d \in Callers : RoleOf(pc'[d]) = RoleOf(pc[d])
    BY <1>d, <1>0 DEF Goto
  <2> QED
    BY <2>1
<1> USE Roles
<1>b. \A c \in Callers : pc[c] \notin Owning \cup Waiting => future[c] = NoTask
  BY DEF SeatInv
<1>1. ASSUME NEW c \in Callers, NEW k \in Keys, Call(c, k) PROVE Sharing!Ask(c, k)
  BY <1>1, <1>0, <1>a, <1>b DEF Call, Sharing!Ask, Owning, Waiting, entries
<1>2. ASSUME NEW c \in Callers, Find(c) PROVE UNCHANGED Sharing!vars
  <2>1. role(pc') = role(pc)
    <3>1. CASE table[key[c]] = NoTask
      <4>1. Goto(c, "start") /\ pc[c] = "find"
        BY <1>2, <3>1 DEF Find
      <4> QED
        BY <4>1, <1>d
    <3>2. CASE table[key[c]] # NoTask
      <4>1. Goto(c, "fetch") /\ pc[c] = "find"
        BY <1>2, <3>2 DEF Find
      <4> QED
        BY <4>1, <1>d
    <3> QED
      BY <3>1, <3>2
  <2> QED
    BY <1>2, <2>1 DEF Find, entries, asked
<1>3. ASSUME NEW c \in Callers, Fetch(c) PROVE Sharing!Share(c) \/ Sharing!Fail(c)
  <2>1. CASE table[key[c]] \in Tasks
    BY <1>3, <2>1, <1>0, <1>a DEF Fetch, Sharing!Share, Waiting, asked
  <2>2. CASE table[key[c]] \notin Tasks
    <3>1. current(table') = current(table)
      BY <1>3, <2>2, <1>0 DEF Fetch
    <3> QED
      BY <1>3, <2>2, <3>1, <1>0, <1>a DEF Fetch, Return, Sharing!Fail, asked
  <2> QED
    BY <2>1, <2>2
<1>4. ASSUME NEW c \in Callers, Start(c) PROVE Sharing!Begin(c)
  <2>1. current(table') = [current(table) EXCEPT ![key[c]] = lastTask + 1]
    <3>1. table' = [table EXCEPT ![key[c]] = lastTask + 1] /\ lastTask + 1 # Broken
      BY <1>4, <1>0 DEF Start
    <3>2. \A k \in Keys : table'[k] = IF k = key[c] THEN lastTask + 1 ELSE table[k]
      BY <1>0, <3>1
    <3> QED
      BY <1>0, <3>1, <3>2
  <2> QED
    BY <1>4, <2>1, <1>0, <1>a DEF Start, Sharing!Begin, asked
<1>5. ASSUME NEW c \in Callers, Join(c) PROVE Sharing!Share(c) \/ Sharing!Fail(c)
  <2>1. CASE table[key[c]] \in Tasks
    BY <1>5, <2>1, <1>0, <1>a DEF Join, Sharing!Share, Waiting, entries, asked
  <2>2. CASE table[key[c]] \notin Tasks
    BY <1>5, <2>2, <1>0, <1>a DEF Join, Return, Sharing!Fail, entries, asked
  <2> QED
    BY <2>1, <2>2
<1>6. ASSUME NEW c \in Callers, Compute(c) PROVE UNCHANGED Sharing!vars
  <2>1. role(pc') = role(pc)
    BY <1>6, <1>d DEF Compute
  <2> QED
    BY <1>6, <2>1 DEF Compute, entries, asked
<1>7. ASSUME NEW c \in Callers, Leak(c) PROVE Sharing!Fail(c)
  BY <1>7, <1>0, <1>a DEF Leak, Return, Sharing!Fail, entries, asked
<1>8. ASSUME NEW c \in Callers, Resolve(c) PROVE Sharing!End(c) \/ Sharing!Fail(c)
  <2>1. table[key[c]] = future[c]
    BY <1>8 DEF Resolve, OwnerInv, OneOwner, Owning
  <2>2. CASE table[key[c]] \in Tasks \ resolved
    BY <1>8, <2>1, <2>2, <1>0, <1>a DEF Resolve, Sharing!End, asked
  <2>3. CASE table[key[c]] \notin Tasks \ resolved
    BY <1>8, <2>1, <2>3, <1>0, <1>a DEF Resolve, Return, Sharing!Fail, asked
  <2> QED
    BY <2>2, <2>3
<1>9. ASSUME NEW c \in Callers, Erase(c) PROVE Sharing!Answer(c)
  <2>1. table[key[c]] = future[c] /\ future[c] \in Tasks
    BY <1>9 DEF Erase, OwnerInv, OneOwner, Owning
  <2>2. current(table') = [current(table) EXCEPT ![key[c]] = NoTask]
    BY <1>9, <1>0 DEF Erase
  <2> QED
    BY <1>9, <2>1, <2>2, <1>0, <1>a DEF Erase, Return, Sharing!Answer, asked
<1>10. ASSUME NEW c \in Callers, Dispatch(c) PROVE UNCHANGED Sharing!vars
  <2>1. role(pc') = role(pc)
    BY <1>10, <1>d DEF Dispatch
  <2> QED
    BY <1>10, <2>1 DEF Dispatch, entries, asked
<1>11. ASSUME NEW l \in 1..Loops, Get(l) PROVE \E c \in Callers : Sharing!AnswerShared(c)
  <2> DEFINE c == Head(queue[l])
  <2>1. queue[l] \in Seq(Callers) /\ queue[l] # <<>>
    BY <1>11 DEF Get, TypeOK
  <2>2. c \in Callers /\ pc[c] = "queued"
    BY <2>1 DEF SeatInv
  <2>3. Goto(c, "idle") /\ future' = [future EXCEPT ![c] = NoTask] /\ future[c] \in resolved
    BY <1>11 DEF Get, Return
  <2> HIDE DEF c
  <2> QED
    <3>1. UNCHANGED <<table, lastTask, resolved, key>>
      BY <1>11 DEF Get, entries, asked
    <3>2. role(pc)[c] = "sharing" /\ role(pc') = [role(pc) EXCEPT ![c] = "out"]
      BY <2>2, <2>3, <1>a, <1>c
    <3>3. Sharing!AnswerShared(c)
      BY <2>3, <3>1, <3>2 DEF Sharing!AnswerShared
    <3> QED
      BY <2>2, <3>3
<1>12. CASE UNCHANGED vars
  BY <1>12 DEF vars, entries, asked
<1> QED
  BY <1>1, <1>2, <1>3, <1>4, <1>5, <1>6, <1>7, <1>8, <1>9, <1>10, <1>11, <1>12 DEF Next, CallerStep

\* The table with its unlocked look-ups, and the pool on which callers wait, keep the promise
\* of SingleFlight: one computation of a key at a time, whose value all get who came while
\* its entry was there, and nobody before it has ended (cacheable_service.h).
THEOREM SharesComputationsHolds == Spec => SharesComputations
<1>1. Init => OwnerInv /\ SeatInv
  BY DEF Init, OwnerInv, OneOwner, SeatInv, Owning
<1>2. Init => Sharing!Init
  <2> SUFFICES ASSUME Init PROVE Sharing!Init
    OBVIOUS
  <2>1. [c \in Callers |-> RoleOf(pc[c])] = [c \in Callers |-> "out"]
    BY Roles DEF Init
  <2>2. [k \in Keys |-> IF table[k] = Broken THEN NoTask ELSE table[k]] = [k \in Keys |-> NoTask]
    BY DEF Init
  <2> QED
    BY <2>1, <2>2 DEF Init, Sharing!Init, NoTask
<1>3. TypeOK /\ OwnerInv /\ SeatInv /\ [Next]_vars => (OwnerInv /\ SeatInv)'
  BY OwnerStep, SeatStep
<1>4. TypeOK /\ OwnerInv /\ SeatInv /\ [Next]_vars => [Sharing!Next]_Sharing!vars
  BY SharingStep
<1> QED
  BY <1>1, <1>2, <1>3, <1>4, TypeCorrect, PTL DEF Spec, SharesComputations, Sharing!Spec
=============================================================================
