----------------------------- MODULE TaskTable -----------------------------
(***************************************************************************)
(* CacheableServiceBase: concurrent callers that ask for the same key      *)
(* share one computation.                                                  *)
(*                                                                         *)
(* pendingTasks_ maps a key to a promise and its future.  The first caller *)
(* inserts the entry and computes (the owner); later ones find the entry   *)
(* and wait for the future on a thread of cacheAwaiterThreadPool, which    *)
(* they block meanwhile.  startTask and the erasure in completeTask hold   *)
(* mutex_ and have no co_await inside: each is one step.  getPendingTask   *)
(* holds no lock: its contains and its operator[] are two steps.           *)
(***************************************************************************)
EXTENDS Naturals, Sequences, FiniteSets

CONSTANTS
  Callers,    \* coroutines that ask for values
  Keys,       \* task keys
  Loops,      \* number of loops (threads) of cacheAwaiterThreadPool
  MaxTasks,   \* bound: promises ever created
  MaxLeaks    \* bound: owners that end without completeTask

ASSUME BoundsAssumption ==
  /\ Loops \in Nat \ {0}
  /\ MaxTasks \in Nat
  /\ MaxLeaks \in Nat

Tasks == 1..MaxTasks
NoTask == 0                \* no entry for the key
Broken == MaxTasks + 1     \* an entry without a promise: any_cast throws

VARIABLES
  table,      \* pendingTasks_: each key's promise
  lastTask,   \* the newest promise
  resolved,   \* promises with a value
  pc,         \* where each caller stands
  key,        \* the key it asked for
  future,     \* the promise it computes or waits for
  queue,      \* what waits on each loop of the pool, the head running
  nextLoop,   \* getNextLoop: round robin
  leaks,      \* how many owners ended without completing
  erased,     \* history: the newest promise of each key that was erased
  before      \* history: the value of erased[key] when the caller asked

entries == <<table, lastTask, resolved>>
pool    == <<queue, nextLoop>>
asked   == <<key, before>>
vars    == <<entries, pc, future, pool, leaks, erased, asked>>

CallerPc == {"idle", "find", "fetch", "start", "compute", "resolve", "erase",
             "dispatch", "queued"}
Owning == {"compute", "resolve", "erase"}
Waiting == {"dispatch", "queued"}

TypeOK ==
  /\ table \in [Keys -> Tasks \cup {NoTask, Broken}]
  /\ lastTask \in 0..MaxTasks
  /\ resolved \in SUBSET Tasks
  /\ pc \in [Callers -> CallerPc]
  /\ key \in [Callers -> Keys]
  /\ future \in [Callers -> Tasks \cup {NoTask}]
  /\ queue \in [1..Loops -> Seq(Callers)]
  /\ nextLoop \in 1..Loops
  /\ leaks \in 0..MaxLeaks
  /\ erased \in [Keys -> Tasks \cup {NoTask}]
  /\ before \in [Callers -> Tasks \cup {NoTask}]

Init ==
  /\ table = [k \in Keys |-> NoTask]
  /\ lastTask = 0
  /\ resolved = {}
  /\ pc = [c \in Callers |-> "idle"]
  /\ key \in [Callers -> Keys]
  /\ future = [c \in Callers |-> NoTask]
  /\ queue = [l \in 1..Loops |-> <<>>]
  /\ nextLoop = 1
  /\ leaks = 0
  /\ erased = [k \in Keys |-> NoTask]
  /\ before = [c \in Callers |-> NoTask]

-----------------------------------------------------------------------------
Goto(c, l) == pc' = [pc EXCEPT ![c] = l]

\* The caller gets its answer, or an exception leaves its coroutine.
Return(c) ==
  /\ Goto(c, "idle")
  /\ future' = [future EXCEPT ![c] = NoTask]

\* A value of another key, or of the same one, is asked for.  (Bound: every
\* call under way could still need a promise of its own.)
Call(c, k) ==
  /\ pc[c] = "idle"
  /\ lastTask + Cardinality({d \in Callers : pc[d] # "idle"}) < MaxTasks
  /\ key' = [key EXCEPT ![c] = k]
  /\ before' = [before EXCEPT ![c] = erased[k]]
  /\ Goto(c, "find")
  /\ UNCHANGED <<entries, future, pool, leaks, erased>>

\* getPendingTask: contains.
Find(c) ==
  /\ pc[c] = "find"
  /\ Goto(c, IF table[key[c]] = NoTask THEN "start" ELSE "fetch")
  /\ UNCHANGED <<entries, future, pool, leaks, erased, asked>>

\* getPendingTask: operator[] and any_cast.  If the entry was erased since, the
\* subscript inserts an empty one, and the cast throws now and ever after.
Fetch(c) ==
  /\ pc[c] = "fetch"
  /\ IF table[key[c]] \in Tasks
     THEN /\ future' = [future EXCEPT ![c] = table[key[c]]]
          /\ Goto(c, "dispatch")
          /\ UNCHANGED table
     ELSE /\ table' = [table EXCEPT ![key[c]] = Broken]
          /\ Return(c)
  /\ UNCHANGED <<lastTask, resolved, pool, leaks, erased, asked>>

\* (Mutant: no second look under the mutex.)
StartUnchecked(c) ==
  /\ pc[c] = "start"
  /\ lastTask < MaxTasks
  /\ lastTask' = lastTask + 1
  /\ table' = [table EXCEPT ![key[c]] = lastTask + 1]
  /\ future' = [future EXCEPT ![c] = lastTask + 1]
  /\ Goto(c, "compute")
  /\ UNCHANGED <<resolved, pool, leaks, erased, asked>>

\* startTask, under mutex_: no entry, insert one and compute.
Start(c) ==
  /\ pc[c] = "start"
  /\ table[key[c]] = NoTask
  /\ lastTask < MaxTasks            \* (bound: Call leaves a promise for it)
  /\ lastTask' = lastTask + 1
  /\ table' = [table EXCEPT ![key[c]] = lastTask + 1]
  /\ future' = [future EXCEPT ![c] = lastTask + 1]
  /\ Goto(c, "compute")
  /\ UNCHANGED <<resolved, pool, leaks, erased, asked>>

\* startTask: an entry, inserted since getPendingTask looked.
Join(c) ==
  /\ pc[c] = "start"
  /\ table[key[c]] # NoTask
  /\ IF table[key[c]] \in Tasks
     THEN /\ future' = [future EXCEPT ![c] = table[key[c]]]
          /\ Goto(c, "dispatch")
     ELSE Return(c)
  /\ UNCHANGED <<entries, pool, leaks, erased, asked>>

\* (Mutant: the owner computes on a thread of the pool.)
ComputeOnPool(c) ==
  /\ pc[c] = "compute"
  /\ \E l \in 1..Loops : queue[l] = <<>>
  /\ Goto(c, "resolve")
  /\ UNCHANGED <<entries, future, pool, leaks, erased, asked>>

\* The owner's computation, on the owner's own loop, ends.
Compute(c) ==
  /\ pc[c] = "compute"
  /\ Goto(c, "resolve")
  /\ UNCHANGED <<entries, future, pool, leaks, erased, asked>>

\* The owner ends on a path that does not reach completeTask: an exception of
\* the cache leaves its coroutine.
Leak(c) ==
  /\ pc[c] = "compute"
  /\ leaks < MaxLeaks
  /\ leaks' = leaks + 1
  /\ Return(c)
  /\ UNCHANGED <<entries, pool, erased, asked>>

\* completeTask: contains, then the value goes to the promise found by key.
Resolve(c) ==
  /\ pc[c] = "resolve"
  /\ IF table[key[c]] \in Tasks \ resolved
     THEN /\ resolved' = resolved \cup {table[key[c]]}
          /\ Goto(c, "erase")
          /\ UNCHANGED future
     ELSE Return(c) /\ UNCHANGED resolved
  /\ UNCHANGED <<table, lastTask, pool, leaks, erased, asked>>

\* (Mutant: the finished entry is kept.)
KeepEntry(c) ==
  /\ pc[c] = "erase"
  /\ erased' = [erased EXCEPT ![key[c]] = future[c]]
  /\ Return(c)
  /\ UNCHANGED <<entries, pool, leaks, asked>>

\* completeTask, under mutex_: erase by key, return the value.
Erase(c) ==
  /\ pc[c] = "erase"
  /\ table' = [table EXCEPT ![key[c]] = NoTask]
  /\ erased' = [erased EXCEPT ![key[c]] = future[c]]
  /\ Return(c)
  /\ UNCHANGED <<lastTask, resolved, pool, leaks, asked>>

\* patientlyAwaitTaskResult: the caller moves to the next loop of the pool.
Dispatch(c) ==
  /\ pc[c] = "dispatch"
  /\ queue' = [queue EXCEPT ![nextLoop] = Append(@, c)]
  /\ nextLoop' = (nextLoop % Loops) + 1
  /\ Goto(c, "queued")
  /\ UNCHANGED <<entries, future, leaks, erased, asked>>

\* (Mutant: the thread does not wait for the value.)
GetWithoutValue(l) ==
  /\ queue[l] # <<>>
  /\ queue' = [queue EXCEPT ![l] = Tail(@)]
  /\ Return(Head(queue[l]))
  /\ UNCHANGED <<entries, nextLoop, leaks, erased, asked>>

\* task.get() on loop l: the thread is blocked until the value is there; then
\* the caller moves back to its own loop.
Get(l) ==
  /\ queue[l] # <<>>
  /\ future[Head(queue[l])] \in resolved
  /\ queue' = [queue EXCEPT ![l] = Tail(@)]
  /\ Return(Head(queue[l]))
  /\ UNCHANGED <<entries, nextLoop, leaks, erased, asked>>

CallerStep(c) ==
  \/ Find(c) \/ Fetch(c) \/ Start(c) \/ Join(c)
  \/ Compute(c) \/ Resolve(c) \/ Erase(c) \/ Dispatch(c)

Next ==
  \/ \E c \in Callers : (\E k \in Keys : Call(c, k)) \/ CallerStep(c)
                        \/ Leak(c)
  \/ \E l \in 1..Loops : Get(l)

Spec == Init /\ [][Next]_vars

\* Coroutines are resumed, computations end, unblocked threads run.  Nobody has
\* to call or to leak.
FairSpec ==
  /\ Spec
  /\ \A c \in Callers : WF_vars(CallerStep(c))
  /\ \A l \in 1..Loops : WF_vars(Get(l))

-----------------------------------------------------------------------------
(* Properties *)

\* A key's value is computed by at most one caller at a time, although
\* look-ups take no lock and completeTask finds and erases by key only: the
\* entry of an owner's key is the owner's own.
OneOwner ==
  /\ \A c \in Callers : pc[c] \in Owning => table[key[c]] = future[c]
  /\ \A c, d \in Callers :
       pc[c] \in Owning /\ pc[d] \in Owning /\ key[c] = key[d] => c = d

\* A caller never gets a value that was already erased when it asked: it
\* waits for a computation of its key that is in the table during its call.
AnswersAreCurrent ==
  \A c \in Callers : pc[c] \in Waiting \cup Owning => future[c] > before[c]

\* Seen from its callers, the table is looked up, filled and cleared in one step each,
\* although getPendingTask looks twice without the lock, startTask again under it, and
\* completeTask finds and erases by key.  An entry without a promise is none.
RoleOf(l) ==
  CASE l = "idle" -> "out"
    [] l \in {"find", "fetch", "start"} -> "asking"
    [] l \in {"compute", "resolve"} -> "computing"
    [] l = "erase" -> "ending"
    [] l \in Waiting -> "sharing"
Sharing == INSTANCE SingleFlight WITH
  None <- NoTask,
  current <- [k \in Keys |-> IF table[k] = Broken THEN NoTask ELSE table[k]],
  newest <- lastTask,
  ended <- resolved,
  role <- [c \in Callers |-> RoleOf(pc[c])],
  asks <- key,
  shares <- future
SharesComputations == Sharing!Spec

\* As long as every owner completes its task, every caller gets an answer:
\* waiters that block all threads of the pool do not keep an owner from
\* computing.
EveryCallEnds ==
  \A c \in Callers : pc[c] # "idle" ~> pc[c] = "idle" \/ leaks > 0

\* An unanswered promise that waiters hold has an owner who will resolve it
\* (while no owner ended without completing).
WaitersHaveOwner ==
  leaks = 0 =>
    \A c \in Callers : pc[c] \in Waiting /\ future[c] \notin resolved =>
      \E d \in Callers : pc[d] \in {"compute", "resolve"}
                         /\ future[d] = future[c]
=============================================================================
