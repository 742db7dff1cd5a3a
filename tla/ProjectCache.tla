---------------------------- MODULE ProjectCache ----------------------------
(***************************************************************************)
(* What is cached of one project in Redis: CachedProject and               *)
(* clearProjectCache.                                                      *)
(*                                                                         *)
(* A request resolves the project to the deployment that is active, looks  *)
(* a value up and, if it is not there, computes and stores it, each a      *)
(* co_await of its own.  A deployment first replaces the project's content *)
(* in the database (one transaction), later becomes the active one, and    *)
(* then has the cache cleared: the keys found by several SCANs are deleted *)
(* together.  The next deployment may begin before that is done.           *)
(*                                                                         *)
(* A value is told apart only by the deployment it was computed from.  The *)
(* CachedProject is made for the request: its pendingTasks_ is never       *)
(* shared, and left out.                                                   *)
(***************************************************************************)
EXTENDS Naturals

CONSTANTS
  Requests,        \* coroutines that read values
  Trees,           \* keys of file trees, read from the deployment's files
  Recipes,         \* keys of recipes and recipe types, read from the database
  MaxDeployments   \* bound: deployments

ASSUME BoundsAssumption ==
  /\ MaxDeployments \in Nat
  /\ Trees \cap Recipes = {}
  /\ Requests \cap (Trees \cup Recipes) = {}

Keys == Trees \cup Recipes
Dep == 1..MaxDeployments
NoDep == 0         \* no value; no deployment

VARIABLES
  phase,      \* the newest deployment: "ended", "begun", "ingested"
  lastDep,    \* its number
  active,     \* the deployment that requests are sent to
  content,    \* the deployment whose content the database has
  cache,      \* each key's value in Redis
  clearing,   \* the clear after each deployment: "no", "scan", "done"
  scanned,    \* keys its SCANs have been past
  doomed,     \* keys they have found
  pc,         \* where each request stands
  key,        \* what it reads
  view,       \* the deployment it was resolved to
  value,      \* what it has computed
  began,      \* history: the last clear that was over when it began, of the
              \* request and of each cached value's writer
  wrote       \* history: the last clear that had begun when a value was stored

deployment == <<phase, lastDep, active, content>>
clear      == <<clearing, scanned, doomed>>
request    == <<key, view, value>>
history    == <<began, wrote>>
vars       == <<deployment, cache, clear, pc, request, history>>

TypeOK ==
  /\ phase \in {"ended", "begun", "ingested"}
  /\ lastDep \in 0..MaxDeployments
  /\ active \in Dep \cup {NoDep}
  /\ content \in Dep \cup {NoDep}
  /\ cache \in [Keys -> Dep \cup {NoDep}]
  /\ clearing \in [Dep -> {"no", "scan", "done"}]
  /\ scanned \in [Dep -> SUBSET Keys]
  /\ doomed \in [Dep -> SUBSET Keys]
  /\ pc \in [Requests -> {"idle", "look", "compute", "store"}]
  /\ key \in [Requests -> Keys]
  /\ view \in [Requests -> Dep \cup {NoDep}]
  /\ value \in [Requests -> Dep \cup {NoDep}]
  /\ began \in [Requests \cup Keys -> Dep \cup {NoDep}]
  /\ wrote \in [Keys -> Dep \cup {NoDep}]

Init ==
  /\ phase = "ended"
  /\ lastDep = 0
  /\ active = NoDep
  /\ content = NoDep
  /\ cache = [k \in Keys |-> NoDep]
  /\ clearing = [d \in Dep |-> "no"]
  /\ scanned = [d \in Dep |-> {}]
  /\ doomed = [d \in Dep |-> {}]
  /\ pc = [r \in Requests |-> "idle"]
  /\ key \in [Requests -> Keys]
  /\ view = [r \in Requests |-> NoDep]
  /\ value = [r \in Requests |-> NoDep]
  /\ began = [x \in Requests \cup Keys |-> NoDep]
  /\ wrote = [k \in Keys |-> NoDep]

\* The newest deployment whose clear has come as far as one of S.
Latest(S) ==
  LET D == {d \in Dep : clearing[d] \in S}
  IN  IF D = {} THEN NoDep ELSE CHOOSE d \in D : \A e \in D : e <= d

-----------------------------------------------------------------------------
(* Deployments: see the module Deployments *)

Begin ==
  /\ phase = "ended"
  /\ lastDep < MaxDeployments
  /\ lastDep' = lastDep + 1
  /\ phase' = "begun"
  /\ UNCHANGED <<active, content, cache, clear, pc, request, history>>

\* The ingestor's transaction replaces the project's content.
Ingest ==
  /\ phase = "begun"
  /\ content' = lastDep
  /\ phase' = "ingested"
  /\ UNCHANGED <<lastDep, active, cache, clear, pc, request, history>>

\* A deployment may fail before and after that; nothing is cleared.
Fail ==
  /\ phase # "ended"
  /\ phase' = "ended"
  /\ UNCHANGED <<lastDep, active, content, cache, clear, pc, request, history>>

\* The deployment becomes the active one, and enqueueDeploy clears the cache.
Succeed ==
  /\ phase = "ingested"
  /\ active' = lastDep
  /\ clearing' = [clearing EXCEPT ![lastDep] = "scan"]
  /\ phase' = "ended"
  /\ UNCHANGED <<lastDep, content, cache, scanned, doomed, pc, request, history>>

-----------------------------------------------------------------------------
(* clearProjectCache: MemoryCache::eraseAll *)

\* (Mutant: only the first batch is scanned.)
ScanFirstBatch(d) ==
  /\ clearing[d] = "scan"
  /\ \E k \in Keys \ scanned[d] :
       /\ doomed' = [doomed EXCEPT ![d] = IF cache[k] # NoDep THEN {k} ELSE {}]
       /\ scanned' = [scanned EXCEPT ![d] = Keys]
  /\ UNCHANGED <<deployment, cache, clearing, pc, request, history>>

\* A batch of SCAN: keys that are there all the time are found, the others may
\* be missed.
Scan(d) ==
  /\ clearing[d] = "scan"
  /\ \E k \in Keys \ scanned[d] :
       /\ doomed' = [doomed EXCEPT ![d] =
                       IF cache[k] # NoDep THEN @ \cup {k} ELSE @]
       /\ scanned' = [scanned EXCEPT ![d] = @ \cup {k}]
  /\ UNCHANGED <<deployment, cache, clearing, pc, request, history>>

\* One MULTI/EXEC deletes what was found.
EraseAll(d) ==
  /\ clearing[d] = "scan"
  /\ scanned[d] = Keys
  /\ cache' = [k \in Keys |-> IF k \in doomed[d] THEN NoDep ELSE cache[k]]
  /\ clearing' = [clearing EXCEPT ![d] = "done"]
  /\ scanned' = [scanned EXCEPT ![d] = {}]
  /\ doomed' = [doomed EXCEPT ![d] = {}]
  /\ UNCHANGED <<deployment, pc, request, history>>

\* DEFAULT_EXPIRE: after 14 days.
Expire(k) ==
  /\ cache[k] # NoDep
  /\ cache' = [cache EXCEPT ![k] = NoDep]
  /\ UNCHANGED <<deployment, clear, pc, request, history>>

-----------------------------------------------------------------------------
(* Requests: getOrResolveCached *)

Goto(r, l) == pc' = [pc EXCEPT ![r] = l]

\* The request is answered.
Return(r) ==
  /\ Goto(r, "idle")
  /\ view' = [view EXCEPT ![r] = NoDep]
  /\ value' = [value EXCEPT ![r] = NoDep]

\* Storage::getProject sends the request to the active deployment.
Resolve(r, k) ==
  /\ pc[r] = "idle"
  /\ active # NoDep
  /\ key' = [key EXCEPT ![r] = k]
  /\ view' = [view EXCEPT ![r] = active]
  /\ began' = [began EXCEPT ![r] = Latest({"done"})]
  /\ Goto(r, "look")
  /\ UNCHANGED <<deployment, cache, clear, value, wrote>>

\* getFromCache: recipes are std::optional and returned if they are cached.
\* Trees are not: what is found of them is parsed and dropped.
Look(r) ==
  /\ pc[r] = "look"
  /\ IF key[r] \in Recipes /\ cache[key[r]] # NoDep
     THEN Return(r)
     ELSE Goto(r, "compute") /\ UNCHANGED <<view, value>>
  /\ UNCHANGED <<deployment, cache, clear, key, history>>

\* The supplier: trees come from the files of the request's deployment, the
\* rest from the database, which knows only the newest content.
Compute(r) ==
  /\ pc[r] = "compute"
  /\ value' = [value EXCEPT ![r] = IF key[r] \in Trees THEN view[r] ELSE content]
  /\ Goto(r, "store")
  /\ UNCHANGED <<deployment, cache, clear, key, view, history>>

\* updateCache, and the answer.
Store(r) ==
  /\ pc[r] = "store"
  /\ cache' = [cache EXCEPT ![key[r]] = value[r]]
  /\ began' = [began EXCEPT ![key[r]] = began[r]]
  /\ wrote' = [wrote EXCEPT ![key[r]] = Latest({"scan", "done"})]
  /\ Return(r)
  /\ UNCHANGED <<deployment, clear, key>>

RequestStep(r) == Look(r) \/ Compute(r) \/ Store(r)

-----------------------------------------------------------------------------
Next ==
  \/ Begin \/ Ingest \/ Fail \/ Succeed
  \/ \E d \in Dep : Scan(d) \/ EraseAll(d)
  \/ \E k \in Keys : Expire(k)
  \/ \E r \in Requests : RequestStep(r) \/ \E k \in Keys : Resolve(r, k)

Spec == Init /\ [][Next]_vars

-----------------------------------------------------------------------------
(* Properties *)

\* A value older than the last deployment whose clear is over survives only if
\* its writer overlapped that clear: it began before the clear was over, and
\* stored the value after the clear had begun.  Nothing else leaves old values
\* behind, neither the SCANs in several batches nor clears that overlap.
StaleOnlyByOverlap ==
  LET last == Latest({"done"})
  IN  \A k \in Keys : cache[k] # NoDep /\ cache[k] < last =>
        began[k] < last /\ last <= wrote[k]
=============================================================================
