------------------------ MODULE ProjectCache_proofs ------------------------
(***************************************************************************)
(* What the clearing of a project's cache guarantees, for every number of  *)
(* requests, keys and deployments; and what the trees in it hold, for      *)
(* every directory.                                                        *)
(***************************************************************************)
EXTENDS CachedTrees, TLAPS, FiniteSetTheorems, SequenceTheorems, WellFoundedInduction,
        NaturalsInduction

\* Deployments become active in their order, each when its content is in the database,
\* and each is then cleared for.
InSequence ==
    /\ \A d \in Dep : clearing[d] # "no" => d <= active
    /\ active # NoDep => clearing[active] # "no"
    /\ active <= content /\ content <= lastDep
    /\ phase # "ended" => active < lastDep
    /\ phase = "ingested" => content = lastDep

\* A request reads nothing older than the clear that was over when it began.
ReadsNothingOlder ==
    /\ \A r \in Requests : pc[r] # "idle" =>
          /\ began[r] <= view[r] /\ began[r] <= active
          /\ pc[r] = "store" => began[r] <= value[r]
    /\ \A k \in Keys : cache[k] # NoDep => began[k] <= cache[k]

\* What the SCANs of a clear have been past is found, or was written after the clear began.
FoundOrNew ==
    /\ \A d \in Dep : clearing[d] # "scan" => scanned[d] = {}
    /\ \A d \in Dep, k \in Keys :
          clearing[d] = "scan" /\ k \in scanned[d] /\ cache[k] # NoDep /\ wrote[k] < d
              => k \in doomed[d]

\* What is older than the last clear that is over was written after it began.
OldIsLate ==
    \A k \in Keys : cache[k] # NoDep /\ cache[k] < Latest({"done"}) => Latest({"done"}) <= wrote[k]

Inv == TypeOK /\ InSequence /\ ReadsNothingOlder /\ FoundOrNew /\ OldIsLate

-----------------------------------------------------------------------------
\* A set of deployments has a newest one.
LEMMA Newest ==
    ASSUME NEW D \in SUBSET Dep, D # {}
    PROVE \E d \in D : \A e \in D : e <= d
<1> DEFINE N == {MaxDeployments - d : d \in D}
           R == {ss \in Nat \X Nat : ss[1] < ss[2]}
<1>1. N \in SUBSET Nat /\ N # {}
  BY BoundsAssumption DEF Dep
<1>2. IsWellFoundedOn(R, Nat)
  BY NatLessThanWellFounded DEF OpToRel
<1>3. PICK n \in N : \A m \in N : ~ (<<m, n>> \in R)
  <2> HIDE DEF N, R
  <2> QED BY <1>1, <1>2, WFMin, Zenon
<1>4. PICK d \in D : n = MaxDeployments - d
  BY <1>3
<1>5. \A e \in D : ~ (MaxDeployments - e < MaxDeployments - d)
  BY <1>1, <1>3, <1>4
<1>6. \A e \in D : e <= d
  BY <1>5, BoundsAssumption DEF Dep
<1> QED BY <1>6

\* The newest deployment whose clear has come as far as one of S.
LEMMA LatestIs ==
    ASSUME NEW S
    PROVE /\ Latest(S) \in Dep \cup {NoDep}
          /\ \A d \in Dep : clearing[d] \in S => d <= Latest(S)
          /\ Latest(S) # NoDep => clearing[Latest(S)] \in S
<1> DEFINE D == {d \in Dep : clearing[d] \in S}
<1>1. D # {} => \E d \in D : \A e \in D : e <= d
  BY Newest
<1>2. 0 \notin Dep
  BY DEF Dep
<1> QED BY <1>1, <1>2 DEF Latest, NoDep

\* The newest whose clear has begun is the active one.
LEMMA LatestIsActive ==
    ASSUME TypeOK, InSequence
    PROVE Latest({"scan", "done"}) = active
<1>1. \A d \in Dep : clearing[d] # "no" <=> clearing[d] \in {"scan", "done"}
  BY DEF TypeOK
<1>2. \A d \in Dep : d \in Nat /\ d # NoDep
  BY DEF Dep, NoDep
<1>3. active # NoDep => active \in Dep /\ active <= Latest({"scan", "done"})
  BY <1>1, LatestIs DEF TypeOK, InSequence
<1>4. Latest({"scan", "done"}) # NoDep => Latest({"scan", "done"}) \in Dep /\ Latest({"scan", "done"}) <= active
  BY <1>1, LatestIs DEF InSequence
<1> QED BY <1>2, <1>3, <1>4 DEF TypeOK, NoDep, Dep

\* A clear that is over is of a deployment that became active.
LEMMA DoneIsActive ==
    ASSUME TypeOK, InSequence
    PROVE Latest({"done"}) <= active /\ Latest({"done"}) \in Nat /\ active \in Nat
<1>1. Latest({"done"}) # NoDep => Latest({"done"}) \in Dep /\ clearing[Latest({"done"})] # "no"
  BY LatestIs
<1> QED BY <1>1, LatestIs DEF InSequence, TypeOK, Dep, NoDep

\* Types hold.
LEMMA TypeStep ==
    ASSUME TypeOK, [Next]_vars
    PROVE TypeOK'
<1> USE BoundsAssumption DEF TypeOK, Dep, NoDep
<1>a. \A S : Latest(S) \in Dep \cup {NoDep}
  BY LatestIs
<1>1. CASE Begin
  BY <1>1 DEF Begin, clear, request, history
<1>2. CASE Fail
  BY <1>2 DEF Fail, clear, request, history
<1>3. CASE Ingest \/ Succeed
  BY <1>3 DEF Ingest, Succeed, clear, request, history
<1>4. ASSUME NEW d \in Dep, Scan(d) PROVE TypeOK'
  BY <1>4 DEF Scan, deployment, request, history
<1>5. ASSUME NEW d \in Dep, EraseAll(d) PROVE TypeOK'
  BY <1>5 DEF EraseAll, deployment, request, history
<1>6. ASSUME NEW k \in Keys, Expire(k) PROVE TypeOK'
  BY <1>6 DEF Expire, deployment, clear, request, history
<1>7. ASSUME NEW r \in Requests, NEW k \in Keys, Resolve(r, k) PROVE TypeOK'
  BY <1>7, <1>a DEF Resolve, Goto, deployment, clear
<1>8. ASSUME NEW r \in Requests, Look(r) PROVE TypeOK'
  BY <1>8 DEF Look, Goto, Return, deployment, clear, history
<1>9. ASSUME NEW r \in Requests, Compute(r) PROVE TypeOK'
  BY <1>9 DEF Compute, Goto, deployment, clear, history
<1>10. ASSUME NEW r \in Requests, Store(r) PROVE TypeOK'
  BY <1>10, <1>a DEF Store, Goto, Return, deployment, clear
<1>11. CASE UNCHANGED vars
  BY <1>11 DEF vars, deployment, clear, request, history
<1> QED BY <1>1, <1>2, <1>3, <1>4, <1>5, <1>6, <1>7, <1>8, <1>9, <1>10, <1>11 DEF Next, RequestStep

\* Each deployment goes its way to the end before the next begins.
LEMMA SequenceStep ==
    ASSUME TypeOK, InSequence, [Next]_vars
    PROVE InSequence'
<1> USE BoundsAssumption DEF TypeOK, InSequence, Dep, NoDep
<1>1. CASE Begin
  BY <1>1 DEF Begin, clear
<1>2. CASE Ingest
  BY <1>2 DEF Ingest, clear
<1>3. CASE Fail
  BY <1>3 DEF Fail, clear
<1>4. CASE Succeed
  <2>1. /\ active' = lastDep /\ lastDep' = lastDep /\ content' = content /\ phase' = "ended"
        /\ content = lastDep /\ active < lastDep /\ lastDep \in 1..MaxDeployments
        /\ clearing' = [clearing EXCEPT ![lastDep] = "scan"]
    BY <1>4 DEF Succeed
  <2>2. \A d \in 1..MaxDeployments : clearing'[d] = IF d = lastDep THEN "scan" ELSE clearing[d]
    BY <2>1
  <2> QED BY <2>1, <2>2
<1>5. ASSUME NEW d \in Dep, Scan(d) PROVE InSequence'
  BY <1>5 DEF Scan, deployment
<1>6. ASSUME NEW d \in Dep, EraseAll(d) PROVE InSequence'
  BY <1>6 DEF EraseAll, deployment
<1>7. ASSUME NEW k \in Keys, Expire(k) PROVE InSequence'
  BY <1>7 DEF Expire, deployment, clear
<1>8. ASSUME NEW r \in Requests, NEW k \in Keys, Resolve(r, k) PROVE InSequence'
  BY <1>8 DEF Resolve, deployment, clear
<1>9. ASSUME NEW r \in Requests, RequestStep(r) PROVE InSequence'
  BY <1>9 DEF RequestStep, Look, Compute, Store, deployment, clear
<1>10. CASE UNCHANGED vars
  BY <1>10 DEF vars, deployment, clear
<1> QED BY <1>1, <1>2, <1>3, <1>4, <1>5, <1>6, <1>7, <1>8, <1>9, <1>10 DEF Next

\* What a request has read, and stores, is not older.
LEMMA ReadsStep ==
    ASSUME TypeOK, InSequence, ReadsNothingOlder, [Next]_vars
    PROVE ReadsNothingOlder'
<1> USE BoundsAssumption DEF TypeOK, ReadsNothingOlder, Dep, NoDep
<1>0. \A k \in Keys : k \notin Requests
  BY DEF Keys
<1>1. CASE Begin \/ Ingest \/ Fail
  BY <1>1 DEF Begin, Ingest, Fail, request, history, clear
<1>4. CASE Succeed
  <2>1. active' >= active /\ active' \in Nat
    BY <1>4 DEF Succeed, InSequence
  <2>2. UNCHANGED <<cache, pc, began, view, value>>
    BY <1>4 DEF Succeed, request, history
  <2> QED BY <2>1, <2>2
<1>5. ASSUME NEW d \in Dep, Scan(d) \/ EraseAll(d) PROVE ReadsNothingOlder'
  BY <1>5 DEF Scan, EraseAll, deployment, request, history
<1>7. ASSUME NEW k \in Keys, Expire(k) PROVE ReadsNothingOlder'
  BY <1>7 DEF Expire, deployment, clear, request, history
<1>8. ASSUME NEW r \in Requests, NEW k \in Keys, Resolve(r, k) PROVE ReadsNothingOlder'
  <2>1. Latest({"done"}) <= active
    BY DoneIsActive
  <2> QED BY <1>0, <1>8, <2>1 DEF Resolve, Goto, deployment
<1>9. ASSUME NEW r \in Requests, Look(r) PROVE ReadsNothingOlder'
  BY <1>9 DEF Look, Goto, Return, deployment, history
<1>10. ASSUME NEW r \in Requests, Compute(r) PROVE ReadsNothingOlder'
  <2>1. active <= content
    BY DEF InSequence
  <2>2. pc[r] # "idle" /\ began[r] <= view[r] /\ began[r] <= content
    BY <1>10, <2>1 DEF Compute
  <2> QED BY <1>10, <2>2 DEF Compute, Goto, deployment, history
<1>11. ASSUME NEW r \in Requests, Store(r) PROVE ReadsNothingOlder'
  <2>1. /\ pc[r] = "store" /\ began[r] <= value[r] /\ key[r] \in Keys
        /\ cache' = [cache EXCEPT ![key[r]] = value[r]]
        /\ began' = [began EXCEPT ![key[r]] = began[r]]
        /\ pc' = [pc EXCEPT ![r] = "idle"]
        /\ view' = [view EXCEPT ![r] = 0] /\ value' = [value EXCEPT ![r] = 0]
        /\ active' = active
    BY <1>11 DEF Store, Return, Goto, deployment
  <2>2. \A q \in Requests : began'[q] = began[q]
    BY <1>0, <2>1
  <2>3. \A k \in Keys : cache'[k] # 0 => began'[k] <= cache'[k]
    BY <2>1
  <2> QED BY <2>1, <2>2, <2>3
<1>12. CASE UNCHANGED vars
  BY <1>12 DEF vars, deployment, clear, request, history
<1> QED BY <1>1, <1>4, <1>5, <1>7, <1>8, <1>9, <1>10, <1>11, <1>12 DEF Next, RequestStep

\* A SCAN passes a key that is there only if it finds it.
LEMMA FoundStep ==
    ASSUME TypeOK, InSequence, FoundOrNew, [Next]_vars
    PROVE FoundOrNew'
<1> USE BoundsAssumption DEF TypeOK, FoundOrNew, Dep, NoDep
<1>1. CASE Begin \/ Ingest \/ Fail
  BY <1>1 DEF Begin, Ingest, Fail, history, clear
<1>4. CASE Succeed
  <2>1. phase = "ingested" /\ active < lastDep /\ lastDep \in 1..MaxDeployments
    BY <1>4 DEF Succeed, InSequence
  <2>2. clearing[lastDep] = "no"
    BY <2>1 DEF InSequence
  <2> QED BY <1>4, <2>1, <2>2 DEF Succeed, history
<1>5. ASSUME NEW d \in Dep, Scan(d) PROVE FoundOrNew'
  BY <1>5 DEF Scan, history
<1>6. ASSUME NEW d \in Dep, EraseAll(d) PROVE FoundOrNew'
  BY <1>6 DEF EraseAll, history
<1>7. ASSUME NEW k \in Keys, Expire(k) PROVE FoundOrNew'
  BY <1>7 DEF Expire, clear, history
<1>8. ASSUME NEW r \in Requests, NEW k \in Keys, Resolve(r, k) PROVE FoundOrNew'
  BY <1>8 DEF Resolve, clear
<1>9. ASSUME NEW r \in Requests, Look(r) \/ Compute(r) PROVE FoundOrNew'
  BY <1>9 DEF Look, Compute, clear, history
<1>10. ASSUME NEW r \in Requests, Store(r) PROVE FoundOrNew'
  <2>1. /\ wrote' = [wrote EXCEPT ![key[r]] = active]
        /\ cache' = [cache EXCEPT ![key[r]] = value[r]]
        /\ UNCHANGED <<clearing, scanned, doomed>>
    BY <1>10, LatestIsActive DEF Store, clear
  <2>2. \A d \in 1..MaxDeployments : clearing[d] = "scan" => ~ (active < d)
    BY DEF InSequence
  <2> QED BY <2>1, <2>2
<1>11. CASE UNCHANGED vars
  BY <1>11 DEF vars, clear, history
<1> QED BY <1>1, <1>4, <1>5, <1>6, <1>7, <1>8, <1>9, <1>10, <1>11 DEF Next, RequestStep

\* The same of the next state.
LEMMA LatestNext ==
    ASSUME NEW CONSTANT S
    PROVE /\ Latest(S)' \in Dep \cup {NoDep}
          /\ \A d \in Dep : clearing'[d] \in S => d <= Latest(S)'
          /\ Latest(S)' # NoDep => clearing'[Latest(S)'] \in S
<1> DEFINE D == {d \in Dep : clearing'[d] \in S}
<1>1. D # {} => \E d \in D : \A e \in D : e <= d
  BY Newest
<1>2. 0 \notin Dep
  BY DEF Dep
<1> QED BY <1>1, <1>2 DEF Latest, NoDep

\* The newest clear that has come so far is the same if the same have.
LEMMA LatestStays ==
    ASSUME NEW CONSTANT S, \A d \in Dep : clearing'[d] \in S <=> clearing[d] \in S
    PROVE Latest(S)' = Latest(S)
<1>1. /\ Latest(S)' \in Dep \cup {NoDep}
      /\ \A d \in Dep : clearing'[d] \in S => d <= Latest(S)'
      /\ Latest(S)' # NoDep => clearing'[Latest(S)'] \in S
  BY LatestNext
<1>2. /\ Latest(S) \in Dep \cup {NoDep}
      /\ \A d \in Dep : clearing[d] \in S => d <= Latest(S)
      /\ Latest(S) # NoDep => clearing[Latest(S)] \in S
  BY LatestIs
<1>3. Latest(S)' <= Latest(S)
  BY <1>1, <1>2 DEF Dep, NoDep
<1>4. Latest(S) <= Latest(S)'
  BY <1>1, <1>2 DEF Dep, NoDep
<1>5. Latest(S) \in Nat /\ Latest(S)' \in Nat
  BY <1>1, <1>2 DEF Dep, NoDep
<1> QED BY <1>3, <1>4, <1>5

\* A clear that ends leaves what was written after it began.
LEMMA OldIsLateStep ==
    ASSUME TypeOK, InSequence, FoundOrNew, OldIsLate, [Next]_vars
    PROVE OldIsLate'
<1> DEFINE last == Latest({"done"})
<1>0. /\ cache \in [Keys -> Dep \cup {NoDep}] /\ wrote \in [Keys -> Dep \cup {NoDep}]
      /\ clearing \in [Dep -> {"no", "scan", "done"}] /\ last \in Dep \cup {NoDep}
  BY LatestIs DEF TypeOK
<1>a. ASSUME UNCHANGED <<cache, wrote, clearing>> PROVE OldIsLate'
  BY <1>a DEF OldIsLate, Latest
<1>1. CASE Begin \/ Ingest \/ Fail
  BY <1>1, <1>a DEF Begin, Ingest, Fail, history, clear
<1>4. CASE Succeed
  <2>1. UNCHANGED <<cache, wrote>> /\ clearing' = [clearing EXCEPT ![lastDep] = "scan"]
        /\ active < lastDep /\ lastDep \in 0..MaxDeployments
    BY <1>4 DEF Succeed, history, InSequence, TypeOK
  <2>2. \A d \in Dep : clearing'[d] = "done" <=> clearing[d] = "done"
    <3> SUFFICES ASSUME NEW d \in Dep, d = lastDep PROVE clearing[d] = "no"
      BY <2>1, <1>0
    <3> QED BY <2>1 DEF InSequence, TypeOK, Dep, NoDep
  <2>3. Latest({"done"})' = last
    BY <2>2, LatestStays
  <2> QED BY <2>1, <2>3 DEF OldIsLate
<1>5. ASSUME NEW d \in Dep, Scan(d) PROVE OldIsLate'
  BY <1>5, <1>a DEF Scan, history
<1>6. ASSUME NEW d \in Dep, EraseAll(d) PROVE OldIsLate'
  <2>1. /\ clearing[d] = "scan" /\ scanned[d] = Keys
        /\ \A k \in Keys : cache'[k] = IF k \in doomed[d] THEN NoDep ELSE cache[k]
        /\ \A e \in Dep : clearing'[e] = IF e = d THEN "done" ELSE clearing[e]
        /\ wrote' = wrote
    BY <1>0, <1>6 DEF EraseAll, history
  <2>2. \A k \in Keys : cache'[k] # NoDep => cache[k] = cache'[k] /\ ~ (wrote[k] < d)
    BY <2>1 DEF FoundOrNew
  <2>3. Latest({"done"})' \in {last, d}
    <3> DEFINE new == Latest({"done"})'
    <3>1. /\ new \in Dep \cup {NoDep}
          /\ \A e \in Dep : clearing'[e] = "done" => e <= new
          /\ new # NoDep => clearing'[new] = "done"
      BY LatestNext
    <3>2. /\ \A e \in Dep : clearing[e] = "done" => e <= last
          /\ last # NoDep => clearing[last] = "done"
      BY LatestIs
    <3> HIDE DEF new, last
    <3>3. new # NoDep
      BY <2>1, <3>1 DEF Dep, NoDep
    <3>4. ASSUME new # d PROVE new = last
      <4>1. new \in Dep /\ clearing[new] = "done"
        BY <2>1, <3>1, <3>3, <3>4
      <4>2. new <= last
        BY <3>2, <4>1
      <4>3. last # NoDep /\ last \in Dep
        BY <1>0, <4>1, <4>2 DEF Dep, NoDep
      <4>4. last <= new
        BY <2>1, <3>1, <3>2, <4>3
      <4>5. new \in Nat /\ last \in Nat
        BY <4>1, <4>3 DEF Dep
      <4>6. new = last
        BY <4>2, <4>4, <4>5
      <4> QED BY <4>6
    <3>5. new = d \/ new = last
      BY <3>4
    <3> QED BY <3>5, Zenon DEF last, new
  <2> QED BY <1>0, <2>1, <2>2, <2>3 DEF OldIsLate, Dep, NoDep
<1>7. ASSUME NEW k \in Keys, Expire(k) PROVE OldIsLate'
  <2>1. Latest({"done"})' = last /\ wrote' = wrote /\ cache' = [cache EXCEPT ![k] = NoDep]
    BY <1>7 DEF Expire, clear, history, Latest
  <2> QED BY <1>0, <2>1 DEF OldIsLate
<1>8. ASSUME NEW r \in Requests, NEW k \in Keys, Resolve(r, k) PROVE OldIsLate'
  BY <1>8, <1>a DEF Resolve, clear
<1>9. ASSUME NEW r \in Requests, Look(r) \/ Compute(r) PROVE OldIsLate'
  BY <1>9, <1>a DEF Look, Compute, clear, history
<1>10. ASSUME NEW r \in Requests, Store(r) PROVE OldIsLate'
  <2>1. /\ wrote' = [wrote EXCEPT ![key[r]] = active]
        /\ cache' = [cache EXCEPT ![key[r]] = value[r]]
        /\ clearing' = clearing
    BY <1>10, LatestIsActive DEF Store, clear
  <2>a. Latest({"done"})' = last
    BY <2>1, LatestStays
  <2>2. last <= active
    BY DoneIsActive
  <2> SUFFICES ASSUME NEW k \in Keys, cache'[k] # NoDep /\ cache'[k] < last
               PROVE  wrote'[k] >= last
    BY <2>a DEF OldIsLate
  <2>3. CASE k = key[r]
    BY <1>0, <2>1, <2>2, <2>3
  <2>4. CASE k # key[r]
    BY <1>0, <2>1, <2>4 DEF OldIsLate
  <2> QED BY <2>3, <2>4
<1>11. CASE UNCHANGED vars
  BY <1>11, <1>a DEF vars, clear, history
<1> QED BY <1>1, <1>4, <1>5, <1>6, <1>7, <1>8, <1>9, <1>10, <1>11 DEF Next, RequestStep

\* At the start nothing is cached.
LEMMA InvInit ==
    ASSUME Init
    PROVE Inv
<1>1. TypeOK
  BY BoundsAssumption DEF Init, TypeOK, Dep, NoDep
<1>2. InSequence /\ ReadsNothingOlder /\ FoundOrNew /\ OldIsLate
  BY DEF Init, InSequence, ReadsNothingOlder, FoundOrNew, OldIsLate, NoDep, Dep
<1> QED BY <1>1, <1>2 DEF Inv

\* The invariant implies the property.
LEMMA InvOverlap ==
    ASSUME Inv
    PROVE StaleOnlyByOverlap
<1>1. /\ cache \in [Keys -> Dep \cup {NoDep}]
      /\ began \in [Requests \cup Keys -> Dep \cup {NoDep}]
  BY DEF Inv, TypeOK
<1>2. Latest({"done"}) \in Dep \cup {NoDep}
  BY LatestIs
<1> QED BY <1>1, <1>2 DEF Inv, StaleOnlyByOverlap, ReadsNothingOlder, OldIsLate, Dep, NoDep

\* Types hold.
THEOREM TypeCorrect == Spec => []TypeOK
<1>1. TypeOK /\ [Next]_vars => TypeOK'
  BY TypeStep
<1>2. Init => TypeOK
  BY InvInit DEF Inv
<1> QED BY <1>1, <1>2, PTL DEF Spec

\* A cached value that is older than the last deployment whose clear is over comes from a
\* request that overlapped that clear, for any number of requests, keys and clears.
THEOREM StaleOnlyByOverlapHolds == Spec => []StaleOnlyByOverlap
<1>1. Inv /\ [Next]_vars => Inv'
  BY TypeStep, SequenceStep, ReadsStep, FoundStep, OldIsLateStep DEF Inv
<1> QED BY <1>1, InvInit, InvOverlap, PTL DEF Spec

-----------------------------------------------------------------------------
(* The trees of pages *)

\* Numbers have a least one.
LEMMA Below ==
    ASSUME NEW T, T \subseteq Nat, T # {}
    PROVE  \E x \in T : \A y \in T : ~ (y < x)
<1>1. IsWellFoundedOn(OpToRel(<, Nat), Nat)
  BY NatLessThanWellFounded
<1>2. PICK x \in T : \A y \in T : ~ (<<y, x>> \in OpToRel(<, Nat))
  BY <1>1, WFMin
<1> QED BY <1>2 DEF OpToRel

\* What holds of 0 and of the next number holds of all.
LEMMA NatSet ==
    ASSUME NEW S, 0 \in S, \A n \in Nat : n \in S => n + 1 \in S
    PROVE  \A n \in Nat : n \in S
<1> DEFINE T == {n \in Nat : n \notin S}
<1> SUFFICES ASSUME T # {} PROVE FALSE
  OBVIOUS
<1>1. PICK x \in T : \A y \in T : ~ (y < x)
  BY Below
<1>2. x # 0 /\ x - 1 \in Nat
  OBVIOUS
<1>3. x - 1 \in S
  BY <1>1, <1>2
<1> QED BY <1>2, <1>3

\* Sets of subsets that grow by one element have a finite set.
LEMMA SetInduct ==
    ASSUME NEW S, IsFiniteSet(S), NEW P, {} \in P,
           \A s \in SUBSET S : \A x \in S : s \in P /\ x \notin s => s \cup {x} \in P
    PROVE  S \in P
<1> DEFINE Q == {n \in Nat : \A s \in SUBSET S : IsFiniteSet(s) /\ Cardinality(s) = n => s \in P}
<1>1. 0 \in Q
  BY FS_EmptySet
<1>2. ASSUME NEW n \in Nat, n \in Q PROVE n + 1 \in Q
  <2> SUFFICES ASSUME NEW s \in SUBSET S, IsFiniteSet(s), Cardinality(s) = n + 1 PROVE s \in P
    OBVIOUS
  <2>1. s # {}
    BY FS_EmptySet
  <2>2. PICK x \in s : TRUE
    BY <2>1
  <2>3. IsFiniteSet(s \ {x}) /\ Cardinality(s \ {x}) = n
    <3>1. IsFiniteSet(s \ {x}) /\ Cardinality(s \ {x}) = Cardinality(s) - 1
      BY FS_RemoveElement
    <3> QED BY <3>1
  <2>4. s \ {x} \in P
    BY <1>2, <2>3
  <2>5. (s \ {x}) \cup {x} = s /\ x \in S /\ x \notin s \ {x} /\ s \ {x} \in SUBSET S
    OBVIOUS
  <2>6. (s \ {x}) \cup {x} \in P
    BY <2>4, <2>5
  <2> QED BY <2>5, <2>6
<1> HIDE DEF Q
<1>3. Cardinality(S) \in Q
  BY <1>1, <1>2, NatSet, FS_CardinalityType
<1> QED BY <1>3 DEF Q

-----------------------------------------------------------------------------
Paths == Seq(Nat)

\* The path of a name in a directory.
LEMMA Grown ==
    ASSUME NEW dir \in Paths, NEW n \in Nat
    PROVE  /\ Append(dir, n) \in Paths /\ Len(Append(dir, n)) = Len(dir) + 1
           /\ \A i \in 1..Len(dir) : Append(dir, n)[i] = dir[i]
           /\ Append(dir, n)[Len(dir) + 1] = n
           /\ Front(Append(dir, n)) = dir
<1> DEFINE p == Append(dir, n)
<1>1. /\ p \in Paths /\ Len(p) = Len(dir) + 1
      /\ \A i \in 1..Len(dir) : p[i] = dir[i]
      /\ p[Len(dir) + 1] = n
  BY DEF Paths
<1> HIDE DEF p
<1>2. Front(p) = [i \in 1..Len(dir) |-> p[i]]
  <2>1. Front(p) = SubSeq(p, 1, Len(dir))
    BY <1>1 DEF Front, Paths
  <2> QED BY <1>1, <2>1 DEF Paths
<1>3. dir = [i \in 1..Len(dir) |-> dir[i]]
  BY DEF Paths
<1>4. Front(p) = dir
  BY <1>1, <1>2, <1>3
<1> QED BY <1>1, <1>4 DEF p

\* What are directories: those that files are in.
LEMMA FolderIs ==
    ASSUME NEW d, DOMAIN d.files \subseteq Paths, NEW x
    PROVE  x \in Folders(d) <=>
             (x = <<>> \/ (x \in Paths /\ Len(x) # 0 /\ \E p \in DOMAIN d.files : Under(x, p)))
<1>1. ASSUME NEW p \in DOMAIN d.files, NEW n \in 1..(Len(p) - 1)
      PROVE  /\ SubSeq(p, 1, n) \in Paths /\ Len(SubSeq(p, 1, n)) = n
             /\ \A i \in 1..n : SubSeq(p, 1, n)[i] = p[i]
  <2>1. p \in Seq(Nat) /\ n \in Nat /\ n <= Len(p)
    BY DEF Paths
  <2> QED BY <2>1 DEF Paths
<1>2. ASSUME x \in Folders(d), x # <<>>
      PROVE  x \in Paths /\ Len(x) # 0 /\ \E p \in DOMAIN d.files : Under(x, p)
  <2>1. PICK p \in DOMAIN d.files : \E n \in 1..(Len(p) - 1) : x = SubSeq(p, 1, n)
    BY <1>2 DEF Folders
  <2>2. PICK n \in 1..(Len(p) - 1) : x = SubSeq(p, 1, n)
    BY <2>1
  <2>3. x \in Paths /\ Len(x) = n /\ \A i \in 1..n : x[i] = p[i]
    BY <1>1, <2>2
  <2>4. n < Len(p) /\ n # 0
    BY DEF Paths
  <2> QED BY <2>3, <2>4 DEF Under
<1>3. ASSUME x \in Paths, Len(x) # 0, NEW p \in DOMAIN d.files, Under(x, p)
      PROVE  x \in Folders(d)
  <2> DEFINE n == Len(x)
  <2>1. n \in Nat /\ n # 0 /\ n < Len(p) /\ Len(p) \in Nat /\ \A i \in 1..n : p[i] = x[i]
    BY <1>3 DEF Under, Paths
  <2>2. n \in 1..(Len(p) - 1)
    BY <2>1
  <2>3. x = [i \in 1..n |-> x[i]]
    BY <1>3 DEF Paths
  <2> HIDE DEF n
  <2>4. SubSeq(p, 1, n) = [i \in 1..n |-> p[i]]
    <3>1. p \in Seq(Nat)
      BY DEF Paths
    <3> QED BY <2>1, <2>2, <3>1
  <2>5. x = SubSeq(p, 1, n)
    BY <2>1, <2>3, <2>4
  <2> QED BY <2>2, <2>5 DEF Folders
<1>4. <<>> \in Folders(d)
  BY DEF Folders
<1> QED BY <1>2, <1>3, <1>4

\* Metadata lists names.
MetaOK(meta) == DOMAIN meta \subseteq Nat
At(meta, x) == {i \in DOMAIN meta : meta[i].key = x}

\* What comes before is found earlier.
LEMMA BeforeIs ==
    ASSUME NEW meta, NEW a, NEW b
    PROVE  Before(meta, a, b) <=>
             IF meta = <<>> THEN a < b
             ELSE At(meta, a) # {} /\ \A i \in At(meta, a) : \A j \in At(meta, b) : i < j
  BY DEF Before, At

\* Before is a strict order.
LEMMA BeforeOrders ==
    ASSUME NEW meta, MetaOK(meta), NEW a \in Nat, NEW b \in Nat, NEW c \in Nat
    PROVE  /\ ~ Before(meta, a, a)
           /\ Before(meta, a, b) /\ Before(meta, b, c) => Before(meta, a, c)
<1>1. \A x : At(meta, x) \subseteq Nat
  BY DEF MetaOK, At
<1>2. ASSUME meta # <<>>, Before(meta, a, a) PROVE FALSE
  <2>1. PICK i \in At(meta, a) : TRUE
    BY <1>2, BeforeIs
  <2>2. i < i
    BY <1>2, BeforeIs
  <2> QED BY <1>1, <2>2
<1>3. ASSUME meta # <<>>, Before(meta, a, b), Before(meta, b, c) PROVE Before(meta, a, c)
  <2>1. PICK j \in At(meta, b) : TRUE
    BY <1>3, BeforeIs
  <2>2. ASSUME NEW i \in At(meta, a), NEW k \in At(meta, c) PROVE i < k
    <3>1. i < j /\ j < k
      BY <1>3, BeforeIs
    <3> QED BY <1>1, <3>1
  <2>3. At(meta, a) # {}
    BY <1>3, BeforeIs
  <2> QED BY <1>3, <2>2, <2>3, BeforeIs
<1>4. CASE meta = <<>>
  BY <1>4, BeforeIs
<1> QED BY <1>2, <1>3, <1>4

\* Some name comes first.
LEMMA Least ==
    ASSUME NEW meta, MetaOK(meta), NEW S \in SUBSET Nat, IsFiniteSet(S), S # {}
    PROVE  \E x \in S : \A y \in S : ~ Before(meta, y, x)
<1> DEFINE P == {s \in SUBSET S : s = {} \/ \E x \in s : \A y \in s : ~ Before(meta, y, x)}
<1>1. {} \in P
  OBVIOUS
<1>2. ASSUME NEW s \in SUBSET S, NEW z \in S, s \in P, z \notin s
      PROVE  s \cup {z} \in P
  <2>1. CASE s = {}
    <3>1. ~ Before(meta, z, z)
      BY BeforeOrders
    <3> QED BY <2>1, <3>1
  <2>2. CASE s # {}
    <3>1. PICK x \in s : \A y \in s : ~ Before(meta, y, x)
      BY <1>2, <2>2
    <3>2. CASE Before(meta, z, x)
      <4>1. ASSUME NEW y \in s \cup {z} PROVE ~ Before(meta, y, z)
        <5>1. y \in Nat /\ z \in Nat /\ x \in Nat
          OBVIOUS
        <5> QED BY <3>1, <3>2, <5>1, BeforeOrders
      <4> QED BY <4>1
    <3>3. CASE ~ Before(meta, z, x)
      BY <3>1, <3>3
    <3> QED BY <3>2, <3>3
  <2> QED BY <2>1, <2>2
<1> HIDE DEF P
<1>3. S \in P
  BY <1>1, <1>2, SetInduct
<1> QED BY <1>3 DEF P

\* s lists the names in order, each once.
InOrder(s, names, meta) ==
    /\ s \in [1..Cardinality(names) -> names]
    /\ \A i, j \in 1..Cardinality(names) : i # j => s[i] # s[j]
    /\ \A i, j \in 1..Cardinality(names) : i < j => ~ Before(meta, s[j], s[i])

\* Names can be put in order.
LEMMA OrderExists ==
    ASSUME NEW meta, MetaOK(meta), NEW S \in SUBSET Nat, IsFiniteSet(S)
    PROVE  \E s : InOrder(s, S, meta)
<1> DEFINE T == {n \in Nat : \A t \in SUBSET S : Cardinality(t) = n => \E s : InOrder(s, t, meta)}
<1>1. 0 \in T
  <2> SUFFICES ASSUME NEW t \in SUBSET S, Cardinality(t) = 0 PROVE \E s : InOrder(s, t, meta)
    OBVIOUS
  <2> DEFINE s == [i \in 1..0 |-> i]
  <2>1. InOrder(s, t, meta)
    BY DEF InOrder
  <2> QED BY <2>1
<1>2. ASSUME NEW n \in Nat, n \in T PROVE n + 1 \in T
  <2> SUFFICES ASSUME NEW t \in SUBSET S, Cardinality(t) = n + 1 PROVE \E s : InOrder(s, t, meta)
    OBVIOUS
  <2>1. IsFiniteSet(t) /\ t \in SUBSET Nat
    BY FS_Subset
  <2>2. t # {}
    BY FS_EmptySet
  <2>3. PICK x \in t : \A y \in t : ~ Before(meta, y, x)
    BY <2>1, <2>2, Least
  <2> DEFINE u == t \ {x}
  <2>4. Cardinality(u) = n
    <3>1. Cardinality(u) = Cardinality(t) - 1
      BY <2>1, FS_RemoveElement
    <3> QED BY <3>1
  <2>5. PICK f : InOrder(f, u, meta)
    BY <1>2, <2>4
  <2>6. /\ f \in [1..n -> u]
        /\ \A i, j \in 1..n : i # j => f[i] # f[j]
        /\ \A i, j \in 1..n : i < j => ~ Before(meta, f[j], f[i])
    BY <2>4, <2>5 DEF InOrder
  <2> DEFINE s == [i \in 1..(n + 1) |-> IF i = 1 THEN x ELSE f[i - 1]]
  <2>7. /\ s[1] = x
        /\ \A i \in 1..(n + 1) : i # 1 => i - 1 \in 1..n /\ s[i] = f[i - 1] /\ f[i - 1] \in u
    BY <2>6
  <2>8. s \in [1..(n + 1) -> t]
    BY <2>7
  <2>9. \A i \in 1..(n + 1) : i = 1 \/ i - 1 \in 1..n
    OBVIOUS
  <2> HIDE DEF s
  <2>10. ASSUME NEW i \in 1..(n + 1), NEW j \in 1..(n + 1), i # j PROVE s[i] # s[j]
    <3>1. CASE i = 1
      BY <2>7, <2>10, <3>1
    <3>2. CASE j = 1
      BY <2>7, <2>10, <3>2
    <3>3. CASE i # 1 /\ j # 1
      <4>1. i - 1 # j - 1
        BY <2>10
      <4> QED BY <2>6, <2>7, <3>3, <4>1
    <3> QED BY <3>1, <3>2, <3>3
  <2>11. ASSUME NEW i \in 1..(n + 1), NEW j \in 1..(n + 1), i < j PROVE ~ Before(meta, s[j], s[i])
    <3>1. j # 1
      BY <2>11
    <3>2. CASE i = 1
      BY <2>3, <2>7, <3>1, <3>2
    <3>3. CASE i # 1
      <4>1. i - 1 < j - 1
        BY <2>11
      <4> QED BY <2>6, <2>7, <3>1, <3>3, <4>1
    <3> QED BY <3>2, <3>3
  <2>12. InOrder(s, t, meta)
    BY <2>8, <2>10, <2>11 DEF InOrder
  <2> QED BY <2>12
<1> HIDE DEF T
<1>3. Cardinality(S) \in T
  BY <1>1, <1>2, NatSet, FS_CardinalityType
<1> QED BY <1>3 DEF T

\* Names are listed, each once, in order.
LEMMA SortedIs ==
    ASSUME NEW meta, MetaOK(meta), NEW S \in SUBSET Nat, IsFiniteSet(S)
    PROVE  LET s == Sorted(S, meta)
               k == Cardinality(S)
           IN  /\ k \in Nat /\ s \in [1..k -> S]
               /\ \A x \in S : \E i \in 1..k : s[i] = x
               /\ \A i, j \in 1..k : i # j => s[i] # s[j]
               /\ \A i, j \in 1..k : i < j => ~ Before(meta, s[j], s[i])
<1> DEFINE s == Sorted(S, meta)
           k == Cardinality(S)
<1>1. k \in Nat
  BY FS_CardinalityType
<1>2. PICK t : InOrder(t, S, meta)
  BY OrderExists
<1>3. t \in SetToSeqs(S) /\ \A i, j \in DOMAIN t : i < j => ~ Before(meta, t[j], t[i])
  BY <1>2 DEF InOrder, SetToSeqs
<1>4. s \in SetToSeqs(S) /\ \A i, j \in DOMAIN s : i < j => ~ Before(meta, s[j], s[i])
  BY <1>3 DEF Sorted
<1> HIDE DEF s
<1>5. s \in [1..k -> S] /\ \A i, j \in 1..k : i # j => s[i] # s[j]
  BY <1>4 DEF SetToSeqs
<1>6. s \in Injection(1..k, S)
  BY <1>5 DEF Injection, IsInjective
<1>7. Cardinality(1..k) = k
  <2>1. \A m, n \in Int : Cardinality(m..n) = IF m > n THEN 0 ELSE n - m + 1
    BY FS_Interval
  <2> HIDE DEF k
  <2> QED BY <1>1, <2>1
<1>8. s \in Surjection(1..k, S)
  BY <1>6, <1>7, FS_Injection
<1> QED BY <1>1, <1>4, <1>5, <1>8 DEF Surjection, s

\* The paths of files and of directories.
LEMMA PathsOf ==
    ASSUME NEW d, DirectoryOK(d)
    PROVE  /\ IsFiniteSet(DOMAIN d.files) /\ DOMAIN d.files \subseteq Paths
           /\ Folders(d) \subseteq Paths
           /\ \A p \in DOMAIN d.files : p \notin Folders(d) /\ Len(p) \in Nat /\ Len(p) # 0
<1>1. IsFiniteSet(DOMAIN d.files) /\ DOMAIN d.files \subseteq Paths
  BY DEF DirectoryOK, Paths
<1>2. \A x \in Folders(d) : x \in Paths
  <2>1. <<>> \in Paths
    BY DEF Paths
  <2> QED BY <1>1, <2>1, FolderIs
<1>3. \A p \in DOMAIN d.files : p \notin Folders(d)
  BY DEF DirectoryOK
<1>4. ASSUME NEW p \in DOMAIN d.files PROVE Len(p) \in Nat /\ Len(p) # 0
  <2>1. p \in Seq(Nat)
    BY <1>1 DEF Paths
  <2>2. p # <<>>
    BY <1>3 DEF Folders
  <2> QED BY <2>1, <2>2
<1> QED BY <1>1, <1>2, <1>3, <1>4

\* What is under a directory is in an entry of it.
LEMMA EntryAbove ==
    ASSUME NEW dir \in Paths, NEW p \in Paths, Under(dir, p)
    PROVE  /\ p[Len(dir) + 1] \in Nat
           /\ \/ p = Append(dir, p[Len(dir) + 1])
              \/ Under(Append(dir, p[Len(dir) + 1]), p)
<1> DEFINE n == p[Len(dir) + 1]
           q == Append(dir, n)
<1>1. /\ Len(dir) \in Nat /\ Len(p) \in Nat /\ Len(dir) < Len(p)
      /\ \A i \in 1..Len(dir) : p[i] = dir[i]
      /\ p = [i \in 1..Len(p) |-> p[i]]
      /\ \A i \in 1..Len(p) : p[i] \in Nat
  BY DEF Under, Paths
<1>2. n \in Nat
  BY <1>1
<1>3. /\ q \in Paths /\ Len(q) = Len(dir) + 1
      /\ \A i \in 1..Len(dir) : q[i] = dir[i]
      /\ q[Len(dir) + 1] = n
  BY <1>2, Grown
<1>4. q = [i \in 1..Len(q) |-> q[i]]
  BY <1>3 DEF Paths
<1>5. \A i \in 1..Len(q) : q[i] = p[i]
  <2>1. \A i \in 1..(Len(dir) + 1) : i \in 1..Len(dir) \/ i = Len(dir) + 1
    BY <1>1
  <2> HIDE DEF q
  <2> QED BY <1>1, <1>3, <2>1
<1> HIDE DEF q
<1>6. CASE Len(p) = Len(dir) + 1
  <2>1. p = q
    BY <1>1, <1>3, <1>4, <1>5, <1>6
  <2> QED BY <1>2, <2>1 DEF q
<1>7. CASE Len(p) # Len(dir) + 1
  <2>1. Len(q) < Len(p)
    <3>1. Len(dir) \in Nat /\ Len(p) \in Nat /\ Len(dir) < Len(p)
      BY <1>1
    <3>2. Len(dir) + 1 < Len(p)
      BY <1>7, <3>1
    <3>3. Len(q) = Len(dir) + 1
      BY <1>3
    <3> QED BY <3>2, <3>3
  <2>2. Under(q, p)
    BY <1>5, <2>1 DEF Under
  <2> QED BY <1>2, <2>2 DEF q
<1> QED BY <1>6, <1>7

\* What is under an entry of a directory is under that directory.
LEMMA UnderEntry ==
    ASSUME NEW dir \in Paths, NEW n \in Nat, NEW p
    PROVE  /\ Under(dir, Append(dir, n))
           /\ Under(Append(dir, n), p) => Under(dir, p) /\ p[Len(dir) + 1] = n
<1> DEFINE q == Append(dir, n)
<1>1. /\ q \in Paths /\ Len(q) = Len(dir) + 1 /\ Len(dir) \in Nat
      /\ \A i \in 1..Len(dir) : q[i] = dir[i]
      /\ q[Len(dir) + 1] = n
  BY Grown DEF Paths
<1> HIDE DEF q
<1>2. Under(dir, q)
  BY <1>1 DEF Under
<1>3. ASSUME Under(q, p) PROVE Under(dir, p) /\ p[Len(dir) + 1] = n
  <2>1. Len(q) < Len(p) /\ \A i \in 1..Len(q) : p[i] = q[i]
    BY <1>3 DEF Under
  <2>2. Len(dir) < Len(p)
    <3>1. Len(dir) + 1 < Len(p)
      BY <1>1, <2>1
    <3> QED BY <1>1, <3>1 DEF Under
  <2> QED BY <1>1, <2>1, <2>2 DEF Under
<1> QED BY <1>2, <1>3 DEF q

\* What a directory lists: the directories and the pages in it that are not hidden.
LEMMA ListedIs ==
    ASSUME NEW d, DirectoryOK(d), NEW dir \in Folders(d)
    PROVE  /\ Listed(d, dir) \in SUBSET Nat /\ IsFiniteSet(Listed(d, dir))
           /\ \A n \in Nat :
                n \in Listed(d, dir) <=>
                  /\ n \notin Hidden
                  /\ \/ Append(dir, n) \in Folders(d)
                     \/ Append(dir, n) \in DOMAIN d.files /\ n \in Docs
<1> DEFINE F == DOMAIN d.files
           U == {p \in F : Under(dir, p)}
           names == {p[Len(dir) + 1] : p \in U}
<1>1. IsFiniteSet(F) /\ F \subseteq Paths /\ dir \in Paths /\ Folders(d) \subseteq Paths
  BY PathsOf
<1>2. names \subseteq Nat
  BY <1>1, EntryAbove
<1>3. IsFiniteSet(names)
  <2>1. IsFiniteSet(U)
    BY <1>1, FS_Subset
  <2> DEFINE f == [p \in U |-> p[Len(dir) + 1]]
  <2>2. f \in Surjection(U, names)
    BY DEF Surjection
  <2> HIDE DEF f, U, names
  <2> QED BY <2>1, <2>2, FS_Surjection
<1>4. Listed(d, dir) \subseteq names
  BY DEF Listed
<1>5. IsFiniteSet(Listed(d, dir))
  BY <1>3, <1>4, FS_Subset
<1>6. ASSUME NEW n \in Nat
      PROVE  n \in names <=> Append(dir, n) \in Folders(d) \cup F
  <2> DEFINE q == Append(dir, n)
  <2>1. q \in Paths /\ Len(q) # 0 /\ q # <<>>
    BY <1>1, Grown DEF Paths
  <2>2. q \in Folders(d) <=> \E p \in F : Under(q, p)
    BY <1>1, <2>1, FolderIs
  <2>3. ASSUME NEW p \in F, Under(dir, p), n = p[Len(dir) + 1] PROVE q \in Folders(d) \cup F
    <3>1. p = q \/ Under(q, p)
      BY <1>1, <2>3, EntryAbove
    <3> QED BY <2>2, <3>1
  <2>4. ASSUME q \in F PROVE n \in names
    <3>1. Under(dir, q) /\ q[Len(dir) + 1] = n
      BY <1>1, UnderEntry, Grown
    <3> QED BY <2>4, <3>1
  <2>5. ASSUME NEW p \in F, Under(q, p) PROVE n \in names
    <3>1. Under(dir, p) /\ p[Len(dir) + 1] = n
      BY <1>1, <2>5, UnderEntry
    <3> QED BY <3>1
  <2> QED BY <2>2, <2>3, <2>4, <2>5
<1>7. \A n : n \in Listed(d, dir) <=>
               n \in names /\ n \notin Hidden /\ (Append(dir, n) \in Folders(d) \/ n \in Docs)
  BY DEF Listed
<1> HIDE DEF names
<1>8. ASSUME NEW n \in Nat
      PROVE  n \in Listed(d, dir) <=>
               /\ n \notin Hidden
               /\ Append(dir, n) \in Folders(d) \/ (Append(dir, n) \in F /\ n \in Docs)
  BY <1>6, <1>7
<1> QED BY <1>2, <1>4, <1>5, <1>8

\* The path of a file that has been translated.
LEMMA LocalizedIs ==
    ASSUME NEW d, DirectoryOK(d), NEW p \in Paths
    PROVE  /\ Localized(d, p) \in Paths /\ Len(Localized(d, p)) = Len(p) + 2
           /\ getLocalizedFilePath(d, p) \in {p, Localized(d, p)}
           /\ \A n \in Nat : Localized(d, Append(p, n)) = Append(Localized(d, p), n)
<1> DEFINE q == <<I18n, d.locale>>
<1>1. q \in Paths /\ Len(q) = 2
  BY PagesAssumption DEF DirectoryOK, Paths
<1> HIDE DEF q
<1>2. q \o p \in Paths /\ Len(q \o p) = Len(p) + 2
  <2>1. q \o p \in Seq(Nat) /\ Len(q \o p) = Len(q) + Len(p)
    BY <1>1, ConcatProperties DEF Paths
  <2>2. Len(p) \in Nat
    BY DEF Paths
  <2> QED BY <1>1, <2>1, <2>2 DEF Paths
<1>3. ASSUME NEW n \in Nat PROVE q \o Append(p, n) = Append(q \o p, n)
  <2>1. <<n>> \in Seq(Nat) /\ q \in Seq(Nat) /\ p \in Seq(Nat) /\ q \o p \in Seq(Nat)
    BY <1>1, <1>2 DEF Paths
  <2>2. Append(p, n) = p \o <<n>> /\ Append(q \o p, n) = (q \o p) \o <<n>>
    BY <2>1, AppendIsConcat
  <2>3. q \o (p \o <<n>>) = (q \o p) \o <<n>>
    BY <2>1, ConcatAssociative
  <2> QED BY <2>2, <2>3
<1>4. \A r : Localized(d, r) = q \o r
  BY DEF Localized, q
<1>5. getLocalizedFilePath(d, p) \in {p, Localized(d, p)}
  BY DEF getLocalizedFilePath
<1> QED BY <1>2, <1>3, <1>4, <1>5

\* The file that lists the names of a directory.
Metadata(d, dir) == getFolderMetadata(d, getFolderMetaFilePath(d, dir))
Next2To(d, dir, n) == getPageTitle(d, Append(Front(getFolderMetaFilePath(d, dir)), n))

\* What the entries of a file are made into.
Named(d, file, i) ==
    LET e == d.files[file].entries[i]
        title == getPageTitle(d, Append(Front(file), e.key))
    IN  [key |-> e.key,
         name |-> IF e.name # NoTitle THEN e.name
                  ELSE IF title # NoTitle THEN title ELSE AutoName(e.key)]

\* A name that is made is told from titles.
LEMMA AutoNamed ==
    ASSUME NEW n PROVE AutoName(n) # NoTitle /\ AutoName(n)[1] = "auto"
  BY DEF AutoName, NoTitle

\* Each name that is listed has a name to show, and is listed once.
LEMMA MetaIs ==
    ASSUME NEW d, DirectoryOK(d), NEW dir \in Paths
    PROVE  /\ MetaOK(Metadata(d, dir))
           /\ \A i, j \in DOMAIN Metadata(d, dir) :
                Metadata(d, dir)[i].key = Metadata(d, dir)[j].key => i = j
           /\ \A i \in DOMAIN Metadata(d, dir) :
                LET e == Metadata(d, dir)[i]
                    title == Next2To(d, dir, e.key)
                IN  /\ e.name # NoTitle
                    /\ \/ e.name[1] = "meta"
                       \/ title # NoTitle /\ e.name = title
                       \/ title = NoTitle /\ e.name = AutoName(e.key)
<1> DEFINE file == getFolderMetaFilePath(d, dir)
           meta == Metadata(d, dir)
           given == d.files[file].entries
<1>1. file \in Paths /\ file[Len(file)] = MetaFile
  <2>1. Append(dir, MetaFile) \in Paths
    BY PagesAssumption, Grown
  <2>2. file \in {Append(dir, MetaFile), Localized(d, Append(dir, MetaFile))}
    BY <2>1, LocalizedIs DEF getFolderMetaFilePath
  <2>3. Localized(d, Append(dir, MetaFile)) = Append(Localized(d, dir), MetaFile)
    BY PagesAssumption, LocalizedIs
  <2>4. \A r \in Paths : /\ Append(r, MetaFile) \in Paths
                         /\ Append(r, MetaFile)[Len(Append(r, MetaFile))] = MetaFile
    BY PagesAssumption, Grown
  <2>5. Localized(d, dir) \in Paths
    BY LocalizedIs
  <2> QED BY <2>2, <2>3, <2>4, <2>5
<1>2. CASE file \notin DOMAIN d.files \/ ~ d.files[file].readable
  <2>1. meta = <<>>
    BY <1>2 DEF Metadata, getFolderMetadata
  <2>2. DOMAIN meta = {}
    BY <2>1
  <2> QED BY <2>2 DEF MetaOK
<1>3. CASE file \in DOMAIN d.files /\ d.files[file].readable
  <2>1. /\ given \in Seq([key : Nat, name : Seq(STRING)])
        /\ \A i, j \in DOMAIN given : given[i].key = given[j].key => i = j
        /\ \A i \in DOMAIN given : given[i].name = NoTitle \/ given[i].name[1] = "meta"
    BY <1>1, <1>3 DEF DirectoryOK
  <2>2. meta = [i \in DOMAIN given |-> Named(d, file, i)]
    BY <1>3 DEF Metadata, getFolderMetadata, Named
  <2>3. /\ DOMAIN meta = DOMAIN given
        /\ \A i \in DOMAIN given : meta[i] = Named(d, file, i) /\ meta[i].key = given[i].key
    BY <2>2 DEF Named
  <2>4. DOMAIN given \subseteq Nat
    BY <2>1
  <2>5. ASSUME NEW i \in DOMAIN given
        PROVE  LET e == meta[i]
                   title == Next2To(d, dir, e.key)
               IN  /\ e.name # NoTitle
                   /\ \/ e.name[1] = "meta"
                      \/ title # NoTitle /\ e.name = title
                      \/ title = NoTitle /\ e.name = AutoName(e.key)
    <3> DEFINE title == getPageTitle(d, Append(Front(file), given[i].key))
    <3>1. meta[i].key = given[i].key /\ Next2To(d, dir, meta[i].key) = title
      BY <2>3 DEF Next2To
    <3>2. meta[i].name = IF given[i].name # NoTitle THEN given[i].name
                         ELSE IF title # NoTitle THEN title ELSE AutoName(given[i].key)
      <4>1. Named(d, file, i).name = IF given[i].name # NoTitle THEN given[i].name
                                     ELSE IF title # NoTitle THEN title
                                     ELSE AutoName(given[i].key)
        BY DEF Named
      <4> QED BY <2>3, <4>1
    <3>3. AutoName(given[i].key) # NoTitle
      BY AutoNamed
    <3>4. given[i].name = NoTitle \/ given[i].name[1] = "meta"
      BY <2>1
    <3> HIDE DEF title, meta, given
    <3> QED BY <3>1, <3>2, <3>3, <3>4
  <2> HIDE DEF meta, given
  <2>6. MetaOK(meta)
    BY <2>3, <2>4 DEF MetaOK
  <2>7. \A i, j \in DOMAIN meta : meta[i].key = meta[j].key => i = j
    BY <2>1, <2>3
  <2> QED BY <2>3, <2>5, <2>6, <2>7 DEF meta
<1> QED BY <1>2, <1>3

-----------------------------------------------------------------------------
\* The entry of a name in a directory.
EntryOf(d, dir, n) ==
    LET meta == Metadata(d, dir)
        title == getPageTitle(d, Append(dir, n))
    IN  [path |-> Append(dir, n),
         name |-> IF At(meta, n) # {} THEN meta[CHOOSE i \in At(meta, n) : TRUE].name
                  ELSE IF title # NoTitle THEN title ELSE AutoName(n),
         isDir |-> Append(dir, n) \in Folders(d),
         id |-> ""]

\* A directory lists each name once, in order.
LEMMA EntriesAre ==
    ASSUME NEW d, DirectoryOK(d), NEW dir \in Folders(d)
    PROVE  \E s :
             LET es == EntriesOf(d, dir)
                 k == Cardinality(Listed(d, dir))
             IN  /\ k \in Nat /\ s \in [1..k -> Listed(d, dir)]
                 /\ \A x \in Listed(d, dir) : \E i \in 1..k : s[i] = x
                 /\ \A i, j \in 1..k : i # j => s[i] # s[j]
                 /\ \A i, j \in 1..k : i < j => ~ Before(Metadata(d, dir), s[j], s[i])
                 /\ es = [i \in 1..k |-> EntryOf(d, dir, s[i])]
<1> DEFINE names == Listed(d, dir)
           meta == Metadata(d, dir)
           s == Sorted(names, meta)
           k == Cardinality(names)
<1>1. names \in SUBSET Nat /\ IsFiniteSet(names)
  BY ListedIs
<1>2. dir \in Paths
  BY PathsOf
<1>3. MetaOK(meta)
  BY <1>2, MetaIs
<1>4. EntriesOf(d, dir) = [i \in DOMAIN s |-> EntryOf(d, dir, s[i])]
  BY DEF EntriesOf, EntryOf, At, Metadata
<1> HIDE DEF names, meta
<1>5. /\ k \in Nat /\ s \in [1..k -> names]
      /\ \A x \in names : \E i \in 1..k : s[i] = x
      /\ \A i, j \in 1..k : i # j => s[i] # s[j]
      /\ \A i, j \in 1..k : i < j => ~ Before(meta, s[j], s[i])
  BY <1>1, <1>3, SortedIs
<1> HIDE DEF s
<1>6. DOMAIN s = 1..k
  BY <1>5
<1>7. EntriesOf(d, dir) = [i \in 1..k |-> EntryOf(d, dir, s[i])]
  BY <1>4, <1>6
<1> QED BY <1>5, <1>7 DEF names, meta

\* The entries of a directory are those of the names in it.
LEMMA EntriesIn ==
    ASSUME NEW d, DirectoryOK(d), NEW dir \in Folders(d)
    PROVE  ToSet(EntriesOf(d, dir)) = {EntryOf(d, dir, n) : n \in Listed(d, dir)}
<1> DEFINE es == EntriesOf(d, dir)
           k == Cardinality(Listed(d, dir))
<1>1. PICK s : /\ s \in [1..k -> Listed(d, dir)]
               /\ \A x \in Listed(d, dir) : \E i \in 1..k : s[i] = x
               /\ es = [i \in 1..k |-> EntryOf(d, dir, s[i])]
  BY EntriesAre
<1>2. DOMAIN es = 1..k /\ \A i \in 1..k : es[i] = EntryOf(d, dir, s[i])
  BY <1>1
<1> HIDE DEF es, k
<1> QED BY <1>1, <1>2 DEF ToSet, es

-----------------------------------------------------------------------------
\* The paths of files are not longer than some number.
LEMMA LongestPath ==
    ASSUME NEW d, DirectoryOK(d)
    PROVE  \E N \in Nat : \A dir \in Folders(d) : Len(dir) <= N
<1> DEFINE F == DOMAIN d.files
           P == {s \in SUBSET F : \E N \in Nat : \A p \in s : Len(p) <= N}
<1>1. {} \in P
  OBVIOUS
<1>2. ASSUME NEW s \in SUBSET F, NEW x \in F, s \in P PROVE s \cup {x} \in P
  <2>1. PICK N \in Nat : \A p \in s : Len(p) <= N
    BY <1>2
  <2>2. Len(x) \in Nat /\ \A p \in s : Len(p) \in Nat
    BY PathsOf
  <2>3. N + Len(x) \in Nat /\ \A p \in s \cup {x} : Len(p) <= N + Len(x)
    BY <2>1, <2>2
  <2> QED BY <2>3
<1> HIDE DEF P
<1>3. F \in P
  <2>1. IsFiniteSet(F)
    BY PathsOf
  <2> QED BY <1>1, <1>2, <2>1, SetInduct
<1>4. PICK N \in Nat : \A p \in F : Len(p) <= N
  BY <1>3 DEF P
<1>5. ASSUME NEW dir \in Folders(d) PROVE Len(dir) <= N
  <2>1. F \subseteq Paths /\ Folders(d) \subseteq Paths
    BY PathsOf
  <2>2. CASE dir = <<>>
    BY <2>2
  <2>3. ASSUME NEW p \in F, Under(dir, p) PROVE Len(dir) <= N
    <3>1. Len(dir) \in Nat /\ Len(p) \in Nat /\ Len(dir) < Len(p)
      BY <2>1, <2>3 DEF Under, Paths
    <3>2. Len(p) <= N
      BY <1>4
    <3> QED BY <3>1, <3>2
  <2> QED BY <2>1, <2>2, <2>3, FolderIs
<1> QED BY <1>5

\* The directories in a directory that are not hidden, and those that one comes to.
Inner(d, dir) == {n \in Listed(d, dir) : Append(dir, n) \in Folders(d)}
Shows(dir, x) == \A i \in (Len(dir) + 1)..Len(x) : x[i] \notin Hidden
Reach(d, dir) == {x \in Folders(d) : (x = dir \/ Under(dir, x)) /\ Shows(dir, x)}

\* What shows in a directory in which an entry is not hidden shows in that entry, and
\* the other way round.
LEMMA ShowsIn ==
    ASSUME NEW dir \in Paths, NEW n \in Nat, NEW x \in Paths,
           x = Append(dir, n) \/ Under(Append(dir, n), x)
    PROVE  Shows(dir, x) <=> n \notin Hidden /\ Shows(Append(dir, n), x)
<1> DEFINE q == Append(dir, n)
<1>1. Len(dir) \in Nat /\ Len(x) \in Nat
  BY DEF Paths
<1>2. Len(q) = Len(dir) + 1 /\ q[Len(dir) + 1] = n
  BY Grown
<1>3. Len(dir) + 1 <= Len(x) /\ x[Len(dir) + 1] = n
  <2>1. CASE x = q
    BY <1>1, <1>2, <2>1
  <2>2. CASE Under(q, x)
    <3>1. Under(dir, x) /\ x[Len(dir) + 1] = n
      BY <2>2, UnderEntry
    <3> QED BY <1>1, <3>1 DEF Under
  <2> QED BY <2>1, <2>2
<1> HIDE DEF q
<1>4. \A i \in Int : i \in (Len(dir) + 1)..Len(x) <=> i = Len(dir) + 1 \/ i \in (Len(q) + 1)..Len(x)
  BY <1>1, <1>2, <1>3
<1>5. \A i : i \in (Len(dir) + 1)..Len(x) \/ i \in (Len(q) + 1)..Len(x) => i \in Int
  BY <1>1, <1>2
<1>6. Shows(dir, x) <=> n \notin Hidden /\ Shows(q, x)
  <2>1. Len(dir) + 1 \in Int
    BY <1>1
  <2> QED BY <1>3, <1>4, <1>5, <2>1 DEF Shows
<1> QED BY <1>6 DEF q

\* One comes to a directory and to what one comes to from those in it.
LEMMA ReachStep ==
    ASSUME NEW d, DirectoryOK(d), NEW dir \in Folders(d)
    PROVE  Reach(d, dir) = {dir} \cup UNION {Reach(d, Append(dir, n)) : n \in Inner(d, dir)}
<1>1. dir \in Paths /\ Folders(d) \subseteq Paths /\ DOMAIN d.files \subseteq Paths
  BY PathsOf
<1>2. dir \in Reach(d, dir)
  <2>1. (Len(dir) + 1)..Len(dir) = {}
    BY <1>1 DEF Paths
  <2> QED BY <2>1 DEF Reach, Shows
<1>3. ASSUME NEW n \in Inner(d, dir), NEW x \in Reach(d, Append(dir, n))
      PROVE  x \in Reach(d, dir)
  <2>1. n \in Nat /\ n \notin Hidden
    BY ListedIs DEF Inner
  <2>2. /\ x \in Folders(d) /\ (x = Append(dir, n) \/ Under(Append(dir, n), x))
        /\ Shows(Append(dir, n), x)
    BY DEF Reach
  <2>3. Under(dir, x)
    BY <1>1, <2>1, <2>2, UnderEntry
  <2>4. Shows(dir, x)
    BY <1>1, <2>1, <2>2, ShowsIn
  <2> QED BY <2>2, <2>3, <2>4 DEF Reach
<1>4. ASSUME NEW x \in Reach(d, dir), x # dir
      PROVE  \E n \in Inner(d, dir) : x \in Reach(d, Append(dir, n))
  <2>1. x \in Folders(d) /\ x \in Paths /\ Under(dir, x) /\ Shows(dir, x)
    BY <1>1, <1>4 DEF Reach
  <2> DEFINE n == x[Len(dir) + 1]
  <2>2. n \in Nat /\ (x = Append(dir, n) \/ Under(Append(dir, n), x))
    BY <1>1, <2>1, EntryAbove
  <2> HIDE DEF n
  <2>3. n \notin Hidden /\ Shows(Append(dir, n), x)
    BY <1>1, <2>1, <2>2, ShowsIn
  <2>4. Append(dir, n) \in Folders(d)
    <3>1. CASE x = Append(dir, n)
      BY <2>1, <3>1
    <3>2. CASE Under(Append(dir, n), x)
      <4> DEFINE q == Append(dir, n)
      <4>1. q \in Paths /\ Len(q) # 0 /\ Len(q) \in Nat
        BY <1>1, <2>2, Grown DEF Paths
      <4>2. x # <<>>
        BY <3>2, <4>1 DEF Under
      <4>3. PICK p \in DOMAIN d.files : Under(x, p)
        BY <1>1, <2>1, <4>2, FolderIs
      <4>4. Len(x) \in Nat /\ Len(p) \in Nat
        BY <1>1, <2>1 DEF Paths
      <4> HIDE DEF q
      <4>5. Len(q) < Len(p)
        <5>1. Len(q) < Len(x) /\ Len(x) < Len(p)
          BY <3>2, <4>3 DEF Under, q
        <5> QED BY <4>1, <4>4, <5>1
      <4>6. ASSUME NEW i \in 1..Len(q) PROVE p[i] = q[i]
        <5>1. i \in 1..Len(x)
          BY <3>2, <4>1, <4>4 DEF Under, q
        <5> QED BY <3>2, <4>3, <5>1 DEF Under, q
      <4>7. Under(q, p)
        BY <4>5, <4>6 DEF Under
      <4> QED BY <1>1, <4>1, <4>7, FolderIs DEF q
    <3> QED BY <2>2, <3>1, <3>2
  <2>5. n \in Inner(d, dir)
    BY <2>2, <2>3, <2>4, ListedIs DEF Inner
  <2>6. x \in Reach(d, Append(dir, n))
    BY <2>1, <2>2, <2>3 DEF Reach
  <2> QED BY <2>5, <2>6
<1> QED BY <1>2, <1>3, <1>4

\* A step of the recursion.
Walk(d, h, dir) ==
    {dir} \cup UNION {h[e.path] : e \in {e \in ToSet(EntriesOf(d, dir)) : e.isDir}}

\* What a step comes to.
LEMMA WalkIs ==
    ASSUME NEW d, DirectoryOK(d), NEW dir \in Folders(d), NEW h
    PROVE  Walk(d, h, dir) = {dir} \cup UNION {h[Append(dir, n)] : n \in Inner(d, dir)}
<1>1. ToSet(EntriesOf(d, dir)) = {EntryOf(d, dir, n) : n \in Listed(d, dir)}
  BY EntriesIn
<1>2. \A n : /\ EntryOf(d, dir, n).path = Append(dir, n)
             /\ EntryOf(d, dir, n).isDir <=> Append(dir, n) \in Folders(d)
  BY DEF EntryOf
<1>3. {h[e.path] : e \in {e \in ToSet(EntriesOf(d, dir)) : e.isDir}}
        = {h[Append(dir, n)] : n \in Inner(d, dir)}
  BY <1>1, <1>2 DEF Inner
<1> QED BY <1>3 DEF Walk

\* The recursion comes to the directories that are not hidden.
LEMMA ReachedIs ==
    ASSUME NEW d, DirectoryOK(d)
    PROVE  Reached(d) = [dir \in Folders(d) |-> Reach(d, dir)]
<1> DEFINE D == Folders(d)
           g == [dir \in D |-> Reach(d, dir)]
           Solves(h) == h = [dir \in D |-> Walk(d, h, dir)]
<1>1. ASSUME NEW dir \in D PROVE Walk(d, g, dir) = Reach(d, dir)
  <2>1. \A n \in Inner(d, dir) : g[Append(dir, n)] = Reach(d, Append(dir, n))
    BY DEF Inner
  <2> HIDE DEF g
  <2>2. Walk(d, g, dir) = {dir} \cup UNION {Reach(d, Append(dir, n)) : n \in Inner(d, dir)}
    BY <2>1, WalkIs
  <2> QED BY <2>2, ReachStep
<1>2. Solves(g)
  BY <1>1
<1>3. Reached(d) = CHOOSE h : Solves(h)
  BY DEF Reached, Walk
<1> DEFINE r == Reached(d)
<1> HIDE DEF g
<1>4. Solves(r)
  BY <1>2, <1>3
<1>5. DOMAIN r = D /\ \A dir \in D : r[dir] = Walk(d, r, dir)
  BY <1>4
<1> HIDE DEF r, Solves
<1>6. \A dir \in D : r[dir] = Reach(d, dir)
  <2>1. PICK N \in Nat : \A dir \in D : Len(dir) <= N
    BY LongestPath
  <2>2. \A dir \in D : dir \in Paths /\ Len(dir) \in Nat
    BY PathsOf DEF Paths
  <2> DEFINE T == {m \in Nat : \A dir \in D : N - Len(dir) <= m => r[dir] = Reach(d, dir)}
  <2>3. ASSUME NEW dir \in D, \A n \in Inner(d, dir) : r[Append(dir, n)] = Reach(d, Append(dir, n))
        PROVE  r[dir] = Reach(d, dir)
    <3>1. Walk(d, r, dir) = {dir} \cup UNION {Reach(d, Append(dir, n)) : n \in Inner(d, dir)}
      BY <2>3, WalkIs
    <3> QED BY <1>5, <3>1, ReachStep
  <2>4. ASSUME NEW dir \in D, NEW n \in Inner(d, dir)
        PROVE  Append(dir, n) \in D /\ Len(Append(dir, n)) = Len(dir) + 1 /\ Len(dir) + 1 <= N
    <3>1. n \in Nat /\ Append(dir, n) \in D
      BY ListedIs DEF Inner
    <3>2. Len(Append(dir, n)) = Len(dir) + 1
      BY <2>2, <3>1, Grown
    <3> QED BY <2>1, <3>1, <3>2
  <2>5. 0 \in T
    <3> SUFFICES ASSUME NEW dir \in D, N - Len(dir) <= 0 PROVE r[dir] = Reach(d, dir)
      OBVIOUS
    <3>1. Inner(d, dir) = {}
      <4> SUFFICES ASSUME NEW n \in Inner(d, dir) PROVE FALSE
        OBVIOUS
      <4>1. Len(dir) + 1 <= N /\ Len(dir) \in Nat
        BY <2>2, <2>4
      <4> QED BY <4>1
    <3> QED BY <2>3, <3>1
  <2>6. ASSUME NEW m \in Nat, m \in T PROVE m + 1 \in T
    <3> SUFFICES ASSUME NEW dir \in D, N - Len(dir) <= m + 1 PROVE r[dir] = Reach(d, dir)
      OBVIOUS
    <3>1. ASSUME NEW n \in Inner(d, dir) PROVE r[Append(dir, n)] = Reach(d, Append(dir, n))
      <4>1. Append(dir, n) \in D /\ Len(Append(dir, n)) = Len(dir) + 1
        BY <2>4
      <4>2. Len(dir) \in Nat
        BY <2>2
      <4>3. N - Len(Append(dir, n)) <= m
        BY <4>1, <4>2
      <4> QED BY <2>6, <4>1, <4>3
    <3> QED BY <2>3, <3>1
  <2> HIDE DEF T
  <2>7. N \in T
    BY <2>5, <2>6, NatSet
  <2>8. \A dir \in D : N - Len(dir) <= N
    BY <2>2
  <2> QED BY <2>7, <2>8 DEF T
<1>7. r = [dir \in D |-> r[dir]]
  BY <1>4 DEF Solves
<1> QED BY <1>6, <1>7 DEF r

\* A tree is of the directories that one comes to.
LEMMA TreeIs ==
    ASSUME NEW d, DirectoryOK(d), NEW dir \in Folders(d)
    PROVE  LET tree == getDirectoryTree(d, dir)
           IN  /\ DOMAIN tree = Reach(d, dir)
               /\ \A x \in Reach(d, dir) :
                    x \in Folders(d) /\ x \in Paths /\ tree[x] = EntriesOf(d, x)
<1>1. Reached(d)[dir] = Reach(d, dir)
  <2>1. Reached(d) = [x \in Folders(d) |-> Reach(d, x)]
    BY ReachedIs
  <2> QED BY <2>1
<1>2. \A x \in Reach(d, dir) : x \in Folders(d) /\ x \in Paths
  BY PathsOf DEF Reach
<1> QED BY <1>1, <1>2 DEF getDirectoryTree

\* The entries of a tree are those of its directories.
LEMMA EntryInTree ==
    ASSUME NEW tree, NEW e
    PROVE  e \in Entries(tree) <=> \E x \in DOMAIN tree : e \in ToSet(tree[x])
<1>1. ASSUME e \in Entries(tree) PROVE \E x \in DOMAIN tree : e \in ToSet(tree[x])
  <2>1. PICK place \in Places(tree) : e = tree[place[1]][place[2]]
    BY <1>1 DEF Entries
  <2>2. PICK x \in DOMAIN tree : place \in {<<x, i>> : i \in DOMAIN tree[x]}
    BY DEF Places
  <2>3. PICK i \in DOMAIN tree[x] : place = <<x, i>>
    BY <2>2
  <2> QED BY <2>1, <2>3 DEF ToSet
<1>2. ASSUME NEW x \in DOMAIN tree, e \in ToSet(tree[x]) PROVE e \in Entries(tree)
  <2>1. PICK i \in DOMAIN tree[x] : e = tree[x][i]
    BY <1>2 DEF ToSet
  <2>2. <<x, i>> \in Places(tree)
    BY DEF Places
  <2>3. tree[<<x, i>>[1]][<<x, i>>[2]] = e
    BY <2>1
  <2> QED BY <2>2, <2>3 DEF Entries
<1> QED BY <1>1, <1>2

\* The entries of a deployment's tree are those of the directories one comes to.
LEMMA EntriesOfTree ==
    ASSUME NEW d, DirectoryOK(d), NEW dir \in Folders(d), NEW e
    PROVE  e \in Entries(getDirectoryTree(d, dir)) <=>
             \E x \in Reach(d, dir) : \E n \in Listed(d, x) : e = EntryOf(d, x, n)
<1> DEFINE tree == getDirectoryTree(d, dir)
<1>1. /\ DOMAIN tree = Reach(d, dir)
      /\ \A x \in Reach(d, dir) : x \in Folders(d) /\ tree[x] = EntriesOf(d, x)
  BY TreeIs
<1>2. e \in Entries(tree) <=> \E x \in DOMAIN tree : e \in ToSet(tree[x])
  BY EntryInTree
<1> HIDE DEF tree
<1>3. \A x \in Reach(d, dir) :
        e \in ToSet(tree[x]) <=> \E n \in Listed(d, x) : e = EntryOf(d, x, n)
  <2>1. \A x \in Reach(d, dir) : ToSet(tree[x]) = {EntryOf(d, x, n) : n \in Listed(d, x)}
    BY <1>1, EntriesIn
  <2> QED BY <2>1
<1> QED BY <1>1, <1>2, <1>3 DEF tree

\* A name in a directory that one comes to is a page if it is no directory.
LEMMA PageIn ==
    ASSUME NEW d, DirectoryOK(d), NEW dir \in Folders(d), NEW x \in Reach(d, dir),
           NEW n \in Listed(d, x), Append(x, n) \notin Folders(d)
    PROVE  Append(x, n) \in PagesUnder(d, dir)
<1> DEFINE p == Append(x, n)
<1>1. /\ dir \in Paths /\ x \in Paths /\ x \in Folders(d) /\ (x = dir \/ Under(dir, x))
      /\ Shows(dir, x)
  BY PathsOf DEF Reach
<1>2. n \in Nat /\ n \notin Hidden /\ p \in DOMAIN d.files /\ n \in Docs
  BY <1>1, ListedIs
<1>3. /\ p \in Paths /\ Len(p) = Len(x) + 1
      /\ \A i \in 1..Len(x) : p[i] = x[i]
      /\ p[Len(x) + 1] = n
  BY <1>1, <1>2, Grown
<1>4. Len(dir) \in Nat /\ Len(x) \in Nat
  BY <1>1 DEF Paths
<1>5. p[Len(p)] \in Docs
  BY <1>2, <1>3
<1> HIDE DEF p
<1>6. Len(dir) <= Len(x) /\ \A i \in 1..Len(dir) : x[i] = dir[i]
  BY <1>1, <1>4 DEF Under
<1>7. Under(dir, p)
  <2>1. Len(dir) < Len(p)
    BY <1>3, <1>4, <1>6
  <2>2. \A i \in 1..Len(dir) : i \in 1..Len(x)
    BY <1>4, <1>6
  <2>3. \A i \in 1..Len(dir) : p[i] = dir[i]
    BY <1>3, <1>6, <2>2
  <2> QED BY <2>1, <2>3 DEF Under
<1>8. ASSUME NEW i \in (Len(dir) + 1)..Len(p) PROVE p[i] \notin Hidden
  <2>1. CASE i = Len(x) + 1
    BY <1>2, <1>3, <2>1
  <2>2. CASE i # Len(x) + 1
    <3>1. i \in 1..Len(x) /\ i \in (Len(dir) + 1)..Len(x)
      BY <1>3, <1>4, <2>2
    <3> QED BY <1>1, <1>3, <3>1 DEF Shows
  <2> QED BY <2>1, <2>2
<1> QED BY <1>2, <1>5, <1>7, <1>8 DEF PagesUnder, p

\* And the other way round.
LEMMA PageHas ==
    ASSUME NEW d, DirectoryOK(d), NEW dir \in Folders(d), NEW p \in PagesUnder(d, dir)
    PROVE  \E x \in Reach(d, dir) : \E n \in Listed(d, x) :
             p = Append(x, n) /\ Append(x, n) \notin Folders(d)
<1> DEFINE k == Len(p) - 1
           x == SubSeq(p, 1, k)
           n == p[Len(p)]
<1>1. /\ p \in DOMAIN d.files /\ p \in Paths /\ p \notin Folders(d)
      /\ Under(dir, p) /\ n \in Docs
      /\ \A i \in (Len(dir) + 1)..Len(p) : p[i] \notin Hidden
      /\ dir \in Paths /\ Folders(d) \subseteq Paths /\ DOMAIN d.files \subseteq Paths
  BY PathsOf DEF PagesUnder
<1>2. /\ Len(p) \in Nat /\ Len(dir) \in Nat /\ Len(dir) < Len(p)
      /\ \A i \in 1..Len(dir) : p[i] = dir[i]
      /\ p \in Seq(Nat)
  BY <1>1 DEF Paths, Under
<1>3. n \in Nat
  BY <1>2
<1>a. k \in Nat /\ k + 1 = Len(p) /\ k <= Len(p)
  BY <1>2
<1> HIDE DEF k
<1>4. x \in Paths /\ Len(x) = k /\ k \in Nat /\ \A i \in 1..k : x[i] = p[i]
  <2>1. p \in Seq(Nat) /\ k \in Nat /\ k <= Len(p)
    BY <1>2, <1>a
  <2> QED BY <2>1 DEF Paths
<1>5. Append(x, n) = p
  <2>1. p = [i \in 1..Len(p) |-> p[i]]
    BY <1>2
  <2> DEFINE q == Append(x, n)
  <2>2. /\ q \in Paths /\ Len(q) = k + 1
        /\ \A i \in 1..k : q[i] = x[i]
        /\ q[k + 1] = n
    BY <1>3, <1>4, Grown
  <2> HIDE DEF q, x
  <2>3. q = [i \in 1..(k + 1) |-> q[i]]
    BY <2>2 DEF Paths
  <2>5. ASSUME NEW i \in 1..Len(p) PROVE q[i] = p[i]
    <3>1. CASE i = k + 1
      BY <1>a, <2>2, <3>1
    <3>2. CASE i # k + 1
      <4>1. i \in 1..k
        BY <1>a, <3>2
      <4> QED BY <1>4, <2>2, <4>1
    <3> QED BY <3>1, <3>2
  <2>6. q = p
    BY <1>a, <2>1, <2>3, <2>5
  <2> QED BY <2>6 DEF q
<1> HIDE DEF x
<1>6. Len(dir) <= Len(x) /\ \A i \in 1..Len(dir) : x[i] = dir[i]
  BY <1>2, <1>4, <1>a
<1>7. x = dir \/ Under(dir, x)
  <2>1. CASE Len(dir) < Len(x)
    BY <1>6, <2>1 DEF Under
  <2>2. CASE Len(dir) = Len(x)
    <3>1. dir = [i \in 1..Len(dir) |-> dir[i]] /\ x = [i \in 1..Len(x) |-> x[i]]
      BY <1>1, <1>4 DEF Paths
    <3> QED BY <1>6, <2>2, <3>1
  <2> QED BY <1>2, <1>4, <1>a, <1>6, <2>1, <2>2
<1>8. x \in Folders(d)
  <2>1. CASE x = dir
    BY <2>1
  <2>2. CASE Under(dir, x)
    <3>1. Len(x) # 0
      BY <1>2, <1>4, <1>a, <2>2 DEF Under
    <3>2. Under(x, p)
      <4>1. Len(x) < Len(p)
        BY <1>2, <1>4, <1>a
      <4> QED BY <1>4, <4>1 DEF Under
    <3> QED BY <1>1, <1>4, <3>1, <3>2, FolderIs
  <2> QED BY <1>7, <2>1, <2>2
<1>9. Shows(dir, x)
  <2>1. ASSUME NEW i \in (Len(dir) + 1)..Len(x) PROVE x[i] \notin Hidden
    <3>1. i \in 1..k /\ i \in (Len(dir) + 1)..Len(p)
      BY <1>2, <1>4, <1>a
    <3> QED BY <1>1, <1>4, <3>1
  <2> QED BY <2>1 DEF Shows
<1>10. x \in Reach(d, dir)
  BY <1>7, <1>8, <1>9 DEF Reach
<1>11. n \notin Hidden
  <2>1. Len(p) \in (Len(dir) + 1)..Len(p)
    BY <1>2
  <2> QED BY <1>1, <2>1
<1>12. n \in Listed(d, x)
  BY <1>1, <1>3, <1>5, <1>8, <1>11, ListedIs
<1> QED BY <1>1, <1>5, <1>10, <1>12

\* A tree lists the pages.
LEMMA PagesAre ==
    ASSUME NEW d, DirectoryOK(d), NEW dir \in Folders(d)
    PROVE  {e.path : e \in PagesOf(getDirectoryTree(d, dir))} = PagesUnder(d, dir)
<1> DEFINE tree == getDirectoryTree(d, dir)
<1>1. ASSUME NEW e \in PagesOf(tree) PROVE e.path \in PagesUnder(d, dir)
  <2>1. e \in Entries(tree) /\ ~ e.isDir
    BY DEF PagesOf
  <2>2. PICK x \in Reach(d, dir) : \E n \in Listed(d, x) : e = EntryOf(d, x, n)
    BY <2>1, EntriesOfTree
  <2>3. PICK n \in Listed(d, x) : e = EntryOf(d, x, n)
    BY <2>2
  <2>4. e.path = Append(x, n) /\ Append(x, n) \notin Folders(d)
    BY <2>1, <2>3 DEF EntryOf
  <2> QED BY <2>4, PageIn
<1>2. ASSUME NEW p \in PagesUnder(d, dir) PROVE \E e \in PagesOf(tree) : e.path = p
  <2>0. PICK x \in Reach(d, dir) :
          \E n \in Listed(d, x) : p = Append(x, n) /\ Append(x, n) \notin Folders(d)
    BY PageHas
  <2>1. PICK n \in Listed(d, x) : p = Append(x, n) /\ Append(x, n) \notin Folders(d)
    BY <2>0
  <2> DEFINE e == EntryOf(d, x, n)
  <2>2. e.path = p /\ ~ e.isDir
    BY <2>1 DEF EntryOf
  <2> HIDE DEF e
  <2>3. e \in Entries(tree)
    BY EntriesOfTree DEF e
  <2>4. e \in PagesOf(tree)
    BY <2>2, <2>3 DEF PagesOf
  <2> QED BY <2>2, <2>4
<1> HIDE DEF tree
<1> QED BY <1>1, <1>2 DEF tree

\* A directory lists each name once.
LEMMA EntriesOnce ==
    ASSUME NEW d, DirectoryOK(d), NEW x \in Folders(d)
    PROVE  \E s : LET k == Cardinality(Listed(d, x))
                 IN  /\ s \in [1..k -> Listed(d, x)]
                     /\ \A a, b \in 1..k : a # b => s[a] # s[b]
                     /\ EntriesOf(d, x) = [a \in 1..k |-> EntryOf(d, x, s[a])]
  BY EntriesAre

\* Different places are of different paths.
LEMMA PlacesDiffer ==
    ASSUME NEW d, DirectoryOK(d), NEW dir \in Folders(d),
           NEW x \in Reach(d, dir), NEW y \in Reach(d, dir),
           NEW i \in DOMAIN EntriesOf(d, x), NEW j \in DOMAIN EntriesOf(d, y),
           EntriesOf(d, x)[i].path = EntriesOf(d, y)[j].path
    PROVE  x = y /\ i = j
<1>1. x \in Folders(d) /\ x \in Paths /\ y \in Folders(d) /\ y \in Paths
  BY TreeIs
<1> DEFINE k == Cardinality(Listed(d, x))
           l == Cardinality(Listed(d, y))
<1>2. PICK s : /\ s \in [1..k -> Listed(d, x)]
               /\ \A a, b \in 1..k : a # b => s[a] # s[b]
               /\ EntriesOf(d, x) = [a \in 1..k |-> EntryOf(d, x, s[a])]
  BY <1>1, EntriesOnce
<1>3. PICK t : /\ t \in [1..l -> Listed(d, y)]
               /\ \A a, b \in 1..l : a # b => t[a] # t[b]
               /\ EntriesOf(d, y) = [a \in 1..l |-> EntryOf(d, y, t[a])]
  BY <1>1, EntriesOnce
<1> HIDE DEF k, l
<1>4. /\ i \in 1..k /\ s[i] \in Listed(d, x) /\ EntriesOf(d, x)[i] = EntryOf(d, x, s[i])
      /\ j \in 1..l /\ t[j] \in Listed(d, y) /\ EntriesOf(d, y)[j] = EntryOf(d, y, t[j])
  BY <1>2, <1>3
<1>a. \A z, n : EntryOf(d, z, n).path = Append(z, n)
  BY DEF EntryOf
<1>5. Append(x, s[i]) = Append(y, t[j])
  BY <1>4, <1>a
<1>6. s[i] \in Nat /\ t[j] \in Nat
  BY <1>1, <1>4, ListedIs
<1>7. x = y
  <2>1. Front(Append(x, s[i])) = x /\ Front(Append(y, t[j])) = y
    BY <1>1, <1>6, Grown
  <2> QED BY <1>5, <2>1
<1>8. s[i] = t[j]
  <2>1. Append(x, s[i])[Len(x) + 1] = s[i] /\ Append(y, t[j])[Len(y) + 1] = t[j]
    BY <1>1, <1>6, Grown
  <2> QED BY <1>5, <1>7, <2>1
<1>9. EntriesOf(d, x)[j] = EntryOf(d, x, s[j]) /\ EntriesOf(d, x)[j] = EntryOf(d, x, t[j])
  <2>1. j \in 1..k
    BY <1>4, <1>7 DEF k, l
  <2> QED BY <1>2, <1>4, <1>7, <2>1
<1>10. Append(x, s[j]) = Append(x, t[j]) /\ s[j] \in Listed(d, x)
  <2>1. Append(x, s[j]) = Append(x, t[j])
    BY <1>9, <1>a
  <2>2. j \in 1..k
    BY <1>4, <1>7 DEF k, l
  <2> QED BY <1>2, <2>1, <2>2
<1>11. s[j] = t[j]
  <2>1. s[j] \in Nat
    BY <1>1, <1>10, ListedIs
  <2>2. Append(x, s[j])[Len(x) + 1] = s[j] /\ Append(x, t[j])[Len(x) + 1] = t[j]
    BY <1>1, <1>6, <2>1, Grown
  <2> QED BY <1>10, <2>2
<1>12. i = j
  <2>1. j \in 1..k
    BY <1>4, <1>7 DEF k, l
  <2> QED BY <1>2, <1>4, <1>8, <1>11, <2>1
<1> QED BY <1>7, <1>12

\* A tree lists each page once, and each can be opened.
LEMMA EachPageOnce ==
    ASSUME NEW d, DirectoryOK(d), NEW dir \in Folders(d)
    PROVE  ListsEachPage(d, dir, getDirectoryTree(d, dir))
<1> DEFINE tree == getDirectoryTree(d, dir)
           places == {place \in Places(tree) : ~ tree[place[1]][place[2]].isDir}
           pages == PagesUnder(d, dir)
           f == [place \in places |-> tree[place[1]][place[2]].path]
<1>1. /\ DOMAIN tree = Reach(d, dir)
      /\ \A x \in Reach(d, dir) : tree[x] = EntriesOf(d, x)
  BY TreeIs
<1>2. {e.path : e \in PagesOf(tree)} = pages
  BY PagesAre
<1> HIDE DEF tree, pages
<1>3. IsFiniteSet(pages)
  <2>1. pages \in SUBSET DOMAIN d.files
    BY DEF pages, PagesUnder
  <2>2. IsFiniteSet(DOMAIN d.files)
    BY PathsOf
  <2> QED BY <2>1, <2>2, FS_Subset
<1>4. ASSUME NEW place \in Places(tree)
      PROVE  /\ place[1] \in Reach(d, dir) /\ place[2] \in DOMAIN EntriesOf(d, place[1])
             /\ place = <<place[1], place[2]>>
             /\ tree[place[1]] = EntriesOf(d, place[1])
  <2>1. PICK x \in DOMAIN tree : place \in {<<x, i>> : i \in DOMAIN tree[x]}
    BY DEF Places
  <2>2. PICK i \in DOMAIN tree[x] : place = <<x, i>>
    BY <2>1
  <2> QED BY <1>1, <2>2
<1>5. \A e : e \in PagesOf(tree) <=> \E place \in places : e = tree[place[1]][place[2]]
  BY DEF PagesOf, Entries
<1>6. f \in [places -> pages]
  BY <1>2, <1>5
<1>7. \A place \in places : f[place] = tree[place[1]][place[2]].path
  OBVIOUS
<1>8. \A p \in pages : \E place \in places : f[place] = p
  BY <1>2, <1>5, <1>7
<1>9. ASSUME NEW a \in places, NEW b \in places, f[a] = f[b] PROVE a = b
  <2>1. /\ a[1] \in Reach(d, dir) /\ a[2] \in DOMAIN EntriesOf(d, a[1])
        /\ a = <<a[1], a[2]>> /\ tree[a[1]] = EntriesOf(d, a[1])
    BY <1>4
  <2>2. /\ b[1] \in Reach(d, dir) /\ b[2] \in DOMAIN EntriesOf(d, b[1])
        /\ b = <<b[1], b[2]>> /\ tree[b[1]] = EntriesOf(d, b[1])
    BY <1>4
  <2>3. EntriesOf(d, a[1])[a[2]].path = EntriesOf(d, b[1])[b[2]].path
    BY <1>7, <1>9, <2>1, <2>2
  <2>4. a[1] = b[1] /\ a[2] = b[2]
    BY <2>1, <2>2, <2>3, PlacesDiffer
  <2> QED BY <2>1, <2>2, <2>4
<1>10. DOMAIN f = places
  OBVIOUS
<1> HIDE DEF f, places
<1>11. f \in Injection(places, pages)
  BY <1>6, <1>9, <1>10 DEF Injection, IsInjective
<1>12. f \in Surjection(places, pages)
  BY <1>6, <1>8 DEF Surjection
<1>13. Cardinality(places) = Cardinality(pages)
  BY <1>3, <1>11, <1>12, FS_Injection
<1>14. countPagesRecursive(tree) = Cardinality(pages)
  BY <1>13 DEF countPagesRecursive, places
<1>15. ASSUME NEW e \in PagesOf(tree) PROVE getPagePath(d, e.path) # {}
  <2>1. e.path \in DOMAIN d.files
    BY <1>2 DEF pages, PagesUnder
  <2>2. Exists(d, e.path)
    BY <2>1 DEF Exists
  <2>3. Exists(d, getLocalizedFilePath(d, e.path))
    BY <2>2 DEF getLocalizedFilePath
  <2> QED BY <2>3 DEF getPagePath
<1> QED BY <1>2, <1>14, <1>15 DEF ListsEachPage, tree, pages

-----------------------------------------------------------------------------
\* What an entry is.
LEMMA EntryIs ==
    ASSUME NEW d, DirectoryOK(d), NEW x \in Folders(d), NEW n \in Listed(d, x)
    PROVE  LET e == EntryOf(d, x, n)
           IN  /\ n \in Nat /\ x \in Paths
               /\ e.path = Append(x, n) /\ Front(e.path) = x /\ NameOf(e) = n
               /\ MetaOf(d, e) = Metadata(d, x)
<1> DEFINE e == EntryOf(d, x, n)
<1>1. n \in Nat /\ x \in Paths
  BY ListedIs, PathsOf
<1>2. e.path = Append(x, n)
  BY DEF EntryOf
<1> HIDE DEF e
<1>3. Front(e.path) = x /\ e.path[Len(e.path)] = n
  <2>1. /\ Len(Append(x, n)) = Len(x) + 1 /\ Append(x, n)[Len(x) + 1] = n
        /\ Front(Append(x, n)) = x
    BY <1>1, Grown
  <2> QED BY <1>2, <2>1
<1> QED BY <1>1, <1>2, <1>3 DEF e, NameOf, MetaOf, Metadata

\* A directory is in the order of its metadata.
LEMMA TreeInOrder ==
    ASSUME NEW d, DirectoryOK(d), NEW dir \in Folders(d)
    PROVE  InItsOrder(d, getDirectoryTree(d, dir))
<1> DEFINE tree == getDirectoryTree(d, dir)
<1>1. /\ DOMAIN tree = Reach(d, dir)
      /\ \A x \in Reach(d, dir) : x \in Folders(d) /\ x \in Paths /\ tree[x] = EntriesOf(d, x)
  BY TreeIs
<1> HIDE DEF tree
<1>2. ASSUME NEW x \in DOMAIN tree, NEW i \in DOMAIN tree[x], NEW j \in DOMAIN tree[x], i < j
      PROVE  LET meta == MetaOf(d, tree[x][i])
                 name(k) == NameOf(tree[x][k])
                 at(k) == {m \in DOMAIN meta : meta[m].key = name(k)}
             IN  IF meta = <<>> THEN name(i) < name(j)
                 ELSE \A m \in at(j) : at(i) # {} /\ \A l \in at(i) : l < m
  <2> DEFINE meta == Metadata(d, x)
             k == Cardinality(Listed(d, x))
  <2>1. x \in Folders(d) /\ x \in Paths /\ tree[x] = EntriesOf(d, x)
    BY <1>1
  <2>2. PICK s : /\ k \in Nat /\ s \in [1..k -> Listed(d, x)]
                 /\ \A l, m \in 1..k : l # m => s[l] # s[m]
                 /\ \A l, m \in 1..k : l < m => ~ Before(meta, s[m], s[l])
                 /\ EntriesOf(d, x) = [l \in 1..k |-> EntryOf(d, x, s[l])]
    BY <2>1, EntriesAre
  <2>3. /\ i \in 1..k /\ s[i] \in Listed(d, x) /\ tree[x][i] = EntryOf(d, x, s[i])
        /\ j \in 1..k /\ s[j] \in Listed(d, x) /\ tree[x][j] = EntryOf(d, x, s[j])
    BY <2>1, <2>2
  <2>4. /\ s[i] \in Nat /\ NameOf(tree[x][i]) = s[i] /\ MetaOf(d, tree[x][i]) = meta
        /\ s[j] \in Nat /\ NameOf(tree[x][j]) = s[j]
    BY <2>1, <2>3, EntryIs
  <2> DEFINE a == s[i]
             b == s[j]
  <2>5. i # j
    BY <1>2, <2>2, <2>3
  <2>6. a # b /\ ~ Before(meta, b, a)
    BY <1>2, <2>2, <2>3, <2>5
  <2>7. /\ MetaOK(meta)
        /\ \A l, m \in DOMAIN meta : meta[l].key = meta[m].key => l = m
    BY <2>1, MetaIs
  <2> HIDE DEF meta
  <2>8. CASE meta = <<>>
    <3>1. ~ (b < a)
      BY <2>6, <2>8, BeforeIs
    <3>2. a < b
      BY <2>4, <2>6, <3>1
    <3> QED BY <2>4, <2>8, <3>2
  <2>9. CASE meta # <<>>
    <3> SUFFICES ASSUME NEW m \in At(meta, b)
                 PROVE  At(meta, a) # {} /\ \A l \in At(meta, a) : l < m
      BY <2>4, <2>9 DEF At
    <3>1. PICK m1 \in At(meta, b), l1 \in At(meta, a) : ~ (m1 < l1)
      BY <2>6, <2>9, BeforeIs
    <3>2. m1 = m
      BY <2>7 DEF At
    <3>3. ASSUME NEW l \in At(meta, a) PROVE l < m
      <4>1. l1 = l
        BY <2>7 DEF At
      <4>2. l # m
        BY <2>6 DEF At
      <4>3. l \in Nat /\ m \in Nat
        BY <2>7 DEF At, MetaOK
      <4> QED BY <3>1, <3>2, <4>1, <4>2, <4>3
    <3> QED BY <3>1, <3>3
  <2> QED BY <2>8, <2>9
<1> QED BY <1>2 DEF InItsOrder, tree

\* What is kept of a sequence of entries.
Kept(d, entries) ==
    LET first[n \in 0..Len(entries)] ==
            IF n = 0 THEN <<>> ELSE first[n - 1] \o WithMetadata(d, entries[n])
    IN  first[Len(entries)]

\* The first m of the sequences that are joined.
Joins(d, entries, h, m) ==
    /\ h[0] = <<>>
    /\ \A n \in 1..m : h[n] = h[n - 1] \o WithMetadata(d, entries[n])

\* Sequences can be joined.
LEMMA JoinsExist ==
    ASSUME NEW d, NEW entries, NEW N \in Nat
    PROVE  \E h : Joins(d, entries, h, N)
<1> DEFINE T == {m \in Nat : \E h : Joins(d, entries, h, m)}
<1>1. 0 \in T
  <2> DEFINE h == [n \in 0..0 |-> <<>>]
  <2>1. h[0] = <<>> /\ 1..0 = {}
    OBVIOUS
  <2>2. Joins(d, entries, h, 0)
    BY <2>1 DEF Joins
  <2> QED BY <2>2
<1>2. ASSUME NEW m \in Nat, m \in T PROVE m + 1 \in T
  <2>1. PICK h : Joins(d, entries, h, m)
    BY <1>2
  <2> DEFINE last == h[m] \o WithMetadata(d, entries[m + 1])
             g == [n \in 0..(m + 1) |-> IF n = m + 1 THEN last ELSE h[n]]
  <2>2. h[0] = <<>> /\ \A n \in 1..m : h[n] = h[n - 1] \o WithMetadata(d, entries[n])
    BY <2>1 DEF Joins
  <2> HIDE DEF last
  <2>3. g[m + 1] = last /\ \A n \in 0..m : g[n] = h[n]
    OBVIOUS
  <2> HIDE DEF g
  <2>4. g[0] = <<>>
    BY <2>2, <2>3
  <2>5. ASSUME NEW n \in 1..(m + 1) PROVE g[n] = g[n - 1] \o WithMetadata(d, entries[n])
    <3>1. n - 1 \in 0..m /\ (n = m + 1 \/ n \in 1..m)
      OBVIOUS
    <3>2. g[n - 1] = h[n - 1]
      BY <2>3, <3>1
    <3>3. CASE n = m + 1
      <4>1. n - 1 = m
        BY <3>3
      <4> QED BY <2>3, <3>2, <3>3, <4>1 DEF last
    <3>4. CASE n \in 1..m
      <4>1. n \in 0..m
        BY <3>4
      <4> QED BY <2>2, <2>3, <3>2, <3>4, <4>1
    <3> QED BY <3>1, <3>3, <3>4
  <2>6. Joins(d, entries, g, m + 1)
    BY <2>4, <2>5 DEF Joins
  <2> QED BY <2>6
<1> HIDE DEF T
<1>3. N \in T
  BY <1>1, <1>2, NatSet
<1> QED BY <1>3 DEF T

\* Of each entry is kept what is made of it.
LEMMA KeptIs ==
    ASSUME NEW d, NEW entries, Len(entries) \in Nat
    PROVE  \A e : e \in ToSet(Kept(d, entries)) <=>
                    \E i \in 1..Len(entries) : e \in ToSet(WithMetadata(d, entries[i]))
<1> DEFINE N == Len(entries)
           W(n) == WithMetadata(d, entries[n])
           R == UNION {ToSet(W(i)) : i \in 1..N}
           Solves(h) == h = [n \in 0..N |-> IF n = 0 THEN <<>> ELSE h[n - 1] \o W(n)]
           first == CHOOSE h : Solves(h)
<1>1. \E h : Solves(h)
  <2>1. PICK h : Joins(d, entries, h, N)
    BY JoinsExist
  <2> DEFINE g == [n \in 0..N |-> h[n]]
  <2>2. \A n \in 0..N : g[n] = h[n]
    OBVIOUS
  <2>3. ASSUME NEW n \in 0..N PROVE h[n] = IF n = 0 THEN <<>> ELSE g[n - 1] \o W(n)
    <3>1. CASE n = 0
      BY <2>1, <3>1 DEF Joins
    <3>2. CASE n # 0
      <4>1. n \in 1..N /\ n - 1 \in 0..N
        BY <3>2
      <4>2. h[n] = h[n - 1] \o W(n)
        BY <2>1, <4>1 DEF Joins
      <4> HIDE DEF g
      <4> QED BY <2>2, <3>2, <4>1, <4>2
    <3> QED BY <3>1, <3>2
  <2>4. g = [n \in 0..N |-> IF n = 0 THEN <<>> ELSE g[n - 1] \o W(n)]
    BY <2>3
  <2> QED BY <2>4
<1>2. Solves(first)
  BY <1>1
<1>3. Kept(d, entries) = first[N]
  BY DEF Kept
<1> HIDE DEF first
<1>4. first[0] = <<>> /\ \A n \in 1..N : first[n] = first[n - 1] \o W(n)
  <2>1. \A n \in 0..N : first[n] = IF n = 0 THEN <<>> ELSE first[n - 1] \o W(n)
    BY <1>2
  <2>2. \A n \in 1..N : n \in 0..N /\ n # 0
    OBVIOUS
  <2>3. 0 \in 0..N
    OBVIOUS
  <2> HIDE DEF Solves, W, N, R
  <2>4. first[0] = <<>>
    BY <2>1, <2>3
  <2>5. \A n \in 1..N : first[n] = first[n - 1] \o W(n)
    BY <2>1, <2>2
  <2> QED BY <2>4, <2>5
<1>5. ASSUME NEW n \in 1..N PROVE W(n) \in Seq(R)
  <2>1. ToSet(W(n)) \subseteq R
    OBVIOUS
  <2>2. \E e : W(n) = <<>> \/ W(n) = <<e>>
    BY DEF WithMetadata
  <2> HIDE DEF W, R
  <2>3. CASE W(n) = <<>>
    BY <2>3
  <2>4. ASSUME NEW e, W(n) = <<e>> PROVE W(n) \in Seq(R)
    <3>1. ToSet(<<e>>) = {e}
      BY DEF ToSet
    <3>2. e \in R
      BY <2>1, <2>4, <3>1
    <3> QED BY <2>4, <3>2
  <2> QED BY <2>2, <2>3, <2>4
<1> HIDE DEF R, Solves, W
<1> DEFINE UpTo(n) == UNION {ToSet(W(i)) : i \in 1..n}
           T == {n \in Nat : n <= N => first[n] \in Seq(R) /\ ToSet(first[n]) = UpTo(n)}
<1>6. 0 \in T
  <2>1. ToSet(<<>>) = {} /\ 1..0 = {}
    BY DEF ToSet
  <2>2. UpTo(0) = {}
    BY <2>1
  <2>3. first[0] \in Seq(R) /\ ToSet(first[0]) = UpTo(0)
    BY <1>4, <2>1, <2>2
  <2> HIDE DEF UpTo
  <2> QED BY <2>3
<1>7. ASSUME NEW n \in Nat, n \in T PROVE n + 1 \in T
  <2> SUFFICES ASSUME n + 1 <= N
               PROVE  first[n + 1] \in Seq(R) /\ ToSet(first[n + 1]) = UpTo(n + 1)
    OBVIOUS
  <2>1. first[n] \in Seq(R) /\ ToSet(first[n]) = UpTo(n)
    BY <1>7
  <2>2. n + 1 \in 1..N /\ (n + 1) - 1 = n
    OBVIOUS
  <2>3. first[n + 1] = first[n] \o W(n + 1) /\ W(n + 1) \in Seq(R)
    BY <1>4, <1>5, <2>2
  <2>4. first[n + 1] \in Seq(R)
    BY <2>1, <2>3, ConcatProperties
  <2>5. ToSet(first[n + 1]) = ToSet(first[n]) \cup ToSet(W(n + 1))
    <3>1. \A s : ToSet(s) = Range(s)
      BY DEF ToSet, Range
    <3>2. Range(first[n] \o W(n + 1)) = Range(first[n]) \cup Range(W(n + 1))
      BY <2>1, <2>3, RangeConcatenation
    <3> QED BY <2>3, <3>1, <3>2
  <2>6. \A i : i \in 1..(n + 1) <=> i \in 1..n \/ i = n + 1
    OBVIOUS
  <2>7. UpTo(n + 1) = UpTo(n) \cup ToSet(W(n + 1))
    BY <2>6
  <2> QED BY <2>1, <2>4, <2>5, <2>7
<1> HIDE DEF T
<1>8. N \in T
  BY <1>6, <1>7, NatSet
<1>9. ToSet(first[N]) = UpTo(N)
  BY <1>8 DEF T
<1> QED BY <1>3, <1>9 DEF W

\* A page's front matter can be read if it is there.
LEMMA AttributesAre ==
    ASSUME NEW d, NEW p
    PROVE  readPageAttributes(d, p) # {} <=> Page(d, p).front = "ok"
  BY DEF readPageAttributes

\* What is made of an entry: itself if it is a directory, a page if it has front matter.
LEMMA WithMetadataIs ==
    ASSUME NEW d, NEW x, NEW n
    PROVE  LET e == EntryOf(d, x, n)
               made == ToSet(WithMetadata(d, e))
           IN  /\ \A a \in made : a.path = e.path /\ a.isDir = e.isDir
               /\ made # {} <=> e.isDir \/ readPageAttributes(d, e.path) # {}
<1> DEFINE e == EntryOf(d, x, n)
           made == ToSet(WithMetadata(d, e))
           a == [e EXCEPT !.id = (CHOOSE b \in readPageAttributes(d, e.path) : TRUE).id]
<1>1. a.path = e.path /\ a.isDir = e.isDir
  BY DEF EntryOf
<1>2. WithMetadata(d, e) = IF e.isDir THEN <<e>>
                           ELSE IF readPageAttributes(d, e.path) = {} THEN <<>> ELSE <<a>>
  BY DEF WithMetadata
<1> HIDE DEF a, e
<1>3. ToSet(<<>>) = {} /\ \A b : ToSet(<<b>>) = {b}
  BY DEF ToSet
<1>4. made = IF e.isDir THEN {e} ELSE IF readPageAttributes(d, e.path) = {} THEN {} ELSE {a}
  BY <1>2, <1>3
<1> HIDE DEF made
<1> QED BY <1>1, <1>4 DEF made, e

\* The contents are the pages of the tree with front matter.
LEMMA ContentsOfTree ==
    ASSUME NEW d, DirectoryOK(d), NEW dir \in Folders(d)
    PROVE  {e.path : e \in PagesOf(addPageMetadata(d, getDirectoryTree(d, dir)))}
             = {p \in PagesUnder(d, dir) : Page(d, p).front = "ok"}
<1> DEFINE tree == getDirectoryTree(d, dir)
           kept == addPageMetadata(d, tree)
<1>1. /\ DOMAIN tree = Reach(d, dir)
      /\ \A x \in Reach(d, dir) : x \in Folders(d) /\ tree[x] = EntriesOf(d, x)
  BY TreeIs
<1>2. \A e : e \in Entries(tree) <=>
               \E x \in Reach(d, dir) : \E n \in Listed(d, x) : e = EntryOf(d, x, n)
  BY EntriesOfTree
<1>3. {e.path : e \in PagesOf(tree)} = PagesUnder(d, dir)
  BY PagesAre
<1> HIDE DEF tree
<1>4. kept = [x \in DOMAIN tree |-> Kept(d, tree[x])]
  BY DEF addPageMetadata, Kept
<1> HIDE DEF kept
<1>5. \A e : e \in Entries(kept) <=> \E x \in DOMAIN kept : e \in ToSet(kept[x])
  BY EntryInTree
<1>6. ASSUME NEW x \in Reach(d, dir)
      PROVE  /\ x \in DOMAIN kept
             /\ \A e : e \in ToSet(kept[x]) <=>
                         \E n \in Listed(d, x) : e \in ToSet(WithMetadata(d, EntryOf(d, x, n)))
  <2>1. x \in Folders(d) /\ tree[x] = EntriesOf(d, x) /\ kept[x] = Kept(d, EntriesOf(d, x))
    BY <1>1, <1>4
  <2> DEFINE es == EntriesOf(d, x)
             k == Cardinality(Listed(d, x))
  <2>2. PICK s : /\ k \in Nat /\ s \in [1..k -> Listed(d, x)]
                 /\ \A n \in Listed(d, x) : \E i \in 1..k : s[i] = n
                 /\ es = [i \in 1..k |-> EntryOf(d, x, s[i])]
    BY <2>1, EntriesAre
  <2>3. Len(es) = k /\ \A i \in 1..k : es[i] = EntryOf(d, x, s[i])
    BY <2>2
  <2> HIDE DEF es, k
  <2>4. \A e : e \in ToSet(Kept(d, es)) <=> \E i \in 1..k : e \in ToSet(WithMetadata(d, es[i]))
    BY <2>2, <2>3, KeptIs
  <2>5. ASSUME NEW e
        PROVE  (\E i \in 1..k : e \in ToSet(WithMetadata(d, es[i]))) <=>
                 \E n \in Listed(d, x) : e \in ToSet(WithMetadata(d, EntryOf(d, x, n)))
    <3>1. ASSUME NEW i \in 1..k, e \in ToSet(WithMetadata(d, es[i]))
          PROVE  \E n \in Listed(d, x) : e \in ToSet(WithMetadata(d, EntryOf(d, x, n)))
      BY <2>2, <2>3, <3>1
    <3>2. ASSUME NEW n \in Listed(d, x), e \in ToSet(WithMetadata(d, EntryOf(d, x, n)))
          PROVE  \E i \in 1..k : e \in ToSet(WithMetadata(d, es[i]))
      <4>1. PICK i \in 1..k : s[i] = n
        BY <2>2
      <4> QED BY <2>3, <3>2, <4>1
    <3> QED BY <3>1, <3>2
  <2>6. x \in DOMAIN kept
    BY <1>1, <1>4
  <2> QED BY <2>1, <2>4, <2>5, <2>6 DEF es
<1>7. ASSUME NEW a \in PagesOf(kept)
      PROVE  a.path \in PagesUnder(d, dir) /\ Page(d, a.path).front = "ok"
  <2>1. a \in Entries(kept) /\ ~ a.isDir
    BY DEF PagesOf
  <2>2. PICK x \in Reach(d, dir) : a \in ToSet(kept[x])
    BY <1>1, <1>4, <1>5, <2>1
  <2>3. PICK n \in Listed(d, x) : a \in ToSet(WithMetadata(d, EntryOf(d, x, n)))
    BY <1>6, <2>2
  <2> DEFINE e == EntryOf(d, x, n)
  <2>4. /\ a.path = e.path /\ a.isDir = e.isDir
        /\ e.isDir \/ readPageAttributes(d, e.path) # {}
    BY <2>3, WithMetadataIs
  <2>5. e \in Entries(tree)
    BY <1>2
  <2> HIDE DEF e
  <2>6. e \in PagesOf(tree) /\ readPageAttributes(d, e.path) # {}
    BY <2>1, <2>4, <2>5 DEF PagesOf
  <2> QED BY <1>3, <2>4, <2>6, AttributesAre
<1>8. ASSUME NEW p \in PagesUnder(d, dir), Page(d, p).front = "ok"
      PROVE  \E a \in PagesOf(kept) : a.path = p
  <2>1. PICK e \in PagesOf(tree) : e.path = p
    BY <1>3
  <2>2. e \in Entries(tree) /\ ~ e.isDir
    BY DEF PagesOf
  <2>3. PICK x \in Reach(d, dir) : \E n \in Listed(d, x) : e = EntryOf(d, x, n)
    BY <1>2, <2>2
  <2>4. PICK n \in Listed(d, x) : e = EntryOf(d, x, n)
    BY <2>3
  <2>5. readPageAttributes(d, e.path) # {}
    BY <1>8, <2>1, AttributesAre
  <2>6. PICK a : a \in ToSet(WithMetadata(d, EntryOf(d, x, n)))
    BY <2>4, <2>5, WithMetadataIs
  <2>7. a.path = p /\ ~ a.isDir
    BY <2>1, <2>2, <2>4, <2>6, WithMetadataIs
  <2>8. a \in Entries(kept)
    BY <1>5, <1>6, <2>6
  <2>9. a \in PagesOf(kept)
    BY <2>7, <2>8 DEF PagesOf
  <2> QED BY <2>7, <2>9
<1>9. {e.path : e \in PagesOf(kept)} = {p \in PagesUnder(d, dir) : Page(d, p).front = "ok"}
  BY <1>7, <1>8
<1> QED BY <1>9 DEF kept, tree

\* Without content pages there are none.
LEMMA ContentsAre ==
    ASSUME NEW d, DirectoryOK(d)
    PROVE  {e.path : e \in PagesOf(getProjectContents(d))}
             = {p \in PagesUnder(d, <<ContentDir>>) : Page(d, p).front = "ok"}
<1>1. CASE <<ContentDir>> \in Folders(d)
  BY <1>1, ContentsOfTree DEF getProjectContents
<1>2. CASE <<ContentDir>> \notin Folders(d)
  <2>1. getProjectContents(d) = NoTree
    BY <1>2 DEF getProjectContents
  <2>2. PagesOf(NoTree) = {}
    <3>1. Places(NoTree) = {}
      BY DEF Places, NoTree
    <3> QED BY <3>1 DEF PagesOf, Entries
  <2>3. PagesUnder(d, <<ContentDir>>) = {}
    <3> SUFFICES ASSUME NEW p \in DOMAIN d.files, Under(<<ContentDir>>, p) PROVE FALSE
      BY DEF PagesUnder
    <3>1. <<ContentDir>> \in Paths /\ Len(<<ContentDir>>) # 0
      BY PagesAssumption DEF Paths
    <3>2. DOMAIN d.files \subseteq Paths
      BY PathsOf
    <3> QED BY <1>2, <3>1, <3>2, FolderIs
  <2> QED BY <2>1, <2>2, <2>3
<1> QED BY <1>1, <1>2

\* A title is of the file that is read.
LEMMA SameFile ==
    ASSUME NEW d, NEW p, NEW q, getLocalizedFilePath(d, p) = getLocalizedFilePath(d, q)
    PROVE  getPageTitle(d, p) = getPageTitle(d, q)
<1>1. Page(d, p) = Page(d, q)
  BY DEF Page
<1>2. readPageAttributes(d, p) = readPageAttributes(d, q)
  BY <1>1 DEF readPageAttributes
<1> QED BY <1>1, <1>2 DEF getPageTitle

\* What has no file has no title.
LEMMA NoFile ==
    ASSUME NEW d, NEW p, getLocalizedFilePath(d, p) \notin DOMAIN d.files
    PROVE  getPageTitle(d, p) = NoTitle
<1>1. Page(d, p) = NoPage
  BY DEF Page
<1>2. NoPage.title = NoTitle /\ NoPage.heading = NoTitle
  BY DEF NoPage
<1> QED BY <1>1, <1>2 DEF getPageTitle

\* Titles are told from names that are made or given.
LEMMA TitleOK ==
    ASSUME NEW d, DirectoryOK(d), NEW p, getPageTitle(d, p) # NoTitle
    PROVE  getPageTitle(d, p)[1] \notin {"auto", "meta"}
<1> DEFINE file == getLocalizedFilePath(d, p)
<1>1. file \in DOMAIN d.files
  BY NoFile
<1>2. getPageTitle(d, p) \in {Page(d, p).title, Page(d, p).heading}
  BY DEF getPageTitle
<1>3. CASE file[Len(file)] \in Docs
  <2>1. Page(d, p) = d.files[file]
    BY <1>1, <1>3 DEF Page
  <2>2. \A t \in {d.files[file].title, d.files[file].heading} :
          t = NoTitle \/ t[1] \notin {"auto", "meta"}
    BY <1>1, <1>3 DEF DirectoryOK
  <2> QED BY <1>2, <2>1, <2>2
<1>4. CASE file[Len(file)] \notin Docs
  <2>1. Page(d, p) = NoPage
    BY <1>4 DEF Page
  <2>2. NoPage.title = NoTitle /\ NoPage.heading = NoTitle
    BY DEF NoPage
  <2> QED BY <1>2, <2>1, <2>2
<1> QED BY <1>3, <1>4

\* The title by which metadata names what it lists is that of the entry, or of its
\* translation.
LEMMA NextToIs ==
    ASSUME NEW d, DirectoryOK(d), NEW x \in Paths, NEW n \in Nat
    PROVE  LET p == Append(x, n)
           IN  \/ Next2To(d, x, n) = getPageTitle(d, p)
               \/ HalfTranslated(d, p) /\ Next2To(d, x, n) = NoTitle
               \/ TwiceTranslated(d, p)
<1> DEFINE p == Append(x, n)
           m == Append(x, MetaFile)
           file == getFolderMetaFilePath(d, x)
           q == Localized(d, p)
<1>1. p \in Paths /\ Front(p) = x /\ m \in Paths /\ Front(m) = x
  BY PagesAssumption, Grown
<1>2. CASE d.locale # NoLocale /\ Exists(d, Localized(d, m))
  <2>1. file = Localized(d, m) /\ Localized(d, m) = Append(Localized(d, x), MetaFile)
    BY <1>2, PagesAssumption, LocalizedIs DEF getFolderMetaFilePath, getLocalizedFilePath
  <2>2. Localized(d, x) \in Paths
    BY LocalizedIs
  <2>3. Front(file) = Localized(d, x)
    BY <2>1, <2>2, PagesAssumption, Grown
  <2>4. Append(Front(file), n) = q
    BY <2>3, LocalizedIs
  <2>5. Next2To(d, x, n) = getPageTitle(d, q)
    BY <2>4 DEF Next2To
  <2>6. CASE Exists(d, Localized(d, q))
    BY <1>2, <2>6 DEF TwiceTranslated
  <2>7. CASE ~ Exists(d, Localized(d, q)) /\ Exists(d, q)
    <3>1. getLocalizedFilePath(d, q) = q /\ getLocalizedFilePath(d, p) = q
      BY <1>2, <2>7 DEF getLocalizedFilePath
    <3> QED BY <2>5, <3>1, SameFile
  <2>8. CASE ~ Exists(d, Localized(d, q)) /\ ~ Exists(d, q)
    <3>1. getLocalizedFilePath(d, q) = q
      BY <2>8 DEF getLocalizedFilePath
    <3>2. q \notin DOMAIN d.files
      BY <2>8 DEF Exists
    <3>3. Next2To(d, x, n) = NoTitle
      BY <2>5, <3>1, <3>2, NoFile
    <3>4. HalfTranslated(d, p)
      BY <1>1, <1>2, <2>8 DEF HalfTranslated
    <3> QED BY <3>3, <3>4
  <2> QED BY <2>6, <2>7, <2>8
<1>3. CASE ~ (d.locale # NoLocale /\ Exists(d, Localized(d, m)))
  <2>1. file = m
    BY <1>3 DEF getFolderMetaFilePath, getLocalizedFilePath
  <2>2. Next2To(d, x, n) = getPageTitle(d, p)
    BY <1>1, <2>1 DEF Next2To
  <2> QED BY <2>2
<1> QED BY <1>2, <1>3

\* An entry is shown under the name that is given, its title, or one made from its file's.
LEMMA TreeNamed ==
    ASSUME NEW d, DirectoryOK(d), NEW dir \in Folders(d)
    PROVE  NamedAsTitled(d, getDirectoryTree(d, dir))
<1> SUFFICES ASSUME NEW e \in Entries(getDirectoryTree(d, dir))
             PROVE  LET meta == MetaOf(d, e)
                        title == getPageTitle(d, e.path)
                    IN  /\ e.name # NoTitle
                        /\ \/ /\ e.name[1] = "meta"
                              /\ \E i \in DOMAIN meta :
                                   meta[i].key = NameOf(e) /\ meta[i].name = e.name
                           \/ title # NoTitle /\ e.name = title
                           \/ /\ title = NoTitle \/ HalfTranslated(d, e.path)
                              /\ e.name = AutoName(NameOf(e))
                           \/ TwiceTranslated(d, e.path)
  BY DEF NamedAsTitled
<1>1. PICK x \in Reach(d, dir) : \E n \in Listed(d, x) : e = EntryOf(d, x, n)
  BY EntriesOfTree
<1>2. PICK n \in Listed(d, x) : e = EntryOf(d, x, n)
  BY <1>1
<1> DEFINE meta == Metadata(d, x)
           title == getPageTitle(d, Append(x, n))
<1>3. x \in Folders(d) /\ x \in Paths
  BY TreeIs
<1>4. /\ n \in Nat /\ e.path = Append(x, n) /\ NameOf(e) = n /\ MetaOf(d, e) = meta
  BY <1>2, <1>3, EntryIs
<1>5. e.name = IF At(meta, n) # {} THEN meta[CHOOSE i \in At(meta, n) : TRUE].name
               ELSE IF title # NoTitle THEN title ELSE AutoName(n)
  BY <1>2 DEF EntryOf
<1> HIDE DEF meta, title
<1>6. AutoName(n) # NoTitle
  BY AutoNamed
<1>7. CASE At(meta, n) = {}
  <2>1. e.name = IF title # NoTitle THEN title ELSE AutoName(n)
    BY <1>5, <1>7
  <2>2. e.name # NoTitle
    BY <1>6, <2>1
  <2>3. \/ title # NoTitle /\ e.name = title
        \/ title = NoTitle /\ e.name = AutoName(NameOf(e))
    BY <1>4, <2>1
  <2> QED BY <1>4, <2>2, <2>3 DEF title
<1>8. CASE At(meta, n) # {}
  <2>1. PICK i \in At(meta, n) : e.name = meta[i].name
    BY <1>5, <1>8
  <2>2. i \in DOMAIN meta /\ meta[i].key = n
    BY DEF At
  <2> DEFINE other == Next2To(d, x, n)
  <2>3. /\ e.name # NoTitle
        /\ \/ e.name[1] = "meta"
           \/ other # NoTitle /\ e.name = other
           \/ other = NoTitle /\ e.name = AutoName(n)
    BY <1>3, <2>1, <2>2, MetaIs DEF meta
  <2>4. \/ other = title
        \/ HalfTranslated(d, e.path) /\ other = NoTitle
        \/ TwiceTranslated(d, e.path)
    BY <1>3, <1>4, NextToIs DEF title
  <2> HIDE DEF other
  <2>5. e.name[1] = "meta" =>
          \E j \in DOMAIN meta : meta[j].key = NameOf(e) /\ meta[j].name = e.name
    BY <1>4, <2>1, <2>2
  <2>6. \/ e.name[1] = "meta"
        \/ title # NoTitle /\ e.name = title
        \/ (title = NoTitle \/ HalfTranslated(d, e.path)) /\ e.name = AutoName(NameOf(e))
        \/ TwiceTranslated(d, e.path)
    BY <1>4, <2>3, <2>4
  <2> QED BY <1>4, <2>3, <2>5, <2>6 DEF title
<1> QED BY <1>7, <1>8

\* A page without a title is reported, in the contents if it is kept there.
LEMMA TreeReported ==
    ASSUME NEW d, DirectoryOK(d), d.locale = NoLocale,
           NEW dir \in {<<>>, <<ContentDir>>} \cap Folders(d)
    PROVE  ReportsUntitled(d, dir, getDirectoryTree(d, dir))
<1> DEFINE tree == getDirectoryTree(d, dir)
<1> SUFFICES ASSUME NEW e \in PagesOf(tree), e.name[1] = "auto"
             PROVE  \/ <<"NO_PAGE_TITLE", e.path>> \in validatePages(d)
                    \/ dir # <<>> /\ readPageAttributes(d, e.path) = {}
  BY DEF ReportsUntitled
<1>1. e \in Entries(tree) /\ ~ e.isDir
  BY DEF PagesOf
<1> DEFINE title == getPageTitle(d, e.path)
<1>2. /\ e.name # NoTitle
      /\ \/ e.name[1] = "meta"
         \/ title # NoTitle /\ e.name = title
         \/ title = NoTitle \/ HalfTranslated(d, e.path)
         \/ TwiceTranslated(d, e.path)
  BY <1>1, TreeNamed DEF NamedAsTitled
<1>3. ~ HalfTranslated(d, e.path) /\ ~ TwiceTranslated(d, e.path)
  BY DEF HalfTranslated, TwiceTranslated
<1>4. title # NoTitle => title[1] # "auto"
  BY TitleOK
<1> HIDE DEF title
<1>5. title = NoTitle
  BY <1>2, <1>3, <1>4
<1>6. ASSUME NEW t, NEW required, NEW a \in PagesOf(t), a.path = e.path
      PROVE  <<"NO_PAGE_TITLE", e.path>> \in validatePagesTree(d, t, required)
  <2>1. a \in Entries(t) /\ ~ a.isDir
    BY DEF PagesOf
  <2>2. e.path \in {b.path : b \in {b \in Entries(t) : ~ b.isDir}}
    BY <1>6, <2>1
  <2> QED BY <1>5, <2>2 DEF validatePagesTree, title
<1>7. CASE dir = <<>>
  BY <1>6, <1>7 DEF validatePages
<1>8. CASE dir = <<ContentDir>> /\ readPageAttributes(d, e.path) # {}
  <2>1. e.path \in PagesUnder(d, <<ContentDir>>)
    BY <1>8, PagesAre
  <2>2. Page(d, e.path).front = "ok"
    BY <1>8, AttributesAre
  <2>3. PICK a \in PagesOf(getProjectContents(d)) : a.path = e.path
    BY <2>1, <2>2, ContentsAre
  <2>4. <<"NO_PAGE_TITLE", e.path>> \in validatePagesTree(d, getProjectContents(d), TRUE)
    BY <1>6, <2>3
  <2> QED BY <2>4 DEF validatePages
<1>9. CASE dir = <<ContentDir>> /\ readPageAttributes(d, e.path) = {}
  BY <1>9
<1> QED BY <1>7, <1>8, <1>9

\* The tree of a deployment's pages, and that of its content pages (pages.cc, content.cc),
\* are complete: each page is listed once, in order, and under its title, whatever the
\* directory.
THEOREM TreesAreComplete == EveryTreeIsComplete
<1> SUFFICES ASSUME NEW d \in Directories PROVE IsComplete(d)
  BY DEF EveryTreeIsComplete
<1>1. DirectoryOK(d)
  BY PagesAssumption
<1>2. ASSUME NEW dir \in {<<>>, <<ContentDir>>} \cap Folders(d)
      PROVE  LET tree == getDirectoryTree(d, dir)
             IN  /\ ListsEachPage(d, dir, tree)
                 /\ InItsOrder(d, tree)
                 /\ NamedAsTitled(d, tree)
                 /\ d.locale = NoLocale => ReportsUntitled(d, dir, tree)
  BY <1>1, EachPageOnce, TreeInOrder, TreeNamed, TreeReported
<1>3. {e.path : e \in PagesOf(getProjectContents(d))}
        = {p \in PagesUnder(d, <<ContentDir>>) : Page(d, p).front = "ok"}
  BY <1>1, ContentsAre
<1> QED BY <1>2, <1>3 DEF IsComplete

\* What getDirectoryTree has put into the cache is complete.
THEOREM TreeIsCompleteHolds == Spec => []TreeIsComplete
<1>1. TreeIsComplete
  BY TreesAreComplete DEF TreeIsComplete
<1> QED BY <1>1, PTL
=============================================================================
