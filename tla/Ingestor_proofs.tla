-------------------------- MODULE Ingestor_proofs --------------------------
(***************************************************************************)
(* What the ingestor keeps, for every set of projects and of imports,      *)
(* every content and any number of ingestions, faults and crashes; and     *)
(* what is made of recipes, for every recipe file that passes its schema.  *)
(***************************************************************************)
EXTENDS Listed, TLAPS, FiniteSetTheorems, WellFoundedInduction, NaturalsInduction

\* A loop that runs has names left, of what was read, and a transaction that is open
\* belongs to an ingestion under way.
Looping ==
    \A w \in Coroutines :
        /\ pc[w] \in {"idle", "done"} => trans[w].state # "open"
        /\ pc[w] \in {"items", "tags"} => todo[w] # {}
        /\ pc[w] \in {"items", "tags", "links", "recipes", "finish"} =>
              repo[w] \in Repos \cup GameRepos
        /\ pc[w] = "items" => todo[w] \subseteq repo[w].items
        /\ pc[w] = "tags" => todo[w] \subseteq repo[w].tags

\* While imports have not overlapped, there is one at a time, and the pointer leads to its
\* transaction.
OnePointer ==
    overlap \/ \A i \in Imports : pc[i] # "idle" =>
        /\ \A j \in Imports \ {i} : pc[j] = "idle"
        /\ pc[i] # "done" => client = i

\* The transaction of a mod has rows of its ingestion, and after the wipe no others.
OwnRowsOf(m) ==
    /\ \A r \in trans[m].added : r.gen = gen[m]
    /\ trans[m].state = "open" /\ pc[m] # "wipe" => trans[m].wiped
OwnRows == \A m \in Mods : OwnRowsOf(m)

\* A transaction holds names that come before those it has still to insert.
LocksInOrder ==
    overlap \/ \A w \in Coroutines : \A l \in trans[w].locks :
        /\ pc[w] \notin {"wipe", "prepare"}
        /\ pc[w] = "items" => l[1] \in repo[w].items
        /\ \A n \in todo[w] : pc[w] \in {"items", "tags"} => l[1] < n

\* Who has the lock of the view has nothing else to do.
ViewIsLast == overlap \/ (view \in Coroutines => pc[view] = "release")

\* What a transaction has computed for the view is what will be committed; one that has
\* not computed it has no entries to commit.
Refreshed ==
    overlap \/ \A w \in Coroutines : Open(w) =>
        /\ trans[w].flat # {} =>
              /\ view = w
              /\ \E f \in trans[w].flat :
                    /\ trans[w].flat = {f}
                    /\ \A p \in Projects :
                          Entries(IF p = Project(w) THEN Seen(w, p) ELSE rows[p]) \subseteq f[p]
        /\ trans[w].flat = {} /\ Entries(trans[w].added) # {} =>
              pc[w] \in {"recipes", "finish"} /\ repo[w].tags # {}

\* A mod's tables are as they were until its transaction commits, and if it fails.
Untouched ==
    \A m \in Mods :
        /\ pc[m] \in Stages => trans[m].state \in {"open", "aborted"} /\ rows[m] = before[m]
        /\ trans[m].state = "aborted" => rows[m] = before[m]

\* A transaction that will commit what was read has it, except what its loops have left.
Gathering(m) ==
    \/ pc[m] \in {"items", "tags", "links", "recipes", "finish"}
    \/ pc[m] = "release" /\ result[m] = "Ok"
ItemsGathered(m) ==
    \A i \in repo[m].items :
        \/ Row("item", gen[m], <<i>>) \in trans[m].added
        \/ pc[m] = "items" /\ i \in todo[m]
TagsGathered(m) ==
    \A t \in repo[m].tags :
        \/ Row("tag", gen[m], <<t>>) \in trans[m].added
        \/ pc[m] = "items"
        \/ pc[m] = "tags" /\ t \in todo[m]
LinksGathered(m) ==
    pc[m] \in {"recipes", "finish", "release"} =>
        \A e \in repo[m].entries : e[2] \in repo[m].items =>
            Row("entry", gen[m], e) \in trans[m].added
RecipeGathered(m) ==
    pc[m] \in {"finish", "release"} /\ repo[m].recipe # "none" /\ ~ errors[m] =>
        \E r \in trans[m].added : r.kind = "recipe"
GatheredOf(m) ==
    (trans[m].state = "open" /\ Gathering(m)) =>
        /\ repo[m] \in Repos \cup GameRepos
        /\ ItemsGathered(m) /\ TagsGathered(m) /\ LinksGathered(m) /\ RecipeGathered(m)
Gathered == \A m \in Mods : GatheredOf(m)

-----------------------------------------------------------------------------
(* Operators *)

\* A set of numbers has a smallest one.
LEMMA Smallest ==
    ASSUME NEW S \in SUBSET Nat, S # {}
    PROVE \E n \in S : \A m \in S : n <= m
<1> DEFINE R == {ss \in Nat \X Nat : ss[1] < ss[2]}
<1>1. IsWellFoundedOn(R, Nat)
  BY NatLessThanWellFounded DEF OpToRel
<1>2. PICK n \in S : \A m \in S : ~ (<<m, n>> \in R)
  <2> HIDE DEF R
  <2> QED BY <1>1, WFMin, Zenon
<1>3. \A m \in S : ~ (m < n)
  BY <1>2
<1> HIDE DEF R
<1> QED BY <1>3

\* The loop takes the smallest of the names that are left.
LEMMA NextName ==
    ASSUME NEW w, todo[w] \in SUBSET Names, todo[w] # {}
    PROVE /\ Next1(w) \in todo[w]
          /\ \A m \in todo[w] : Next1(w) <= m
<1>1. \E n \in todo[w] : \A m \in todo[w] : n <= m
  BY Smallest, NamesAssumption DEF Names
<1> QED BY <1>1 DEF Next1

\* A statement that succeeds adds to the transaction of its target, or to the tables.
LEMMA ExecuteFrame ==
    ASSUME TypeOK, NEW w \in Coroutines, NEW rs, NEW ns, NEW ls, Execute(w, rs, ns, ls)
    PROVE /\ DOMAIN trans' = Coroutines
          /\ \A u \in Coroutines :
                /\ u # Target(w) => trans'[u] = trans[u]
                /\ u = Target(w) =>
                     /\ trans[u].state = "open"
                     /\ trans'[u].added = trans[u].added \cup rs
                     /\ trans'[u].names = trans[u].names \cup ns
                     /\ trans'[u].locks = trans[u].locks \cup ls
                /\ trans'[u].state = trans[u].state
                /\ trans'[u].wiped = trans[u].wiped
                /\ trans'[u].flat = trans[u].flat
          /\ Target(w) \in Coroutines => UNCHANGED tables
          /\ flat' = flat
<1>1. trans \in [Coroutines -> Transactions]
  BY DEF TypeOK
<1>2. CASE Target(w) \in Coroutines
  <2> DEFINE t == Target(w)
             x == [trans[t] EXCEPT !.added = @ \cup rs, !.names = @ \cup ns, !.locks = @ \cup ls]
  <2>1. trans' = [trans EXCEPT ![t] = x] /\ trans[t].state = "open" /\ UNCHANGED tables
    BY <1>2 DEF Execute, Open
  <2>2. trans[t] \in Transactions
    BY <1>1, <1>2
  <2>3. /\ x.state = trans[t].state /\ x.wiped = trans[t].wiped /\ x.flat = trans[t].flat
        /\ x.added = trans[t].added \cup rs /\ x.names = trans[t].names \cup ns
        /\ x.locks = trans[t].locks \cup ls
    BY <2>2 DEF Transactions
  <2>4. \A u \in Coroutines : trans'[u] = IF u = t THEN x ELSE trans[u]
    <3> HIDE DEF x, t
    <3> QED BY <2>1, <1>1
  <2>5. DOMAIN trans' = Coroutines
    <3> HIDE DEF x, t
    <3> QED BY <2>1, <1>1
  <2> QED BY <1>2, <2>1, <2>3, <2>4, <2>5 DEF tables
<1>3. CASE Target(w) \notin Coroutines
  BY <1>1, <1>3 DEF Execute
<1> QED BY <1>2, <1>3

\* It keeps the types of what it changes.
LEMMA ExecuteType ==
    ASSUME TypeOK, NEW w \in Coroutines, NEW rs \in SUBSET AllRows,
           NEW ns \in SUBSET Names, NEW ls \in SUBSET Locks, Execute(w, rs, ns, ls)
    PROVE /\ trans' \in [Coroutines -> Transactions]
          /\ rows' \in [Projects -> SUBSET AllRows]
          /\ known' \in SUBSET Names
          /\ flat' \in [Projects -> SUBSET AllRows]
          /\ \A u \in Coroutines : trans'[u].state = trans[u].state
<1>1. Project(w) \in Projects
  BY DEF Project, Projects
<1>2. trans \in [Coroutines -> Transactions] /\ rows \in [Projects -> SUBSET AllRows]
  BY DEF TypeOK
<1>3. CASE Target(w) \in Coroutines
  <2> DEFINE t == Target(w)
             x == [trans[t] EXCEPT !.added = @ \cup rs, !.names = @ \cup ns, !.locks = @ \cup ls]
  <2>1. trans' = [trans EXCEPT ![t] = x] /\ UNCHANGED tables
    BY <1>3 DEF Execute, Open
  <2>2. trans[t] \in Transactions
    BY <1>2, <1>3
  <2>3. x \in Transactions
    BY <2>2 DEF Transactions
  <2>4. trans' \in [Coroutines -> Transactions]
    <3> HIDE DEF x, t
    <3> QED BY <2>1, <2>3, <1>2
  <2> QED BY <1>2, <2>1, <2>4, ExecuteFrame DEF tables, TypeOK
<1>4. CASE Target(w) \notin Coroutines
  BY <1>1, <1>2, <1>4 DEF Execute, TypeOK
<1> QED BY <1>3, <1>4

\* A statement that fails leaves the other transactions alone.
LEMMA FailFrame ==
    ASSUME TypeOK, NEW t, Fail(t)
    PROVE /\ \A u \in Coroutines : trans'[u] = trans[u] \/ (u = t /\ trans'[u] = Doomed)
          /\ t \in Coroutines => trans'[t].state = "aborted"
          /\ trans' \in [Coroutines -> Transactions]
          /\ view' \in Coroutines \cup {Free}
          /\ view' \in Coroutines => view' = view /\ trans'[view'].state = "open"
          /\ faults' \in Nat /\ faults' + crashes <= MaxTrouble
<1>1. Doomed \in Transactions /\ Doomed.state = "aborted"
  BY DEF Doomed, NoTrans, Transactions
<1>2. trans \in [Coroutines -> Transactions]
  BY DEF TypeOK
<1>3. CASE Aborted(t) /\ UNCHANGED <<trans, view, faults>>
  BY <1>3 DEF Aborted, TypeOK
<1>4. CASE ~ Aborted(t) /\ faults' = faults + 1 /\ faults + crashes < MaxTrouble
           /\ trans' = (IF t \in Coroutines THEN [trans EXCEPT ![t] = Doomed] ELSE trans)
           /\ UnlockView(t)
  <2>1. \A u \in Coroutines : trans'[u] = trans[u] \/ (u = t /\ trans'[u] = Doomed)
    BY <1>4, <1>2
  <2>2. t \in Coroutines => trans'[t] = Doomed
    BY <1>4, <1>2
  <2>3. trans' \in [Coroutines -> Transactions]
    BY <1>4, <1>2, <1>1
  <2>4. /\ view' \in Coroutines \cup {Free}
        /\ view' \in Coroutines => view' = view /\ view' # t
    BY <1>4, PeopleAssumption DEF UnlockView, TypeOK
  <2>5. view' \in Coroutines => trans'[view'] = trans[view']
    BY <2>1, <2>4
  <2>6. faults' \in Nat /\ faults' + crashes <= MaxTrouble
    BY <1>4, BoundsAssumption DEF TypeOK
  <2> QED BY <2>1, <2>2, <2>3, <2>4, <2>5, <2>6, <1>1 DEF TypeOK
<1> QED BY <1>3, <1>4 DEF Fail

\* What is read has names for items and tags.
LEMMA RepoType ==
    ASSUME NEW r \in Repos \cup GameRepos
    PROVE /\ r.items \in SUBSET Names /\ r.tags \in SUBSET Names
          /\ r.entries \in SUBSET (r.tags \X Names)
          /\ r.needs \in Names
          /\ \A i \in r.items, t \in r.tags : i < t
  BY ReposAssumption

\* What a statement inserts for a name.
LEMMA InsertedType ==
    ASSUME NEW w \in Coroutines, NEW kind, NEW n \in Names
    PROVE /\ Inserted(w, kind, n) \in SUBSET Locks
          /\ \A l \in Inserted(w, kind, n) : l[1] = n
<1>1. Project(w) \in Projects
  BY DEF Project, Projects
<1> QED BY <1>1 DEF Inserted, Locks

\* Rows are typed.
LEMMA RowType ==
    ASSUME NEW kind \in {"item", "tag", "entry", "recipe"}, NEW g \in Nat, NEW of \in Seq(Names)
    PROVE Row(kind, g, of) \in AllRows
  BY DEF Row, AllRows

\* The row of an item or a tag is one of AllRows.
LEMMA NameRowType ==
    ASSUME TypeOK, NEW kind \in {"item", "tag"}, NEW w \in Coroutines, NEW n \in Names, NEW X
    PROVE {Row(kind, gen[w], <<n>>) : l \in X} \in SUBSET AllRows
<1>1. <<n>> \in Seq(Names) /\ gen[w] \in Nat
  BY DEF TypeOK
<1>2. Row(kind, gen[w], <<n>>) \in AllRows
  BY <1>1, RowType
<1> QED BY <1>2

-----------------------------------------------------------------------------
(* Types *)

Typed == TypeOK /\ Looping

\* A coroutine goes on.
LEMMA GotoType ==
    ASSUME TypeOK, NEW w \in Coroutines, NEW to \in Stages, Goto(w, to)
    PROVE /\ pc' \in [Coroutines -> Stages \cup {"idle", "done"}]
          /\ pc'[w] = to
          /\ \A u \in Coroutines : u # w => pc'[u] = pc[u]
          /\ client \in Imports => pc'[client] \notin {"idle", "done"}
<1>1. to \notin {"idle", "done"}
  BY DEF Stages
<1>2. pc \in [Coroutines -> Stages \cup {"idle", "done"}] /\ pc' = [pc EXCEPT ![w] = to]
  BY DEF Goto, TypeOK
<1>3. \A u \in Coroutines : pc'[u] = IF u = w THEN to ELSE pc[u]
  BY <1>2
<1> QED BY <1>1, <1>2, <1>3 DEF TypeOK, Coroutines

\* After the items, or the reading: the next loop.
LEMMA ExecutionLoop ==
    ASSUME NEW w, NEW r \in Repos \cup GameRepos, Execution(w, r)
    PROVE \/ r.tags # {} /\ Loop(w, "tags", r.tags)
          \/ Loop(w, "recipes", {})
          \/ Loop(w, "finish", {})
  BY DEF Execution

\* The next loop keeps the types.
LEMMA ExecutionType ==
    ASSUME TypeOK, NEW w \in Coroutines, NEW r \in Repos \cup GameRepos, Execution(w, r)
    PROVE /\ pc' \in [Coroutines -> Stages \cup {"idle", "done"}]
          /\ client \in Imports => pc'[client] \notin {"idle", "done"}
          /\ todo' \in [Coroutines -> SUBSET Names]
<1>1. {"tags", "recipes", "finish"} \subseteq Stages
  BY DEF Stages
<1>2. todo \in [Coroutines -> SUBSET Names] /\ r.tags \in SUBSET Names
  BY RepoType DEF TypeOK
<1>3. CASE Loop(w, "tags", r.tags)
  BY <1>1, <1>2, <1>3, GotoType DEF Loop
<1>4. CASE Loop(w, "recipes", {})
  BY <1>1, <1>2, <1>4, GotoType DEF Loop
<1>5. CASE Loop(w, "finish", {})
  BY <1>1, <1>2, <1>5, GotoType DEF Loop
<1> QED BY <1>3, <1>4, <1>5, ExecutionLoop

\* The steps of an ingestion keep the types.
LEMMA TypeStep ==
    ASSUME Typed, [Next]_vars
    PROVE TypeOK'
<1> USE DEF Typed
<1> USE BoundsAssumption, PeopleAssumption
<1>1. ASSUME NEW w \in Coroutines, Start(w) PROVE TypeOK'
  <2>1. Opened \in Transactions /\ Opened.state = "open"
    BY DEF Opened, NoTrans, Transactions
  <2>2. Project(w) \in Projects
    BY DEF Project, Projects
  <2>3. trans' \in [Coroutines -> Transactions]
    BY <1>1, <2>1 DEF Start, TypeOK
  <2>4. view \in Coroutines => trans'[view].state = "open"
    BY <1>1, <2>1 DEF Start, TypeOK
  <2>5. pc' \in [Coroutines -> Stages \cup {"idle", "done"}]
    BY <1>1 DEF Start, Goto, TypeOK, Stages
  <2>6. /\ client' \in Imports \cup {Direct}
        /\ client' \in Imports => pc'[client'] \notin {"idle", "done"}
    BY <1>1 DEF Start, Goto, TypeOK, Coroutines
  <2>7. runs' \in 0..MaxRuns /\ gen' \in [Coroutines -> Nat]
    BY <1>1 DEF Start, TypeOK
  <2>8. before' \in [Coroutines -> SUBSET AllRows] /\ overlap' \in BOOLEAN
    BY <1>1, <2>2 DEF Start, TypeOK
  <2> QED BY <1>1, <2>3, <2>4, <2>5, <2>6, <2>7, <2>8 DEF Start, TypeOK, tables
<1>2. ASSUME NEW w \in Coroutines, Wipe(w) PROVE TypeOK'
  <2>1. CASE Open(w) /\ trans' = [trans EXCEPT ![w].wiped = TRUE, ![w].added = {}]
             /\ Goto(w, "prepare") /\ UNCHANGED <<result, view, faults>>
    <3> DEFINE x == [trans[w] EXCEPT !.wiped = TRUE, !.added = {}]
    <3>0. x \in Transactions /\ x.state = trans[w].state
      <4>1. trans[w] \in Transactions
        BY DEF TypeOK
      <4> QED BY <4>1 DEF Transactions
    <3>1. trans' \in [Coroutines -> Transactions] /\ trans'[w] = x
          /\ \A u \in Coroutines : u # w => trans'[u] = trans[u]
      <4>1. trans' = [trans EXCEPT ![w] = x]
        BY <2>1
      <4> HIDE DEF x
      <4> QED BY <4>1, <3>0 DEF TypeOK
    <3>2. view \in Coroutines => trans'[view].state = "open"
      <4> HIDE DEF x
      <4> QED BY <3>0, <3>1 DEF TypeOK
    <3> QED BY <1>2, <2>1, <3>1, <3>2 DEF Wipe, Goto, TypeOK, tables, history, Stages
  <2>2. CASE Fail(Target(w)) /\ Return(w, "ErrInternal")
    <3>1. pc[w] = "wipe" /\ UNCHANGED <<repo, gen, todo, errors, client, tables, history>>
      BY <1>2 DEF Wipe
    <3> QED BY <2>2, <3>1, FailFrame DEF Return, Goto, TypeOK, tables, history, Stages
  <2> QED BY <1>2, <2>1, <2>2 DEF Wipe
<1>3. ASSUME NEW w \in Coroutines, NEW r \in Repos \cup GameRepos, Prepare(w, r) PROVE TypeOK'
  <2>1. /\ pc[w] = "prepare" /\ repo' = [repo EXCEPT ![w] = r]
        /\ UNCHANGED <<gen, trans, client, tables, view, faults, history>>
    BY <1>3 DEF Prepare
  <2>2. r.items \in SUBSET Names /\ r.tags \in SUBSET Names
    BY RepoType
  <2>3. /\ pc' \in [Coroutines -> Stages \cup {"idle", "done"}]
        /\ client \in Imports => pc'[client] \notin {"idle", "done"}
        /\ todo' \in [Coroutines -> SUBSET Names]
        /\ result' \in [Coroutines -> {"Ok", "ErrInternal", "ErrBadRequest"}]
        /\ errors' \in [Coroutines -> BOOLEAN]
    <3>0. "items" \in Stages /\ "release" \in Stages
      BY DEF Stages
    <3>1. CASE r.readable /\ r.items = {}
      BY <1>3, <3>1, ExecutionType DEF Prepare, TypeOK
    <3>2. CASE r.readable /\ r.items # {}
      BY <1>3, <2>2, <3>0, <3>2, GotoType DEF Prepare, Loop, TypeOK
    <3>3. CASE ~ r.readable
      BY <1>3, <3>0, <3>3, GotoType DEF Prepare, Return, TypeOK
    <3> QED BY <3>1, <3>2, <3>3 DEF Prepare
  <2> QED BY <2>1, <2>3 DEF TypeOK, tables, history
<1>4. ASSUME NEW w \in Coroutines, RegisterItem(w) PROVE TypeOK'
  <2> DEFINE n == Next1(w)
             ls == Inserted(w, "item", n)
             rs == {Row("item", gen[w], <<n>>) : l \in ls \cap {<<n, Project(w)>>}}
  <2>1. /\ pc[w] = "items"
        /\ UNCHANGED <<repo, gen, errors, client, history>>
    BY <1>4 DEF RegisterItem
  <2>2. n \in Names /\ repo[w].tags \in SUBSET Names
    BY <2>1, NextName, RepoType DEF TypeOK, Looping
  <2>3. ls \in SUBSET Locks /\ rs \in SUBSET AllRows
    BY <2>2, InsertedType, NameRowType
  <2>4. CASE Execute(w, rs, {n}, ls) /\ UNCHANGED <<result, view, faults>>
             /\ IF todo[w] # {n} THEN Loop(w, "items", todo[w] \ {n}) ELSE Execution(w, repo[w])
    <3> HIDE DEF n, ls, rs
    <3>1. /\ pc' \in [Coroutines -> Stages \cup {"idle", "done"}]
          /\ todo' \in [Coroutines -> SUBSET Names]
          /\ client \in Imports => pc'[client] \notin {"idle", "done"}
      <4>1. "items" \in Stages /\ repo[w] \in Repos \cup GameRepos
        BY <2>1 DEF Stages, Looping
      <4>2. CASE Loop(w, "items", todo[w] \ {n})
        BY <4>1, <4>2, GotoType DEF Loop, TypeOK
      <4>3. CASE Execution(w, repo[w])
        BY <4>1, <4>3, ExecutionType
      <4> QED BY <2>4, <4>2, <4>3
    <3> QED BY <2>1, <2>2, <2>3, <2>4, <3>1, ExecuteType DEF TypeOK, history
  <2>5. CASE Fail(Target(w)) /\ Return(w, "ErrBadRequest") /\ UNCHANGED <<todo, tables>>
    BY <2>1, <2>5, FailFrame DEF Return, Goto, TypeOK, tables, history, Stages
  <2> QED BY <1>4, <2>4, <2>5 DEF RegisterItem
<1>5. ASSUME NEW w \in Coroutines, RegisterTag(w) PROVE TypeOK'
  <2> DEFINE n == Next1(w)
             ls == Inserted(w, "tag", n)
             rs == {Row("tag", gen[w], <<n>>) : l \in ls \cap {<<n, Project(w)>>}}
  <2>1. /\ pc[w] = "tags"
        /\ UNCHANGED <<result, repo, gen, errors, client, history>>
        /\ Loop(w, IF todo[w] = {n} THEN "links" ELSE "tags", todo[w] \ {n})
    BY <1>5 DEF RegisterTag
  <2>2. n \in Names
    BY <2>1, NextName DEF TypeOK, Looping
  <2>3. ls \in SUBSET Locks /\ rs \in SUBSET AllRows
    BY <2>2, InsertedType, NameRowType
  <2>4. /\ pc' \in [Coroutines -> Stages \cup {"idle", "done"}]
        /\ todo' \in [Coroutines -> SUBSET Names]
        /\ client \in Imports => pc'[client] \notin {"idle", "done"}
    <3> HIDE DEF n
    <3> QED BY <2>1, <2>2 DEF Loop, Goto, TypeOK, Stages
  <2>5. CASE Execute(w, rs, {n}, ls) /\ UNCHANGED <<view, faults>>
    <3> HIDE DEF n, ls, rs
    <3> QED BY <2>1, <2>2, <2>3, <2>4, <2>5, ExecuteType DEF TypeOK, history
  <2>6. CASE Fail(Target(w)) /\ UNCHANGED tables
    <3> HIDE DEF n
    <3> QED BY <2>1, <2>4, <2>6, FailFrame DEF TypeOK, tables, history
  <2> QED BY <1>5, <2>5, <2>6 DEF RegisterTag
<1>6. ASSUME NEW w \in Coroutines, Link(w) PROVE TypeOK'
  <2> DEFINE t == Target(w)
             found == {e \in repo[w].entries :
                        /\ HasRow(t, Project(w), "tag", <<e[1]>>)
                        /\ HasRow(t, Project(w), "item", <<e[2]>>) \/ HasRow(t, Game, "item", <<e[2]>>)}
             rs == {Row("entry", gen[w], e) : e \in found}
  <2>1. /\ pc[w] = "links"
        /\ Goto(w, IF w \in Mods THEN "recipes" ELSE "finish")
        /\ UNCHANGED <<repo, gen, todo, result, errors, client, history>>
    BY <1>6 DEF Link
  <2>2. repo[w].entries \in SUBSET (repo[w].tags \X Names) /\ repo[w].tags \in SUBSET Names
    BY <2>1, RepoType DEF Looping
  <2>3. \A e \in found : e \in Seq(Names)
    <3> SUFFICES ASSUME NEW e \in found PROVE e \in Seq(Names)
      OBVIOUS
    <3>1. e \in Names \X Names
      BY <2>2
    <3>2. PICK a \in Names, b \in Names : e = <<a, b>>
      BY <3>1
    <3> QED BY <3>2
  <2>4. rs \in SUBSET AllRows
    <3> HIDE DEF found
    <3> QED BY <2>3, RowType DEF TypeOK
  <2>5. /\ pc' \in [Coroutines -> Stages \cup {"idle", "done"}]
        /\ client \in Imports => pc'[client] \notin {"idle", "done"}
    BY <2>1 DEF Goto, TypeOK, Stages
  <2>6. CASE Execute(w, rs, {}, {}) /\ UNCHANGED <<view, faults>>
    <3> HIDE DEF rs
    <3> QED BY <2>1, <2>4, <2>5, <2>6, ExecuteType DEF TypeOK, history
  <2>7. CASE Fail(Target(w)) /\ UNCHANGED tables
    BY <2>1, <2>5, <2>7, FailFrame DEF TypeOK, tables, history
  <2> QED BY <1>6, <2>6, <2>7 DEF Link
<1>7. ASSUME NEW w \in Coroutines, AddRecipe(w) PROVE TypeOK'
  <2> DEFINE of == IF repo[w].needs \in NamesSeen(w) THEN <<repo[w].needs>> ELSE <<>>
             rs == {Row("recipe", gen[w], of)}
  <2>1. /\ pc[w] = "recipes"
        /\ UNCHANGED <<repo, gen, todo, client, history>>
    BY <1>7 DEF AddRecipe
  <2>2. of \in Seq(Names)
    BY <2>1, RepoType DEF Looping
  <2>3. rs \in SUBSET AllRows
    <3> HIDE DEF of
    <3> QED BY <2>2, RowType DEF TypeOK
  <2>4. /\ pc' \in [Coroutines -> Stages \cup {"idle", "done"}]
        /\ client \in Imports => pc'[client] \notin {"idle", "done"}
        /\ result' \in [Coroutines -> {"Ok", "ErrInternal", "ErrBadRequest"}]
        /\ errors' \in [Coroutines -> BOOLEAN]
    <3>1. \/ Goto(w, "finish") /\ UNCHANGED result
          \/ Return(w, "ErrInternal")
      BY <1>7 DEF AddRecipe
    <3>2. "finish" \in Stages /\ "release" \in Stages
      BY DEF Stages
    <3>3. errors' = errors \/ errors' = [errors EXCEPT ![w] = TRUE]
      BY <1>7 DEF AddRecipe
    <3> QED BY <3>1, <3>2, <3>3, GotoType DEF Return, TypeOK
  <2>5. CASE UNCHANGED <<trans, tables, view, faults>>
    BY <2>1, <2>4, <2>5 DEF TypeOK, tables, history
  <2>6. CASE Fail(client) /\ UNCHANGED tables
    BY <2>1, <2>4, <2>6, FailFrame DEF TypeOK, tables, history
  <2>7. CASE Execute(w, rs, {}, {}) /\ UNCHANGED <<view, faults>>
    <3> HIDE DEF rs
    <3> QED BY <2>1, <2>3, <2>4, <2>7, ExecuteType DEF TypeOK, history
  <2>8. CASE Fail(Target(w)) /\ UNCHANGED tables
    BY <2>1, <2>4, <2>8, FailFrame DEF TypeOK, tables, history
  <2> QED BY <1>7, <2>5, <2>6, <2>7, <2>8 DEF AddRecipe, tables
<1>8. ASSUME NEW w \in Coroutines, Finish(w) PROVE TypeOK'
  <2> DEFINE t == Target(w)
             current == [p \in Projects |-> Entries(Seen(t, p))]
  <2>1. /\ pc[w] = "finish" /\ Return(w, "Ok")
        /\ UNCHANGED <<repo, gen, todo, errors, client, rows, known, history>>
    BY <1>8 DEF Finish
  <2>2. \A p \in Projects : Seen(t, p) \in SUBSET AllRows
    BY DEF Seen, TypeOK, Transactions
  <2>3. current \in [Projects -> SUBSET AllRows]
    BY <2>2 DEF Entries
  <2>4. /\ pc' \in [Coroutines -> Stages \cup {"idle", "done"}]
        /\ client \in Imports => pc'[client] \notin {"idle", "done"}
        /\ result' \in [Coroutines -> {"Ok", "ErrInternal", "ErrBadRequest"}]
    BY <2>1 DEF Return, Goto, TypeOK, Stages
  <2>5. CASE UNCHANGED <<trans, flat, view, faults>>
    BY <2>1, <2>4, <2>5 DEF TypeOK, history
  <2>6. CASE /\ t \in Coroutines /\ LockView(t) /\ Open(t)
             /\ trans' = [trans EXCEPT ![t].flat = {current}]
             /\ UNCHANGED <<flat, faults>>
    <3> HIDE DEF t, current
    <3>1. view' = t /\ trans[t] \in Transactions /\ trans[t].state = "open"
      BY <2>6 DEF LockView, Open, TypeOK
    <3>2. [trans[t] EXCEPT !.flat = {current}] \in Transactions
      BY <3>1, <2>3 DEF Transactions
    <3>3. [trans[t] EXCEPT !.flat = {current}].state = "open"
      BY <3>1 DEF Transactions
    <3>4. trans' \in [Coroutines -> Transactions] /\ trans'[t].state = "open"
      BY <2>6, <3>2, <3>3 DEF TypeOK
    <3> QED BY <2>1, <2>4, <2>6, <3>1, <3>4 DEF TypeOK, history
  <2>7. CASE t \notin Coroutines /\ LockView(t) /\ flat' = current /\ UNCHANGED <<trans, faults>>
    <3> HIDE DEF t, current
    <3> QED BY <2>1, <2>3, <2>4, <2>7 DEF TypeOK, history, LockView
  <2>8. CASE Fail(t) /\ UNCHANGED flat
    <3> HIDE DEF t
    <3> QED BY <2>1, <2>4, <2>8, FailFrame DEF TypeOK, history
  <2> QED BY <1>8, <2>5, <2>6, <2>7, <2>8 DEF Finish
<1>9. ASSUME NEW w \in Coroutines, Release(w) PROVE TypeOK'
  <2> DEFINE p == Project(w)
  <2>1. /\ pc[w] = "release" /\ Goto(w, "done")
        /\ client' = IF w \in Imports THEN Direct ELSE client
        /\ UNCHANGED <<repo, gen, todo, result, errors, faults, history>>
    BY <1>9 DEF Release
  <2>2. /\ pc' \in [Coroutines -> Stages \cup {"idle", "done"}]
        /\ client' \in Imports \cup {Direct}
        /\ client' \in Imports => pc'[client'] \notin {"idle", "done"}
    BY <2>1 DEF Goto, TypeOK, Coroutines
  <2>3. p \in Projects /\ trans[w] \in Transactions
    BY DEF Project, Projects, TypeOK
  <2>4. CASE ~ Open(w)
    BY <1>9, <2>1, <2>2, <2>4 DEF Release, TypeOK, history
  <2>5. CASE Open(w)
    <3>1. /\ rows' = [rows EXCEPT ![p] = Seen(w, p)]
          /\ known' = known \cup trans[w].names
          /\ flat' = IF trans[w].flat = {} THEN flat ELSE CHOOSE f \in trans[w].flat : TRUE
          /\ trans' = [trans EXCEPT ![w] = [NoTrans EXCEPT !.state = "committed"]]
          /\ UnlockView(w)
      BY <1>9, <2>5 DEF Release
    <3>2. Seen(w, p) \in SUBSET AllRows
      BY <2>3 DEF Seen, TypeOK, Transactions
    <3>3. rows' \in [Projects -> SUBSET AllRows] /\ known' \in SUBSET Names
      BY <2>3, <3>1, <3>2 DEF TypeOK, Transactions
    <3>4. flat' \in [Projects -> SUBSET AllRows]
      BY <2>3, <3>1 DEF TypeOK, Transactions
    <3>5. trans' \in [Coroutines -> Transactions]
      BY <3>1 DEF TypeOK, Transactions, NoTrans
    <3>6. view' \in Coroutines \cup {Free} /\ (view' \in Coroutines => trans'[view'].state = "open")
      BY <3>1 DEF TypeOK, UnlockView
    <3> QED BY <2>1, <2>2, <3>3, <3>4, <3>5, <3>6 DEF TypeOK, history
  <2> QED BY <2>4, <2>5
<1>10. ASSUME NEW w \in Coroutines, End(w) PROVE TypeOK'
  <2>1. /\ pc[w] = "done" /\ Forget({w})
        /\ UNCHANGED <<gen, client, tables, view, faults, runs, crashes, overlap>>
    BY <1>10 DEF End
  <2>2. NoTrans \in Transactions
    BY DEF NoTrans, Transactions
  <2>3. \A u \in Coroutines : u # w => pc'[u] = pc[u] /\ trans'[u] = trans[u]
    BY <2>1 DEF Forget, Reset
  <2>4. client \in Imports => client # w
    BY <2>1 DEF TypeOK
  <2>5. view \in Coroutines => view # w
    BY <2>1 DEF TypeOK, Looping
  <2>6. trans' \in [Coroutines -> Transactions]
    BY <2>1, <2>2 DEF Forget, Reset, TypeOK
  <2> QED BY <2>1, <2>3, <2>4, <2>5, <2>6 DEF Forget, Reset, TypeOK, tables, Coroutines
<1>11. ASSUME NEW w \in Imports, NEW n \in Names, RegisterGameItem(w, n) PROVE TypeOK'
  <2> DEFINE ls == Inserted(w, "item", n)
             rs == {Row("item", gen[w], <<n>>) : l \in ls \cap {<<n, Game>>}}
  <2>1. w \in Coroutines /\ UNCHANGED <<pc, repo, gen, todo, result, errors, client, history>>
    BY <1>11 DEF RegisterGameItem, Coroutines
  <2>2. ls \in SUBSET Locks /\ rs \in SUBSET AllRows
    BY <2>1, InsertedType, NameRowType
  <2>3. CASE Execute(w, rs, {n}, ls) /\ UNCHANGED <<view, faults>>
    <3> HIDE DEF ls, rs
    <3> QED BY <2>1, <2>2, <2>3, ExecuteType DEF TypeOK, history
  <2>4. CASE Fail(Target(w)) /\ UNCHANGED tables
    BY <2>1, <2>4, FailFrame DEF TypeOK, tables, history
  <2> QED BY <1>11, <2>3, <2>4 DEF RegisterGameItem
<1>12. CASE Crash
  <2>1. NoTrans \in Transactions
    BY DEF NoTrans, Transactions
  <2>2. /\ Forget(Coroutines) /\ client' = Direct /\ view' = Free
        /\ faults + crashes < MaxTrouble /\ crashes' = crashes + 1
        /\ UNCHANGED <<gen, tables, runs, faults, overlap>>
    BY <1>12 DEF Crash
  <2>3. /\ pc' = [w \in Coroutines |-> "idle"]
        /\ repo' = [w \in Coroutines |-> NoRepo]
        /\ todo' = [w \in Coroutines |-> {}]
        /\ result' = [w \in Coroutines |-> "Ok"]
        /\ errors' = [w \in Coroutines |-> FALSE]
        /\ trans' = [w \in Coroutines |-> NoTrans]
        /\ before' = [w \in Coroutines |-> {}]
    BY <2>2 DEF Forget, Reset
  <2>4. crashes' \in Nat /\ faults' + crashes' <= MaxTrouble
    BY <2>2 DEF TypeOK
  <2>5. view' \notin Coroutines /\ client' \notin Imports
    BY <2>2 DEF Coroutines
  <2> QED BY <2>1, <2>2, <2>3, <2>4, <2>5 DEF TypeOK, tables
<1>13. CASE UNCHANGED vars
  BY <1>13 DEF vars, TypeOK
<1> QED BY <1>1, <1>2, <1>3, <1>4, <1>5, <1>6, <1>7, <1>8, <1>9, <1>10, <1>11, <1>12, <1>13
    DEF Next, Step

-----------------------------------------------------------------------------
(* What a step leaves alone *)

\* What coroutine w does next.
Acts(w) == Start(w) \/ Step(w) \/ \E n \in Names : RegisterGameItem(w, n)

\* A step is one of a coroutine, a crash, or none.
LEMMA NextActs ==
    ASSUME [Next]_vars
    PROVE (\E w \in Coroutines : Acts(w)) \/ Crash \/ UNCHANGED vars
  BY DEF Next, Acts, Coroutines

\* Others stand where they stood.
LEMMA StepFrame ==
    ASSUME TypeOK, NEW w \in Coroutines, Acts(w), NEW u \in Coroutines, u # w
    PROVE /\ pc'[u] = pc[u] /\ todo'[u] = todo[u] /\ repo'[u] = repo[u] /\ gen'[u] = gen[u]
<1> USE DEF TypeOK
<1>1. CASE Start(w)
  BY <1>1 DEF Start, Goto
<1>2. CASE Wipe(w)
  BY <1>2 DEF Wipe, Return, Goto
<1>3. ASSUME NEW r, Prepare(w, r) PROVE pc'[u] = pc[u] /\ todo'[u] = todo[u] /\ repo'[u] = repo[u] /\ gen'[u] = gen[u]
  BY <1>3 DEF Prepare, Loop, Execution, Return, Goto
<1>4. CASE RegisterItem(w)
  BY <1>4 DEF RegisterItem, Loop, Execution, Return, Goto
<1>5. CASE RegisterTag(w)
  BY <1>5 DEF RegisterTag, Loop, Goto
<1>6. CASE Link(w) \/ AddRecipe(w)
  BY <1>6 DEF Link, AddRecipe, Return, Goto
<1>7. CASE Finish(w) \/ Release(w)
  BY <1>7 DEF Finish, Release, Return, Goto
<1>8. CASE End(w)
  BY <1>8 DEF End, Forget, Reset
<1>9. ASSUME NEW n, RegisterGameItem(w, n) PROVE pc'[u] = pc[u] /\ todo'[u] = todo[u] /\ repo'[u] = repo[u] /\ gen'[u] = gen[u]
  BY <1>9 DEF RegisterGameItem
<1> QED BY <1>1, <1>2, <1>3, <1>4, <1>5, <1>6, <1>7, <1>8, <1>9 DEF Acts, Step

\* A transaction is changed by its own coroutine, or through the pointer.
LEMMA StepTrans ==
    ASSUME TypeOK, NEW w \in Coroutines, Acts(w), NEW u \in Coroutines, u # w
    PROVE /\ u # client => trans'[u] = trans[u]
          /\ Target(w) # u => trans'[u] = trans[u] \/ trans'[u] = Doomed
          /\ trans'[u].state = "open" => trans[u].state = "open"
<1> DEFINE Kept == trans'[u] = trans[u]
           Failed(t) == trans'[u] = trans[u] \/ (u = t /\ trans'[u] = Doomed)
           Wrote == Target(w) # u => trans'[u] = trans[u]
           Same == trans'[u].state = trans[u].state
<1>a. ASSUME NEW rs, NEW ns, NEW ls, Execute(w, rs, ns, ls) PROVE Wrote /\ Same
  BY <1>a, ExecuteFrame
<1>b. ASSUME NEW t, Fail(t) PROVE Failed(t)
  BY <1>b, FailFrame
<1>c. Target(w) = client \/ Target(w) = w
  BY DEF Target
<1>d. Doomed.state # "open"
  BY DEF Doomed, NoTrans
<1>1. CASE Start(w)
  <2> Kept BY <1>1 DEF Start, TypeOK
  <2> QED OBVIOUS
<1>2. CASE Wipe(w)
  <2> Kept \/ Failed(Target(w))
    BY <1>2, <1>b DEF Wipe, TypeOK
  <2> QED BY <1>c, <1>d
<1>3. ASSUME NEW r, Prepare(w, r) PROVE Kept
  BY <1>3 DEF Prepare
<1>4. CASE RegisterItem(w) \/ RegisterTag(w) \/ Link(w)
  <2> (Wrote /\ Same) \/ Failed(Target(w))
    BY <1>4, <1>a, <1>b DEF RegisterItem, RegisterTag, Link
  <2> QED BY <1>c, <1>d
<1>5. CASE AddRecipe(w)
  <2> Kept \/ (Wrote /\ Same) \/ Failed(Target(w)) \/ Failed(client)
    BY <1>5, <1>a, <1>b DEF AddRecipe
  <2> QED BY <1>c, <1>d
<1>6. CASE Finish(w)
  <2>1. Kept \/ Failed(Target(w)) \/
        \E f : trans' = [trans EXCEPT ![Target(w)].flat = f] /\ trans[Target(w)].state = "open"
    BY <1>6, <1>b DEF Finish, Open
  <2>2. CASE \E f : trans' = [trans EXCEPT ![Target(w)].flat = f] /\ trans[Target(w)].state = "open"
    <3>1. PICK f : trans' = [trans EXCEPT ![Target(w)].flat = f] /\ trans[Target(w)].state = "open"
      BY <2>2
    <3> DEFINE t == Target(w)
               x == [trans[t] EXCEPT !.flat = f]
    <3>2. trans' = [trans EXCEPT ![t] = x] /\ trans \in [Coroutines -> Transactions]
      BY <3>1 DEF TypeOK
    <3>3. trans'[u] = IF u = t THEN x ELSE trans[u]
      <4> HIDE DEF t, x
      <4> QED BY <3>2
    <3>4. u = t => trans[t] \in Transactions /\ x.state = trans[t].state
      BY <3>2 DEF Transactions
    <3> HIDE DEF x
    <3> QED BY <3>1, <3>3, <3>4, <1>c
  <2> QED BY <2>1, <2>2, <1>c, <1>d
<1>7. CASE Release(w)
  <2> Kept BY <1>7 DEF Release, TypeOK
  <2> QED OBVIOUS
<1>8. CASE End(w)
  <2> Kept BY <1>8 DEF End, Forget, Reset
  <2> QED OBVIOUS
<1>9. ASSUME NEW n, RegisterGameItem(w, n) PROVE (Wrote /\ Same) \/ Failed(Target(w))
  BY <1>9, <1>a, <1>b DEF RegisterGameItem
<1> HIDE DEF Kept, Failed, Wrote, Same
<1>10. CASE \E n : RegisterGameItem(w, n)
  <2> (Wrote /\ Same) \/ Failed(Target(w))
    BY <1>9, <1>10
  <2> QED BY <1>c, <1>d DEF Wrote, Same, Failed
<1>11. CASE \E r : Prepare(w, r)
  <2> Kept
    BY <1>3, <1>11
  <2> QED BY DEF Kept
<1> QED BY <1>1, <1>2, <1>4, <1>5, <1>6, <1>7, <1>8, <1>10, <1>11 DEF Acts, Step

\* Content of a project is changed by who ingests it.
LEMMA StepRows ==
    ASSUME TypeOK, NEW w \in Coroutines, Acts(w), NEW p \in Projects, p # Project(w)
    PROVE rows'[p] = rows[p]
<1> USE DEF tables, history, TypeOK
<1>a. ASSUME NEW rs, NEW ns, NEW ls, Execute(w, rs, ns, ls) PROVE rows'[p] = rows[p]
  BY <1>a DEF Execute
<1>1. CASE Start(w)
  BY <1>1 DEF Start
<1>2. CASE Wipe(w)
  BY <1>2 DEF Wipe
<1>3. ASSUME NEW r, Prepare(w, r) PROVE rows'[p] = rows[p]
  BY <1>3 DEF Prepare
<1>4. CASE RegisterItem(w) \/ RegisterTag(w) \/ Link(w) \/ AddRecipe(w)
  BY <1>4, <1>a DEF RegisterItem, RegisterTag, Link, AddRecipe
<1>6. CASE Finish(w) \/ Release(w) \/ End(w)
  BY <1>6 DEF Finish, Release, End
<1>9. ASSUME NEW n, RegisterGameItem(w, n) PROVE rows'[p] = rows[p]
  BY <1>9, <1>a DEF RegisterGameItem
<1> QED BY <1>1, <1>2, <1>3, <1>4, <1>6, <1>9 DEF Acts, Step

\* A transaction is opened by the start of an ingestion only, and ended by its release.
LEMMA OwnState ==
    ASSUME TypeOK, NEW w \in Coroutines, Acts(w), trans'[w].state = "open"
    PROVE trans[w].state = "open" \/ Start(w)
<1>a. ASSUME NEW rs, NEW ns, NEW ls, Execute(w, rs, ns, ls) PROVE trans'[w].state = trans[w].state
  BY <1>a, ExecuteFrame
<1>b. ASSUME NEW t, Fail(t) PROVE trans'[w] = trans[w] \/ trans'[w] = Doomed
  BY <1>b, FailFrame
<1>c. Doomed.state # "open" /\ NoTrans.state # "open"
  BY DEF Doomed, NoTrans
<1>d. trans \in [Coroutines -> Transactions]
  BY DEF TypeOK
<1>2. CASE Wipe(w)
  BY <1>2, <1>b, <1>c DEF Wipe, Open
<1>3. ASSUME NEW r, Prepare(w, r) PROVE trans'[w] = trans[w]
  BY <1>3 DEF Prepare
<1>4. CASE RegisterItem(w) \/ RegisterTag(w) \/ Link(w) \/ AddRecipe(w)
  BY <1>4, <1>a, <1>b, <1>c DEF RegisterItem, RegisterTag, Link, AddRecipe
<1>6. CASE Finish(w)
  <2>1. \/ trans'[w] = trans[w] \/ trans'[w] = Doomed
        \/ \E f : trans' = [trans EXCEPT ![Target(w)].flat = f] /\ trans[Target(w)].state = "open"
    BY <1>6, <1>b DEF Finish, Open
  <2>2. ASSUME NEW f, trans' = [trans EXCEPT ![Target(w)].flat = f],
               trans[Target(w)].state = "open"
        PROVE trans[w].state = "open"
    <3> DEFINE x == [trans[Target(w)] EXCEPT !.flat = f]
    <3>1. CASE w # Target(w)
      <4>1. trans' = [trans EXCEPT ![Target(w)] = x]
        BY <2>2
      <4> HIDE DEF x
      <4> QED BY <3>1, <4>1, <1>d
    <3> QED BY <3>1, <2>2
  <2> QED BY <2>1, <2>2, <1>c
<1>7. CASE Release(w)
  <2>1. CASE Open(w)
    BY <2>1 DEF Open
  <2>2. CASE ~ Open(w)
    BY <1>7, <2>2 DEF Release, Open
  <2> QED BY <2>1, <2>2
<1>8. CASE End(w)
  BY <1>8, <1>c DEF End, Forget, Reset
<1>9. ASSUME NEW n, RegisterGameItem(w, n)
      PROVE trans'[w].state = trans[w].state \/ trans'[w] = trans[w] \/ trans'[w] = Doomed
  BY <1>9, <1>a, <1>b DEF RegisterGameItem
<1> QED BY <1>2, <1>3, <1>4, <1>6, <1>7, <1>8, <1>9, <1>c DEF Acts, Step

\* A loop that has names takes one after the other, and ends with the last.
LEMMA LoopingStep ==
    ASSUME Typed, [Next]_vars
    PROVE Looping'
<1> USE DEF Typed
<1> DEFINE Good(u) ==
        /\ pc[u] \in {"idle", "done"} => trans[u].state # "open"
        /\ pc[u] \in {"items", "tags"} => todo[u] # {}
        /\ pc[u] \in {"items", "tags", "links", "recipes", "finish"} =>
              repo[u] \in Repos \cup GameRepos
        /\ pc[u] = "items" => todo[u] \subseteq repo[u].items
        /\ pc[u] = "tags" => todo[u] \subseteq repo[u].tags
<1>0. \A u \in Coroutines : Good(u)
  BY DEF Looping
<1>1. ASSUME NEW w \in Coroutines, Acts(w) PROVE Looping'
  <2>0. ASSUME NEW u \in Coroutines, u # w PROVE Good(u)'
    BY <1>0, <1>1, <2>0, StepFrame, StepTrans
  <2> SUFFICES Good(w)'
    BY <2>0 DEF Looping
  <2>1. Good(w)
    BY <1>0
  <2>2. /\ pc \in [Coroutines -> Stages \cup {"idle", "done"}]
        /\ todo \in [Coroutines -> SUBSET Names] /\ trans \in [Coroutines -> Transactions]
        /\ repo \in [Coroutines -> Repos \cup GameRepos \cup {NoRepo}]
    BY DEF TypeOK
  <2>3. CASE Start(w)
    BY <2>2, <2>3 DEF Start, Goto
  <2>4. CASE Wipe(w)
    BY <2>2, <2>4 DEF Wipe, Goto, Return
  <2>5. ASSUME NEW r \in Repos \cup GameRepos, Prepare(w, r) PROVE Good(w)'
    <3>1. repo'[w] = r
      BY <2>2, <2>5 DEF Prepare
    <3>2. CASE ~ r.readable
      BY <2>2, <2>5, <3>2 DEF Prepare, Goto, Return
    <3>3. CASE r.readable /\ r.items # {}
      BY <2>2, <2>5, <3>1, <3>3 DEF Prepare, Goto, Loop
    <3>4. CASE r.readable /\ r.items = {}
      BY <2>2, <2>5, <3>1, <3>4, ExecutionLoop DEF Prepare, Goto, Loop
    <3> QED BY <3>2, <3>3, <3>4
  <2>6. CASE RegisterItem(w)
    <3> DEFINE n == Next1(w)
    <3>1. repo' = repo /\ pc[w] = "items"
      BY <2>6 DEF RegisterItem
    <3>2. \/ todo[w] # {n} /\ Loop(w, "items", todo[w] \ {n})
          \/ Execution(w, repo[w])
          \/ Return(w, "ErrBadRequest")
      BY <2>6 DEF RegisterItem
    <3> HIDE DEF n
    <3>3. CASE todo[w] # {n} /\ Loop(w, "items", todo[w] \ {n})
      BY <2>1, <2>2, <3>1, <3>3 DEF Loop, Goto
    <3>4. CASE Execution(w, repo[w])
      BY <2>1, <2>2, <3>1, <3>4, ExecutionLoop DEF Loop, Goto
    <3>5. CASE Return(w, "ErrBadRequest")
      BY <2>1, <2>2, <3>1, <3>5 DEF Return, Goto
    <3> QED BY <3>2, <3>3, <3>4, <3>5
  <2>7. CASE RegisterTag(w)
    <3> DEFINE n == Next1(w)
    <3>1. /\ repo' = repo /\ pc[w] = "tags"
          /\ Loop(w, IF todo[w] = {n} THEN "links" ELSE "tags", todo[w] \ {n})
      BY <2>7 DEF RegisterTag
    <3> HIDE DEF n
    <3> QED BY <2>1, <2>2, <3>1 DEF Loop, Goto
  <2>8. CASE Link(w)
    BY <2>1, <2>2, <2>8 DEF Link, Goto
  <2>9. CASE AddRecipe(w)
    BY <2>1, <2>2, <2>9 DEF AddRecipe, Goto, Return
  <2>10. CASE Finish(w)
    BY <2>1, <2>2, <2>10 DEF Finish, Goto, Return
  <2>11. CASE Release(w)
    <3>1. pc'[w] = "done"
      BY <2>2, <2>11 DEF Release, Goto
    <3>2. trans'[w].state # "open"
      BY <2>2, <2>11 DEF Release, Open, NoTrans
    <3> QED BY <3>1, <3>2
  <2>12. CASE End(w)
    BY <2>12 DEF End, Forget, Reset, NoTrans
  <2>13. ASSUME NEW n \in Names, RegisterGameItem(w, n) PROVE Good(w)'
    <3>1. pc[w] = "done" /\ ~ Start(w) /\ UNCHANGED <<pc, repo, todo>>
      BY <2>13 DEF RegisterGameItem, Start
    <3>2. trans'[w].state # "open"
      BY <1>1, <2>1, <3>1, OwnState
    <3> QED BY <2>1, <3>1, <3>2
  <2> HIDE DEF Good
  <2> QED BY <1>1, <2>3, <2>4, <2>5, <2>6, <2>7, <2>8, <2>9, <2>10, <2>11, <2>12, <2>13 DEF Acts, Step
<1>2. CASE Crash
  BY <1>2 DEF Crash, Forget, Reset, Looping, NoTrans
<1>3. CASE UNCHANGED vars
  BY <1>3 DEF vars, Looping
<1> QED BY <1>1, <1>2, <1>3, NextActs

\* At the start nothing is under way.
LEMMA TypeInit ==
    ASSUME Init
    PROVE Typed
<1>1. NoTrans \in Transactions /\ NoTrans.state = "none"
  BY DEF NoTrans, Transactions
<1>2. Looping
  BY <1>1 DEF Init, Looping
<1>3. Free \notin Coroutines /\ Direct \notin Imports
  BY PeopleAssumption DEF Coroutines
<1> HIDE DEF NoTrans
<1>4. /\ pc \in [Coroutines -> Stages \cup {"idle", "done"}]
      /\ repo \in [Coroutines -> Repos \cup GameRepos \cup {NoRepo}]
      /\ gen \in [Coroutines -> Nat] /\ todo \in [Coroutines -> SUBSET Names]
      /\ result \in [Coroutines -> {"Ok", "ErrInternal", "ErrBadRequest"}]
      /\ errors \in [Coroutines -> BOOLEAN] /\ trans \in [Coroutines -> Transactions]
  BY <1>1 DEF Init
<1>5. /\ rows \in [Projects -> SUBSET AllRows] /\ flat \in [Projects -> SUBSET AllRows]
      /\ before \in [Coroutines -> SUBSET AllRows] /\ known \in SUBSET Names
  BY DEF Init
<1>6. /\ runs \in 0..MaxRuns /\ faults \in Nat /\ crashes \in Nat
      /\ faults + crashes <= MaxTrouble /\ overlap \in BOOLEAN
  <2>1. runs = 0 /\ faults = 0 /\ crashes = 0 /\ overlap = FALSE
    BY DEF Init
  <2>2. runs \in 0..MaxRuns /\ faults \in Nat /\ crashes \in Nat /\ faults + crashes <= MaxTrouble
    BY <2>1, BoundsAssumption
  <2> QED BY <2>1, <2>2
<1>7. client \notin Imports /\ client = Direct /\ view \notin Coroutines /\ view = Free
  BY <1>3 DEF Init
<1> QED BY <1>2, <1>4, <1>5, <1>6, <1>7 DEF Typed, TypeOK

\* Types hold, the pointer never leads to an ingestion that is over, and the lock of the
\* view is never left with a transaction that has ended, whatever fails or crashes.
THEOREM TypeCorrect == Spec => []TypeOK
<1>1. Typed /\ [Next]_vars => Typed'
  BY TypeStep, LoopingStep DEF Typed
<1>2. Typed => TypeOK
  BY DEF Typed
<1> QED BY <1>1, <1>2, TypeInit, PTL DEF Spec

-----------------------------------------------------------------------------
(* One source of a mod's content *)

\* A mod's content changes with the end of its ingestion, if nothing has failed.
LEMMA ModRows ==
    ASSUME Typed, NEW m \in Mods, Acts(m), rows'[m] # rows[m]
    PROVE Open(m) /\ pc[m] = "release" /\ rows'[m] = Seen(m, m)
<1> USE DEF tables, history, Typed, TypeOK
<1>0. m \in Coroutines /\ m \in Projects /\ Project(m) = m /\ Target(m) = m /\ m \notin Imports
  BY PeopleAssumption DEF Coroutines, Projects, Project, Target
<1>a. ASSUME NEW rs, NEW ns, NEW ls, Execute(m, rs, ns, ls) PROVE rows' = rows
  BY <1>0, <1>a DEF Execute
<1>1. ~ Start(m)
  BY DEF Start
<1>2. ~ Wipe(m)
  BY DEF Wipe
<1>3. ASSUME NEW r PROVE ~ Prepare(m, r)
  BY DEF Prepare
<1>4. ~ RegisterItem(m) /\ ~ RegisterTag(m) /\ ~ Link(m) /\ ~ AddRecipe(m)
  BY <1>a DEF RegisterItem, RegisterTag, Link, AddRecipe
<1>5. ~ Finish(m) /\ ~ End(m)
  BY DEF Finish, End
<1>6. ASSUME NEW n PROVE ~ RegisterGameItem(m, n)
  BY <1>0 DEF RegisterGameItem
<1>7. Release(m)
  BY <1>1, <1>2, <1>3, <1>4, <1>5, <1>6 DEF Acts, Step
<1> QED BY <1>0, <1>7 DEF Release

\* What a statement adds for a mod has the number of its ingestion.
LEMMA OwnAdded ==
    ASSUME Typed, NEW m \in Mods, NEW rs, NEW ns, NEW ls, Execute(m, rs, ns, ls),
           \A r \in rs : r.gen = gen[m], \A r \in trans[m].added : r.gen = gen[m]
    PROVE /\ \A r \in trans'[m].added : r.gen = gen[m]
          /\ trans'[m].wiped = trans[m].wiped
<1>1. m \in Coroutines /\ Target(m) = m
  BY DEF Coroutines, Target
<1>2. trans[m] \in Transactions
  BY <1>1 DEF Typed, TypeOK
<1>3. trans'[m].added = trans[m].added \cup rs
  BY <1>1, ExecuteFrame DEF Typed
<1> QED BY <1>1, <1>3, ExecuteFrame DEF Typed

\* A transaction that wipes first has rows of its own ingestion only.
LEMMA OwnRowsStep ==
    ASSUME Typed, OwnRows, [Next]_vars
    PROVE OwnRows'
<1>1. ASSUME NEW w \in Coroutines, Acts(w), NEW m \in Mods PROVE OwnRowsOf(m)'
  <2>0. /\ m \in Coroutines /\ m \in Projects /\ Project(m) = m /\ Target(m) = m
        /\ m \notin Imports /\ client # m /\ OwnRowsOf(m)
        /\ \A r \in trans[m].added : r.gen = gen[m]
        /\ trans[m].state = "open" /\ pc[m] # "wipe" => trans[m].wiped
    BY PeopleAssumption DEF OwnRows, OwnRowsOf, Coroutines, Projects, Project, Target, Typed, TypeOK
  <2>1. CASE w # m
    <3>1. trans'[m] = trans[m] /\ gen'[m] = gen[m] /\ pc'[m] = pc[m]
      BY <1>1, <2>0, <2>1, StepFrame, StepTrans DEF Typed
    <3> QED BY <2>0, <3>1 DEF OwnRowsOf
  <2>2. CASE w = m
    <3>1. /\ pc \in [Coroutines -> Stages \cup {"idle", "done"}]
          /\ trans \in [Coroutines -> Transactions] /\ gen \in [Coroutines -> Nat]
      BY DEF Typed, TypeOK
    <3>a. Doomed.added = {} /\ Doomed.state = "aborted"
      BY DEF Doomed, NoTrans
    <3>b. ASSUME Fail(m), gen' = gen PROVE OwnRowsOf(m)'
      <4>1. trans'[m] = trans[m] \/ trans'[m] = Doomed
        BY <2>0, <3>b, FailFrame DEF Typed
      <4>2. trans'[m].state = "aborted"
        BY <2>0, <3>b, FailFrame DEF Typed
      <4> QED BY <2>0, <3>a, <3>b, <4>1, <4>2 DEF OwnRowsOf
    <3>c. ASSUME NEW rs, NEW ns, NEW ls, Execute(m, rs, ns, ls), gen' = gen,
                 \A r \in rs : r.gen = gen[m], pc[m] # "wipe"
          PROVE OwnRowsOf(m)'
      <4>1. trans[m].state = "open"
        BY <2>0, <3>c DEF Execute, Open
      <4>2. /\ \A r \in trans'[m].added : r.gen = gen[m]
            /\ trans'[m].wiped = trans[m].wiped
        <5>1. \A r \in trans[m].added : r.gen = gen[m]
          BY <2>0
        <5> QED BY <3>c, <5>1, OwnAdded
      <4>3. trans[m].wiped
        BY <2>0, <3>c, <4>1
      <4> QED BY <3>c, <4>2, <4>3 DEF OwnRowsOf
    <3>d. ASSUME Fail(client), gen' = gen, pc[m] # "wipe" PROVE OwnRowsOf(m)'
      <4>1. trans'[m] = trans[m]
        BY <2>0, <3>d, FailFrame DEF Typed
      <4> QED BY <2>0, <3>d, <4>1 DEF OwnRowsOf
    <3>2. CASE Start(m)
      BY <2>0, <3>1, <3>2 DEF OwnRowsOf, Start, Goto, Opened, NoTrans
    <3>3. CASE Wipe(m)
      <4>1. CASE Open(m) /\ trans' = [trans EXCEPT ![m].wiped = TRUE, ![m].added = {}]
        BY <2>0, <3>1, <3>3, <4>1 DEF OwnRowsOf, Wipe, Transactions
      <4>2. CASE Fail(Target(m))
        BY <2>0, <3>3, <4>2, <3>b DEF Wipe
      <4> QED BY <3>3, <4>1, <4>2 DEF Wipe
    <3>4. ASSUME NEW r, Prepare(m, r) PROVE OwnRowsOf(m)'
      BY <2>0, <3>4 DEF OwnRowsOf, Prepare
    <3>5. CASE RegisterItem(m)
      <4> DEFINE n == Next1(m)
                 ls == Inserted(m, "item", n)
                 rs == {Row("item", gen[m], <<n>>) : l \in ls \cap {<<n, Project(m)>>}}
      <4>1. \A r \in rs : r.gen = gen[m]
        BY DEF Row
      <4>2. pc[m] = "items" /\ gen' = gen /\ (Execute(m, rs, {n}, ls) \/ Fail(m))
        BY <2>0, <3>5 DEF RegisterItem
      <4> HIDE DEF rs, ls, n
      <4> QED BY <4>1, <4>2, <3>b, <3>c
    <3>6. CASE RegisterTag(m)
      <4> DEFINE n == Next1(m)
                 ls == Inserted(m, "tag", n)
                 rs == {Row("tag", gen[m], <<n>>) : l \in ls \cap {<<n, Project(m)>>}}
      <4>1. \A r \in rs : r.gen = gen[m]
        BY DEF Row
      <4>2. pc[m] = "tags" /\ gen' = gen /\ (Execute(m, rs, {n}, ls) \/ Fail(m))
        BY <2>0, <3>6 DEF RegisterTag
      <4> HIDE DEF rs, ls, n
      <4> QED BY <4>1, <4>2, <3>b, <3>c
    <3>7. CASE Link(m)
      <4>1. pc[m] = "links" /\ gen' = gen
            /\ (Fail(m) \/ \E found : Execute(m, {Row("entry", gen[m], e) : e \in found}, {}, {}))
        BY <2>0, <3>7 DEF Link
      <4>2. ASSUME NEW found, Execute(m, {Row("entry", gen[m], e) : e \in found}, {}, {})
            PROVE OwnRowsOf(m)'
        <5>1. \A r \in {Row("entry", gen[m], e) : e \in found} : r.gen = gen[m]
          BY DEF Row
        <5> QED BY <4>1, <4>2, <5>1, <3>c
      <4> QED BY <4>1, <4>2, <3>b
    <3>8. CASE AddRecipe(m)
      <4>1. pc[m] = "recipes" /\ gen' = gen
            /\ (trans' = trans \/ Fail(m) \/ Fail(client)
                \/ \E of : Execute(m, {Row("recipe", gen[m], of)}, {}, {}))
        BY <2>0, <3>8 DEF AddRecipe
      <4>2. ASSUME NEW of, Execute(m, {Row("recipe", gen[m], of)}, {}, {})
            PROVE OwnRowsOf(m)'
        <5>1. \A r \in {Row("recipe", gen[m], of)} : r.gen = gen[m]
          BY DEF Row
        <5> QED BY <4>1, <4>2, <5>1, <3>c
      <4>3. CASE trans' = trans
        BY <2>0, <4>1, <4>3 DEF OwnRowsOf
      <4> QED BY <4>1, <4>2, <4>3, <3>b, <3>d
    <3>9. CASE Finish(m)
      <4>1. pc[m] = "finish" /\ gen' = gen
            /\ (trans' = trans \/ Fail(m) \/ \E f : trans' = [trans EXCEPT ![m].flat = f])
        BY <2>0, <3>9 DEF Finish
      <4>2. ASSUME NEW f, trans' = [trans EXCEPT ![m].flat = f] PROVE OwnRowsOf(m)'
        BY <2>0, <3>1, <4>1, <4>2 DEF OwnRowsOf, Transactions
      <4>3. CASE trans' = trans
        BY <2>0, <4>1, <4>3 DEF OwnRowsOf
      <4> QED BY <4>1, <4>2, <4>3, <3>b
    <3>10. CASE Release(m)
      <4>1. gen' = gen /\ pc[m] = "release"
        BY <3>10 DEF Release, history
      <4>2. CASE Open(m)
        BY <2>0, <3>1, <3>10, <4>2 DEF OwnRowsOf, Release, NoTrans
      <4>3. CASE ~ Open(m)
        BY <2>0, <3>10, <4>1, <4>3 DEF OwnRowsOf, Release, Open
      <4> QED BY <4>2, <4>3
    <3>11. CASE End(m)
      BY <2>0, <3>11 DEF OwnRowsOf, End, Forget, Reset, NoTrans
    <3>12. ASSUME NEW n PROVE ~ RegisterGameItem(m, n)
      BY <2>0 DEF RegisterGameItem
    <3> QED BY <1>1, <2>2, <3>2, <3>3, <3>4, <3>5, <3>6, <3>7, <3>8, <3>9, <3>10, <3>11, <3>12
        DEF Acts, Step
  <2> QED BY <2>1, <2>2
<1>2. CASE Crash
  BY <1>2 DEF Crash, Forget, Reset, OwnRows, OwnRowsOf, NoTrans, Coroutines
<1>3. CASE UNCHANGED vars
  BY <1>3 DEF vars, OwnRows, OwnRowsOf
<1> QED BY <1>1, <1>2, <1>3, NextActs DEF OwnRows

\* What is committed for a mod replaces what was there.
LEMMA OneSourceStep ==
    ASSUME Typed, OwnRows, OneSource, [Next]_vars
    PROVE OneSource'
<1>1. ASSUME NEW m \in Mods, rows'[m] # rows[m]
      PROVE \A r, s \in rows'[m] : r.gen = s.gen
  <2>0. m \in Projects /\ m \in Coroutines /\ Project(m) = m /\ m \notin Imports
    BY PeopleAssumption DEF Projects, Project, Coroutines
  <2>1. ~ Crash /\ ~ UNCHANGED vars
    BY <1>1 DEF Crash, vars, tables
  <2>2. PICK w \in Coroutines : Acts(w)
    BY <2>1, NextActs
  <2>3. CASE w = m
    <3>1. Open(m) /\ pc[m] = "release" /\ rows'[m] = Seen(m, m)
      BY <1>1, <2>2, <2>3, ModRows
    <3>2. trans[m].wiped /\ \A r \in trans[m].added : r.gen = gen[m]
      BY <3>1 DEF OwnRows, OwnRowsOf, Open
    <3>3. rows'[m] = trans[m].added
      BY <2>0, <3>1, <3>2 DEF Seen
    <3> QED BY <3>2, <3>3
  <2>4. CASE w # m
    <3>1. Project(w) # m
      BY <2>4, PeopleAssumption DEF Project
    <3> QED BY <1>1, <2>0, <2>2, <3>1, StepRows DEF Typed
  <2> QED BY <2>3, <2>4
<1> QED BY <1>1 DEF OneSource

\* Whatever fails, crashes or runs beside it, the content of a mod comes from one of its
\* deployments.
THEOREM OneSourceHolds == Spec => []OneSource
<1> DEFINE Inv == Typed /\ OwnRows /\ OneSource
<1>1. Init => Inv
  <2>1. Init => OwnRows /\ OneSource
    BY DEF Init, OwnRows, OwnRowsOf, OneSource, NoTrans, Open, Coroutines, Projects
  <2> QED BY <2>1, TypeInit
<1>2. Inv /\ [Next]_vars => Inv'
  BY TypeStep, LoopingStep, OwnRowsStep, OneSourceStep DEF Typed
<1>3. Inv => OneSource
  OBVIOUS
<1> QED BY <1>1, <1>2, <1>3, PTL DEF Spec

-----------------------------------------------------------------------------
(* Nobody waits in a circle *)

\* The pointer is changed by the start and the release of an ingestion only.
LEMMA OtherSteps ==
    ASSUME TypeOK, NEW w \in Coroutines, Acts(w), ~ Start(w), ~ Release(w), ~ End(w)
    PROVE /\ client' = client /\ overlap' = overlap
          /\ pc[w] # "idle" /\ pc'[w] # "idle"
          /\ pc[w] = "done" => pc'[w] = "done"
<1> USE DEF TypeOK, history
<1>1. CASE Wipe(w)
  BY <1>1 DEF Wipe, Return, Goto
<1>2. ASSUME NEW r, Prepare(w, r)
      PROVE /\ client' = client /\ overlap' = overlap
            /\ pc[w] # "idle" /\ pc'[w] # "idle" /\ pc[w] # "done"
  BY <1>2 DEF Prepare, Loop, Execution, Return, Goto
<1>3. CASE RegisterItem(w)
  BY <1>3 DEF RegisterItem, Loop, Execution, Return, Goto
<1>4. CASE RegisterTag(w)
  BY <1>4 DEF RegisterTag, Loop, Goto
<1>5. CASE Link(w) \/ AddRecipe(w) \/ Finish(w)
  BY <1>5 DEF Link, AddRecipe, Finish, Return, Goto
<1>6. ASSUME NEW n, RegisterGameItem(w, n)
      PROVE client' = client /\ overlap' = overlap /\ pc' = pc /\ pc[w] = "done"
  BY <1>6 DEF RegisterGameItem
<1> QED BY <1>1, <1>2, <1>3, <1>4, <1>5, <1>6 DEF Acts, Step

\* The pointer follows the only import.
LEMMA OnePointerStep ==
    ASSUME Typed, OnePointer, [Next]_vars
    PROVE OnePointer'
<1> USE DEF Typed
<1>1. ASSUME NEW w \in Coroutines, Acts(w), ~ overlap' PROVE OnePointer'
  <2>1. /\ pc \in [Coroutines -> Stages \cup {"idle", "done"}]
        /\ \A i \in Imports : i \in Coroutines
        /\ \A m \in Mods : m \notin Imports
    BY PeopleAssumption DEF TypeOK, Coroutines
  <2>2. \A u \in Coroutines : u # w => pc'[u] = pc[u]
    BY <1>1, StepFrame
  <2>3. CASE Start(w)
    <3>1. ~ overlap /\ (w \in Imports => client' = w /\ \A i \in Imports \ {w} : pc[i] = "idle")
          /\ (w \notin Imports => client' = client)
      BY <1>1, <2>3 DEF Start
    <3> QED BY <2>1, <2>2, <3>1 DEF OnePointer
  <2>4. CASE Release(w)
    <3>1. pc[w] = "release" /\ pc'[w] = "done" /\ overlap' = overlap
          /\ (w \notin Imports => client' = client)
      BY <2>1, <2>4 DEF Release, Goto, history
    <3> QED BY <1>1, <2>1, <2>2, <3>1 DEF OnePointer
  <2>5. CASE End(w)
    <3>1. pc[w] = "done" /\ pc'[w] = "idle" /\ overlap' = overlap /\ client' = client
      BY <2>1, <2>5 DEF End, Forget, Reset
    <3> QED BY <1>1, <2>1, <2>2, <3>1 DEF OnePointer
  <2>6. CASE ~ Start(w) /\ ~ Release(w) /\ ~ End(w)
    <3>1. /\ client' = client /\ overlap' = overlap
          /\ pc[w] # "idle" /\ pc'[w] # "idle"
          /\ pc[w] = "done" => pc'[w] = "done"
      BY <1>1, <2>6, OtherSteps
    <3> QED BY <1>1, <2>1, <2>2, <3>1 DEF OnePointer
  <2> QED BY <2>3, <2>4, <2>5, <2>6
<1>2. CASE Crash
  BY <1>2 DEF Crash, Forget, Reset, OnePointer, Coroutines
<1>3. CASE UNCHANGED vars
  BY <1>3 DEF vars, OnePointer
<1>4. ASSUME NEW w \in Coroutines, Acts(w), overlap' PROVE OnePointer'
  BY <1>4 DEF OnePointer
<1> QED BY <1>1, <1>2, <1>3, <1>4, NextActs

\* Without overlap an ingestion executes its statements in its own transaction, and the
\* items of the game are registered outside of any.
LEMMA OwnTarget ==
    ASSUME Typed, OnePointer, ~ overlap, NEW w \in Coroutines
    PROVE /\ pc[w] \notin {"idle", "done"} => Target(w) = w
          /\ w \in Imports /\ pc[w] = "done" => Target(w) = Direct
<1>1. w \in Mods => Target(w) = w
  BY DEF Target
<1>2. ASSUME w \in Imports PROVE Target(w) = client
  BY <1>2, PeopleAssumption DEF Target
<1>3. ASSUME w \in Imports, pc[w] = "done" PROVE client = Direct
  <2> SUFFICES ASSUME client # Direct PROVE FALSE
    OBVIOUS
  <2>1. client \in Imports /\ pc[client] \notin {"idle", "done"}
    BY DEF Typed, TypeOK
  <2> QED BY <1>3, <2>1 DEF OnePointer
<1> QED BY <1>1, <1>2, <1>3, PeopleAssumption DEF OnePointer, Coroutines

\* Then a step of one leaves the transactions of others as they are, or fails in them.
LEMMA OthersKept ==
    ASSUME Typed, OnePointer, ~ overlap, NEW w \in Coroutines, Acts(w),
           NEW u \in Coroutines, u # w
    PROVE trans'[u] = trans[u] \/ trans'[u] = Doomed
<1>1. pc[w] \notin {"idle", "done"} => Target(w) = w
  BY OwnTarget
<1>2. w \in Imports /\ pc[w] = "done" => Target(w) = Direct
  BY OwnTarget
<1>3. Direct \notin Coroutines
  BY PeopleAssumption
<1>4. CASE pc[w] = "idle" \/ (pc[w] = "done" /\ w \notin Imports)
  <2>1. Start(w) \/ End(w)
    BY <1>4 DEF Acts, Step, Wipe, Prepare, RegisterItem, RegisterTag, Link, AddRecipe,
                Finish, Release, RegisterGameItem
  <2> QED BY <2>1 DEF Start, End, Forget, Reset, Typed, TypeOK
<1> QED BY <1>1, <1>2, <1>3, <1>4, StepTrans DEF Typed

\* Names are inserted in ascending order, items before tags.
LEMMA LocksInOrderStep ==
    ASSUME Typed, OnePointer, LocksInOrder, [Next]_vars
    PROVE LocksInOrder'
<1> USE DEF Typed
<1> DEFINE In(w) == \A l \in trans[w].locks :
                /\ pc[w] \notin {"wipe", "prepare"}
                /\ pc[w] = "items" => l[1] \in repo[w].items
                /\ \A n \in todo[w] : pc[w] \in {"items", "tags"} => l[1] < n
<1>0. /\ LocksInOrder <=> overlap \/ \A w \in Coroutines : In(w)
      /\ LocksInOrder' <=> overlap' \/ \A w \in Coroutines : In(w)'
  BY DEF LocksInOrder, Coroutines
<1>a. Doomed.locks = {} /\ NoTrans.locks = {} /\ Opened.locks = {}
  BY DEF Doomed, NoTrans, Opened
<1>1. ASSUME NEW w \in Coroutines, Acts(w), ~ overlap, ~ overlap' PROVE LocksInOrder'
  <2>0. \A u \in Coroutines : In(u)
    BY <1>0, <1>1
  <2>1. ASSUME NEW u \in Coroutines, u # w PROVE In(u)'
    BY <1>1, <1>a, <2>0, <2>1, OthersKept, StepFrame
  <2> SUFFICES In(w)'
    BY <1>0, <2>1
  <2>2. /\ pc \in [Coroutines -> Stages \cup {"idle", "done"}]
        /\ todo \in [Coroutines -> SUBSET Names] /\ trans \in [Coroutines -> Transactions]
    BY DEF TypeOK
  <2>3. CASE pc'[w] \notin {"wipe", "prepare", "items", "tags"}
    BY <2>3
  <2>4. CASE Start(w)
    BY <1>a, <2>2, <2>4 DEF Start
  <2>5. CASE Wipe(w)
    <3>1. pc[w] = "wipe" /\ trans[w].locks = {}
      BY <2>0, <2>5 DEF Wipe
    <3>2. CASE trans' = [trans EXCEPT ![w].wiped = TRUE, ![w].added = {}]
      BY <2>2, <3>1, <3>2 DEF Transactions
    <3>3. CASE Return(w, "ErrInternal")
      BY <2>2, <2>3, <3>3 DEF Return, Goto
    <3> QED BY <2>5, <3>2, <3>3 DEF Wipe
  <2>6. ASSUME NEW r, Prepare(w, r) PROVE In(w)'
    <3>1. pc[w] = "prepare" /\ trans[w].locks = {} /\ trans' = trans
      BY <2>0, <2>6 DEF Prepare
    <3> QED BY <3>1
  <2>7. CASE RegisterItem(w)
    <3> DEFINE n == Next1(w)
               ls == Inserted(w, "item", n)
               rs == {Row("item", gen[w], <<n>>) : l \in ls \cap {<<n, Project(w)>>}}
    <3>1. pc[w] = "items" /\ repo' = repo
      BY <2>7 DEF RegisterItem
    <3>2. /\ todo[w] \subseteq repo[w].items /\ todo[w] # {} /\ todo[w] \subseteq Names
          /\ repo[w] \in Repos \cup GameRepos
      BY <2>2, <3>1 DEF Looping
    <3>3. n \in todo[w] /\ n \in Names /\ \A m \in todo[w] : n <= m
      BY <3>2, NextName
    <3>4. \A l \in ls : l[1] = n
      BY <3>3, InsertedType
    <3>5. /\ repo[w].items \in SUBSET Names /\ repo[w].tags \in SUBSET Names
          /\ \A i \in repo[w].items, t \in repo[w].tags : i < t
      BY <3>2, RepoType
    <3>6. CASE Execute(w, rs, {n}, ls)
               /\ IF todo[w] # {n} THEN Loop(w, "items", todo[w] \ {n}) ELSE Execution(w, repo[w])
      <4> HIDE DEF n, ls, rs
      <4>1. Target(w) = w
        BY <1>1, <3>1, OwnTarget
      <4>2. trans'[w].locks = trans[w].locks \cup ls
        BY <3>6, <4>1, ExecuteFrame
      <4>3. \A l \in trans'[w].locks :
               l[1] \in repo[w].items /\ \A m \in todo[w] \ {n} : l[1] < m
        <5>1. \A m \in todo[w] \ {n} : n < m
          BY <3>2, <3>3 DEF Names
        <5> QED BY <2>0, <3>1, <3>2, <3>3, <3>4, <4>2, <5>1
      <4>4. CASE Loop(w, "items", todo[w] \ {n})
        BY <2>2, <3>1, <4>3, <4>4 DEF Loop, Goto
      <4>5. CASE Loop(w, "tags", repo[w].tags)
        BY <2>2, <3>1, <3>5, <4>3, <4>5 DEF Loop, Goto
      <4>6. CASE Loop(w, "recipes", {}) \/ Loop(w, "finish", {})
        BY <2>2, <2>3, <4>6 DEF Loop, Goto
      <4> QED BY <3>2, <3>6, <4>4, <4>5, <4>6, ExecutionLoop
    <3>7. CASE Return(w, "ErrBadRequest")
      BY <2>2, <2>3, <3>7 DEF Return, Goto
    <3> QED BY <2>7, <3>6, <3>7 DEF RegisterItem
  <2>8. CASE RegisterTag(w)
    <3> DEFINE n == Next1(w)
               ls == Inserted(w, "tag", n)
               rs == {Row("tag", gen[w], <<n>>) : l \in ls \cap {<<n, Project(w)>>}}
    <3>1. /\ pc[w] = "tags"
          /\ Loop(w, IF todo[w] = {n} THEN "links" ELSE "tags", todo[w] \ {n})
      BY <2>8 DEF RegisterTag
    <3>2. todo[w] # {} /\ todo[w] \subseteq Names
      BY <2>2, <3>1 DEF Looping
    <3>3. n \in todo[w] /\ n \in Names /\ \A m \in todo[w] : n <= m
      BY <3>2, NextName
    <3>4. \A l \in ls : l[1] = n
      BY <3>3, InsertedType
    <3>5. Execute(w, rs, {n}, ls) \/ Fail(Target(w))
      BY <2>8 DEF RegisterTag
    <3> HIDE DEF n, ls, rs
    <3>6. Target(w) = w
      BY <1>1, <3>1, OwnTarget
    <3>7. \A l \in trans'[w].locks : l \in trans[w].locks \/ l \in ls
      <4>1. CASE Execute(w, rs, {n}, ls)
        BY <3>6, <4>1, ExecuteFrame
      <4>2. CASE Fail(w)
        BY <1>a, <4>2, FailFrame
      <4> QED BY <3>5, <3>6, <4>1, <4>2
    <3>8. \A m \in todo[w] \ {n} : n < m
      BY <3>2, <3>3 DEF Names
    <3>9. \A l \in trans'[w].locks : \A m \in todo[w] \ {n} : l[1] < m
      BY <2>0, <3>1, <3>4, <3>7, <3>8
    <3>10. pc'[w] \in {"links", "tags"} /\ todo'[w] = todo[w] \ {n}
      BY <2>2, <3>1 DEF Loop, Goto
    <3> QED BY <3>9, <3>10
  <2>9. CASE Link(w) \/ AddRecipe(w) \/ Finish(w) \/ Release(w)
    BY <2>2, <2>3, <2>9 DEF Link, AddRecipe, Finish, Release, Return, Goto
  <2>10. CASE End(w)
    BY <2>2, <2>3, <2>10 DEF End, Forget, Reset
  <2>11. ASSUME NEW n, RegisterGameItem(w, n) PROVE In(w)'
    BY <2>3, <2>11 DEF RegisterGameItem
  <2> HIDE DEF In
  <2> QED BY <1>1, <2>4, <2>5, <2>6, <2>7, <2>8, <2>9, <2>10, <2>11 DEF Acts, Step
<1>2. CASE Crash
  BY <1>2, <1>a DEF Crash, Forget, Reset, LocksInOrder
<1>3. CASE UNCHANGED vars
  BY <1>3 DEF vars, LocksInOrder
<1>4. ASSUME NEW w \in Coroutines, Acts(w), overlap \/ overlap' PROVE LocksInOrder'
  <2>1. overlap'
    BY <1>4, OtherSteps DEF Start, Release, End, history
  <2> QED BY <2>1 DEF LocksInOrder
<1> QED BY <1>1, <1>2, <1>3, <1>4, NextActs

\* The view is locked with the last statement.
LEMMA ViewIsLastStep ==
    ASSUME Typed, OnePointer, ViewIsLast, [Next]_vars
    PROVE ViewIsLast'
<1> USE DEF Typed
<1>1. ASSUME NEW w \in Coroutines, Acts(w), ~ overlap, ~ overlap', view' \in Coroutines
      PROVE pc'[view'] = "release"
  <2>1. pc \in [Coroutines -> Stages \cup {"idle", "done"}] /\ trans \in [Coroutines -> Transactions]
    BY DEF TypeOK
  <2>a. Free \notin Coroutines
    BY PeopleAssumption
  <2>b. ASSUME view' = view, view # w PROVE pc'[view'] = "release"
    BY <1>1, <2>b, StepFrame DEF ViewIsLast
  <2>c. ASSUME NEW t, Fail(t) PROVE view' = view
    BY <1>1, <2>c, FailFrame
  <2>d. ASSUME pc[w] # "release", view' = view PROVE pc'[view'] = "release"
    BY <1>1, <2>b, <2>d DEF ViewIsLast
  <2>2. CASE Start(w)
    BY <2>d, <2>2 DEF Start
  <2>3. CASE Wipe(w)
    BY <2>c, <2>d, <2>3 DEF Wipe
  <2>4. ASSUME NEW r, Prepare(w, r) PROVE pc'[view'] = "release"
    BY <2>d, <2>4 DEF Prepare
  <2>5. CASE RegisterItem(w) \/ RegisterTag(w) \/ Link(w) \/ AddRecipe(w)
    BY <2>c, <2>d, <2>5 DEF RegisterItem, RegisterTag, Link, AddRecipe
  <2>6. CASE Finish(w)
    <3>1. pc[w] = "finish" /\ pc'[w] = "release"
      BY <2>1, <2>6 DEF Finish, Return, Goto
    <3>2. Target(w) = w
      BY <1>1, <3>1, OwnTarget
    <3>3. view' = view \/ view' = w
      BY <2>6, <3>2, <2>c DEF Finish, LockView
    <3> QED BY <2>d, <3>1, <3>3
  <2>7. CASE Release(w)
    <3>1. view' = view /\ view # w
      <4>1. CASE Open(w)
        BY <1>1, <2>a, <2>7, <4>1 DEF Release, UnlockView
      <4>2. CASE ~ Open(w)
        BY <2>7, <1>1, <4>2 DEF Release, Open, TypeOK
      <4> QED BY <4>1, <4>2
    <3> QED BY <2>b, <3>1
  <2>8. CASE End(w)
    BY <2>d, <2>8 DEF End
  <2>9. ASSUME NEW n, RegisterGameItem(w, n) PROVE pc'[view'] = "release"
    BY <2>c, <2>d, <2>9 DEF RegisterGameItem
  <2> QED BY <1>1, <2>2, <2>3, <2>4, <2>5, <2>6, <2>7, <2>8, <2>9 DEF Acts, Step
<1>2. CASE Crash
  BY <1>2, PeopleAssumption DEF Crash, ViewIsLast
<1>3. CASE UNCHANGED vars
  BY <1>3 DEF vars, ViewIsLast
<1>4. ASSUME NEW w \in Coroutines, Acts(w), overlap PROVE overlap'
  BY <1>4, OtherSteps DEF Start, Release, End, history
<1> QED BY <1>1, <1>2, <1>3, <1>4, NextActs DEF ViewIsLast

\* A circle would need a name that is larger than itself, or a wait of who has only to end.
LEMMA NoCircle ==
    ASSUME Typed, LocksInOrder, ViewIsLast, ~ overlap,
           NEW S \in SUBSET Coroutines, S # {}, \A w \in S : \E u \in S : WaitsFor(w, u)
    PROVE FALSE
<1>1. \A w \in S : pc[w] \in {"items", "tags", "finish"}
  BY DEF WaitsFor
<1>2. ASSUME NEW w \in S, NEW u \in S, WaitsFor(w, u)
      PROVE /\ pc[w] \in {"items", "tags"}
            /\ \E l \in trans[u].locks : l[1] = Next1(w)
  <2>1. pc[w] # "finish"
    <3> SUFFICES ASSUME pc[w] = "finish" PROVE FALSE
      OBVIOUS
    <3>1. view = u
      BY <1>2 DEF WaitsFor
    <3>2. pc[u] = "release"
      BY <3>1 DEF ViewIsLast
    <3> QED BY <1>1, <3>2
  <2>2. pc[w] \in {"items", "tags"}
    BY <1>1, <2>1
  <2>3. todo[w] # {} /\ todo[w] \in SUBSET Names
    BY <2>2 DEF Typed, TypeOK, Looping
  <2>4. Next1(w) \in Names
    BY <2>3, NextName
  <2>5. \E kind : Inserted(w, kind, Next1(w)) \cap trans[u].locks # {}
    BY <1>2, <2>1 DEF WaitsFor
  <2> QED BY <2>2, <2>4, <2>5, InsertedType
<1>3. \A w \in S : todo[w] # {} /\ todo[w] \in SUBSET Names /\ pc[w] \in {"items", "tags"}
  <2> TAKE w \in S
  <2>1. pc[w] \in {"items", "tags"}
    BY <1>2
  <2> QED BY <2>1 DEF Typed, TypeOK, Looping
<1>4. \A w \in S : Next1(w) \in todo[w] /\ Next1(w) \in Names
  BY <1>3, NextName
<1>5. \A w \in S : \E u \in S : Next1(w) < Next1(u)
  <2> TAKE w \in S
  <2>1. PICK u \in S : WaitsFor(w, u)
    OBVIOUS
  <2>2. PICK l \in trans[u].locks : l[1] = Next1(w)
    BY <1>2, <2>1
  <2>3. l[1] < Next1(u)
    BY <1>3, <1>4 DEF LocksInOrder
  <2> QED BY <2>2, <2>3
<1> DEFINE T == {NumNames - Next1(w) : w \in S}
<1>6. T \in SUBSET Nat /\ T # {}
  BY <1>4, NamesAssumption DEF Names
<1>7. PICK k \in T : \A j \in T : k <= j
  <2> HIDE DEF T
  <2> QED BY <1>6, Smallest
<1>8. PICK w \in S : k = NumNames - Next1(w)
  BY <1>7
<1>9. PICK u \in S : Next1(w) < Next1(u)
  BY <1>5
<1>10. NumNames - Next1(w) <= NumNames - Next1(u)
  BY <1>7, <1>8
<1> QED BY <1>4, <1>9, <1>10, NamesAssumption DEF Names

\* Whatever names the ingestions share and whatever fails, they never wait for each other
\* in a circle, unless imports overlap.
THEOREM NoWaitCycleHolds == Spec => []NoWaitCycle
<1> DEFINE Inv == Typed /\ OnePointer /\ LocksInOrder /\ ViewIsLast
<1>1. Init => Inv
  <2>1. ASSUME Init PROVE OnePointer /\ LocksInOrder /\ ViewIsLast
    BY <2>1, PeopleAssumption DEF Init, OnePointer, LocksInOrder, ViewIsLast, NoTrans, Coroutines
  <2> QED BY <2>1, TypeInit
<1>2. Inv /\ [Next]_vars => Inv'
  BY TypeStep, LoopingStep, OnePointerStep, LocksInOrderStep, ViewIsLastStep DEF Typed
<1>3. Inv => NoWaitCycle
  BY NoCircle DEF NoWaitCycle
<1> QED BY <1>1, <1>2, <1>3, PTL DEF Spec

-----------------------------------------------------------------------------
(* The view of tags keeps up *)

\* Entries of a union, of a part, of nothing.
LEMMA EntriesAdd ==
    ASSUME NEW A, NEW B
    PROVE /\ Entries(A \cup B) = Entries(A) \cup Entries(B)
          /\ A \subseteq B => Entries(A) \subseteq Entries(B)
          /\ Entries({}) = {}
  BY DEF Entries

\* Overlap is never forgotten.
LEMMA OverlapStays ==
    ASSUME TypeOK, NEW w \in Coroutines, Acts(w), overlap
    PROVE overlap'
  BY OtherSteps DEF Start, Release, End, history

\* Only the end of a transaction that has computed the view brings entries to a project.
LEMMA EntriesStep ==
    ASSUME Typed, OnePointer, Refreshed, ~ overlap, NEW w \in Coroutines, Acts(w),
           NEW p \in Projects, ~ (Release(w) /\ Open(w) /\ trans[w].flat # {})
    PROVE Entries(rows'[p]) \subseteq Entries(rows[p])
<1> USE DEF Typed, tables, history
<1>0. Project(w) \in Projects /\ rows \in [Projects -> SUBSET AllRows]
  BY DEF Project, Projects, TypeOK
<1>1. CASE p # Project(w)
  BY <1>1, StepRows
<1>2. CASE p = Project(w)
  <2>1. CASE Release(w)
    <3>1. CASE Open(w)
      <4>1. rows'[p] = Seen(w, p) /\ pc[w] = "release"
        BY <1>0, <1>2, <2>1, <3>1 DEF Release
      <4>2. Entries(trans[w].added) = {}
        BY <2>1, <3>1, <4>1 DEF Refreshed
      <4>3. Seen(w, p) \subseteq rows[p] \cup trans[w].added
        BY <1>2 DEF Seen
      <4>4. Entries(Seen(w, p)) \subseteq Entries(rows[p] \cup trans[w].added)
        BY <4>3, EntriesAdd
      <4>5. Entries(rows[p] \cup trans[w].added) = Entries(rows[p])
        BY <4>2, EntriesAdd
      <4> QED BY <4>1, <4>4, <4>5
    <3>2. CASE ~ Open(w)
      BY <2>1, <3>2 DEF Release
    <3> QED BY <3>1, <3>2
  <2>2. CASE ~ Release(w)
    <3>a. ASSUME NEW rs, NEW ns, NEW ls, Execute(w, rs, ns, ls), pc[w] \notin {"idle", "done"}
          PROVE rows' = rows
      BY <3>a, OwnTarget, ExecuteFrame
    <3>1. CASE Start(w) \/ Wipe(w) \/ End(w) \/ Finish(w)
      BY <3>1 DEF Start, Wipe, End, Finish
    <3>2. ASSUME NEW r, Prepare(w, r) PROVE rows' = rows
      BY <3>2 DEF Prepare
    <3>3. CASE RegisterItem(w) \/ RegisterTag(w) \/ Link(w) \/ AddRecipe(w)
      BY <3>3, <3>a DEF RegisterItem, RegisterTag, Link, AddRecipe
    <3>4. ASSUME NEW n, RegisterGameItem(w, n)
          PROVE Entries(rows'[p]) \subseteq Entries(rows[p])
      <4> DEFINE ls == Inserted(w, "item", n)
                 rs == {Row("item", gen[w], <<n>>) : l \in ls \cap {<<n, Game>>}}
      <4>1. Entries(rs) = {}
        BY DEF Entries, Row
      <4>2. Execute(w, rs, {n}, ls) \/ UNCHANGED tables
        BY <3>4 DEF RegisterGameItem
      <4> HIDE DEF rs, ls
      <4>3. rows'[p] = rows[p] \/ rows'[p] = rows[p] \cup rs
        BY <1>0, <1>2, <4>2 DEF Execute
      <4> QED BY <4>1, <4>3, EntriesAdd
    <3> QED BY <1>0, <2>2, <3>1, <3>2, <3>3, <3>4, EntriesAdd DEF Acts, Step
  <2> QED BY <2>1, <2>2
<1> QED BY <1>1, <1>2

\* The view is changed by such an end.
LEMMA FlatStep ==
    ASSUME Typed, OnePointer, ~ overlap, NEW w \in Coroutines, Acts(w),
           ~ (Release(w) /\ Open(w) /\ trans[w].flat # {})
    PROVE flat' = flat
<1> USE DEF Typed, tables, history
<1>a. ASSUME NEW rs, NEW ns, NEW ls, Execute(w, rs, ns, ls) PROVE flat' = flat
  BY <1>a, ExecuteFrame
<1>1. CASE Start(w) \/ Wipe(w) \/ End(w)
  BY <1>1 DEF Start, Wipe, End
<1>2. ASSUME NEW r, Prepare(w, r) PROVE flat' = flat
  BY <1>2 DEF Prepare
<1>3. CASE RegisterItem(w) \/ RegisterTag(w) \/ Link(w) \/ AddRecipe(w)
  BY <1>3, <1>a DEF RegisterItem, RegisterTag, Link, AddRecipe
<1>4. CASE Finish(w)
  <2>1. Target(w) = w
    BY <1>4, OwnTarget DEF Finish
  <2> QED BY <1>4, <2>1 DEF Finish
<1>5. CASE Release(w)
  BY <1>5 DEF Release
<1>6. ASSUME NEW n, RegisterGameItem(w, n) PROVE flat' = flat
  BY <1>6, <1>a DEF RegisterGameItem
<1> QED BY <1>1, <1>2, <1>3, <1>4, <1>5, <1>6 DEF Acts, Step

\* The lock of the view is taken from nobody whose transaction goes on.
LEMMA ViewKept ==
    ASSUME Typed, OnePointer, ~ overlap, NEW w \in Coroutines, Acts(w),
           NEW u \in Coroutines, u # w, view = u, trans'[u] = trans[u]
    PROVE view' = u
<1> USE DEF Typed
<1>1. trans[u].state = "open"
  BY DEF TypeOK
<1>2. u # Free
  BY PeopleAssumption
<1>a. ASSUME NEW t, Fail(t) PROVE view' = u
  <2>1. t # u
    BY <1>1, <1>a, FailFrame
  <2> QED BY <1>a, <2>1 DEF Fail, UnlockView
<1>3. CASE Start(w) \/ Wipe(w) \/ End(w) \/ RegisterItem(w) \/ RegisterTag(w) \/ Link(w) \/ AddRecipe(w)
  BY <1>3, <1>a DEF Start, Wipe, End, RegisterItem, RegisterTag, Link, AddRecipe
<1>4. ASSUME NEW r, Prepare(w, r) PROVE view' = u
  BY <1>4 DEF Prepare
<1>5. CASE Finish(w)
  <2>1. Target(w) = w
    BY <1>5, OwnTarget DEF Finish
  <2> QED BY <1>2, <1>5, <2>1, <1>a DEF Finish, LockView
<1>6. CASE Release(w)
  BY <1>6 DEF Release, UnlockView
<1>7. ASSUME NEW n, RegisterGameItem(w, n) PROVE view' = u
  BY <1>7, <1>a DEF RegisterGameItem
<1> QED BY <1>3, <1>4, <1>5, <1>6, <1>7 DEF Acts, Step

\* What a step of w leaves of the transaction of u.
LEMMA RefreshedOthers ==
    ASSUME Typed, OnePointer, ViewIsLast, Refreshed, ~ overlap, ~ overlap',
           NEW w \in Coroutines, Acts(w), NEW u \in Coroutines, u # w, Open(u)'
    PROVE /\ trans'[u].flat # {} =>
              /\ view' = u
              /\ \E f \in trans'[u].flat :
                    /\ trans'[u].flat = {f}
                    /\ \A p \in Projects :
                          Entries(IF p = Project(u) THEN Seen(u, p)' ELSE rows'[p]) \subseteq f[p]
          /\ trans'[u].flat = {} /\ Entries(trans'[u].added) # {} =>
              pc'[u] \in {"recipes", "finish"} /\ repo'[u].tags # {}
<1> USE DEF Typed
<1>1. trans'[u] = trans[u]
  <2>1. Doomed.state # "open"
    BY DEF Doomed, NoTrans
  <2> QED BY <2>1, OthersKept DEF Open
<1>2. Open(u) /\ pc'[u] = pc[u] /\ repo'[u] = repo[u]
  BY <1>1, StepFrame DEF Open
<1>3. ASSUME trans[u].flat # {}
      PROVE /\ view' = u
            /\ \E f \in trans[u].flat :
                    /\ trans[u].flat = {f}
                    /\ \A p \in Projects :
                          Entries(IF p = Project(u) THEN Seen(u, p)' ELSE rows'[p]) \subseteq f[p]
  <2>1. PICK f \in trans[u].flat :
           /\ view = u
           /\ trans[u].flat = {f}
           /\ \A p \in Projects :
                 Entries(IF p = Project(u) THEN Seen(u, p) ELSE rows[p]) \subseteq f[p]
    BY <1>2, <1>3 DEF Refreshed
  <2>2. view' = u
    BY <1>1, <2>1, ViewKept
  <2>3. pc[u] = "release"
    BY <2>1 DEF ViewIsLast
  <2>4. Project(u) # Project(w)
    <3>1. CASE u \in Mods \/ w \in Mods
      BY <3>1, PeopleAssumption DEF Project
    <3>2. CASE u \in Imports /\ w \in Imports
      <4>1. pc[w] = "idle"
        BY <2>3, <3>2 DEF OnePointer
      <4>2. Start(w)
        BY <4>1 DEF Acts, Step, Wipe, Prepare, RegisterItem, RegisterTag, Link, AddRecipe,
                    Finish, Release, End, RegisterGameItem
      <4> QED BY <2>3, <3>2, <4>2 DEF Start
    <3> QED BY <3>1, <3>2 DEF Coroutines
  <2>5. ~ (Release(w) /\ Open(w) /\ trans[w].flat # {})
    BY <2>1 DEF Refreshed
  <2>6. \A p \in Projects : Entries(rows'[p]) \subseteq Entries(rows[p])
    BY <2>5, EntriesStep
  <2>7. \A p \in Projects : p = Project(u) => Seen(u, p)' = Seen(u, p)
    BY <1>1, <2>4, StepRows DEF Seen
  <2>8. \A p \in Projects :
           Entries(IF p = Project(u) THEN Seen(u, p)' ELSE rows'[p]) \subseteq f[p]
    <3> TAKE p \in Projects
    <3>1. CASE p = Project(u)
      BY <2>1, <2>7, <3>1
    <3>2. CASE p # Project(u)
      BY <2>1, <2>6, <3>2
    <3> QED BY <3>1, <3>2
  <2> QED BY <2>1, <2>2, <2>8
<1>4. trans[u].flat = {} /\ Entries(trans[u].added) # {} =>
              pc[u] \in {"recipes", "finish"} /\ repo[u].tags # {}
  BY <1>2 DEF Refreshed
<1> QED BY <1>1, <1>2, <1>3, <1>4

\* What a step of w does to its own transaction.
LEMMA RefreshedOwn ==
    ASSUME Typed, OnePointer, ViewIsLast, Refreshed, ~ overlap,
           NEW w \in Coroutines, Acts(w), Open(w)'
    PROVE /\ trans'[w].flat # {} =>
              /\ view' = w
              /\ \E f \in trans'[w].flat :
                    /\ trans'[w].flat = {f}
                    /\ \A p \in Projects :
                          Entries(IF p = Project(w) THEN Seen(w, p)' ELSE rows'[p]) \subseteq f[p]
          /\ trans'[w].flat = {} /\ Entries(trans'[w].added) # {} =>
              pc'[w] \in {"recipes", "finish"} /\ repo'[w].tags # {}
<1> DEFINE First == trans'[w].flat # {} =>
              /\ view' = w
              /\ \E f \in trans'[w].flat :
                    /\ trans'[w].flat = {f}
                    /\ \A p \in Projects :
                          Entries(IF p = Project(w) THEN Seen(w, p)' ELSE rows'[p]) \subseteq f[p]
           Second == trans'[w].flat = {} /\ Entries(trans'[w].added) # {} =>
              pc'[w] \in {"recipes", "finish"} /\ repo'[w].tags # {}
<1> SUFFICES First /\ Second
  OBVIOUS
<1> USE DEF Typed
<1>1. /\ pc \in [Coroutines -> Stages \cup {"idle", "done"}] /\ trans \in [Coroutines -> Transactions]
      /\ repo \in [Coroutines -> Repos \cup GameRepos \cup {NoRepo}]
      /\ rows \in [Projects -> SUBSET AllRows]
  BY DEF TypeOK
<1>2. trans[w].state = "open" \/ Start(w)
  BY OwnState DEF Open
<1>3. ASSUME trans[w].state = "open", pc[w] # "release" PROVE trans[w].flat = {}
  BY <1>3 DEF Refreshed, ViewIsLast, Open
<1>4. ASSUME trans[w].state = "open", pc[w] \notin {"release", "recipes", "finish"}
      PROVE Entries(trans[w].added) = {}
  BY <1>3, <1>4 DEF Refreshed, Open
<1>5. trans'[w].state = "open" /\ trans'[w] # Doomed
  BY DEF Open, Doomed, NoTrans
<1>a. ASSUME NEW t, Fail(t) PROVE trans'[w] = trans[w]
  BY <1>5, <1>a, FailFrame
<1>b. ASSUME NEW rs, NEW ns, NEW ls, Execute(w, rs, ns, ls), pc[w] \notin {"idle", "done"}
      PROVE /\ trans'[w].flat = trans[w].flat /\ trans[w].state = "open"
            /\ Entries(trans'[w].added) = Entries(trans[w].added) \cup Entries(rs)
  <2>1. Target(w) = w
    BY <1>b, OwnTarget
  <2> QED BY <1>b, <2>1, ExecuteFrame, EntriesAdd
<1>c. ASSUME NEW kind \in {"item", "tag", "recipe"}, NEW g, NEW of, NEW X
      PROVE Entries({Row(kind, g, of) : l \in X}) = {} /\ Entries({Row(kind, g, of)}) = {}
  BY DEF Entries, Row
<1>d. ASSUME trans'[w].flat = {}, Entries(trans'[w].added) = {} PROVE First /\ Second
  BY <1>d
<1>6. CASE Start(w)
  BY <1>1, <1>6, <1>d, EntriesAdd DEF Start, Opened, NoTrans
<1>7. CASE Wipe(w)
  <2>1. pc[w] = "wipe" /\ ~ Start(w)
    BY <1>7 DEF Wipe, Start
  <2>2. trans[w].flat = {} /\ Entries(trans[w].added) = {}
    BY <1>2, <1>3, <1>4, <2>1
  <2>3. CASE trans' = [trans EXCEPT ![w].wiped = TRUE, ![w].added = {}]
    BY <1>1, <1>d, <2>2, <2>3, EntriesAdd DEF Transactions
  <2> QED BY <1>7, <1>a, <1>d, <2>2, <2>3 DEF Wipe
<1>8. ASSUME NEW r, Prepare(w, r) PROVE First /\ Second
  <2>1. pc[w] = "prepare" /\ ~ Start(w) /\ trans' = trans
    BY <1>8 DEF Prepare, Start
  <2> QED BY <1>2, <1>3, <1>4, <1>d, <2>1
<1>9. CASE RegisterItem(w) \/ RegisterTag(w)
  <2>1. pc[w] \in {"items", "tags"} /\ ~ Start(w)
    BY <1>9 DEF RegisterItem, RegisterTag, Start
  <2>2. trans[w].flat = {} /\ Entries(trans[w].added) = {}
    BY <1>2, <1>3, <1>4, <2>1
  <2>3. ASSUME NEW kind \in {"item", "tag"}, NEW n, NEW X, NEW ls,
               Execute(w, {Row(kind, gen[w], <<n>>) : l \in X}, {n}, ls)
        PROVE trans'[w].flat = {} /\ Entries(trans'[w].added) = {}
    <3> DEFINE rs == {Row(kind, gen[w], <<n>>) : l \in X}
    <3>1. Entries(rs) = {}
      BY DEF Entries, Row
    <3>2. Execute(w, rs, {n}, ls)
      BY <2>3
    <3> HIDE DEF rs
    <3> QED BY <1>b, <2>1, <2>2, <3>1, <3>2
  <2>4. \/ Fail(Target(w))
        \/ \E kind \in {"item", "tag"} : \E n, X, ls :
              Execute(w, {Row(kind, gen[w], <<n>>) : l \in X}, {n}, ls)
    BY <1>9 DEF RegisterItem, RegisterTag
  <2> HIDE DEF First, Second
  <2> QED BY <1>a, <1>d, <2>2, <2>3, <2>4
<1>10. CASE Link(w)
  <2>1. /\ pc[w] = "links" /\ ~ Start(w) /\ repo' = repo
        /\ pc'[w] \in {"recipes", "finish"}
    BY <1>1, <1>10 DEF Link, Start, Goto
  <2>2. trans[w].flat = {} /\ Entries(trans[w].added) = {}
    BY <1>2, <1>3, <1>4, <2>1
  <2>3. repo[w].entries \subseteq repo[w].tags \X Names
    BY <2>1, RepoType DEF Looping
  <2>4. ASSUME NEW found \in SUBSET repo[w].entries,
               Execute(w, {Row("entry", gen[w], e) : e \in found}, {}, {})
        PROVE First /\ Second
    <3>1. trans'[w].flat = {} /\ Entries(trans'[w].added) = Entries({Row("entry", gen[w], e) : e \in found})
      BY <1>b, <2>1, <2>2, <2>4
    <3>2. CASE found = {}
      <4>1. {Row("entry", gen[w], e) : e \in found} = {}
        BY <3>2
      <4> QED BY <1>d, <3>1, <4>1, EntriesAdd
    <3>3. CASE repo[w].tags # {}
      BY <2>1, <3>1, <3>3
    <3> QED BY <2>3, <3>2, <3>3
  <2>5. Fail(Target(w)) \/ \E found \in SUBSET repo[w].entries :
                              Execute(w, {Row("entry", gen[w], e) : e \in found}, {}, {})
    BY <1>10 DEF Link
  <2> HIDE DEF First, Second
  <2> QED BY <1>a, <1>d, <2>2, <2>4, <2>5
<1>11. CASE AddRecipe(w)
  <2>1. /\ pc[w] = "recipes" /\ ~ Start(w) /\ repo' = repo
        /\ Goto(w, "finish") \/ Fail(Target(w))
    BY <1>11 DEF AddRecipe, Start
  <2>2. trans[w].state = "open" /\ trans[w].flat = {}
    BY <1>2, <1>3, <2>1
  <2>3. Target(w) = w
    BY <2>1, OwnTarget
  <2>4. ASSUME Fail(w) PROVE FALSE
    BY <1>5, <2>4, FailFrame
  <2>5. pc'[w] = "finish"
    BY <1>1, <2>1, <2>3, <2>4 DEF Goto
  <2>6. Entries(trans[w].added) # {} => repo[w].tags # {}
    BY <2>2 DEF Refreshed, Open
  <2>7. trans'[w].flat = {} /\ Entries(trans'[w].added) = Entries(trans[w].added)
    <3>1. ASSUME NEW of, Execute(w, {Row("recipe", gen[w], of)}, {}, {})
          PROVE trans'[w].flat = {} /\ Entries(trans'[w].added) = Entries(trans[w].added)
      BY <1>b, <1>c, <2>1, <2>2, <3>1
    <3>2. \/ trans' = trans \/ Fail(client) \/ Fail(Target(w))
          \/ \E of : Execute(w, {Row("recipe", gen[w], of)}, {}, {})
      BY <1>11 DEF AddRecipe
    <3> QED BY <1>a, <2>2, <3>1, <3>2
  <2> QED BY <2>1, <2>5, <2>6, <2>7
<1>12. CASE Finish(w)
  <2> DEFINE current == [p \in Projects |-> Entries(Seen(w, p))]
  <2>1. pc[w] = "finish" /\ ~ Start(w) /\ repo' = repo /\ rows' = rows
    BY <1>12 DEF Finish, Start
  <2>2. trans[w].state = "open" /\ trans[w].flat = {}
    BY <1>2, <1>3, <2>1
  <2>3. Target(w) = w
    BY <2>1, OwnTarget
  <2>4. ~ Fail(w)
    BY <1>5, FailFrame
  <2>5. CASE repo[w].tags = {} /\ trans' = trans
    <3>1. Entries(trans[w].added) = {}
      BY <2>2, <2>5 DEF Refreshed, Open
    <3> QED BY <1>d, <2>2, <2>5, <3>1
  <2>6. CASE LockView(w) /\ trans' = [trans EXCEPT ![w].flat = {current}]
    <3>1. view' = w
      BY <2>6 DEF LockView
    <3>2. /\ trans'[w].flat = {current} /\ trans'[w].added = trans[w].added
          /\ trans'[w].wiped = trans[w].wiped
      <4> HIDE DEF current
      <4> QED BY <1>1, <2>6 DEF Transactions
    <3>3. \A p \in Projects : Seen(w, p)' = Seen(w, p)
      BY <2>1, <3>2 DEF Seen
    <3>4. \A p \in Projects : p # Project(w) => Seen(w, p) = rows[p]
      BY DEF Seen
    <3>5. \A p \in Projects :
             Entries(IF p = Project(w) THEN Seen(w, p)' ELSE rows'[p]) \subseteq current[p]
      BY <2>1, <3>3, <3>4
    <3> HIDE DEF current
    <3> QED BY <3>1, <3>2, <3>5
  <2> HIDE DEF First, Second
  <2> QED BY <1>12, <2>3, <2>4, <2>5, <2>6 DEF Finish
<1>13. CASE Release(w)
  BY <1>1, <1>2, <1>5, <1>13 DEF Release, Open, NoTrans, Start
<1>14. CASE End(w)
  BY <1>5, <1>14 DEF End, Forget, Reset, NoTrans
<1>15. ASSUME NEW n, RegisterGameItem(w, n) PROVE FALSE
  <2>1. pc[w] = "done" /\ ~ Start(w)
    BY <1>15 DEF RegisterGameItem, Start
  <2> QED BY <1>2, <2>1 DEF Looping
<1> HIDE DEF First, Second
<1> QED BY <1>6, <1>7, <1>8, <1>9, <1>10, <1>11, <1>12, <1>13, <1>14, <1>15 DEF Acts, Step

\* What is computed for the view stays what will be committed.
LEMMA RefreshedStep ==
    ASSUME Typed, OnePointer, ViewIsLast, Refreshed, [Next]_vars
    PROVE Refreshed'
<1> USE DEF Typed
<1>1. ASSUME NEW w \in Coroutines, Acts(w), ~ overlap, ~ overlap' PROVE Refreshed'
  BY <1>1, RefreshedOwn, RefreshedOthers DEF Refreshed
<1>2. CASE Crash
  BY <1>2 DEF Crash, Forget, Reset, Refreshed, Open, NoTrans
<1>3. CASE UNCHANGED vars
  BY <1>3 DEF vars, Refreshed, Open, Seen
<1>4. ASSUME NEW w \in Coroutines, Acts(w), overlap' PROVE Refreshed'
  BY <1>4 DEF Refreshed
<1> QED BY <1>1, <1>2, <1>3, <1>4, NextActs, OverlapStays

\* An end with entries brings the view that has them.
LEMMA FlatIsCurrentStep ==
    ASSUME Typed, OnePointer, Refreshed, FlatIsCurrent, [Next]_vars
    PROVE FlatIsCurrent'
<1> USE DEF Typed
<1>1. ASSUME NEW w \in Coroutines, Acts(w), ~ overlap, NEW p \in Projects
      PROVE Entries(rows'[p]) \subseteq flat'[p]
  <2>1. CASE ~ (Release(w) /\ Open(w) /\ trans[w].flat # {})
    BY <1>1, <2>1, EntriesStep, FlatStep DEF FlatIsCurrent
  <2>2. CASE Release(w) /\ Open(w) /\ trans[w].flat # {}
    <3>1. PICK f \in trans[w].flat :
             /\ trans[w].flat = {f}
             /\ \A q \in Projects :
                   Entries(IF q = Project(w) THEN Seen(w, q) ELSE rows[q]) \subseteq f[q]
      BY <1>1, <2>2 DEF Refreshed
    <3>2. flat' = f
      BY <2>2, <3>1 DEF Release
    <3>3. rows'[p] = IF p = Project(w) THEN Seen(w, p) ELSE rows[p]
      BY <2>2 DEF Release, TypeOK
    <3> QED BY <3>1, <3>2, <3>3
  <2> QED BY <2>1, <2>2
<1>2. CASE Crash
  BY <1>2 DEF Crash, FlatIsCurrent, tables
<1>3. CASE UNCHANGED vars
  BY <1>3 DEF vars, FlatIsCurrent, tables
<1> QED BY <1>1, <1>2, <1>3, NextActs, OverlapStays DEF FlatIsCurrent

\* However the ingestions interleave, fail and crash, the view of tags never lacks a link
\* that is committed, unless imports overlap.
THEOREM FlatIsCurrentHolds == Spec => []FlatIsCurrent
<1> DEFINE Inv == Typed /\ OnePointer /\ ViewIsLast /\ Refreshed /\ FlatIsCurrent
<1>1. Init => Inv
  <2>1. ASSUME Init PROVE OnePointer /\ ViewIsLast
    BY <2>1, PeopleAssumption DEF Init, OnePointer, ViewIsLast, Coroutines
  <2>2. ASSUME Init PROVE Refreshed /\ FlatIsCurrent
    BY <2>2, EntriesAdd DEF Init, Refreshed, FlatIsCurrent, Open, NoTrans
  <2> QED BY <2>1, <2>2, TypeInit
<1>2. Inv /\ [Next]_vars => Inv'
  BY TypeStep, LoopingStep, OnePointerStep, ViewIsLastStep, RefreshedStep, FlatIsCurrentStep DEF Typed
<1>3. Inv => FlatIsCurrent
  OBVIOUS
<1> QED BY <1>1, <1>2, <1>3, PTL DEF Spec

-----------------------------------------------------------------------------
(* All of the content, or none *)

\* What others do leaves a mod's ingestion as it is.
LEMMA ModFrame ==
    ASSUME Typed, NEW w \in Coroutines, Acts(w), NEW m \in Mods, m # w
    PROVE /\ pc'[m] = pc[m] /\ todo'[m] = todo[m] /\ repo'[m] = repo[m] /\ gen'[m] = gen[m]
          /\ trans'[m] = trans[m] /\ rows'[m] = rows[m]
          /\ result'[m] = result[m] /\ errors'[m] = errors[m] /\ before'[m] = before[m]
<1> USE DEF Typed, TypeOK, history
<1>0. m \in Coroutines /\ m \in Projects /\ m # client /\ m # Project(w)
  BY PeopleAssumption DEF Coroutines, Projects, Project
<1>1. /\ pc'[m] = pc[m] /\ todo'[m] = todo[m] /\ repo'[m] = repo[m] /\ gen'[m] = gen[m]
      /\ trans'[m] = trans[m] /\ rows'[m] = rows[m]
  BY <1>0, StepFrame, StepTrans, StepRows
<1> DEFINE Rest == result'[m] = result[m] /\ errors'[m] = errors[m] /\ before'[m] = before[m]
<1> SUFFICES Rest
  BY <1>1
<1>2. CASE Start(w)
  BY <1>0, <1>2 DEF Start
<1>3. CASE Wipe(w)
  BY <1>0, <1>3 DEF Wipe, Return
<1>4. ASSUME NEW r, Prepare(w, r) PROVE Rest
  BY <1>0, <1>4 DEF Prepare, Return
<1>5. CASE RegisterItem(w) \/ RegisterTag(w) \/ Link(w)
  BY <1>0, <1>5 DEF RegisterItem, RegisterTag, Link, Return
<1>6. CASE AddRecipe(w)
  BY <1>0, <1>6 DEF AddRecipe, Return
<1>7. CASE Finish(w) \/ Release(w)
  BY <1>0, <1>7 DEF Finish, Release, Return
<1>8. CASE End(w)
  BY <1>0, <1>8 DEF End, Forget, Reset
<1>9. ASSUME NEW n, RegisterGameItem(w, n) PROVE Rest
  BY <1>9 DEF RegisterGameItem
<1> QED BY <1>2, <1>3, <1>4, <1>5, <1>6, <1>7, <1>8, <1>9 DEF Acts, Step

\* A failed statement of a mod leaves its transaction aborted.
LEMMA ModFail ==
    ASSUME Typed, NEW m \in Mods, Fail(m)
    PROVE trans'[m].state = "aborted"
  BY FailFrame DEF Typed, Coroutines

\* A statement of a mod that succeeds is executed in its transaction.
LEMMA ModExecute ==
    ASSUME Typed, NEW m \in Mods, NEW rs, NEW ns, NEW ls, Execute(m, rs, ns, ls)
    PROVE /\ trans[m].state = "open" /\ trans'[m].state = "open"
          /\ trans'[m].added = trans[m].added \cup rs
<1>1. m \in Coroutines /\ Target(m) = m
  BY DEF Coroutines, Target
<1> QED BY <1>1, ExecuteFrame DEF Typed

\* A transaction ends with the stages.
LEMMA UntouchedStep ==
    ASSUME Typed, Untouched, [Next]_vars
    PROVE Untouched'
<1> USE DEF Typed, history
<1>1. ASSUME NEW w \in Coroutines, Acts(w), NEW m \in Mods
      PROVE /\ pc'[m] \in Stages => trans'[m].state \in {"open", "aborted"} /\ rows'[m] = before'[m]
            /\ trans'[m].state = "aborted" => rows'[m] = before'[m]
  <2> DEFINE Goal == /\ pc'[m] \in Stages => trans'[m].state \in {"open", "aborted"} /\ rows'[m] = before'[m]
                     /\ trans'[m].state = "aborted" => rows'[m] = before'[m]
  <2>0. /\ m \in Coroutines /\ Project(m) = m /\ Target(m) = m /\ m \notin Imports /\ client # m
        /\ m \in Projects
    BY PeopleAssumption DEF Coroutines, Projects, Project, Target, TypeOK
  <2>1. CASE w # m
    BY <1>1, <2>0, <2>1, ModFrame DEF Untouched
  <2>2. CASE w = m
    <3>1. /\ pc \in [Coroutines -> Stages \cup {"idle", "done"}]
          /\ trans \in [Coroutines -> Transactions]
      BY DEF TypeOK
    <3>a. ASSUME pc[m] \in Stages, rows'[m] = rows[m], before' = before,
                 trans'[m].state = trans[m].state \/ trans'[m].state = "aborted"
          PROVE Goal
      BY <3>a DEF Untouched
    <3>2. CASE Start(m)
      BY <2>0, <3>1, <3>2 DEF Start, Goto, Opened, NoTrans, TypeOK, tables
    <3>3. CASE Wipe(m) \/ (\E r : Prepare(m, r)) \/ RegisterItem(m) \/ RegisterTag(m)
               \/ Link(m) \/ AddRecipe(m) \/ Finish(m)
      <4>1. pc[m] \in Stages /\ before' = before
        BY <3>3 DEF Wipe, Prepare, RegisterItem, RegisterTag, Link, AddRecipe, Finish, Stages
      <4>2. rows'[m] = rows[m]
        <5>1. pc[m] # "release"
          BY <3>3 DEF Wipe, Prepare, RegisterItem, RegisterTag, Link, AddRecipe, Finish
        <5> QED BY <1>1, <2>2, <5>1, ModRows
      <4>3. \/ trans' = trans \/ Fail(m) \/ Fail(client)
            \/ \E rs, ns, ls : Execute(m, rs, ns, ls)
            \/ \E f : trans' = [trans EXCEPT ![m].flat = f]
            \/ trans' = [trans EXCEPT ![m].wiped = TRUE, ![m].added = {}]
        <5>1. CASE Wipe(m) \/ (\E r : Prepare(m, r)) \/ Finish(m)
          BY <2>0, <5>1 DEF Wipe, Prepare, Finish
        <5>2. CASE RegisterItem(m) \/ RegisterTag(m)
          BY <2>0, <5>2 DEF RegisterItem, RegisterTag
        <5>3. CASE Link(m) \/ AddRecipe(m)
          BY <2>0, <5>3 DEF Link, AddRecipe
        <5> QED BY <3>3, <5>1, <5>2, <5>3
      <4>4. ASSUME NEW rs, NEW ns, NEW ls, Execute(m, rs, ns, ls)
            PROVE trans'[m].state = trans[m].state
        BY <4>4, ModExecute
      <4>5. ASSUME Fail(client) PROVE trans'[m] = trans[m]
        BY <2>0, <4>5, FailFrame
      <4>6. ASSUME NEW f, trans' = [trans EXCEPT ![m].flat = f]
            PROVE trans'[m].state = trans[m].state
        BY <2>0, <3>1, <4>6 DEF Transactions
      <4>7. ASSUME trans' = [trans EXCEPT ![m].wiped = TRUE, ![m].added = {}]
            PROVE trans'[m].state = trans[m].state
        BY <2>0, <3>1, <4>7 DEF Transactions
      <4>8. trans'[m].state = trans[m].state \/ trans'[m].state = "aborted"
        BY <4>3, <4>4, <4>5, <4>6, <4>7, ModFail
      <4> QED BY <3>a, <4>1, <4>2, <4>8
    <3>4. CASE Release(m)
      <4>1. pc'[m] = "done" /\ pc[m] = "release" /\ before' = before
        BY <2>0, <3>1, <3>4 DEF Release, Goto
      <4>2. "done" \notin Stages /\ "release" \in Stages
        BY DEF Stages
      <4>3. CASE Open(m)
        BY <2>0, <3>1, <3>4, <4>1, <4>2, <4>3 DEF Release, NoTrans
      <4>4. CASE ~ Open(m)
        BY <3>4, <4>1, <4>2, <4>4 DEF Release, Untouched
      <4> QED BY <4>3, <4>4
    <3>5. CASE End(m)
      BY <2>0, <3>5 DEF End, Forget, Reset, NoTrans, Stages
    <3>6. ASSUME NEW n PROVE ~ RegisterGameItem(m, n)
      BY <2>0 DEF RegisterGameItem
    <3> HIDE DEF Goal
    <3> QED BY <1>1, <2>2, <3>2, <3>3, <3>4, <3>5, <3>6 DEF Acts, Step
  <2> QED BY <2>1, <2>2
<1>2. CASE Crash
  BY <1>2 DEF Crash, Forget, Reset, Untouched, NoTrans, Stages, Coroutines
<1>3. CASE UNCHANGED vars
  BY <1>3 DEF vars, Untouched
<1> QED BY <1>1, <1>2, <1>3, NextActs DEF Untouched

\* After the wipe, the rows that a mod's statements find are those of its ingestion.
LEMMA FoundRow ==
    ASSUME Typed, OwnRows, NEW m \in Mods, trans[m].state = "open", pc[m] # "wipe",
           NEW kind, NEW of
    PROVE HasRow(m, m, kind, of) <=> Row(kind, gen[m], of) \in trans[m].added
<1>1. m \in Coroutines /\ Project(m) = m
  BY DEF Coroutines, Project
<1>2. trans[m].wiped /\ \A r \in trans[m].added : r.gen = gen[m]
  BY <1>1 DEF OwnRows, OwnRowsOf, Open
<1>3. Seen(m, m) = trans[m].added
  BY <1>1, <1>2 DEF Seen
<1>4. trans[m].added \in SUBSET AllRows
  BY <1>1 DEF Typed, TypeOK, Transactions
<1>5. ASSUME NEW r \in trans[m].added, r.kind = kind, r.of = of PROVE r = Row(kind, gen[m], of)
  BY <1>2, <1>4, <1>5 DEF AllRows, Row
<1>6. Row(kind, gen[m], of).kind = kind /\ Row(kind, gen[m], of).of = of
  BY DEF Row
<1> QED BY <1>3, <1>5, <1>6 DEF HasRow

\* The row of a name is there after its statement, whether it inserts it or not.
LEMMA NameGathered ==
    ASSUME Typed, OwnRows, NEW m \in Mods, trans[m].state = "open", pc[m] # "wipe",
           NEW kind, NEW n
    PROVE Row(kind, gen[m], <<n>>) \in trans[m].added \cup
              {Row(kind, gen[m], <<n>>) : l \in Inserted(m, kind, n) \cap {<<n, Project(m)>>}}
<1>1. Target(m) = m /\ Project(m) = m
  BY DEF Target, Project
<1>2. CASE HasRow(m, m, kind, <<n>>)
  BY <1>2, FoundRow
<1>3. CASE ~ HasRow(m, m, kind, <<n>>)
  <2>1. <<n, Project(m)>> \in Inserted(m, kind, n)
    BY <1>1, <1>3 DEF Inserted
  <2> QED BY <2>1
<1> QED BY <1>2, <1>3

\* The loop after the items begins with all the tags.
LEMMA ExecutionGathers ==
    ASSUME TypeOK, NEW m \in Mods, NEW r \in Repos \cup GameRepos, Execution(m, r), repo'[m] = r,
           ItemsGathered(m)'
    PROVE GatheredOf(m)'
<1>1. m \in Coroutines /\ repo'[m] \in Repos \cup GameRepos
  BY DEF Coroutines
<1>2. CASE r.tags # {}
  <2>1. pc'[m] = "tags" /\ todo'[m] = r.tags
    BY <1>1, <1>2 DEF Execution, Loop, Goto, TypeOK
  <2> QED BY <1>1, <2>1
      DEF GatheredOf, TagsGathered, LinksGathered, RecipeGathered
<1>3. CASE r.tags = {}
  <2>1. pc'[m] = "recipes"
    BY <1>1, <1>3 DEF Execution, Loop, Goto, TypeOK
  <2>2. r.entries = {}
    BY <1>3, RepoType
  <2> QED BY <1>1, <1>3, <2>1, <2>2
      DEF GatheredOf, TagsGathered, LinksGathered, RecipeGathered
<1> QED BY <1>2, <1>3

\* A mod's reading and its loop over the items.
LEMMA ItemsGather ==
    ASSUME Typed, OwnRows, Gathered, NEW m \in Mods,
           (\E r \in Repos \cup GameRepos : Prepare(m, r)) \/ RegisterItem(m)
    PROVE GatheredOf(m)'
<1> USE DEF Typed
<1>0. m \in Coroutines /\ Target(m) = m
  BY DEF Coroutines, Target
<1>1. /\ pc \in [Coroutines -> Stages \cup {"idle", "done"}]
      /\ todo \in [Coroutines -> SUBSET Names]
      /\ repo \in [Coroutines -> Repos \cup GameRepos \cup {NoRepo}]
      /\ result \in [Coroutines -> {"Ok", "ErrInternal", "ErrBadRequest"}]
  BY DEF TypeOK
<1>2. ASSUME NEW r \in Repos \cup GameRepos, Prepare(m, r) PROVE GatheredOf(m)'
  <2>1. repo'[m] = r
    BY <1>0, <1>1, <1>2 DEF Prepare
  <2>2. CASE r.readable /\ r.items # {}
    <3>1. pc'[m] = "items" /\ todo'[m] = r.items
      BY <1>0, <1>1, <1>2, <2>2 DEF Prepare, Loop, Goto
    <3> QED BY <2>1, <3>1
        DEF GatheredOf, ItemsGathered, TagsGathered, LinksGathered, RecipeGathered
  <2>3. CASE r.readable /\ r.items = {}
    <3>1. Execution(m, r)
      BY <1>2, <2>3 DEF Prepare
    <3>2. ItemsGathered(m)'
      BY <2>1, <2>3 DEF ItemsGathered
    <3> QED BY <2>1, <3>1, <3>2, ExecutionGathers
  <2>4. CASE ~ r.readable
    <3>1. pc'[m] = "release" /\ result'[m] = "ErrInternal"
      BY <1>0, <1>1, <1>2, <2>4 DEF Prepare, Return, Goto
    <3> QED BY <3>1 DEF GatheredOf, Gathering
  <2> QED BY <2>2, <2>3, <2>4
<1>3. CASE RegisterItem(m)
  <2> DEFINE n == Next1(m)
             ls == Inserted(m, "item", n)
             rs == {Row("item", gen[m], <<n>>) : l \in ls \cap {<<n, Project(m)>>}}
             end == IF todo[m] # {n} THEN Loop(m, "items", todo[m] \ {n}) ELSE Execution(m, repo[m])
  <2>1. pc[m] = "items" /\ repo' = repo /\ gen' = gen /\ repo[m] \in Repos \cup GameRepos
    BY <1>0, <1>3 DEF RegisterItem, Looping
  <2>2. CASE Fail(m)
    <3>1. trans'[m].state = "aborted"
      BY <2>2, ModFail
    <3> QED BY <3>1 DEF GatheredOf
  <2>3. CASE Execute(m, rs, {n}, ls) /\ end
    <3>1. trans[m].state = "open" /\ trans'[m].added = trans[m].added \cup rs
      <4> HIDE DEF n, ls, rs
      <4> QED BY <2>3, ModExecute
    <3>2. Row("item", gen[m], <<n>>) \in trans'[m].added
      BY <2>1, <3>1, NameGathered
    <3>3. ItemsGathered(m)
      BY <2>1, <3>1 DEF Gathered, GatheredOf, Gathering
    <3> HIDE DEF n, rs, ls
    <3>4. CASE Loop(m, "items", todo[m] \ {n})
      <4>1. pc'[m] = "items" /\ todo'[m] = todo[m] \ {n}
        BY <1>0, <1>1, <3>4 DEF Loop, Goto
      <4> QED BY <2>1, <3>1, <3>2, <3>3, <4>1
          DEF GatheredOf, ItemsGathered, TagsGathered, LinksGathered, RecipeGathered
    <3>5. CASE todo[m] = {n} /\ Execution(m, repo[m])
      <4>1. ItemsGathered(m)'
        BY <2>1, <3>1, <3>2, <3>3, <3>5 DEF ItemsGathered
      <4> QED BY <2>1, <3>5, <4>1, ExecutionGathers
    <3> QED BY <2>3, <3>4, <3>5
  <2> QED BY <1>0, <1>3, <2>2, <2>3 DEF RegisterItem
<1> QED BY <1>2, <1>3

\* A mod's loop over the tags.
LEMMA TagsGather ==
    ASSUME Typed, OwnRows, Gathered, NEW m \in Mods, RegisterTag(m)
    PROVE GatheredOf(m)'
<1> USE DEF Typed
<1>0. m \in Coroutines /\ Target(m) = m
  BY DEF Coroutines, Target
<1>1. /\ pc \in [Coroutines -> Stages \cup {"idle", "done"}]
      /\ todo \in [Coroutines -> SUBSET Names]
  BY DEF TypeOK
<1> DEFINE n == Next1(m)
           ls == Inserted(m, "tag", n)
           rs == {Row("tag", gen[m], <<n>>) : l \in ls \cap {<<n, Project(m)>>}}
<1>2. pc[m] = "tags" /\ repo' = repo /\ gen' = gen /\ repo[m] \in Repos \cup GameRepos
  BY <1>0 DEF RegisterTag, Looping
<1>3. CASE Fail(m)
  <2>1. trans'[m].state = "aborted"
    BY <1>3, ModFail
  <2> QED BY <2>1 DEF GatheredOf
<1>4. CASE Execute(m, rs, {n}, ls)
  <2>1. trans[m].state = "open" /\ trans'[m].added = trans[m].added \cup rs
    <3> HIDE DEF n, ls, rs
    <3> QED BY <1>4, ModExecute
  <2>2. Row("tag", gen[m], <<n>>) \in trans'[m].added
    BY <1>2, <2>1, NameGathered
  <2>3. ItemsGathered(m) /\ TagsGathered(m)
    BY <1>2, <2>1 DEF Gathered, GatheredOf, Gathering
  <2>4. /\ pc'[m] = IF todo[m] = {n} THEN "links" ELSE "tags"
        /\ todo'[m] = todo[m] \ {n}
    <3>1. Loop(m, IF todo[m] = {n} THEN "links" ELSE "tags", todo[m] \ {n})
      BY DEF RegisterTag
    <3> HIDE DEF n
    <3> QED BY <1>0, <1>1, <3>1 DEF Loop, Goto
  <2> HIDE DEF n, rs, ls
  <2>5. ItemsGathered(m)'
    BY <1>2, <2>1, <2>3 DEF ItemsGathered
  <2>6. TagsGathered(m)'
    BY <1>2, <2>1, <2>2, <2>3, <2>4 DEF TagsGathered
  <2> QED BY <1>2, <2>4, <2>5, <2>6 DEF GatheredOf, LinksGathered, RecipeGathered
<1> QED BY <1>0, <1>3, <1>4 DEF RegisterTag

\* Its links find the tags and items that are there.
LEMMA LinksGather ==
    ASSUME Typed, OwnRows, Gathered, NEW m \in Mods, Link(m)
    PROVE GatheredOf(m)'
<1> USE DEF Typed
<1>0. m \in Coroutines /\ Target(m) = m /\ Project(m) = m
  BY DEF Coroutines, Target, Project
<1> DEFINE found == {e \in repo[m].entries :
                        /\ HasRow(m, m, "tag", <<e[1]>>)
                        /\ HasRow(m, m, "item", <<e[2]>>) \/ HasRow(m, Game, "item", <<e[2]>>)}
           rs == {Row("entry", gen[m], e) : e \in found}
<1>1. /\ pc[m] = "links" /\ pc'[m] = "recipes"
      /\ repo' = repo /\ gen' = gen /\ repo[m] \in Repos \cup GameRepos
  BY <1>0 DEF Link, Goto, Looping, TypeOK
<1>2. CASE Fail(m)
  <2>1. trans'[m].state = "aborted"
    BY <1>2, ModFail
  <2> QED BY <2>1 DEF GatheredOf
<1>3. CASE Execute(m, rs, {}, {})
  <2>1. trans[m].state = "open" /\ trans'[m].added = trans[m].added \cup rs
    <3> HIDE DEF rs
    <3> QED BY <1>3, ModExecute
  <2>2. ItemsGathered(m) /\ TagsGathered(m)
    BY <1>1, <2>1 DEF Gathered, GatheredOf, Gathering
  <2>3. ASSUME NEW e \in repo[m].entries, e[2] \in repo[m].items
        PROVE Row("entry", gen[m], e) \in rs
    <3>1. e[1] \in repo[m].tags
      BY <1>1, RepoType
    <3>2. HasRow(m, m, "tag", <<e[1]>>)
      BY <1>1, <2>1, <2>2, <3>1, FoundRow DEF TagsGathered
    <3>3. HasRow(m, m, "item", <<e[2]>>)
      BY <1>1, <2>1, <2>2, <2>3, FoundRow DEF ItemsGathered
    <3>4. e \in found
      BY <3>2, <3>3
    <3> QED BY <3>4
  <2> HIDE DEF rs
  <2>4. ItemsGathered(m)'
    BY <1>1, <2>1, <2>2 DEF ItemsGathered
  <2>5. TagsGathered(m)'
    BY <1>1, <2>1, <2>2 DEF TagsGathered
  <2>6. LinksGathered(m)'
    BY <1>1, <2>1, <2>3 DEF LinksGathered
  <2> QED BY <1>1, <2>4, <2>5, <2>6 DEF GatheredOf, RecipeGathered
<1> QED BY <1>0, <1>2, <1>3 DEF Link

\* Its recipe is there, or an error was raised.
LEMMA RecipeGathers ==
    ASSUME Typed, Gathered, NEW m \in Mods, AddRecipe(m)
    PROVE GatheredOf(m)'
<1> USE DEF Typed
<1>0. m \in Coroutines /\ Target(m) = m /\ client # m
  BY PeopleAssumption DEF Coroutines, Target, TypeOK
<1>1. pc[m] = "recipes" /\ repo' = repo /\ gen' = gen /\ repo[m] \in Repos \cup GameRepos
  BY <1>0 DEF AddRecipe, Looping
<1>2. errors \in [Coroutines -> BOOLEAN] /\ pc \in [Coroutines -> Stages \cup {"idle", "done"}]
  BY DEF TypeOK
<1>a. ASSUME trans[m].state = "open", pc'[m] = "finish", trans[m].added \subseteq trans'[m].added,
             RecipeGathered(m)'
      PROVE GatheredOf(m)'
  <2>1. ItemsGathered(m) /\ TagsGathered(m) /\ LinksGathered(m)
    BY <1>1, <1>a DEF Gathered, GatheredOf, Gathering
  <2>2. ItemsGathered(m)' /\ TagsGathered(m)'
    BY <1>1, <1>a, <2>1 DEF ItemsGathered, TagsGathered
  <2>3. LinksGathered(m)'
    BY <1>1, <1>a, <2>1 DEF LinksGathered
  <2> QED BY <1>1, <1>a, <2>2, <2>3 DEF GatheredOf
<1>b. ASSUME trans'[m] = trans[m], Goto(m, "finish"), RecipeGathered(m)'
      PROVE GatheredOf(m)'
  <2>1. pc'[m] = "finish"
    BY <1>0, <1>2, <1>b DEF Goto
  <2> QED BY <1>a, <1>b, <2>1 DEF GatheredOf
<1>3. CASE repo[m].recipe = "none" /\ Goto(m, "finish") /\ trans' = trans
  BY <1>1, <1>3, <1>b DEF RecipeGathered
<1>4. CASE /\ trans' = trans \/ Fail(client)
           /\ errors' = [errors EXCEPT ![m] = TRUE]
           /\ Goto(m, "finish")
  <2>1. trans'[m] = trans[m]
    BY <1>0, <1>4, FailFrame
  <2> QED BY <1>0, <1>2, <1>4, <1>b, <2>1 DEF RecipeGathered
<1>5. ASSUME NEW of, Execute(m, {Row("recipe", gen[m], of)}, {}, {}), Goto(m, "finish")
      PROVE GatheredOf(m)'
  <2>1. trans[m].state = "open" /\ trans'[m].added = trans[m].added \cup {Row("recipe", gen[m], of)}
    BY <1>5, ModExecute
  <2>2. Row("recipe", gen[m], of).kind = "recipe"
    BY DEF Row
  <2>3. pc'[m] = "finish"
    BY <1>0, <1>2, <1>5 DEF Goto
  <2> QED BY <1>a, <2>1, <2>2, <2>3 DEF RecipeGathered
<1>6. CASE Fail(m)
  <2>1. trans'[m].state = "aborted"
    BY <1>6, ModFail
  <2> QED BY <2>1 DEF GatheredOf
<1> QED BY <1>0, <1>3, <1>4, <1>5, <1>6 DEF AddRecipe

\* Computing the view leaves it as it is.
LEMMA FinishGathers ==
    ASSUME Typed, Gathered, NEW m \in Mods, Finish(m)
    PROVE GatheredOf(m)'
<1> USE DEF Typed
<1>0. m \in Coroutines /\ Target(m) = m
  BY DEF Coroutines, Target
<1>1. /\ pc[m] = "finish" /\ pc'[m] = "release" /\ errors' = errors
      /\ repo' = repo /\ gen' = gen /\ repo[m] \in Repos \cup GameRepos
  BY <1>0 DEF Finish, Return, Goto, Looping, TypeOK
<1>2. CASE Fail(m)
  <2>1. trans'[m].state = "aborted"
    BY <1>2, ModFail
  <2> QED BY <2>1 DEF GatheredOf
<1>3. ASSUME trans'[m].added = trans[m].added, trans'[m].state = trans[m].state
      PROVE GatheredOf(m)'
  <2>1. CASE trans[m].state # "open"
    BY <1>3, <2>1 DEF GatheredOf
  <2>2. CASE trans[m].state = "open"
    <3>1. ItemsGathered(m) /\ TagsGathered(m) /\ LinksGathered(m) /\ RecipeGathered(m)
      BY <1>1, <2>2 DEF Gathered, GatheredOf, Gathering
    <3>2. ItemsGathered(m)' /\ TagsGathered(m)'
      BY <1>1, <1>3, <3>1 DEF ItemsGathered, TagsGathered
    <3>3. LinksGathered(m)' /\ RecipeGathered(m)'
      BY <1>1, <1>3, <3>1 DEF LinksGathered, RecipeGathered
    <3> QED BY <1>1, <3>2, <3>3 DEF GatheredOf
  <2> QED BY <2>1, <2>2
<1>4. ASSUME NEW f, trans' = [trans EXCEPT ![m].flat = f]
      PROVE trans'[m].added = trans[m].added /\ trans'[m].state = trans[m].state
  BY <1>0, <1>4 DEF TypeOK, Transactions
<1>5. trans' = trans \/ Fail(m) \/ \E f : trans' = [trans EXCEPT ![m].flat = f]
  BY <1>0 DEF Finish
<1> HIDE DEF Typed
<1> QED BY <1>2, <1>3, <1>4, <1>5

\* What has been registered stays registered until the transaction ends.
LEMMA GatheredStep ==
    ASSUME Typed, OwnRows, Gathered, [Next]_vars
    PROVE Gathered'
<1>0. Gathered' <=> \A m \in Mods : GatheredOf(m)'
  BY DEF Gathered
<1>1. ASSUME NEW w \in Coroutines, Acts(w), NEW m \in Mods PROVE GatheredOf(m)'
  <2>0. m \in Coroutines /\ m \notin Imports /\ Target(m) = m
    BY PeopleAssumption DEF Coroutines, Target
  <2>1. CASE w # m
    <3>1. /\ pc'[m] = pc[m] /\ todo'[m] = todo[m] /\ repo'[m] = repo[m] /\ gen'[m] = gen[m]
          /\ trans'[m] = trans[m] /\ result'[m] = result[m] /\ errors'[m] = errors[m]
      BY <1>1, <2>1, ModFrame
    <3>2. GatheredOf(m)' <=> GatheredOf(m)
      BY <3>1 DEF GatheredOf, Gathering, ItemsGathered, TagsGathered, LinksGathered, RecipeGathered
    <3> QED BY <3>2 DEF Gathered
  <2>2. CASE w = m
    <3>1. /\ pc \in [Coroutines -> Stages \cup {"idle", "done"}]
          /\ result \in [Coroutines -> {"Ok", "ErrInternal", "ErrBadRequest"}]
      BY DEF Typed, TypeOK
    <3>2. CASE Start(m) \/ Wipe(m)
      <4>1. pc'[m] \in {"wipe", "prepare"} \/ (pc'[m] = "release" /\ result'[m] = "ErrInternal")
        BY <2>0, <3>1, <3>2 DEF Start, Wipe, Return, Goto
      <4> QED BY <4>1 DEF GatheredOf, Gathering
    <3>3. CASE Release(m) \/ End(m)
      <4>1. pc'[m] \in {"idle", "done"}
        BY <2>0, <3>1, <3>3 DEF Release, End, Forget, Reset, Goto
      <4> QED BY <4>1 DEF GatheredOf, Gathering
    <3>4. ASSUME NEW n PROVE ~ RegisterGameItem(m, n)
      BY <2>0 DEF RegisterGameItem
    <3> QED BY <1>1, <2>2, <3>2, <3>3, <3>4, ItemsGather, TagsGather, LinksGather, RecipeGathers,
               FinishGathers DEF Acts, Step
  <2> QED BY <2>1, <2>2
<1>2. ASSUME Crash, NEW m \in Mods PROVE GatheredOf(m)'
  <2>1. pc'[m] = "idle"
    BY <1>2 DEF Crash, Forget, Reset, Coroutines
  <2> QED BY <2>1 DEF GatheredOf, Gathering
<1>3. CASE UNCHANGED vars
  BY <1>3 DEF vars, Gathered, GatheredOf, Gathering, ItemsGathered, TagsGathered, LinksGathered, RecipeGathered
<1> QED BY <1>0, <1>1, <1>2, <1>3, NextActs

\* What is committed at the end is what was gathered.
LEMMA DoneIsWholeStep ==
    ASSUME Typed, OwnRows, Untouched, Gathered, DoneIsWhole, [Next]_vars
    PROVE DoneIsWhole'
<1> DEFINE WholeOf(m) ==
        pc[m] = "done" =>
            /\ trans[m].state = "aborted" => rows[m] = before[m]
            /\ trans[m].state = "committed" /\ result[m] = "Ok" =>
                  /\ Wanted(m) \subseteq rows[m]
                  /\ \A r \in rows[m] : r.gen = gen[m]
                  /\ (repo[m].recipe # "none" /\ ~ errors[m]) => \E r \in rows[m] : r.kind = "recipe"
<1>0. (DoneIsWhole <=> \A m \in Mods : WholeOf(m)) /\ (DoneIsWhole' <=> \A m \in Mods : WholeOf(m)')
  BY DEF DoneIsWhole
<1>1. ASSUME NEW w \in Coroutines, Acts(w), NEW m \in Mods PROVE WholeOf(m)'
  <2>0. m \in Coroutines /\ m \in Projects /\ m \notin Imports /\ Project(m) = m
    BY PeopleAssumption DEF Coroutines, Projects, Project
  <2>1. CASE w # m
    <3>1. /\ pc'[m] = pc[m] /\ repo'[m] = repo[m] /\ gen'[m] = gen[m]
          /\ trans'[m] = trans[m] /\ rows'[m] = rows[m]
          /\ result'[m] = result[m] /\ errors'[m] = errors[m] /\ before'[m] = before[m]
      BY <1>1, <2>1, ModFrame
    <3>2. Wanted(m)' = Wanted(m)
      BY <3>1 DEF Wanted
    <3> QED BY <1>0, <3>1, <3>2
  <2>2. CASE w = m /\ ~ Release(m)
    <3>1. pc'[m] # "done"
      <4>1. /\ pc \in [Coroutines -> Stages \cup {"idle", "done"}] /\ "done" \notin Stages
        BY DEF Typed, TypeOK, Stages
      <4>2. CASE Start(m) \/ Wipe(m) \/ \E r \in Repos \cup GameRepos : Prepare(m, r)
        BY <2>0, <4>1, <4>2 DEF Start, Wipe, Prepare, Execution, Loop, Return, Goto
      <4>3. CASE RegisterItem(m) \/ RegisterTag(m) \/ Link(m)
        BY <2>0, <4>1, <4>3 DEF RegisterItem, RegisterTag, Link, Execution, Loop, Return, Goto
      <4>4. CASE AddRecipe(m) \/ Finish(m) \/ End(m)
        BY <2>0, <4>1, <4>4 DEF AddRecipe, Finish, End, Forget, Reset, Return, Goto
      <4>5. ASSUME NEW n PROVE ~ RegisterGameItem(m, n)
        BY <2>0 DEF RegisterGameItem
      <4> QED BY <1>1, <2>2, <4>2, <4>3, <4>4, <4>5 DEF Acts, Step
    <3> QED BY <3>1
  <2>3. CASE Release(m)
    <3>1. pc[m] = "release" /\ UNCHANGED <<repo, gen, result, errors, before>>
      BY <2>3 DEF Release, history
    <3>2. CASE ~ Open(m)
      <4>1. UNCHANGED <<rows, trans>>
        BY <2>3, <3>2 DEF Release
      <4>2. trans[m].state = "aborted" /\ rows[m] = before[m]
        BY <2>0, <3>1, <3>2 DEF Untouched, Open, Stages
      <4> QED BY <3>1, <4>1, <4>2
    <3>3. CASE Open(m)
      <4>1. trans[m].wiped /\ \A r \in trans[m].added : r.gen = gen[m]
        BY <3>1, <3>3 DEF OwnRows, OwnRowsOf, Open
      <4>2. rows'[m] = trans[m].added
        BY <2>0, <2>3, <3>3, <4>1 DEF Release, Seen, Typed, TypeOK
      <4>3. trans'[m].state = "committed"
        BY <2>0, <2>3, <3>3 DEF Release, NoTrans, Typed, TypeOK
      <4>4. CASE result[m] = "Ok"
        <5>1. ItemsGathered(m) /\ TagsGathered(m) /\ LinksGathered(m) /\ RecipeGathered(m)
          BY <3>1, <3>3, <4>4 DEF Gathered, GatheredOf, Gathering, Open
        <5>2. Wanted(m)' = Wanted(m)
          BY <3>1 DEF Wanted
        <5>3. Wanted(m) \subseteq rows'[m]
          BY <3>1, <4>2, <5>1 DEF Wanted, ItemsGathered, TagsGathered, LinksGathered
        <5> QED BY <3>1, <4>1, <4>2, <4>3, <5>1, <5>2, <5>3 DEF RecipeGathered
      <4> QED BY <3>1, <4>3, <4>4
    <3> QED BY <3>2, <3>3
  <2> QED BY <2>1, <2>2, <2>3
<1>2. ASSUME Crash, NEW m \in Mods PROVE WholeOf(m)'
  BY <1>2 DEF Crash, Forget, Reset, Coroutines
<1>3. CASE UNCHANGED vars
  BY <1>3 DEF vars, DoneIsWhole, Wanted
<1> QED BY <1>0, <1>1, <1>2, <1>3, NextActs

\* A deployment's ingestion is all or nothing: what returns Ok with no failed statement
\* has put all of the repository's content in the tables, and what failed has left them.
THEOREM DoneIsWholeHolds == Spec => []DoneIsWhole
<1> DEFINE Inv == Typed /\ OwnRows /\ Untouched /\ Gathered /\ DoneIsWhole
<1>1. Init => Inv
  <2>1. Init => OwnRows
    BY DEF Init, OwnRows, OwnRowsOf, NoTrans, Open, Coroutines
  <2>2. Init => Untouched /\ Gathered /\ DoneIsWhole
    BY DEF Init, Untouched, Gathered, GatheredOf, Gathering, DoneIsWhole, NoTrans, Stages, Coroutines
  <2> QED BY <2>1, <2>2, TypeInit
<1>2. Inv /\ [Next]_vars => Inv'
  BY TypeStep, LoopingStep, OwnRowsStep, UntouchedStep, GatheredStep, DoneIsWholeStep DEF Typed
<1>3. Inv => DoneIsWhole
  OBVIOUS
<1> QED BY <1>1, <1>2, <1>3, PTL DEF Spec

-----------------------------------------------------------------------------
(* What the files of a mod name is there *)

\* What a mod ingests is a repository; the names of its items are known once they have been
\* registered, so that its recipe finds them.
OfRepository(m) == Gathering(m) \/ (pc[m] = "done" /\ result[m] = "Ok") => repo[m] \in Repos
NamesGathered(m) ==
    \A n \in repo[m].items :
        n \in known \cup trans[m].names \/ (pc[m] = "items" /\ n \in todo[m])
RecipeOf(m) == Row("recipe", gen[m], <<repo[m].needs>>)
OwnRecipe(m) ==
    repo[m].recipe # "none" /\ ~ errors[m] /\ repo[m].needs \in repo[m].items
NamedOf(m) ==
    /\ OfRepository(m)
    /\ trans[m].state = "open" /\ Gathering(m) =>
          /\ NamesGathered(m)
          /\ pc[m] \in {"finish", "release"} /\ OwnRecipe(m) => RecipeOf(m) \in trans[m].added
    /\ pc[m] = "done" /\ result[m] = "Ok" /\ trans[m].state = "committed" /\ OwnRecipe(m) =>
          RecipeOf(m) \in rows[m]
Named == \A m \in Mods : NamedOf(m)

\* Names are never forgotten.
LEMMA KnownGrows ==
    ASSUME [Next]_vars
    PROVE known \subseteq known'
<1>a. ASSUME NEW w, NEW rs, NEW ns, NEW ls, Execute(w, rs, ns, ls) PROVE known \subseteq known'
  BY <1>a DEF Execute, tables
<1>1. ASSUME NEW w \in Coroutines, Acts(w) PROVE known \subseteq known'
  <2>1. CASE Start(w) \/ Wipe(w) \/ Finish(w) \/ Release(w) \/ End(w)
    BY <2>1 DEF Start, Wipe, Finish, Release, End, tables
  <2>2. CASE RegisterItem(w) \/ RegisterTag(w) \/ Link(w) \/ AddRecipe(w)
    BY <1>a, <2>2 DEF RegisterItem, RegisterTag, Link, AddRecipe, tables
  <2>3. ASSUME NEW r, Prepare(w, r) PROVE known \subseteq known'
    BY <2>3 DEF Prepare, tables
  <2>4. ASSUME NEW n, RegisterGameItem(w, n) PROVE known \subseteq known'
    BY <1>a, <2>4 DEF RegisterGameItem, tables
  <2> QED BY <1>1, <2>1, <2>2, <2>3, <2>4 DEF Acts, Step
<1>2. CASE Crash \/ UNCHANGED vars
  BY <1>2 DEF Crash, vars, tables
<1> QED BY <1>1, <1>2, NextActs

\* A statement of a mod keeps the names, and adds its own.
LEMMA ModNames ==
    ASSUME Typed, NEW m \in Mods, NEW rs, NEW ns, NEW ls, Execute(m, rs, ns, ls)
    PROVE /\ trans'[m].names = trans[m].names \cup ns
          /\ known' = known /\ rows' = rows
<1>1. m \in Coroutines /\ Target(m) = m
  BY DEF Coroutines, Target
<1> QED BY <1>1, ExecuteFrame DEF Typed, tables

\* After the items all of their names are known.
LEMMA ExecutionNames ==
    ASSUME TypeOK, NEW m \in Mods, NEW r \in Repos, Execution(m, r), repo'[m] = r,
           \A n \in r.items : n \in known' \cup trans'[m].names
    PROVE NamedOf(m)'
<1>1. m \in Coroutines
  BY DEF Coroutines
<1>2. pc'[m] \in {"tags", "recipes"}
  BY <1>1 DEF Execution, Loop, Goto, TypeOK
<1> QED BY <1>2 DEF NamedOf, OfRepository, NamesGathered

\* The reading, and the loop over the items.
LEMMA ItemsNamed ==
    ASSUME Typed, Named, NEW m \in Mods,
           (\E r \in Repos \cup GameRepos : Prepare(m, r)) \/ RegisterItem(m)
    PROVE NamedOf(m)'
<1> USE DEF Typed
<1>0. m \in Coroutines /\ Target(m) = m
  BY DEF Coroutines, Target
<1>1. /\ pc \in [Coroutines -> Stages \cup {"idle", "done"}]
      /\ todo \in [Coroutines -> SUBSET Names]
      /\ repo \in [Coroutines -> Repos \cup GameRepos \cup {NoRepo}]
      /\ result \in [Coroutines -> {"Ok", "ErrInternal", "ErrBadRequest"}]
  BY DEF TypeOK
<1>2. ASSUME NEW r \in Repos \cup GameRepos, Prepare(m, r) PROVE NamedOf(m)'
  <2>1. repo'[m] = r /\ r \in Repos
    BY <1>0, <1>1, <1>2 DEF Prepare
  <2>2. CASE r.readable /\ r.items # {}
    <3>1. pc'[m] = "items" /\ todo'[m] = r.items
      BY <1>0, <1>1, <1>2, <2>2 DEF Prepare, Loop, Goto
    <3> QED BY <2>1, <3>1 DEF NamedOf, OfRepository, NamesGathered
  <2>3. CASE r.readable /\ r.items = {}
    <3>1. Execution(m, r)
      BY <1>2, <2>3 DEF Prepare
    <3> QED BY <2>1, <2>3, <3>1, ExecutionNames
  <2>4. CASE ~ r.readable
    <3>1. pc'[m] = "release" /\ result'[m] = "ErrInternal"
      BY <1>0, <1>1, <1>2, <2>4 DEF Prepare, Return, Goto
    <3> QED BY <3>1 DEF NamedOf, OfRepository, Gathering
  <2> QED BY <2>2, <2>3, <2>4
<1>3. CASE RegisterItem(m)
  <2> DEFINE n == Next1(m)
             ls == Inserted(m, "item", n)
             rs == {Row("item", gen[m], <<n>>) : l \in ls \cap {<<n, Project(m)>>}}
             end == IF todo[m] # {n} THEN Loop(m, "items", todo[m] \ {n}) ELSE Execution(m, repo[m])
  <2>1. pc[m] = "items" /\ repo' = repo
    BY <1>3 DEF RegisterItem
  <2>b. repo[m] \in Repos
    BY <2>1 DEF Named, NamedOf, OfRepository, Gathering
  <2>2. CASE Fail(m) /\ Return(m, "ErrBadRequest")
    <3>1. pc'[m] = "release" /\ result'[m] = "ErrBadRequest"
      BY <1>0, <1>1, <2>2 DEF Return, Goto
    <3> QED BY <3>1 DEF NamedOf, OfRepository, Gathering
  <2>3. CASE Execute(m, rs, {n}, ls) /\ end
    <3> HIDE DEF rs, ls
    <3>1. trans[m].state = "open" /\ known' = known /\ trans'[m].names = trans[m].names \cup {n}
      <4> HIDE DEF n
      <4> QED BY <2>3, ModExecute, ModNames
    <3>2. NamesGathered(m)
      BY <2>1, <3>1 DEF Named, NamedOf, Gathering
    <3> HIDE DEF n
    <3>3. CASE Loop(m, "items", todo[m] \ {n})
      <4>1. pc'[m] = "items" /\ todo'[m] = todo[m] \ {n}
        BY <1>0, <1>1, <3>3 DEF Loop, Goto
      <4> QED BY <2>1, <2>b, <3>1, <3>2, <4>1 DEF NamedOf, OfRepository, NamesGathered
    <3>4. CASE todo[m] = {n} /\ Execution(m, repo[m])
      <4>1. \A k \in repo[m].items : k \in known' \cup trans'[m].names
        BY <2>1, <3>1, <3>2, <3>4 DEF NamesGathered
      <4> QED BY <2>1, <2>b, <3>4, <4>1, ExecutionNames
    <3> QED BY <2>3, <3>3, <3>4
  <2> QED BY <1>0, <1>3, <2>2, <2>3 DEF RegisterItem
<1> QED BY <1>2, <1>3

\* Tags and links add names only.
LEMMA LinksNamed ==
    ASSUME Typed, Named, NEW m \in Mods, RegisterTag(m) \/ Link(m)
    PROVE NamedOf(m)'
<1> USE DEF Typed
<1>0. m \in Coroutines /\ Target(m) = m
  BY DEF Coroutines, Target
<1>1. /\ pc[m] \in {"tags", "links"} /\ repo' = repo /\ repo[m] \in Repos
      /\ pc'[m] \in {"tags", "links", "recipes"}
  <2>1. pc[m] \in {"tags", "links"} /\ repo' = repo
    BY DEF RegisterTag, Link
  <2>2. pc'[m] \in {"tags", "links", "recipes"}
    BY <1>0 DEF RegisterTag, Link, Loop, Goto, TypeOK
  <2> QED BY <2>1, <2>2 DEF Named, NamedOf, OfRepository, Gathering
<1>2. CASE Fail(m)
  <2>1. trans'[m].state = "aborted"
    BY <1>2, ModFail
  <2> QED BY <1>1, <2>1 DEF NamedOf, OfRepository
<1>3. ASSUME NEW rs, NEW ns, NEW ls, Execute(m, rs, ns, ls) PROVE NamedOf(m)'
  <2>1. trans[m].state = "open" /\ known' = known /\ trans'[m].names = trans[m].names \cup ns
    BY <1>3, ModExecute, ModNames
  <2>2. NamesGathered(m)
    BY <1>1, <2>1 DEF Named, NamedOf, Gathering
  <2> QED BY <1>1, <2>1, <2>2 DEF NamedOf, OfRepository, NamesGathered
<1> QED BY <1>0, <1>2, <1>3 DEF RegisterTag, Link

\* The recipe finds its item.
LEMMA RecipeNamed ==
    ASSUME Typed, Named, NEW m \in Mods, AddRecipe(m)
    PROVE NamedOf(m)'
<1> USE DEF Typed
<1>0. m \in Coroutines /\ Target(m) = m /\ client # m
  BY PeopleAssumption DEF Coroutines, Target, TypeOK
<1>1. pc[m] = "recipes" /\ repo' = repo /\ gen' = gen /\ repo[m] \in Repos
  BY DEF AddRecipe, Named, NamedOf, OfRepository, Gathering
<1>2. /\ errors \in [Coroutines -> BOOLEAN] /\ pc \in [Coroutines -> Stages \cup {"idle", "done"}]
      /\ result \in [Coroutines -> {"Ok", "ErrInternal", "ErrBadRequest"}]
  BY DEF TypeOK
<1>3. CASE Goto(m, "finish") /\ (trans' = trans \/ Fail(client)) /\ known' = known
           /\ (repo[m].recipe = "none" \/ errors' = [errors EXCEPT ![m] = TRUE])
  <2>1. trans'[m] = trans[m] /\ pc'[m] = "finish"
    BY <1>0, <1>2, <1>3, FailFrame DEF Goto
  <2>2. trans[m].state = "open" => NamesGathered(m)
    BY <1>1 DEF Named, NamedOf, Gathering
  <2>3. repo[m].recipe = "none" \/ errors'[m]
    BY <1>0, <1>2, <1>3
  <2> QED BY <1>1, <1>3, <2>1, <2>2, <2>3 DEF NamedOf, OfRepository, NamesGathered, OwnRecipe
<1>4. ASSUME NEW of, of = IF repo[m].needs \in NamesSeen(m) THEN <<repo[m].needs>> ELSE <<>>,
             Execute(m, {Row("recipe", gen[m], of)}, {}, {}),
             Goto(m, "finish")
      PROVE NamedOf(m)'
  <2>1. /\ trans[m].state = "open" /\ known' = known /\ trans'[m].names = trans[m].names
        /\ trans'[m].added = trans[m].added \cup {Row("recipe", gen[m], of)}
    <3>1. /\ trans[m].state = "open" /\ known' = known /\ trans'[m].names = trans[m].names \cup {}
          /\ trans'[m].added = trans[m].added \cup {Row("recipe", gen[m], of)}
      BY <1>4, ModExecute, ModNames
    <3> QED BY <3>1
  <2>2. NamesGathered(m)
    BY <1>1, <2>1 DEF Named, NamedOf, Gathering
  <2>3. pc'[m] = "finish"
    BY <1>0, <1>2, <1>4 DEF Goto
  <2>4. repo[m].needs \in repo[m].items => of = <<repo[m].needs>>
    BY <1>0, <1>1, <1>4, <2>2 DEF NamesGathered, NamesSeen
  <2>5. NamesGathered(m)'
    BY <1>1, <2>1, <2>2, <2>3 DEF NamesGathered
  <2>6. OwnRecipe(m)' => RecipeOf(m)' \in trans'[m].added
    BY <1>1, <2>1, <2>4 DEF OwnRecipe, RecipeOf
  <2> QED BY <1>1, <2>3, <2>5, <2>6 DEF NamedOf, OfRepository
<1>5. CASE Return(m, "ErrInternal")
  <2>1. pc'[m] = "release" /\ result'[m] = "ErrInternal"
    BY <1>0, <1>2, <1>5 DEF Return, Goto
  <2> QED BY <2>1 DEF NamedOf, OfRepository, Gathering
<1>6. CASE repo[m].recipe = "none" /\ Goto(m, "finish") /\ UNCHANGED <<trans, tables>>
  BY <1>3, <1>6 DEF tables
<1>7. CASE /\ UNCHANGED <<trans, view, faults>> \/ Fail(client)
           /\ errors' = [errors EXCEPT ![m] = TRUE]
           /\ Goto(m, "finish") /\ UNCHANGED tables
  BY <1>3, <1>7 DEF tables
<1> QED BY <1>4, <1>5, <1>6, <1>7 DEF AddRecipe

\* Computing the view leaves it as it is; the end commits it.
LEMMA FinishNamed ==
    ASSUME Typed, OwnRows, Untouched, Named, NEW m \in Mods, Finish(m) \/ Release(m)
    PROVE NamedOf(m)'
<1> USE DEF Typed
<1>0. m \in Coroutines /\ Target(m) = m /\ Project(m) = m /\ m \in Projects
  BY DEF Coroutines, Target, Project, Projects
<1>1. CASE Finish(m)
  <2>1. /\ pc[m] = "finish" /\ pc'[m] = "release" /\ errors' = errors /\ known' = known
        /\ repo' = repo /\ gen' = gen /\ repo[m] \in Repos
    BY <1>0, <1>1 DEF Finish, Return, Goto, TypeOK, Named, NamedOf, OfRepository, Gathering
  <2>2. CASE Fail(m)
    <3>1. trans'[m].state = "aborted"
      BY <2>2, ModFail
    <3> QED BY <2>1, <3>1 DEF NamedOf, OfRepository
  <2>3. ASSUME trans'[m].added = trans[m].added, trans'[m].state = trans[m].state,
               trans'[m].names = trans[m].names
        PROVE NamedOf(m)'
    <3>1. trans[m].state = "open" =>
             NamesGathered(m) /\ (OwnRecipe(m) => RecipeOf(m) \in trans[m].added)
      BY <2>1 DEF Named, NamedOf, Gathering
    <3>2. NamesGathered(m) => NamesGathered(m)'
      BY <2>1, <2>3 DEF NamesGathered
    <3>3. OwnRecipe(m)' = OwnRecipe(m) /\ RecipeOf(m)' = RecipeOf(m)
      BY <2>1 DEF OwnRecipe, RecipeOf
    <3> QED BY <2>1, <2>3, <3>1, <3>2, <3>3 DEF NamedOf, OfRepository
  <2>4. ASSUME NEW f, trans' = [trans EXCEPT ![m].flat = f]
        PROVE /\ trans'[m].added = trans[m].added /\ trans'[m].state = trans[m].state
              /\ trans'[m].names = trans[m].names
    BY <1>0, <2>4 DEF TypeOK, Transactions
  <2>5. trans' = trans \/ Fail(m) \/ \E f : trans' = [trans EXCEPT ![m].flat = f]
    BY <1>0, <1>1 DEF Finish
  <2> HIDE DEF Typed
  <2> QED BY <2>2, <2>3, <2>4, <2>5
<1>2. CASE Release(m)
  <2>1. /\ pc[m] = "release" /\ pc'[m] = "done"
        /\ errors' = errors /\ repo' = repo /\ gen' = gen /\ result' = result
    BY <1>0, <1>2 DEF Release, Goto, TypeOK
  <2>2. OfRepository(m)'
    BY <2>1 DEF Named, NamedOf, OfRepository, Gathering
  <2>3. CASE Open(m)
    <3>1. trans[m].state = "open" /\ trans[m].wiped
      BY <1>0, <2>1, <2>3 DEF Open, OwnRows, OwnRowsOf
    <3>2. rows'[m] = trans[m].added
      BY <1>0, <1>2, <2>3, <3>1 DEF Release, Seen, TypeOK
    <3>3. result[m] = "Ok" /\ OwnRecipe(m) => RecipeOf(m) \in trans[m].added
      BY <2>1, <3>1 DEF Named, NamedOf, Gathering
    <3>4. OwnRecipe(m)' = OwnRecipe(m) /\ RecipeOf(m)' = RecipeOf(m)
      BY <2>1 DEF OwnRecipe, RecipeOf
    <3> QED BY <2>1, <2>2, <3>2, <3>3, <3>4 DEF NamedOf, Gathering
  <2>4. CASE ~ Open(m) /\ trans[m].state = "aborted"
    <3>1. trans' = trans
      BY <1>2, <2>4 DEF Release
    <3> QED BY <2>1, <2>2, <2>4, <3>1 DEF NamedOf, Gathering
  <2>5. Open(m) \/ trans[m].state = "aborted"
    BY <1>0, <2>1 DEF Untouched, Stages, Open
  <2> QED BY <2>3, <2>4, <2>5 DEF Open
<1> QED BY <1>1, <1>2

\* All steps keep that: those of others do not touch what a mod has gathered.
LEMMA NamedStep ==
    ASSUME Typed, OwnRows, Untouched, Named, [Next]_vars
    PROVE Named'
<1>k. known \subseteq known'
  BY KnownGrows
<1>f. ASSUME NEW m \in Mods,
             pc'[m] = pc[m], todo'[m] = todo[m], repo'[m] = repo[m], gen'[m] = gen[m],
             trans'[m] = trans[m], rows'[m] = rows[m], result'[m] = result[m],
             errors'[m] = errors[m]
      PROVE NamedOf(m)'
  <2>1. OfRepository(m)'
    BY <1>f DEF Named, NamedOf, OfRepository, Gathering
  <2>2. NamesGathered(m) => NamesGathered(m)'
    BY <1>f, <1>k DEF NamesGathered
  <2>3. OwnRecipe(m)' = OwnRecipe(m) /\ RecipeOf(m)' = RecipeOf(m)
    BY <1>f DEF OwnRecipe, RecipeOf
  <2>4. Gathering(m)' = Gathering(m)
    BY <1>f DEF Gathering
  <2>5. NamedOf(m)
    BY DEF Named
  <2> QED BY <1>f, <2>1, <2>2, <2>3, <2>4, <2>5 DEF NamedOf
<1>1. ASSUME NEW w \in Coroutines, Acts(w), NEW m \in Mods PROVE NamedOf(m)'
  <2>0. m \in Coroutines /\ m \notin Imports
    BY PeopleAssumption DEF Coroutines
  <2>1. CASE w # m
    BY <1>1, <1>f, <2>1, ModFrame
  <2>2. CASE w = m
    <3>1. /\ pc \in [Coroutines -> Stages \cup {"idle", "done"}]
          /\ result \in [Coroutines -> {"Ok", "ErrInternal", "ErrBadRequest"}]
      BY DEF Typed, TypeOK
    <3>2. CASE Start(m) \/ Wipe(m) \/ End(m)
      <4>1. \/ pc'[m] \in {"wipe", "prepare", "idle"}
            \/ pc'[m] = "release" /\ result'[m] = "ErrInternal"
        BY <2>0, <3>1, <3>2 DEF Start, Wipe, End, Forget, Reset, Return, Goto
      <4> QED BY <4>1 DEF NamedOf, OfRepository, Gathering
    <3>3. ASSUME NEW n PROVE ~ RegisterGameItem(m, n)
      BY <2>0 DEF RegisterGameItem
    <3> QED BY <1>1, <2>2, <3>2, <3>3, ItemsNamed, LinksNamed, RecipeNamed, FinishNamed
            DEF Acts, Step
  <2> QED BY <2>1, <2>2
<1>2. ASSUME Crash, NEW m \in Mods PROVE NamedOf(m)'
  <2>1. pc'[m] = "idle"
    BY <1>2 DEF Crash, Forget, Reset, Coroutines
  <2> QED BY <2>1 DEF NamedOf, OfRepository, Gathering
<1>3. ASSUME UNCHANGED vars, NEW m \in Mods PROVE NamedOf(m)'
  BY <1>3, <1>f DEF vars
<1> QED BY <1>1, <1>2, <1>3, NextActs DEF Named

\* What is taken from a page, a tag and a recipe.
LEMMA PageListed ==
    ASSUME NEW tree, NEW f \in tree, f.kind = "page", ~ f.hidden, f.named, NEW n \in f.id \cap Own
    PROVE n \in Prepared(tree).items
<1>1. f \in {g \in OfKind(tree, "page") : shouldIncludeFile(g) /\ g.named}
  BY DEF OfKind, shouldIncludeFile
<1>2. n \in preparePages(tree)
  BY <1>1 DEF preparePages
<1> QED BY <1>2 DEF Prepared, candidateItems

LEMMA TagListed ==
    ASSUME NEW tree, NEW f \in tree, f.kind = "tag", f.named, f.valid, f.type = "item",
           f.namespace \in {"minecraft", "c", "own"},
           NEW v \in f.values, v.as \in {"string", "object"}, ~ v.tag, v.name \in Own
    PROVE /\ v.name \in Prepared(tree).items
          /\ <<f.name, v.name>> \in Prepared(tree).entries
<1>1. f \in TagFiles(tree)
  BY DEF TagFiles, OfKind, isValid
<1>2. v.name \in Listed(f)
  BY DEF Listed
<1>3. <<f.name, v.name>> \in EntriesOf(f)
  BY <1>2 DEF EntriesOf
<1>4. /\ v.name \in UNION {Listed(g) : g \in TagFiles(tree)}
      /\ <<f.name, v.name>> \in UNION {EntriesOf(g) : g \in TagFiles(tree)}
  BY <1>1, <1>2, <1>3
<1>5. /\ prepareTags(tree).items = (UNION {Listed(g) : g \in TagFiles(tree)}) \cap Own
      /\ prepareTags(tree).entries = UNION {EntriesOf(g) : g \in TagFiles(tree)}
  BY DEF prepareTags
<1> QED BY <1>4, <1>5 DEF Prepared, candidateItems

\* A mod has one recipe.
LEMMA RecipeListed ==
    ASSUME NEW tree,
           \A g, h \in OfKind(tree, "recipe") :
              /\ g.type \in {"own", "game", "invalid"}
              /\ readRecipe(g, "recipe") /\ readRecipe(h, "recipe") => g = h,
           NEW f \in tree, f.kind = "recipe", f.named, f.valid, f.type # "invalid",
           f.parser = "recipe", f.needs \in Own
    PROVE /\ Prepared(tree).recipe # "none"
          /\ Prepared(tree).needs = f.needs
          /\ f.needs \in Prepared(tree).items
<1> DEFINE read == {g \in OfKind(tree, "recipe") : readRecipe(g, "recipe")}
           own == \E g \in OfKind(tree, "recipe type") : readRecipeType(g)
           types == {IF g.type = "own" /\ ~ own THEN "unknown" ELSE g.type : g \in read}
<1>1. f \in read
  BY DEF OfKind, readRecipe, isValid
<1>2. \A g \in read : g = f
  BY <1>1
<1>3. prepareRecipes(tree).items = {f.needs} /\ prepareRecipes(tree).types = types
  BY <1>1, <1>2 DEF prepareRecipes
<1>4. types # {} /\ \A x \in types : x # "none"
  BY <1>1, <1>2
<1> HIDE DEF types
<1>5. (CHOOSE x \in types : TRUE) # "none" /\ (CHOOSE x \in {f.needs} : TRUE) = f.needs
  BY <1>4
<1>6. Prepared(tree).recipe # "none" /\ Prepared(tree).needs = f.needs
  BY <1>3, <1>4, <1>5 DEF Prepared
<1>7. f.needs \in Prepared(tree).items
  BY <1>3 DEF Prepared, candidateItems
<1> QED BY <1>6, <1>7

\* A deployment that ended well has all that its files name.
LEMMA DoneIsListed ==
    ASSUME DoneIsWhole, Named
    PROVE ListedIsThere
<1> SUFFICES ASSUME NEW m \in Mods,
                    pc[m] = "done", result[m] = "Ok", trans[m].state = "committed",
                    NEW f \in Trees[repo[m].from]
             PROVE /\ (f.kind = "page" /\ ~ f.hidden /\ f.named) =>
                         \A n \in f.id \cap Own : Row("item", gen[m], <<n>>) \in rows[m]
                   /\ (/\ f.kind = "tag" /\ f.named /\ f.valid /\ f.type = "item"
                       /\ f.namespace \in {"minecraft", "c", "own"}) =>
                         \A v \in f.values :
                             (v.as \in {"string", "object"} /\ ~ v.tag /\ v.name \in Own) =>
                                 Row("entry", gen[m], <<f.name, v.name>>) \in rows[m]
                   /\ (/\ f.kind = "recipe" /\ f.named /\ f.valid /\ f.type # "invalid"
                       /\ f.parser = "recipe" /\ f.needs \in Own) =>
                         (errors[m] \/ Row("recipe", gen[m], <<f.needs>>) \in rows[m])
  BY DEF ListedIsThere
<1> DEFINE r == repo[m]
           tree == Trees[r.from]
<1>1. Wanted(m) \subseteq rows[m]
  BY DEF DoneIsWhole
<1>2. r \in Repos /\ (OwnRecipe(m) => RecipeOf(m) \in rows[m])
  BY DEF Named, NamedOf, OfRepository
<1>3. /\ r.items = Prepared(tree).items /\ r.entries = Prepared(tree).entries
      /\ r.recipe = Prepared(tree).recipe /\ r.needs = Prepared(tree).needs
      /\ \A g, h \in OfKind(tree, "recipe") :
            /\ g.type \in {"own", "game", "invalid"}
            /\ readRecipe(g, "recipe") /\ readRecipe(h, "recipe") => g = h
  BY <1>2, TreesAssumption
<1> HIDE DEF tree
<1>4. ASSUME f.kind = "page", ~ f.hidden, f.named, NEW n \in f.id \cap Own
      PROVE Row("item", gen[m], <<n>>) \in rows[m]
  <2>1. n \in r.items
    BY <1>3, <1>4, PageListed DEF tree
  <2> QED BY <1>1, <2>1 DEF Wanted
<1>5. ASSUME f.kind = "tag", f.named, f.valid, f.type = "item",
             f.namespace \in {"minecraft", "c", "own"},
             NEW v \in f.values, v.as \in {"string", "object"}, ~ v.tag, v.name \in Own
      PROVE Row("entry", gen[m], <<f.name, v.name>>) \in rows[m]
  <2>1. v.name \in r.items /\ <<f.name, v.name>> \in r.entries
    BY <1>3, <1>5, TagListed DEF tree
  <2>2. <<f.name, v.name>>[2] = v.name
    OBVIOUS
  <2> QED BY <1>1, <2>1, <2>2 DEF Wanted
<1>6. ASSUME f.kind = "recipe", f.named, f.valid, f.type # "invalid",
             f.parser = "recipe", f.needs \in Own
      PROVE errors[m] \/ Row("recipe", gen[m], <<f.needs>>) \in rows[m]
  <2>1. r.recipe # "none" /\ r.needs = f.needs /\ f.needs \in r.items
    BY <1>3, <1>6, RecipeListed DEF tree
  <2> QED BY <1>2, <2>1 DEF OwnRecipe, RecipeOf
<1> QED BY <1>4, <1>5, <1>6

\* A deployment that returns Ok, and had no failed statement, has a row for each of the
\* mod's own items that any file of its repository names, whatever else is ingested
\* meanwhile: pages, tags and recipes register them before they are linked.
THEOREM ListedIsThereHolds == Spec => []ListedIsThere
<1> DEFINE Inv == Typed /\ OwnRows /\ Untouched /\ Gathered /\ DoneIsWhole /\ Named
<1>1. Init => Inv
  <2>1. Init => OwnRows
    BY DEF Init, OwnRows, OwnRowsOf, NoTrans, Open, Coroutines
  <2>2. Init => Untouched /\ Gathered /\ DoneIsWhole
    BY DEF Init, Untouched, Gathered, GatheredOf, Gathering, DoneIsWhole, NoTrans, Stages, Coroutines
  <2>3. Init => Named
    BY DEF Init, Named, NamedOf, OfRepository, Gathering, Coroutines
  <2> QED BY <2>1, <2>2, <2>3, TypeInit
<1>2. Inv /\ [Next]_vars => Inv'
  BY TypeStep, LoopingStep, OwnRowsStep, UntouchedStep, GatheredStep, DoneIsWholeStep, NamedStep
  DEF Typed
<1>3. Inv => ListedIsThere
  BY DoneIsListed
<1> QED BY <1>1, <1>2, <1>3, PTL DEF Spec

-----------------------------------------------------------------------------
(* The import of the game's data is an ingestion with steps around it *)

GameRest ==
    /\ stage \in [Imports -> {"idle", "check", "client", "neoforge", "ingest",
                             "ingesting", "register"}]
    /\ force \in [Imports -> BOOLEAN]
    /\ left \in [Imports -> SUBSET Names]
    /\ files \subseteq {"client", "neoforge"}
    /\ imported \in Nat
    /\ calls \in 0..MaxImports
    /\ together \in BOOLEAN

\* The steps of an import keep the types of its own variables.
LEMMA GameRestStep ==
    ASSUME GameRest, [GameNext]_allVars
    PROVE GameRest'
<1> USE DEF GameRest
<1>0. GameItems \in SUBSET Names
  BY GameAssumption
<1> USE GameAssumption
<1>1. ASSUME NEW i \in Imports, NEW update \in BOOLEAN, Call(i, update) PROVE GameRest'
  <2>1. together' \in BOOLEAN
    BY <1>1 DEF Call
  <2> QED BY <1>1, <2>1 DEF Call, To
<1>2. ASSUME NEW i \in Imports, Check(i) \/ Download(i) PROVE GameRest'
  BY <1>2 DEF Check, Download, Leave, To
<1>3. ASSUME NEW i \in Imports, Ingest(i) PROVE GameRest'
  BY <1>3 DEF Ingest, To
<1>4. ASSUME NEW i \in Imports, Registering(i) PROVE GameRest'
  BY <1>0, <1>4 DEF Registering, Leave, To
<1>5. ASSUME NEW i \in Imports, Register(i) PROVE GameRest'
  BY <1>5 DEF Register
<1>6. ASSUME NEW i \in Imports, Record(i) PROVE GameRest'
  BY <1>6 DEF Record, Leave, To
<1>7. CASE GameCrash
  BY <1>7 DEF GameCrash
<1>8. CASE UNCHANGED gameVars
  BY <1>8 DEF gameVars
<1> QED BY <1>1, <1>2, <1>3, <1>4, <1>5, <1>6, <1>7, <1>8 DEF GameNext, ImportStep, allVars

\* Every step of an import is a step of its ingestion, or none.
LEMMA GameStep ==
    ASSUME GameRest, [GameNext]_allVars
    PROVE [Next]_vars
<1>0. Imports \subseteq Coroutines /\ Mods \subseteq Coroutines /\ Found \in GameRepos
  BY GameAssumption DEF Coroutines, Found
<1>1. ASSUME NEW i \in Imports, NEW update \in BOOLEAN, Call(i, update) PROVE UNCHANGED vars
  BY <1>1 DEF Call
<1>2. ASSUME NEW i \in Imports, Check(i) \/ Download(i) PROVE UNCHANGED vars
  BY <1>2 DEF Check, Download
<1>3. ASSUME NEW i \in Imports, Ingest(i) PROVE Next
  BY <1>0, <1>3 DEF Ingest, Next, Step
<1>4. ASSUME NEW i \in Imports, Registering(i) \/ Record(i) PROVE Next \/ UNCHANGED vars
  BY <1>0, <1>4 DEF Registering, Record, Next, Step
<1>5. ASSUME NEW i \in Imports, Register(i) PROVE Next
  BY <1>5 DEF Register, GameRest, Next
<1>6. ASSUME NEW m \in Mods, Start(m) \/ Step(m) PROVE Next
  BY <1>0, <1>6 DEF Next
<1>7. CASE GameCrash
  BY <1>7 DEF GameCrash, Next
<1>8. CASE UNCHANGED allVars
  BY <1>8 DEF allVars
<1> QED BY <1>1, <1>2, <1>3, <1>4, <1>5, <1>6, <1>7, <1>8 DEF GameNext, ImportStep

\* At the start no import is under way.
LEMMA GameRestInit ==
    ASSUME GameInit
    PROVE GameRest /\ Init
<1>1. Init /\ imported = 0 /\ calls = 0 /\ together = FALSE /\ files = {}
  BY DEF GameInit
<1>2. calls \in 0..MaxImports /\ imported \in Nat
  BY <1>1, GameAssumption
<1>3. /\ stage \in [Imports -> {"idle", "check", "client", "neoforge", "ingest",
                             "ingesting", "register"}]
      /\ force \in [Imports -> BOOLEAN]
      /\ left \in [Imports -> SUBSET Names]
  BY DEF GameInit
<1> QED BY <1>1, <1>2, <1>3 DEF GameRest

\* The whole of importGameData, its downloads and its registering of items refines the
\* ingestor: what holds of that holds of a service that imports the game's data.
THEOREM GameImplementsIngestor == GameSpec => Spec
<1>1. GameInit => GameRest /\ Init
  BY GameRestInit
<1>2. GameRest /\ [GameNext]_allVars => GameRest'
  BY GameRestStep
<1>3. GameRest /\ [GameNext]_allVars => [Next]_vars
  BY GameStep
<1> QED BY <1>1, <1>2, <1>3, PTL DEF GameSpec, Spec

\* Types hold while the game's data is imported.
THEOREM GameTypeCorrect == GameSpec => []GameTypeOK
<1>1. GameInit => GameRest /\ Init
  BY GameRestInit
<1>2. GameRest /\ [GameNext]_allVars => GameRest'
  BY GameRestStep
<1>3. TypeOK /\ GameRest => GameTypeOK
  BY DEF GameTypeOK, GameRest
<1>4. GameSpec => Spec
  BY GameImplementsIngestor
<1> QED BY <1>1, <1>2, <1>3, <1>4, TypeCorrect, PTL DEF GameSpec

\* Deployments and imports together: no mod's content is of two deployments, or a part of
\* one, nobody waits in a circle, no committed link is missing from the view.
THEOREM GameIsSafe == GameSpec => [](OneSource /\ DoneIsWhole /\ NoWaitCycle /\ FlatIsCurrent)
<1>1. GameSpec => Spec
  BY GameImplementsIngestor
<1> QED BY <1>1, OneSourceHolds, DoneIsWholeHolds, NoWaitCycleHolds, FlatIsCurrentHolds, PTL

\* That holds while the game's data is imported, too.
THEOREM GameListedIsThere == GameSpec => []ListedIsThere
  BY ListedIsThereHolds, GameImplementsIngestor, PTL

-----------------------------------------------------------------------------
(* What an import has recorded is there *)

\* Where an import stands, and where its ingestion does, which wipes nothing.
Ingesting ==
    \A i \in Imports :
        /\ pc[i] # "idle" <=> stage[i] \in {"ingesting", "register"}
        /\ stage[i] = "register" => pc[i] = "done"
        /\ pc[i] \notin {"wipe", "recipes"} /\ ~ trans[i].wiped

\* While imports have not run together, there is one at a time.
OneImport ==
    /\ ~ overlap
    /\ \A i, j \in Imports : stage[i] # "idle" /\ stage[j] # "idle" => i = j

\* What it has downloaded is there until it is done.
Downloaded ==
    \A i \in Imports :
        /\ stage[i] = "neoforge" => "client" \in files
        /\ stage[i] \in {"ingest", "ingesting", "register"} => {"client", "neoforge"} \subseteq files

\* No transaction is rolled back without a statement that failed.
Unfailed == \A w \in Coroutines : trans[w].state # "aborted"

\* An import has, in its transaction or in the tables, what it has read, except what its
\* loops have left, and later what it has registered.
Has(i, kind, of) == HasRow(i, Game, kind, of)
ItemsIn(i) ==
    \A n \in Modded.items : Has(i, "item", <<n>>) \/ (pc[i] = "items" /\ n \in todo[i])
TagsIn(i) ==
    \A t \in Modded.tags :
        Has(i, "tag", <<t>>) \/ pc[i] = "items" \/ (pc[i] = "tags" /\ t \in todo[i])
EntriesIn(i) ==
    pc[i] \in {"finish", "release", "done"} =>
        \A e \in Modded.entries : e[2] \in Modded.items => Has(i, "entry", e)
AssetsIn(i) == stage[i] = "register" => \A n \in GameItems : Has(i, "item", <<n>>) \/ n \in left[i]
Reading(i) ==
    /\ result[i] = "Ok" /\ ~ errors[i]
    /\ pc[i] \in Stages => trans[i].state = "open"
    /\ pc[i] = "done" => trans[i].added = {}
    /\ pc[i] \in {"items", "tags", "links", "finish", "release", "done"} =>
          repo[i] = Modded /\ ItemsIn(i) /\ TagsIn(i) /\ EntriesIn(i)

\* While nothing fails and no two imports run together, each import has what it read.
Whole(i) == Reading(i) /\ AssetsIn(i)
Together ==
    Typed /\ OnePointer /\ GameRest /\ Ingesting /\ OneImport /\ Downloaded /\ Unfailed

\* No statement has failed and no two imports have run at once.
Alone == faults = 0 /\ ~ together

\* Statements that failed are counted.
LEMMA FaultsCounted ==
    ASSUME TypeOK, [Next]_vars, faults' = 0
    PROVE faults = 0
<1>a. ASSUME NEW t, Fail(t) PROVE faults = 0
  BY <1>a DEF Fail, TypeOK
<1>1. ASSUME NEW w \in Coroutines, Acts(w) PROVE faults = 0
  <2>1. CASE Start(w) \/ End(w) \/ Release(w)
    BY <2>1 DEF Start, End, Release
  <2>2. CASE Wipe(w) \/ RegisterItem(w) \/ RegisterTag(w) \/ Link(w)
    BY <1>a, <2>2 DEF Wipe, RegisterItem, RegisterTag, Link
  <2>3. CASE AddRecipe(w) \/ Finish(w)
    BY <1>a, <2>3 DEF AddRecipe, Finish
  <2>4. ASSUME NEW r, Prepare(w, r) PROVE faults = 0
    BY <2>4 DEF Prepare
  <2>5. ASSUME NEW n, RegisterGameItem(w, n) PROVE faults = 0
    BY <1>a, <2>5 DEF RegisterGameItem
  <2> QED BY <1>1, <2>1, <2>2, <2>3, <2>4, <2>5 DEF Acts, Step
<1>2. CASE Crash \/ UNCHANGED vars
  BY <1>2 DEF Crash, vars
<1> QED BY <1>1, <1>2, NextActs

\* Without them no statement fails at all.
LEMMA NoneFails ==
    ASSUME TypeOK, Unfailed, faults' = 0, NEW t
    PROVE ~ Fail(t)
  BY DEF Fail, Aborted, Unfailed, TypeOK

\* And no transaction is rolled back, except by a crash.
LEMMA UnfailedStep ==
    ASSUME TypeOK, Unfailed, [Next]_vars, faults' = 0
    PROVE Unfailed'
<1> USE DEF TypeOK
<1>a. \A t : ~ Fail(t)
  BY NoneFails
<1>b. ASSUME NEW w \in Coroutines, NEW rs, NEW ns, NEW ls, Execute(w, rs, ns, ls)
      PROVE \A u \in Coroutines : trans'[u].state = trans[u].state
  BY <1>b, ExecuteFrame
<1>c. NoTrans.state # "aborted" /\ Opened.state # "aborted"
  BY DEF Opened, NoTrans
<1>d. trans \in [Coroutines -> Transactions]
  OBVIOUS
<1>1. ASSUME NEW w \in Coroutines, Acts(w) PROVE Unfailed'
  <2>1. CASE Start(w) \/ End(w)
    BY <2>1, <1>c DEF Start, End, Forget, Reset, Unfailed
  <2>2. CASE RegisterItem(w) \/ RegisterTag(w) \/ Link(w)
    BY <1>a, <1>b, <2>2 DEF RegisterItem, RegisterTag, Link, Unfailed
  <2>3. CASE AddRecipe(w)
    BY <1>a, <1>b, <2>3 DEF AddRecipe, Unfailed
  <2>4. ASSUME NEW r, Prepare(w, r) PROVE trans' = trans
    BY <2>4 DEF Prepare
  <2>5. ASSUME NEW n, RegisterGameItem(w, n) PROVE Unfailed'
    BY <1>a, <1>b, <2>5 DEF RegisterGameItem, Unfailed
  <2>6. CASE Wipe(w)
    <3>1. trans' = [trans EXCEPT ![w].wiped = TRUE, ![w].added = {}]
      BY <1>a, <2>6 DEF Wipe
    <3>2. trans' = [trans EXCEPT ![w] = [trans[w] EXCEPT !.wiped = TRUE, !.added = {}]]
      BY <3>1
    <3>3. [trans[w] EXCEPT !.wiped = TRUE, !.added = {}].state = trans[w].state
      BY <1>d DEF Transactions
    <3> QED BY <1>d, <3>2, <3>3 DEF Unfailed
  <2>7. CASE Finish(w)
    <3>1. trans' = trans \/ \E f : trans' = [trans EXCEPT ![Target(w)].flat = f]
      BY <1>a, <2>7 DEF Finish
    <3>2. ASSUME NEW f, trans' = [trans EXCEPT ![Target(w)].flat = f],
                 NEW u \in Coroutines PROVE trans'[u].state = trans[u].state
      <4> DEFINE x == [trans[Target(w)] EXCEPT !.flat = f]
      <4>1. trans' = [trans EXCEPT ![Target(w)] = x]
        BY <3>2
      <4>2. u = Target(w) => x.state = trans[u].state
        BY <1>d DEF Transactions
      <4> HIDE DEF x
      <4> QED BY <4>1, <4>2, <1>d
    <3> QED BY <3>1, <3>2 DEF Unfailed
  <2>8. CASE Release(w)
    <3>1. trans' = trans \/ trans' = [trans EXCEPT ![w] = [NoTrans EXCEPT !.state = "committed"]]
      BY <2>8 DEF Release
    <3>2. [NoTrans EXCEPT !.state = "committed"].state = "committed"
      BY DEF NoTrans
    <3> QED BY <1>d, <3>1, <3>2 DEF Unfailed
  <2> QED BY <1>1, <2>1, <2>2, <2>3, <2>4, <2>5, <2>6, <2>7, <2>8 DEF Acts, Step, Unfailed
<1>2. CASE Crash
  BY <1>2, <1>c DEF Crash, Forget, Reset, Unfailed
<1>3. CASE UNCHANGED vars
  BY <1>3 DEF vars, Unfailed
<1> QED BY <1>1, <1>2, <1>3, NextActs

\* The game's tables only grow: its ingestion wipes nothing.
LEMMA GameGrows ==
    ASSUME TypeOK, [Next]_vars, \A i \in Imports : pc[i] # "wipe" /\ ~ trans[i].wiped
    PROVE rows[Game] \subseteq rows'[Game]
<1> USE DEF tables, TypeOK
<1>0. Game \in Projects /\ \A p \in Projects : p # Game => p \in Mods
  BY DEF Projects
<1>1. ASSUME NEW w \in Coroutines, Acts(w) PROVE rows[Game] \subseteq rows'[Game]
  <2>1. CASE Project(w) # Game
    BY <1>0, <1>1, <2>1, StepRows
  <2>2. CASE Project(w) = Game
    <3>0. w \in Imports
      BY <2>2, PeopleAssumption DEF Project, Coroutines
    <3>a. ASSUME NEW rs, NEW ns, NEW ls, Execute(w, rs, ns, ls) PROVE rows[Game] \subseteq rows'[Game]
      BY <1>0, <2>2, <3>a DEF Execute
    <3>1. CASE Start(w) \/ End(w) \/ Wipe(w) \/ Finish(w)
      BY <3>1 DEF Start, End, Wipe, Finish
    <3>2. CASE RegisterItem(w) \/ RegisterTag(w) \/ Link(w) \/ AddRecipe(w)
      BY <3>a, <3>2 DEF RegisterItem, RegisterTag, Link, AddRecipe
    <3>3. ASSUME NEW r, Prepare(w, r) PROVE rows' = rows
      BY <3>3 DEF Prepare
    <3>4. ASSUME NEW n, RegisterGameItem(w, n) PROVE rows[Game] \subseteq rows'[Game]
      BY <3>a, <3>4 DEF RegisterGameItem
    <3>5. CASE Release(w)
      BY <1>0, <2>2, <3>0, <3>5 DEF Release, Seen
    <3> QED BY <1>1, <3>1, <3>2, <3>3, <3>4, <3>5 DEF Acts, Step
  <2> QED BY <2>1, <2>2
<1>2. CASE Crash \/ UNCHANGED vars
  BY <1>2 DEF Crash, vars
<1> QED BY <1>1, <1>2, NextActs

\* What an ingestion returns is its own.
LEMMA ResultFrame ==
    ASSUME TypeOK, NEW w \in Coroutines, Acts(w), NEW u \in Coroutines, u # w
    PROVE result'[u] = result[u] /\ errors'[u] = errors[u]
<1> USE DEF TypeOK
<1>1. CASE Start(w)
  BY <1>1 DEF Start
<1>2. CASE Wipe(w) \/ RegisterItem(w) \/ RegisterTag(w) \/ Link(w)
  BY <1>2 DEF Wipe, RegisterItem, RegisterTag, Link, Return
<1>3. ASSUME NEW r, Prepare(w, r) PROVE result'[u] = result[u] /\ errors'[u] = errors[u]
  BY <1>3 DEF Prepare, Return
<1>4. CASE AddRecipe(w) \/ Finish(w) \/ Release(w)
  BY <1>4 DEF AddRecipe, Finish, Release, Return
<1>5. CASE End(w)
  BY <1>5 DEF End, Forget, Reset
<1>6. ASSUME NEW n, RegisterGameItem(w, n) PROVE result'[u] = result[u] /\ errors'[u] = errors[u]
  BY <1>6 DEF RegisterGameItem
<1> QED BY <1>1, <1>2, <1>3, <1>4, <1>5, <1>6 DEF Acts, Step

\* What an import sees of the game's tables.
LEMMA ImportSees ==
    ASSUME NEW i \in Imports, ~ trans[i].wiped
    PROVE /\ Project(i) = Game /\ i \in Coroutines
          /\ Seen(i, Game) = rows[Game] \cup trans[i].added
  BY PeopleAssumption DEF Project, Coroutines, Seen

\* More rows are seen: what an import has, it keeps.
LEMMA HasMore ==
    ASSUME NEW i \in Imports, ~ trans[i].wiped, ~ trans'[i].wiped,
           rows[Game] \cup trans[i].added \subseteq rows'[Game] \cup trans'[i].added
    PROVE \A kind, of : Has(i, kind, of) => Has(i, kind, of)'
<1>1. Seen(i, Game) \subseteq Seen(i, Game)'
  <2>1. Seen(i, Game)' = rows'[Game] \cup trans'[i].added
    BY PeopleAssumption DEF Project, Coroutines, Seen
  <2> QED BY <2>1, ImportSees
<1> QED BY <1>1 DEF Has, HasRow

\* A statement of an import adds its rows to what it sees.
LEMMA ImportExecutes ==
    ASSUME Typed, OnePointer, ~ overlap, NEW i \in Imports, pc[i] # "idle", ~ trans[i].wiped,
           NEW rs, NEW ns, NEW ls, Execute(i, rs, ns, ls)
    PROVE /\ ~ trans'[i].wiped
          /\ trans'[i].state = trans[i].state
          /\ pc[i] = "done" => trans'[i].added = trans[i].added
          /\ \A kind, of : Has(i, kind, of) => Has(i, kind, of)'
          /\ \A r \in rs : Has(i, r.kind, r.of)'
<1> USE DEF Typed
<1>0. i \in Coroutines /\ Project(i) = Game /\ Game \in Projects /\ Direct \notin Coroutines
  BY PeopleAssumption DEF Coroutines, Project, Projects
<1>1. ~ trans'[i].wiped /\ trans'[i].state = trans[i].state
  BY <1>0, ExecuteFrame
<1>2. rows'[Game] \cup trans'[i].added = rows[Game] \cup trans[i].added \cup rs
  <2>1. CASE pc[i] # "done"
    <3>1. Target(i) = i
      BY <1>0, <2>1, OwnTarget
    <3> QED BY <1>0, <3>1, ExecuteFrame DEF tables
  <2>2. CASE pc[i] = "done"
    <3>1. Target(i) = Direct
      BY <1>0, <2>2, OwnTarget
    <3> QED BY <1>0, <3>1 DEF Execute, TypeOK
  <2> QED BY <2>1, <2>2
<1>3. Seen(i, Game)' = rows'[Game] \cup trans'[i].added
  BY <1>0, <1>1 DEF Seen
<1>4. ASSUME pc[i] = "done" PROVE trans'[i].added = trans[i].added
  BY <1>0, <1>4, OwnTarget DEF Execute
<1> QED BY <1>1, <1>2, <1>3, <1>4, HasMore DEF Has, HasRow

\* The row of a name is there after its statement, whether it inserts it or not.
LEMMA NameIn ==
    ASSUME Typed, OnePointer, ~ overlap, NEW i \in Imports, pc[i] # "idle", ~ trans[i].wiped,
           pc[i] = "done" => trans[i].added = {},
           NEW kind, NEW n, NEW ns, NEW ls,
           Execute(i, {Row(kind, gen[i], <<n>>) : l \in Inserted(i, kind, n) \cap {<<n, Game>>}},
                   ns, ls)
    PROVE Has(i, kind, <<n>>)'
<1>0. i \in Coroutines /\ Project(i) = Game /\ Direct \notin Coroutines
  BY PeopleAssumption DEF Coroutines, Project
<1> DEFINE rs == {Row(kind, gen[i], <<n>>) : l \in Inserted(i, kind, n) \cap {<<n, Game>>}}
<1>1. HasRow(Target(i), Game, kind, <<n>>) => Has(i, kind, <<n>>)
  <2>1. CASE pc[i] # "done"
    BY <1>0, <2>1, OwnTarget DEF Has
  <2>2. CASE pc[i] = "done"
    <3>1. Seen(Target(i), Game) = Seen(i, Game)
      BY <1>0, <2>2, OwnTarget DEF Seen
    <3> QED BY <3>1 DEF Has, HasRow
  <2> QED BY <2>1, <2>2
<1>2. CASE HasRow(Target(i), Game, kind, <<n>>)
  BY <1>1, <1>2, ImportExecutes
<1>3. CASE ~ HasRow(Target(i), Game, kind, <<n>>)
  <2>1. Row(kind, gen[i], <<n>>) \in rs
    BY <1>0, <1>3 DEF Inserted
  <2>2. Row(kind, gen[i], <<n>>).kind = kind /\ Row(kind, gen[i], <<n>>).of = <<n>>
    BY DEF Row
  <2>3. \A r \in rs : Has(i, r.kind, r.of)'
    BY <1>0, ImportExecutes
  <2> HIDE DEF rs
  <2>4. PICK r \in rs : r.kind = kind /\ r.of = <<n>>
    BY <2>1, <2>2
  <2> QED BY <2>3, <2>4
<1> QED BY <1>2, <1>3

\* The steps of others leave it what it has read.
LEMMA ReadingKept ==
    ASSUME Typed, OnePointer, ~ overlap, Unfailed', NEW w \in Coroutines, Acts(w),
           \A i \in Imports : pc[i] # "wipe" /\ ~ trans[i].wiped,
           NEW i \in Imports, i # w, Reading(i)
    PROVE Reading(i)' /\ \A kind, of : Has(i, kind, of) => Has(i, kind, of)'
<1> USE DEF Typed
<1>0. i \in Coroutines
  BY DEF Coroutines
<1>1. /\ pc'[i] = pc[i] /\ todo'[i] = todo[i] /\ repo'[i] = repo[i]
      /\ result'[i] = result[i] /\ errors'[i] = errors[i]
  BY <1>0, StepFrame, ResultFrame
<1>2. trans'[i] = trans[i]
  BY <1>0, OthersKept DEF Unfailed, Doomed, NoTrans
<1>3. rows[Game] \subseteq rows'[Game]
  <2>1. Next
    <3>1. CASE Start(w) \/ Step(w)
      BY <3>1 DEF Next
    <3>2. ASSUME NEW n \in Names, RegisterGameItem(w, n) PROVE Next
      <4>1. w \in Imports
        BY <3>2 DEF RegisterGameItem
      <4> QED BY <3>2, <4>1 DEF Next
    <3> QED BY <3>1, <3>2 DEF Acts
  <2> QED BY <2>1, GameGrows
<1>4. \A kind, of : Has(i, kind, of) => Has(i, kind, of)'
  BY <1>2, <1>3, HasMore
<1>5. /\ ItemsIn(i) => ItemsIn(i)'
      /\ TagsIn(i) => TagsIn(i)'
      /\ EntriesIn(i) => EntriesIn(i)'
  <2> HIDE DEF Has
  <2> QED BY <1>1, <1>4 DEF ItemsIn, TagsIn, EntriesIn
<1> QED BY <1>1, <1>2, <1>4, <1>5 DEF Reading

\* What an import's own statement relies on.
Sound(i) ==
    /\ Typed /\ OnePointer /\ ~ overlap
    /\ \A t : ~ Fail(t)
    /\ pc[i] \notin {"wipe", "recipes"} /\ ~ trans[i].wiped
    /\ Reading(i)

\* The loop after the items begins with all the tags.
LEMMA ExecutionReads ==
    ASSUME Typed, NEW i \in Imports, Execution(i, Modded), repo'[i] = Modded,
           result'[i] = "Ok", ~ errors'[i], trans'[i].state = "open", ItemsIn(i)'
    PROVE Reading(i)'
<1>0. i \in Coroutines /\ i \notin Mods /\ Modded \in Repos \cup GameRepos
  BY PeopleAssumption, GameAssumption DEF Coroutines
<1>1. CASE Modded.tags # {}
  <2>1. pc'[i] = "tags" /\ todo'[i] = Modded.tags
    BY <1>0, <1>1 DEF Execution, Loop, Goto, Typed, TypeOK
  <2> QED BY <2>1 DEF Reading, TagsIn, EntriesIn
<1>2. CASE Modded.tags = {}
  <2>1. pc'[i] = "finish"
    BY <1>0, <1>2 DEF Execution, Loop, Goto, Typed, TypeOK
  <2>2. Modded.entries = {}
    BY <1>0, <1>2, RepoType
  <2> QED BY <1>2, <2>1, <2>2 DEF Reading, TagsIn, EntriesIn
<1> QED BY <1>1, <1>2

\* The beginning: the files are read, and hold all there is.
LEMMA StartReads ==
    ASSUME NEW i \in Imports, Sound(i), Start(i)
    PROVE Reading(i)'
<1>0. i \in Coroutines /\ Opened.state = "open"
  BY DEF Coroutines, Opened, NoTrans
<1>1. pc'[i] \in {"wipe", "prepare"} /\ trans'[i].state = "open"
  BY <1>0 DEF Start, Goto, Sound, Typed, TypeOK
<1>2. result' = result /\ errors' = errors
  BY DEF Start
<1> QED BY <1>1, <1>2 DEF Reading, Sound

LEMMA PrepareReads ==
    ASSUME NEW i \in Imports, Sound(i), Prepare(i, Modded)
    PROVE Reading(i)'
<1>0. i \in Coroutines /\ Modded.readable
  BY GameAssumption DEF Coroutines
<1>1. /\ repo'[i] = Modded /\ result' = result /\ errors' = errors /\ trans' = trans
      /\ pc[i] = "prepare"
      /\ IF Modded.items # {} THEN Loop(i, "items", Modded.items) ELSE Execution(i, Modded)
  BY <1>0 DEF Prepare, Sound, Typed, TypeOK
<1>2. trans'[i].state = "open" /\ result'[i] = "Ok" /\ ~ errors'[i]
  BY <1>1 DEF Sound, Reading, Stages
<1>3. CASE Modded.items # {}
  <2>1. pc'[i] = "items" /\ todo'[i] = Modded.items
    BY <1>0, <1>1, <1>3 DEF Loop, Goto, Sound, Typed, TypeOK
  <2> QED BY <1>1, <1>2, <2>1 DEF Reading, ItemsIn, TagsIn, EntriesIn
<1>4. CASE Modded.items = {}
  <2>1. ItemsIn(i)'
    BY <1>4 DEF ItemsIn
  <2> QED BY <1>1, <1>2, <1>4, <2>1, ExecutionReads DEF Sound
<1> QED BY <1>3, <1>4

\* The loop over the items.
LEMMA ItemReads ==
    ASSUME NEW i \in Imports, Sound(i), RegisterItem(i)
    PROVE Reading(i)' /\ \A kind, of : Has(i, kind, of) => Has(i, kind, of)'
<1>0. i \in Coroutines /\ Project(i) = Game
  BY PeopleAssumption DEF Coroutines, Project
<1> SUFFICES ASSUME NEW n, n = Next1(i)
             PROVE Reading(i)' /\ \A kind, of : Has(i, kind, of) => Has(i, kind, of)'
  OBVIOUS
<1> DEFINE ls == Inserted(i, "item", n)
           rs == {Row("item", gen[i], <<n>>) : l \in ls \cap {<<n, Game>>}}
<1>1. /\ pc[i] = "items" /\ repo' = repo /\ errors' = errors /\ result' = result
      /\ Execute(i, rs, {n}, ls)
      /\ IF todo[i] # {n} THEN Loop(i, "items", todo[i] \ {n}) ELSE Execution(i, repo[i])
  BY <1>0 DEF RegisterItem, Sound
<1>2. Has(i, "item", <<n>>)'
  BY <1>1, NameIn DEF Sound
<1> HIDE DEF rs, ls
<1>3. trans'[i].state = trans[i].state /\ \A kind, of : Has(i, kind, of) => Has(i, kind, of)'
  BY <1>1, ImportExecutes DEF Sound
<1>4. repo'[i] = Modded /\ result'[i] = "Ok" /\ ~ errors'[i] /\ trans'[i].state = "open" /\ ItemsIn(i)
  BY <1>1, <1>3 DEF Sound, Reading, Stages
<1>5. CASE todo[i] # {n}
  <2>1. pc'[i] = "items" /\ todo'[i] = todo[i] \ {n}
    BY <1>0, <1>1, <1>5 DEF Loop, Goto, Sound, Typed, TypeOK
  <2>2. ItemsIn(i)'
    <3> HIDE DEF Has
    <3> QED BY <1>1, <1>2, <1>3, <1>4, <2>1 DEF ItemsIn
  <2> QED BY <1>3, <1>4, <2>1, <2>2 DEF Reading, TagsIn, EntriesIn
<1>6. CASE todo[i] = {n}
  <2>1. Execution(i, Modded)
    BY <1>1, <1>4, <1>6
  <2>2. ItemsIn(i)'
    <3> HIDE DEF Has
    <3> QED BY <1>1, <1>2, <1>3, <1>4, <1>6 DEF ItemsIn
  <2> QED BY <1>3, <1>4, <2>1, <2>2, ExecutionReads DEF Sound
<1> QED BY <1>5, <1>6

\* The loop over the tags.
LEMMA TagReads ==
    ASSUME NEW i \in Imports, Sound(i), RegisterTag(i)
    PROVE Reading(i)' /\ \A kind, of : Has(i, kind, of) => Has(i, kind, of)'
<1>0. i \in Coroutines /\ Project(i) = Game
  BY PeopleAssumption DEF Coroutines, Project
<1> SUFFICES ASSUME NEW n, n = Next1(i)
             PROVE Reading(i)' /\ \A kind, of : Has(i, kind, of) => Has(i, kind, of)'
  OBVIOUS
<1> DEFINE ls == Inserted(i, "tag", n)
           rs == {Row("tag", gen[i], <<n>>) : l \in ls \cap {<<n, Game>>}}
<1>1. /\ pc[i] = "tags" /\ repo' = repo /\ errors' = errors /\ result' = result
      /\ Execute(i, rs, {n}, ls)
      /\ Loop(i, IF todo[i] = {n} THEN "links" ELSE "tags", todo[i] \ {n})
  BY <1>0 DEF RegisterTag, Sound
<1>2. Has(i, "tag", <<n>>)'
  BY <1>1, NameIn DEF Sound
<1> HIDE DEF rs, ls
<1>3. trans'[i].state = trans[i].state /\ \A kind, of : Has(i, kind, of) => Has(i, kind, of)'
  BY <1>1, ImportExecutes DEF Sound
<1>4. /\ repo'[i] = Modded /\ result'[i] = "Ok" /\ ~ errors'[i] /\ trans'[i].state = "open"
      /\ ItemsIn(i) /\ TagsIn(i)
  BY <1>1, <1>3 DEF Sound, Reading, Stages
<1>5. pc'[i] = (IF todo[i] = {n} THEN "links" ELSE "tags") /\ todo'[i] = todo[i] \ {n}
  BY <1>0, <1>1 DEF Loop, Goto, Sound, Typed, TypeOK
<1> HIDE DEF Has
<1>6. ItemsIn(i)'
  BY <1>1, <1>3, <1>4 DEF ItemsIn
<1>7. TagsIn(i)'
  BY <1>1, <1>2, <1>3, <1>4, <1>5 DEF TagsIn
<1> QED BY <1>3, <1>4, <1>5, <1>6, <1>7 DEF Reading, EntriesIn

\* The links find the tags and the items of the import.
LEMMA LinkReads ==
    ASSUME NEW i \in Imports, Sound(i), Link(i)
    PROVE Reading(i)' /\ \A kind, of : Has(i, kind, of) => Has(i, kind, of)'
<1>0. i \in Coroutines /\ Project(i) = Game /\ i \notin Mods /\ Modded \in Repos \cup GameRepos
  BY PeopleAssumption, GameAssumption DEF Coroutines, Project
<1> DEFINE found == {e \in repo[i].entries :
                        /\ HasRow(Target(i), Game, "tag", <<e[1]>>)
                        /\ \/ HasRow(Target(i), Game, "item", <<e[2]>>)
                           \/ HasRow(Target(i), Game, "item", <<e[2]>>)}
           rs == {Row("entry", gen[i], e) : e \in found}
<1>1. /\ pc[i] = "links" /\ repo' = repo /\ errors' = errors /\ result' = result /\ todo' = todo
      /\ Execute(i, rs, {}, {})
      /\ Goto(i, "finish")
  BY <1>0 DEF Link, Sound
<1>2. pc'[i] = "finish"
  BY <1>0, <1>1 DEF Goto, Sound, Typed, TypeOK
<1>3. /\ repo[i] = Modded /\ result'[i] = "Ok" /\ ~ errors'[i] /\ trans[i].state = "open"
      /\ ItemsIn(i) /\ TagsIn(i)
  BY <1>1 DEF Sound, Reading, Stages
<1>4. Target(i) = i
  BY <1>0, <1>1, OwnTarget DEF Sound
<1>5. ASSUME NEW e \in Modded.entries, e[2] \in Modded.items
      PROVE \E r \in rs : r.kind = "entry" /\ r.of = e
  <2>1. e[1] \in Modded.tags
    BY <1>0, RepoType
  <2>2. Has(i, "tag", <<e[1]>>) /\ Has(i, "item", <<e[2]>>)
    <3> HIDE DEF Has
    <3> QED BY <1>1, <1>3, <1>5, <2>1 DEF ItemsIn, TagsIn
  <2>3. e \in found
    BY <1>3, <1>4, <2>2 DEF Has
  <2>4. Row("entry", gen[i], e).kind = "entry" /\ Row("entry", gen[i], e).of = e
    BY DEF Row
  <2> QED BY <2>3, <2>4
<1> HIDE DEF found, rs
<1>6. /\ trans'[i].state = trans[i].state
      /\ \A kind, of : Has(i, kind, of) => Has(i, kind, of)'
      /\ \A r \in rs : Has(i, r.kind, r.of)'
  BY <1>1, ImportExecutes DEF Sound
<1> HIDE DEF Has
<1>7. EntriesIn(i)'
  <2> SUFFICES ASSUME NEW e \in Modded.entries, e[2] \in Modded.items PROVE Has(i, "entry", e)'
    BY DEF EntriesIn
  <2>1. PICK r \in rs : r.kind = "entry" /\ r.of = e
    BY <1>5
  <2> QED BY <1>6, <2>1
<1>8. ItemsIn(i)' /\ TagsIn(i)'
  BY <1>1, <1>3, <1>6 DEF ItemsIn, TagsIn
<1> QED BY <1>1, <1>2, <1>3, <1>6, <1>7, <1>8 DEF Reading

\* The view, and the end of the transaction.
LEMMA FinishReads ==
    ASSUME NEW i \in Imports, Sound(i), Finish(i)
    PROVE Reading(i)' /\ \A kind, of : Has(i, kind, of) => Has(i, kind, of)'
<1>0. i \in Coroutines
  BY DEF Coroutines
<1>1. /\ pc[i] = "finish" /\ pc'[i] = "release" /\ result'[i] = "Ok"
      /\ repo' = repo /\ errors' = errors /\ todo' = todo /\ rows' = rows
  BY <1>0 DEF Finish, Return, Goto, Sound, Typed, TypeOK
<1>2. trans' = trans \/ \E f : trans' = [trans EXCEPT ![Target(i)].flat = f]
  BY DEF Finish, Sound
<1>3. trans'[i].state = trans[i].state /\ trans'[i].added = trans[i].added /\ ~ trans'[i].wiped
  <2>1. ASSUME NEW f, trans' = [trans EXCEPT ![Target(i)].flat = f]
        PROVE /\ trans'[i].state = trans[i].state /\ trans'[i].added = trans[i].added
              /\ ~ trans'[i].wiped
    <3> DEFINE x == [trans[Target(i)] EXCEPT !.flat = f]
    <3>1. trans' = [trans EXCEPT ![Target(i)] = x] /\ trans \in [Coroutines -> Transactions]
      BY <2>1 DEF Sound, Typed, TypeOK
    <3>2. Target(i) = i => /\ x.state = trans[i].state /\ x.added = trans[i].added
                           /\ x.wiped = trans[i].wiped
      BY <1>0, <3>1 DEF Transactions
    <3> HIDE DEF x
    <3> QED BY <1>0, <3>1, <3>2 DEF Sound
  <2> QED BY <1>2, <2>1 DEF Sound
<1>4. \A kind, of : Has(i, kind, of) => Has(i, kind, of)'
  BY <1>1, <1>3, HasMore DEF Sound
<1> HIDE DEF Has
<1>5. /\ repo[i] = Modded /\ ~ errors[i] /\ trans[i].state = "open"
      /\ ItemsIn(i) /\ TagsIn(i) /\ EntriesIn(i)
  BY <1>1 DEF Sound, Reading, Stages
<1>6. ItemsIn(i)' /\ TagsIn(i)' /\ EntriesIn(i)'
  BY <1>1, <1>4, <1>5 DEF ItemsIn, TagsIn, EntriesIn
<1> QED BY <1>1, <1>3, <1>4, <1>5, <1>6 DEF Reading

LEMMA ReleaseReads ==
    ASSUME NEW i \in Imports, Sound(i), Release(i)
    PROVE Reading(i)' /\ \A kind, of : Has(i, kind, of) => Has(i, kind, of)'
<1>0. i \in Coroutines /\ Project(i) = Game /\ Game \in Projects
  BY PeopleAssumption DEF Coroutines, Project, Projects
<1>1. /\ pc[i] = "release" /\ pc'[i] = "done"
      /\ repo' = repo /\ errors' = errors /\ todo' = todo /\ result' = result
  BY <1>0 DEF Release, Goto, Sound, Typed, TypeOK
<1>2. trans[i].state = "open"
  BY <1>1 DEF Sound, Reading, Stages
<1>3. rows'[Game] = Seen(i, Game)
  BY <1>0, <1>2 DEF Release, Open, Sound, Typed, TypeOK
<1>4. trans'[i].added = {} /\ ~ trans'[i].wiped
  BY <1>0, <1>2 DEF Release, Open, NoTrans, Sound, Typed, TypeOK
<1>5. \A kind, of : Has(i, kind, of) => Has(i, kind, of)'
  BY <1>0, <1>3, <1>4, HasMore, ImportSees DEF Sound
<1> HIDE DEF Has
<1>6. /\ repo[i] = Modded /\ ~ errors[i] /\ result[i] = "Ok"
      /\ ItemsIn(i) /\ TagsIn(i) /\ EntriesIn(i)
  BY <1>1 DEF Sound, Reading
<1>7. ItemsIn(i)' /\ TagsIn(i)' /\ EntriesIn(i)'
  BY <1>1, <1>5, <1>6 DEF ItemsIn, TagsIn, EntriesIn
<1> QED BY <1>1, <1>4, <1>5, <1>6, <1>7 DEF Reading, Stages

\* Nothing is wiped for an import.
LEMMA NotWiped ==
    ASSUME TypeOK, NEW w \in Coroutines, Acts(w),
           NEW i \in Imports, pc[i] # "wipe", ~ trans[i].wiped
    PROVE ~ trans'[i].wiped
<1>0. i \in Coroutines /\ trans \in [Coroutines -> Transactions]
  BY DEF Coroutines, TypeOK
<1>a. ASSUME NEW rs, NEW ns, NEW ls, Execute(w, rs, ns, ls) PROVE ~ trans'[i].wiped
  BY <1>0, <1>a, ExecuteFrame
<1>b. ~ Doomed.wiped /\ ~ Opened.wiped /\ ~ NoTrans.wiped
  BY DEF Doomed, Opened, NoTrans
<1>c. ASSUME NEW t, Fail(t) PROVE ~ trans'[i].wiped
  BY <1>0, <1>b, <1>c, FailFrame
<1>1. CASE Start(w) \/ End(w)
  BY <1>0, <1>1, <1>b DEF Start, End, Forget, Reset
<1>2. CASE Wipe(w)
  <2>1. w # i
    BY <1>2 DEF Wipe
  <2> QED BY <1>0, <1>2, <1>c, <2>1 DEF Wipe
<1>3. ASSUME NEW r, Prepare(w, r) PROVE trans' = trans
  BY <1>3 DEF Prepare
<1>4. CASE RegisterItem(w) \/ RegisterTag(w) \/ Link(w)
  BY <1>4, <1>a, <1>c DEF RegisterItem, RegisterTag, Link
<1>5. CASE AddRecipe(w)
  BY <1>5, <1>a, <1>c DEF AddRecipe
<1>6. CASE Finish(w)
  <2>1. ASSUME NEW f, trans' = [trans EXCEPT ![Target(w)].flat = f] PROVE ~ trans'[i].wiped
    <3> DEFINE x == [trans[Target(w)] EXCEPT !.flat = f]
    <3>1. trans' = [trans EXCEPT ![Target(w)] = x]
      BY <2>1
    <3>2. Target(w) = i => x.wiped = trans[i].wiped
      BY <1>0 DEF Transactions
    <3> HIDE DEF x
    <3> QED BY <1>0, <3>1, <3>2
  <2> QED BY <1>6, <1>c, <2>1 DEF Finish
<1>7. CASE Release(w)
  <2>1. trans' = trans \/ trans' = [trans EXCEPT ![w] = [NoTrans EXCEPT !.state = "committed"]]
    BY <1>7 DEF Release
  <2>2. ~ [NoTrans EXCEPT !.state = "committed"].wiped
    BY DEF NoTrans
  <2> QED BY <1>0, <2>1, <2>2
<1>8. ASSUME NEW n, RegisterGameItem(w, n) PROVE ~ trans'[i].wiped
  BY <1>8, <1>a, <1>c DEF RegisterGameItem
<1> QED BY <1>1, <1>2, <1>3, <1>4, <1>5, <1>6, <1>7, <1>8 DEF Acts, Step

\* The ingestion of an import goes from one stage to the next.
LEMMA ImportGoes ==
    ASSUME Typed, NEW i \in Imports, pc[i] \notin {"wipe", "recipes"},
           \/ \E r \in GameRepos : Prepare(i, r)
           \/ RegisterItem(i) \/ RegisterTag(i) \/ Link(i) \/ Finish(i) \/ Release(i)
    PROVE pc[i] \notin {"idle", "done"} /\ pc'[i] \notin {"idle", "wipe", "recipes"}
<1>0. i \in Coroutines /\ i \notin Mods /\ pc \in [Coroutines -> Stages \cup {"idle", "done"}]
  BY PeopleAssumption DEF Coroutines, Typed, TypeOK
<1>1. CASE \E r \in GameRepos : Prepare(i, r)
  BY <1>0, <1>1 DEF Prepare, Execution, Loop, Return, Goto
<1>2. CASE RegisterItem(i)
  BY <1>0, <1>2 DEF RegisterItem, Execution, Loop, Return, Goto
<1>3. CASE RegisterTag(i)
  BY <1>0, <1>3 DEF RegisterTag, Loop, Goto
<1>4. CASE Link(i) \/ Finish(i) \/ Release(i)
  BY <1>0, <1>4 DEF Link, Finish, Release, Return, Goto
<1> QED BY <1>1, <1>2, <1>3, <1>4

\* The steps of a mod, or of another import, leave its stage alone.
LEMMA IngestingStep ==
    ASSUME Typed, GameRest, Ingesting, [GameNext]_allVars
    PROVE Ingesting'
<1> USE DEF GameRest
<1>0. /\ \A i \in Imports : i \in Coroutines /\ i \notin Mods
      /\ \A m \in Mods : m \in Coroutines
      /\ pc \in [Coroutines -> Stages \cup {"idle", "done"}]
      /\ Found \in GameRepos
  BY PeopleAssumption, GameAssumption DEF Coroutines, Typed, TypeOK, Found
<1>a. ASSUME NEW w \in Coroutines, Acts(w), NEW i \in Imports, i # w, stage'[i] = stage[i]
      PROVE /\ pc'[i] # "idle" <=> stage'[i] \in {"ingesting", "register"}
            /\ stage'[i] = "register" => pc'[i] = "done"
            /\ pc'[i] \notin {"wipe", "recipes"} /\ ~ trans'[i].wiped
  <2>1. pc'[i] = pc[i]
    BY <1>0, <1>a, StepFrame DEF Typed
  <2>2. ~ trans'[i].wiped
    BY <1>a, NotWiped DEF Typed, Ingesting
  <2> QED BY <1>a, <2>1, <2>2 DEF Ingesting
<1>1. ASSUME NEW m \in Mods, Start(m) \/ Step(m), UNCHANGED gameVars PROVE Ingesting'
  <2>1. Acts(m) /\ stage' = stage
    BY <1>1 DEF Acts, gameVars
  <2> QED BY <1>0, <1>a, <2>1 DEF Ingesting
<1>2. ASSUME NEW i \in Imports, NEW update \in BOOLEAN, Call(i, update) PROVE Ingesting'
  <2>1. pc' = pc /\ trans' = trans /\ stage[i] = "idle" /\ stage' = [stage EXCEPT ![i] = "check"]
    BY <1>2 DEF Call, To, vars
  <2> QED BY <2>1 DEF Ingesting
<1>3. ASSUME NEW i \in Imports, Check(i) \/ Download(i) PROVE Ingesting'
  <2>1. pc' = pc /\ trans' = trans /\ stage[i] \in {"check", "client", "neoforge"}
        /\ \E s \in {"idle", "client", "neoforge", "ingest"} : stage' = [stage EXCEPT ![i] = s]
    BY <1>3 DEF Check, Download, Leave, To, vars
  <2> QED BY <2>1 DEF Ingesting
<1>4. ASSUME NEW i \in Imports, Ingest(i) PROVE Ingesting'
  <2>0. Acts(i) /\ \A j \in Imports : j # i => stage'[j] = stage[j]
    BY <1>0, <1>4 DEF Ingest, Acts, Step, To
  <2>1. ~ trans'[i].wiped
    BY <1>0, <2>0, NotWiped DEF Ingesting, Typed
  <2>2. CASE stage[i] = "ingest" /\ Start(i) /\ To(i, "ingesting")
    <3>1. pc'[i] = "prepare" /\ stage'[i] = "ingesting"
      BY <1>0, <2>2 DEF Start, Goto, To
    <3> QED BY <1>0, <1>a, <2>0, <2>1, <3>1 DEF Ingesting
  <2>3. CASE stage[i] = "ingesting" /\ UNCHANGED stage
             /\ ~ (stage[i] = "ingest" /\ Start(i) /\ To(i, "ingesting"))
    <3>1. pc'[i] \notin {"idle", "wipe", "recipes"}
      BY <1>0, <1>4, <2>3, ImportGoes DEF Ingest, Ingesting
    <3> QED BY <1>0, <1>a, <2>0, <2>1, <2>3, <3>1 DEF Ingesting
  <2> QED BY <1>4, <2>2, <2>3 DEF Ingest
<1>5. ASSUME NEW i \in Imports, Registering(i) \/ Record(i) PROVE Ingesting'
  <2>0. \A j \in Imports : j # i => stage'[j] = stage[j]
    BY <1>5 DEF Registering, Record, Leave, To
  <2>1. CASE End(i) /\ Leave(i)
    <3>1. pc'[i] = "idle" /\ stage'[i] = "idle" /\ Acts(i)
      BY <1>0, <2>1 DEF End, Forget, Reset, Leave, To, Acts, Step
    <3>2. ~ trans'[i].wiped
      BY <1>0, <3>1, NotWiped DEF Ingesting, Typed
    <3> QED BY <1>0, <1>a, <2>0, <3>1, <3>2 DEF Ingesting
  <2>2. CASE pc[i] = "done" /\ stage[i] = "ingesting" /\ To(i, "register") /\ UNCHANGED vars
    <3>1. pc' = pc /\ trans' = trans /\ stage' = [stage EXCEPT ![i] = "register"]
      BY <2>2 DEF To, vars
    <3> QED BY <2>2, <3>1 DEF Ingesting
  <2> QED BY <1>5, <2>1, <2>2 DEF Registering, Record
<1>6. ASSUME NEW i \in Imports, Register(i) PROVE Ingesting'
  <2>1. Acts(i) /\ stage' = stage /\ pc' = pc
    BY <1>6 DEF Register, RegisterGameItem, Acts
  <2>2. \A j \in Imports : ~ trans'[j].wiped
    BY <1>0, <2>1, NotWiped DEF Ingesting, Typed
  <2> QED BY <2>1, <2>2 DEF Ingesting
<1>7. CASE GameCrash
  BY <1>7 DEF GameCrash, Crash, Forget, Reset, Ingesting, NoTrans, Coroutines
<1>8. CASE UNCHANGED allVars
  BY <1>8 DEF allVars, vars, gameVars, Ingesting
<1> QED BY <1>1, <1>2, <1>3, <1>4, <1>5, <1>6, <1>7, <1>8 DEF GameNext, ImportStep

\* Neither failures nor simultaneous imports are forgotten.
LEMMA AloneBefore ==
    ASSUME Typed, GameRest, [GameNext]_allVars, Alone'
    PROVE Alone
<1>1. faults = 0
  BY GameStep, FaultsCounted DEF Typed, Alone
<1>2. together => together'
  <2>1. ASSUME NEW i \in Imports, ImportStep(i) PROVE together' = together
    BY <2>1 DEF ImportStep, Check, Download, Ingest, Registering, Register, Record
  <2>2. ASSUME NEW i \in Imports, NEW update \in BOOLEAN, Call(i, update) PROVE together => together'
    BY <2>2 DEF Call
  <2>3. CASE GameCrash \/ UNCHANGED gameVars
    BY <2>3 DEF GameCrash, gameVars
  <2> QED BY <2>1, <2>2, <2>3 DEF GameNext, allVars
<1> QED BY <1>1, <1>2 DEF Alone

\* One import at a time.
LEMMA OneImportStep ==
    ASSUME Typed, GameRest, Ingesting, OneImport, [GameNext]_allVars, ~ together'
    PROVE OneImport'
<1> USE DEF GameRest
<1>0. \A i \in Imports : i \notin Mods
  BY PeopleAssumption
<1>1. ASSUME NEW m \in Mods, Start(m) \/ Step(m), UNCHANGED gameVars PROVE OneImport'
  <2>1. ~ overlap'
    <3>1. CASE Start(m)
      BY <1>0, <3>1 DEF Start, OneImport
    <3>2. CASE Release(m) \/ End(m)
      BY <3>2 DEF Release, End, history, OneImport
    <3>3. m \in Coroutines /\ Acts(m)
      BY <1>1 DEF Acts, Coroutines
    <3> QED BY <3>1, <3>2, <3>3, OtherSteps DEF Typed, OneImport
  <2> QED BY <1>1, <2>1 DEF gameVars, OneImport
<1>2. ASSUME NEW i \in Imports, NEW update \in BOOLEAN, Call(i, update) PROVE OneImport'
  <2>1. /\ overlap' = overlap /\ stage' = [stage EXCEPT ![i] = "check"]
        /\ \A j \in Imports \ {i} : stage[j] = "idle"
    BY <1>2 DEF Call, To, vars
  <2> QED BY <2>1 DEF OneImport
<1>3. ASSUME NEW i \in Imports, ImportStep(i) PROVE OneImport'
  <2>1. stage[i] # "idle" /\ \E s : stage' = [stage EXCEPT ![i] = s]
    <3>1. CASE Check(i) \/ Download(i)
      BY <3>1 DEF Check, Download, Leave, To
    <3>2. CASE Ingest(i) \/ Register(i)
      <4>1. stage' = [stage EXCEPT ![i] = stage[i]] \/ stage' = [stage EXCEPT ![i] = "ingesting"]
        BY <3>2 DEF Ingest, Register, To
      <4> QED BY <3>2, <4>1 DEF Ingest, Register
    <3>3. CASE Registering(i) \/ Record(i)
      BY <3>3 DEF Registering, Record, Leave, To
    <3> QED BY <1>3, <3>1, <3>2, <3>3 DEF ImportStep
  <2>2. \A j \in Imports : j # i => stage[j] = "idle" /\ stage'[j] = "idle" /\ pc[j] = "idle"
    BY <2>1 DEF OneImport, Ingesting
  <2>3. ~ overlap'
    <3>1. CASE Check(i) \/ Download(i)
      BY <3>1 DEF Check, Download, vars, OneImport
    <3>2. CASE Start(i)
      BY <2>2, <3>2 DEF Start, OneImport
    <3>3. CASE Ingest(i) /\ ~ Start(i)
      BY <3>3 DEF Ingest, Prepare, RegisterItem, RegisterTag, Link, Finish, Release, history, OneImport
    <3>4. CASE Register(i)
      BY <3>4 DEF Register, RegisterGameItem, history, OneImport
    <3>5. CASE Registering(i) \/ Record(i)
      BY <3>5 DEF Registering, Record, End, vars, OneImport
    <3> QED BY <1>3, <3>1, <3>2, <3>3, <3>4, <3>5 DEF ImportStep
  <2> QED BY <2>2, <2>3 DEF OneImport
<1>4. CASE GameCrash
  BY <1>4 DEF GameCrash, Crash, OneImport
<1>5. CASE UNCHANGED allVars
  BY <1>5 DEF allVars, vars, gameVars, OneImport
<1> QED BY <1>1, <1>2, <1>3, <1>4, <1>5 DEF GameNext

\* Nobody clears the files that an import has downloaded.
LEMMA DownloadedStep ==
    ASSUME GameRest, OneImport, Downloaded, [GameNext]_allVars
    PROVE Downloaded'
<1> USE DEF GameRest
<1>1. ASSUME NEW m \in Mods, UNCHANGED gameVars PROVE Downloaded'
  BY <1>1 DEF gameVars, Downloaded
<1>2. ASSUME NEW i \in Imports, NEW update \in BOOLEAN, Call(i, update) PROVE Downloaded'
  BY <1>2 DEF Call, To, Downloaded
<1>3. ASSUME NEW i \in Imports, Check(i) PROVE Downloaded'
  <2>1. stage[i] = "check" /\ \A j \in Imports : j # i => stage[j] = "idle"
    BY <1>3 DEF Check, OneImport
  <2> QED BY <1>3, <2>1 DEF Check, Leave, To, Downloaded
<1>4. ASSUME NEW i \in Imports, Download(i) PROVE Downloaded'
  BY <1>4 DEF Download, Leave, To, Downloaded
<1>5. ASSUME NEW i \in Imports, Ingest(i) PROVE Downloaded'
  BY <1>5 DEF Ingest, To, Downloaded
<1>6. ASSUME NEW i \in Imports, Registering(i) \/ Record(i) PROVE Downloaded'
  BY <1>6 DEF Registering, Record, Leave, To, Downloaded
<1>7. ASSUME NEW i \in Imports, Register(i) PROVE Downloaded'
  BY <1>7 DEF Register, Downloaded
<1>8. CASE GameCrash
  BY <1>8 DEF GameCrash, Downloaded
<1>9. CASE UNCHANGED allVars
  BY <1>9 DEF allVars, gameVars, Downloaded
<1> QED BY <1>1, <1>2, <1>3, <1>4, <1>5, <1>6, <1>7, <1>8, <1>9 DEF GameNext, ImportStep

\* What an import has, it keeps, if it only stays where it is.
LEMMA AssetsKept ==
    ASSUME NEW i \in Imports, AssetsIn(i), stage'[i] = stage[i], left'[i] = left[i],
           \A kind, of : Has(i, kind, of) => Has(i, kind, of)'
    PROVE AssetsIn(i)'
<1> HIDE DEF Has
<1> QED BY DEF AssetsIn

\* Its statements are sound.
LEMMA ImportSound ==
    ASSUME Together, faults' = 0, NEW i \in Imports, Reading(i)
    PROVE Sound(i)
  BY NoneFails DEF Together, Sound, Typed, Ingesting, OneImport

\* A step of another coroutine.
LEMMA OtherWhole ==
    ASSUME Together, Unfailed', NEW w \in Coroutines, Acts(w), NEW i \in Imports, i # w,
           Whole(i), stage'[i] = stage[i], left'[i] = left[i]
    PROVE Whole(i)'
  BY ReadingKept, AssetsKept DEF Together, Ingesting, OneImport, Whole

\* A step of its ingestion.
LEMMA IngestWhole ==
    ASSUME Together, faults' = 0, NEW i \in Imports, Ingest(i), Whole(i)
    PROVE Whole(i)'
<1> USE DEF Together, GameRest
<1>1. Sound(i)
  BY ImportSound DEF Whole
<1>2. CASE stage[i] = "ingest" /\ Start(i) /\ To(i, "ingesting")
  <2>1. stage'[i] = "ingesting"
    BY <1>2 DEF To
  <2> QED BY <1>1, <1>2, <2>1, StartReads DEF Whole, AssetsIn
<1>3. CASE stage[i] = "ingesting" /\ stage' = stage
  <2>1. AssetsIn(i)'
    BY <1>3 DEF AssetsIn
  <2>2. Found = Modded
    BY <1>3 DEF Downloaded, Found
  <2>3. ~ (stage[i] = "ingest" /\ Start(i) /\ To(i, "ingesting"))
    BY <1>3
  <2>4. Reading(i)'
    BY <1>1, <2>2, <2>3, PrepareReads, ItemReads, TagReads, LinkReads, FinishReads, ReleaseReads
       DEF Ingest
  <2> QED BY <2>1, <2>4 DEF Whole
<1> QED BY <1>2, <1>3 DEF Ingest

\* An item of the game's is registered.
LEMMA RegisterWhole ==
    ASSUME Together, faults' = 0, NEW i \in Imports, Register(i), Whole(i)
    PROVE Whole(i)'
<1> USE DEF Together, GameRest
<1>0. i \in Coroutines /\ Project(i) = Game
  BY PeopleAssumption DEF Coroutines, Project
<1>1. Sound(i)
  BY ImportSound DEF Whole
<1>2. PICK n \in left[i] : RegisterGameItem(i, n) /\ left' = [left EXCEPT ![i] = @ \ {n}]
  BY DEF Register
<1> DEFINE ls == Inserted(i, "item", n)
           rs == {Row("item", gen[i], <<n>>) : l \in ls \cap {<<n, Game>>}}
<1>3. /\ pc[i] = "done" /\ UNCHANGED <<pc, repo, todo, result, errors>>
      /\ Execute(i, rs, {n}, ls) /\ stage' = stage
  BY <1>1, <1>2 DEF RegisterGameItem, Sound, Register
<1>4. Has(i, "item", <<n>>)'
  BY <1>1, <1>3, NameIn DEF Sound, Reading
<1> HIDE DEF rs, ls
<1>5. /\ trans'[i].state = trans[i].state /\ trans'[i].added = trans[i].added
      /\ \A kind, of : Has(i, kind, of) => Has(i, kind, of)'
  BY <1>1, <1>3, ImportExecutes DEF Sound
<1> HIDE DEF Has
<1>6. ItemsIn(i)' /\ TagsIn(i)' /\ EntriesIn(i)'
  BY <1>3, <1>5 DEF Whole, Reading, ItemsIn, TagsIn, EntriesIn
<1>7. Reading(i)'
  BY <1>3, <1>5, <1>6 DEF Whole, Reading
<1>8. AssetsIn(i)'
  BY <1>2, <1>3, <1>4, <1>5 DEF Whole, AssetsIn
<1> QED BY <1>7, <1>8 DEF Whole

\* An import that is over has nothing.
LEMMA OverWhole ==
    ASSUME Together, NEW i \in Imports, pc'[i] = "idle", stage'[i] = "idle",
           result'[i] = "Ok", ~ errors'[i]
    PROVE Whole(i)'
  BY DEF Whole, Reading, AssetsIn, Stages

\* Without a step of the ingestion nothing is lost.
LEMMA StillReads ==
    ASSUME UNCHANGED vars, NEW i \in Imports, Reading(i)
    PROVE Reading(i)' /\ \A kind, of : Has(i, kind, of) => Has(i, kind, of)'
<1>1. \A kind, of : Has(i, kind, of) => Has(i, kind, of)'
  BY DEF vars, Has, HasRow, Seen
<1> HIDE DEF Has
<1>2. /\ pc' = pc /\ todo' = todo /\ repo' = repo /\ result' = result /\ errors' = errors
      /\ trans' = trans
  BY DEF vars
<1>3. (ItemsIn(i) => ItemsIn(i)') /\ (TagsIn(i) => TagsIn(i)') /\ (EntriesIn(i) => EntriesIn(i)')
  BY <1>1, <1>2 DEF ItemsIn, TagsIn, EntriesIn
<1> QED BY <1>1, <1>2, <1>3 DEF Reading

\* Every import keeps what it has, at every step.
LEMMA WholeStep ==
    ASSUME Together, Unfailed', faults' = 0, \A i \in Imports : Whole(i), [GameNext]_allVars
    PROVE \A i \in Imports : Whole(i)'
<1> USE DEF Together, GameRest
<1>0. \A i \in Imports : i \in Coroutines /\ i \notin Mods
  BY PeopleAssumption DEF Coroutines
<1>a. ASSUME UNCHANGED vars, NEW i \in Imports, left'[i] = left[i],
             stage'[i] = stage[i] \/ stage'[i] # "register"
      PROVE Whole(i)'
  <2>1. Reading(i)' /\ \A kind, of : Has(i, kind, of) => Has(i, kind, of)'
    BY <1>a, StillReads DEF Whole
  <2>2. AssetsIn(i)'
    BY <1>a, <2>1, AssetsKept DEF Whole, AssetsIn
  <2> QED BY <2>1, <2>2 DEF Whole
<1>b. ASSUME NEW i \in Imports, Acts(i), NEW j \in Imports, j # i,
             stage'[j] = stage[j], left'[j] = left[j]
      PROVE Whole(j)'
  BY <1>0, <1>b, OtherWhole
<1>1. ASSUME NEW m \in Mods, Start(m) \/ Step(m), UNCHANGED gameVars, NEW i \in Imports PROVE Whole(i)'
  <2>1. m \in Coroutines /\ Acts(m) /\ i # m /\ stage'[i] = stage[i] /\ left'[i] = left[i]
    BY <1>0, <1>1 DEF Acts, gameVars, Coroutines
  <2> QED BY <2>1, OtherWhole
<1>2. ASSUME NEW j \in Imports, NEW update \in BOOLEAN, Call(j, update), NEW i \in Imports
      PROVE Whole(i)'
  <2>1. UNCHANGED vars /\ left' = left /\ (stage'[i] = stage[i] \/ stage'[i] # "register")
    BY <1>2 DEF Call, To
  <2> QED BY <2>1, <1>a
<1>3. ASSUME NEW j \in Imports, Check(j) \/ Download(j), NEW i \in Imports PROVE Whole(i)'
  <2>1. UNCHANGED vars /\ left' = left /\ (stage'[i] = stage[i] \/ stage'[i] # "register")
    BY <1>3 DEF Check, Download, Leave, To
  <2> QED BY <2>1, <1>a
<1>4. ASSUME NEW j \in Imports, Ingest(j), NEW i \in Imports PROVE Whole(i)'
  <2>1. Acts(j) /\ left' = left /\ (i # j => stage'[i] = stage[i])
    <3>1. Found \in Repos \cup GameRepos
      BY GameAssumption DEF Found
    <3> QED BY <1>4, <3>1 DEF Ingest, Acts, Step, To
  <2> QED BY <1>4, <1>b, <2>1, IngestWhole
<1>5. ASSUME NEW j \in Imports, Registering(j), NEW i \in Imports PROVE Whole(i)'
  <2>1. ~ (result[j] # "Ok" \/ errors[j])
    BY DEF Whole, Reading
  <2>2. CASE UNCHANGED vars /\ To(j, "register") /\ left' = [left EXCEPT ![j] = GameItems]
    <3>1. Reading(i)'
      BY <2>2, StillReads DEF Whole
    <3>2. i # j => Whole(i)'
      BY <1>a, <2>2 DEF To
    <3>3. AssetsIn(j)'
      BY <2>2 DEF AssetsIn
    <3> QED BY <3>1, <3>2, <3>3 DEF Whole
  <2>3. CASE End(j) /\ Leave(j) /\ left' = left
    <3>1. Acts(j) /\ (i # j => stage'[i] = stage[i]) /\ left' = left
      BY <2>3 DEF Acts, Step, Leave, To
    <3>2. pc'[j] = "idle" /\ stage'[j] = "idle" /\ result'[j] = "Ok" /\ ~ errors'[j]
      BY <1>0, <2>3 DEF End, Forget, Reset, Leave, To
    <3> QED BY <3>1, <3>2, <1>b, OverWhole
  <2> QED BY <1>5, <2>1, <2>2, <2>3 DEF Registering
<1>6. ASSUME NEW j \in Imports, Register(j), NEW i \in Imports PROVE Whole(i)'
  <2>1. Acts(j) /\ (i # j => left'[i] = left[i]) /\ stage' = stage
    BY <1>6 DEF Register, Acts
  <2> QED BY <1>6, <1>b, <2>1, RegisterWhole
<1>7. ASSUME NEW j \in Imports, Record(j), NEW i \in Imports PROVE Whole(i)'
  <2>1. Acts(j) /\ (i # j => stage'[i] = stage[i]) /\ left' = left
    BY <1>7 DEF Record, Acts, Step, Leave, To
  <2>2. pc'[j] = "idle" /\ stage'[j] = "idle" /\ result'[j] = "Ok" /\ ~ errors'[j]
    BY <1>0, <1>7 DEF Record, End, Forget, Reset, Leave, To
  <2> QED BY <2>1, <2>2, <1>b, OverWhole
<1>8. ASSUME GameCrash, NEW i \in Imports PROVE Whole(i)'
  <2>1. pc'[i] = "idle" /\ stage'[i] = "idle" /\ result'[i] = "Ok" /\ ~ errors'[i]
    BY <1>0, <1>8 DEF GameCrash, Crash, Forget, Reset
  <2> QED BY <2>1, OverWhole
<1>9. ASSUME UNCHANGED allVars, NEW i \in Imports PROVE Whole(i)'
  BY <1>9, <1>a DEF allVars, gameVars
<1> QED BY <1>1, <1>2, <1>3, <1>4, <1>5, <1>6, <1>7, <1>8, <1>9 DEF GameNext, ImportStep

\* Only an import that has registered everything is recorded.
LEMMA RecordedStep ==
    ASSUME Together, Alone, Alone', \A i \in Imports : Whole(i), RecordedIsThere, [GameNext]_allVars
    PROVE RecordedIsThere'
<1> USE DEF Together
<1>1. rows[Game] \subseteq rows'[Game]
  BY GameStep, GameGrows DEF Typed, Ingesting
<1>2. CASE imported > 0
  BY <1>1, <1>2 DEF RecordedIsThere, Alone
<1>3. CASE ~ (imported > 0) /\ imported' > 0
  <2>1. PICK i \in Imports : Record(i)
    BY <1>3 DEF GameNext, ImportStep, Call, Check, Download, Ingest, Registering, Register,
                GameCrash, allVars, gameVars
  <2>2. stage[i] = "register" /\ left[i] = {} /\ pc[i] = "done"
    BY <2>1 DEF Record, Ingesting
  <2>3. Seen(i, Game) = rows[Game]
    BY <2>2, ImportSees DEF Whole, Reading, Ingesting
  <2>4. \A kind, of : Has(i, kind, of) => \E r \in rows'[Game] : r.kind = kind /\ r.of = of
    BY <1>1, <2>3 DEF Has, HasRow
  <2> HIDE DEF Has
  <2>5. /\ \A n \in GameItems : Has(i, "item", <<n>>)
        /\ \A t \in Modded.tags : Has(i, "tag", <<t>>)
        /\ \A e \in Modded.entries : e[2] \in Modded.items => Has(i, "entry", e)
    BY <2>2 DEF Whole, Reading, AssetsIn, TagsIn, EntriesIn
  <2>6. \A n \in GameItems : \E r \in rows'[Game] : r.kind = "item" /\ r.of = <<n>>
    BY <2>4, <2>5
  <2>7. \A t \in Modded.tags : \E r \in rows'[Game] : r.kind = "tag" /\ r.of = <<t>>
    BY <2>4, <2>5
  <2>8. \A e \in Modded.entries :
            e[2] \in Modded.items => \E r \in rows'[Game] : r.kind = "entry" /\ r.of = e
    BY <2>4, <2>5
  <2> QED BY <2>6, <2>7, <2>8 DEF RecordedIsThere
<1> QED BY <1>2, <1>3 DEF RecordedIsThere

\* Once an import is recorded, so that no start-up repeats it, all the game's content is in
\* the tables, wherever crashes and failed downloads have cut the attempts before it, for
\* any content and any number of imports, unless a statement has failed or imports ran
\* together (GameDataService::importGameData).
THEOREM RecordedIsThereHolds == GameSpec => []RecordedIsThere
<1> DEFINE Inv == /\ Typed /\ OnePointer /\ GameRest /\ Ingesting /\ RecordedIsThere
                  /\ Alone => OneImport /\ Downloaded /\ Unfailed /\ \A i \in Imports : Whole(i)
<1>1. GameInit => Inv
  <2> SUFFICES ASSUME GameInit PROVE Inv
    OBVIOUS
  <2>1. Init /\ GameRest /\ Typed
    BY GameRestInit, TypeInit DEF Typed
  <2>2. OnePointer /\ Unfailed /\ Ingesting
    BY <2>1 DEF Init, GameInit, OnePointer, Unfailed, Ingesting, NoTrans, Coroutines
  <2>3. OneImport /\ Downloaded /\ RecordedIsThere
    BY <2>1 DEF Init, GameInit, OneImport, Downloaded, RecordedIsThere
  <2>4. \A i \in Imports : Whole(i)
    BY <2>1 DEF Init, GameInit, Whole, Reading, AssetsIn, Stages, Coroutines
  <2> QED BY <2>1, <2>2, <2>3, <2>4
<1>2. Inv /\ [GameNext]_allVars => Inv'
  <2> SUFFICES ASSUME Inv, [GameNext]_allVars PROVE Inv'
    OBVIOUS
  <2>1. [Next]_vars
    BY GameStep
  <2>2. Typed' /\ OnePointer' /\ GameRest' /\ Ingesting'
    BY <2>1, TypeStep, LoopingStep, OnePointerStep, GameRestStep, IngestingStep DEF Typed
  <2>3. ASSUME Alone' PROVE /\ OneImport' /\ Downloaded' /\ Unfailed' /\ RecordedIsThere'
                            /\ \A i \in Imports : Whole(i)'
    <3>1. Alone /\ Together /\ \A i \in Imports : Whole(i)
      BY <2>3, AloneBefore DEF Together
    <3>2. OneImport' /\ Downloaded' /\ Unfailed'
      BY <2>1, <2>3, <3>1, OneImportStep, DownloadedStep, UnfailedStep DEF Together, Alone, Typed
    <3>3. \A i \in Imports : Whole(i)'
      BY <2>3, <3>1, <3>2, WholeStep DEF Alone
    <3> QED BY <2>3, <3>1, <3>2, <3>3, RecordedStep
  <2>4. ~ Alone' => RecordedIsThere'
    BY DEF RecordedIsThere, Alone
  <2> QED BY <2>2, <2>3, <2>4
<1>3. Inv => RecordedIsThere
  OBVIOUS
<1> QED BY <1>1, <1>2, <1>3, PTL DEF GameSpec

-----------------------------------------------------------------------------
(* What is made of recipes *)

\* The element of a set that a fold takes first.
Some(s) == CHOOSE x \in s : TRUE

\* Numbers have a least one.
LEMMA Below ==
    ASSUME NEW T, T \subseteq Nat, T # {}
    PROVE  \E x \in T : \A y \in T : ~ (y < x)
<1>1. IsWellFoundedOn(OpToRel(<, Nat), Nat)
  BY NatLessThanWellFounded
<1>2. PICK x \in T : \A y \in T : ~ (<<y, x>> \in OpToRel(<, Nat))
  BY <1>1, WFMin
<1> QED BY <1>2 DEF OpToRel

\* What holds of 0 and of the next number holds of all.
LEMMA NatSet ==
    ASSUME NEW S, 0 \in S, \A n \in Nat : n \in S => n + 1 \in S
    PROVE  \A n \in Nat : n \in S
<1> DEFINE T == {n \in Nat : n \notin S}
<1> SUFFICES ASSUME T # {} PROVE FALSE
  OBVIOUS
<1>1. PICK x \in T : \A y \in T : ~ (y < x)
  BY Below
<1>2. x # 0 /\ x - 1 \in Nat
  OBVIOUS
<1>3. x - 1 \in S
  BY <1>1, <1>2
<1> QED BY <1>2, <1>3

\* g[i] is the first i sequences of ss, joined.
Flattens(ss, n, g) == g = [i \in 1..n |-> IF i = 1 THEN ss[i] ELSE g[i - 1] \o ss[i]]

\* The function exists that FlattenSeq is defined by.
LEMMA FlattenDefined ==
    ASSUME NEW ss, NEW n \in Nat
    PROVE  \E g : Flattens(ss, n, g)
<1> DEFINE T == {k \in Nat : \E g : Flattens(ss, k, g)}
<1>1. 0 \in T
  <2> DEFINE g == [i \in 1..0 |-> ss[i]]
  <2>1. g = [i \in 1..0 |-> IF i = 1 THEN ss[i] ELSE g[i - 1] \o ss[i]]
    OBVIOUS
  <2>2. Flattens(ss, 0, g)
    BY <2>1 DEF Flattens
  <2> QED BY <2>2
<1>2. ASSUME NEW k \in Nat, k \in T PROVE k + 1 \in T
  <2>1. PICK g : Flattens(ss, k, g)
    BY <1>2
  <2> DEFINE h == [i \in 1..(k + 1) |-> IF i = 1 THEN ss[i] ELSE g[i - 1] \o ss[i]]
  <2>2. ASSUME NEW i \in 1..(k + 1), i # 1 PROVE h[i - 1] = g[i - 1]
    <3>1. i - 1 \in 1..k /\ i - 1 \in 1..(k + 1)
      BY <2>2
    <3>2. g[i - 1] = IF i - 1 = 1 THEN ss[i - 1] ELSE g[(i - 1) - 1] \o ss[i - 1]
      BY <2>1, <3>1 DEF Flattens
    <3> QED BY <3>1, <3>2
  <2>3. Flattens(ss, k + 1, h)
    BY <2>2 DEF Flattens
  <2> HIDE DEF h
  <2> QED BY <2>3
<1> HIDE DEF T
<1>3. n \in T
  BY <1>1, <1>2, NatSet
<1> QED BY <1>3 DEF T

\* FlattenSeq appends one sequence after another.
LEMMA FlattenIs ==
    ASSUME NEW ss, Len(ss) \in Nat, Len(ss) # 0
    PROVE  \E g : /\ FlattenSeq(ss) = g[Len(ss)]
                  /\ \A i \in 1..Len(ss) : g[i] = IF i = 1 THEN ss[i] ELSE g[i - 1] \o ss[i]
<1> DEFINE g[i \in 1..Len(ss)] == IF i = 1 THEN ss[i] ELSE g[i - 1] \o ss[i]
<1>1. FlattenSeq(ss) = g[Len(ss)]
  BY DEF FlattenSeq
<1>2. g = [i \in 1..Len(ss) |-> IF i = 1 THEN ss[i] ELSE g[i - 1] \o ss[i]]
  BY FlattenDefined DEF Flattens
<1> HIDE DEF g
<1>3. ASSUME NEW i \in 1..Len(ss) PROVE g[i] = IF i = 1 THEN ss[i] ELSE g[i - 1] \o ss[i]
  BY <1>2
<1> QED BY <1>1, <1>3

\* The elements of two sequences, one after the other.
LEMMA Joined ==
    ASSUME NEW A, NEW s \in Seq(A), NEW t \in Seq(A)
    PROVE  /\ s \o t \in Seq(A)
           /\ \A a : a \in ToSet(s \o t) <=> (a \in ToSet(s) \/ a \in ToSet(t))
<1>1. s \o t \in Seq(A) /\ Len(s \o t) = Len(s) + Len(t)
  OBVIOUS
<1>2. ASSUME NEW i \in 1..Len(s) PROVE i \in 1..Len(s \o t) /\ (s \o t)[i] = s[i]
  OBVIOUS
<1>3. ASSUME NEW i \in 1..Len(t)
      PROVE  Len(s) + i \in 1..Len(s \o t) /\ (s \o t)[Len(s) + i] = t[i]
  OBVIOUS
<1>4. ASSUME NEW i \in 1..Len(s \o t)
      PROVE  i \in 1..Len(s) \/ \E j \in 1..Len(t) : i = Len(s) + j
  <2>1. i \in 1..Len(s) \/ i - Len(s) \in 1..Len(t)
    BY <1>1
  <2> QED BY <2>1
<1>8. ASSUME NEW a \in ToSet(s) PROVE a \in ToSet(s \o t)
  <2>1. PICK i \in 1..Len(s) : a = s[i]
    BY DEF ToSet
  <2> QED BY <1>1, <1>2, <2>1 DEF ToSet
<1>9. ASSUME NEW a \in ToSet(t) PROVE a \in ToSet(s \o t)
  <2>1. PICK i \in 1..Len(t) : a = t[i]
    BY DEF ToSet
  <2>2. Len(s) + i \in DOMAIN (s \o t) /\ (s \o t)[Len(s) + i] = a
    BY <1>1, <1>3, <2>1
  <2> QED BY <2>2 DEF ToSet
<1>5. ToSet(s) \subseteq ToSet(s \o t) /\ ToSet(t) \subseteq ToSet(s \o t)
  BY <1>8, <1>9
<1>6. ASSUME NEW i \in 1..Len(s \o t) PROVE (s \o t)[i] \in ToSet(s) \cup ToSet(t)
  BY <1>2, <1>3, <1>4 DEF ToSet
<1>7. ToSet(s \o t) \subseteq ToSet(s) \cup ToSet(t)
  BY <1>1, <1>6 DEF ToSet
<1> QED BY <1>1, <1>5, <1>7

\* q has the elements of the first k sequences of ss.
FlatTo(ss, k, q) == \A a : a \in ToSet(q) <=> \E i \in 1..k : a \in ToSet(ss[i])

\* All sequences of ss are over A.
LEMMA Flat ==
    ASSUME NEW A, NEW ss \in Seq(Seq(A))
    PROVE  /\ FlattenSeq(ss) \in Seq(A)
           /\ \A a : a \in ToSet(FlattenSeq(ss)) <=> \E i \in DOMAIN ss : a \in ToSet(ss[i])
<1> Len(ss) \in Nat /\ DOMAIN ss = 1..Len(ss)
  OBVIOUS
<1>1. CASE Len(ss) = 0
  BY <1>1 DEF FlattenSeq, ToSet
<1>2. CASE Len(ss) # 0
  <2>1. PICK g : /\ FlattenSeq(ss) = g[Len(ss)]
                 /\ \A i \in 1..Len(ss) : g[i] = IF i = 1 THEN ss[i] ELSE g[i - 1] \o ss[i]
    BY <1>2, FlattenIs
  <2> DEFINE T == {k \in Nat : k # 0 /\ k <= Len(ss) => g[k] \in Seq(A) /\ FlatTo(ss, k, g[k])}
  <2>2. 0 \in T
    OBVIOUS
  <2>3. ASSUME NEW k \in Nat, k \in T PROVE k + 1 \in T
    <3>1. CASE k + 1 > Len(ss)
      BY <3>1
    <3>2. CASE k = 0
      <4>1. g[1] = ss[1] /\ ss[1] \in Seq(A)
        BY <1>2, <2>1
      <4>2. FlatTo(ss, 1, g[1])
        BY <4>1 DEF FlatTo
      <4> QED BY <3>2, <4>1, <4>2
    <3>3. CASE k # 0 /\ k + 1 <= Len(ss)
      <4>1. g[k] \in Seq(A) /\ FlatTo(ss, k, g[k])
        BY <2>3, <3>3
      <4>2. k + 1 \in 1..Len(ss) /\ (k + 1) - 1 = k /\ k + 1 # 1
        BY <3>3
      <4>7. g[k + 1] = IF k + 1 = 1 THEN ss[k + 1] ELSE g[(k + 1) - 1] \o ss[k + 1]
        BY <2>1, <4>2
      <4>8. ss[k + 1] \in Seq(A)
        BY <4>2
      <4>3. g[k + 1] = g[k] \o ss[k + 1] /\ ss[k + 1] \in Seq(A)
        BY <4>2, <4>7, <4>8
      <4>4. /\ g[k + 1] \in Seq(A)
            /\ \A a : a \in ToSet(g[k + 1]) <=> (a \in ToSet(g[k]) \/ a \in ToSet(ss[k + 1]))
        BY <4>1, <4>3, Joined
      <4>5. \A i : i \in 1..(k + 1) <=> (i \in 1..k \/ i = k + 1)
        OBVIOUS
      <4>6. FlatTo(ss, k + 1, g[k + 1])
        BY <4>1, <4>4, <4>5 DEF FlatTo
      <4> QED BY <4>4, <4>6
    <3> QED BY <3>1, <3>2, <3>3
  <2> HIDE DEF T
  <2>4. Len(ss) \in T
    BY <2>2, <2>3, NatSet
  <2>5. g[Len(ss)] \in Seq(A) /\ FlatTo(ss, Len(ss), g[Len(ss)])
    BY <1>2, <2>4 DEF T
  <2> QED BY <2>1, <2>5 DEF FlatTo
<1> QED BY <1>1, <1>2

\* g[s] is the sum of f over s, for each s in D.
Sums(f, D, g) == g = [s \in D |-> IF s = {} THEN 0 ELSE f[Some(s)] + g[s \ {Some(s)}]]
Small(S, n) == {s \in SUBSET S : Cardinality(s) <= n}

\* A set without one of its elements.
LEMMA Fewer ==
    ASSUME NEW S, IsFiniteSet(S), S # {}
    PROVE  /\ Some(S) \in S
           /\ \A x \in S : /\ IsFiniteSet(S \ {x}) /\ Cardinality(S \ {x}) \in Nat
                           /\ Cardinality(S) = Cardinality(S \ {x}) + 1
<1>1. Some(S) \in S
  BY DEF Some
<1>2. ASSUME NEW x \in S
      PROVE  /\ IsFiniteSet(S \ {x}) /\ Cardinality(S \ {x}) \in Nat
             /\ Cardinality(S) = Cardinality(S \ {x}) + 1
  <2>1. Cardinality(S) \in Nat /\ IsFiniteSet(S \ {x}) /\ Cardinality(S \ {x}) = Cardinality(S) - 1
    BY FS_RemoveElement, FS_CardinalityType
  <2>2. Cardinality(S \ {x}) \in Nat
    BY <2>1, FS_CardinalityType
  <2> QED BY <2>1, <2>2
<1> QED BY <1>1, <1>2

\* The function exists that a sum is defined by.
LEMMA SumDefined ==
    ASSUME NEW f, NEW S, IsFiniteSet(S)
    PROVE  \E g : Sums(f, SUBSET S, g)
<1> DEFINE T == {k \in Nat : \E g : Sums(f, Small(S, k), g)}
<1>0. \A s \in SUBSET S : IsFiniteSet(s) /\ Cardinality(s) \in Nat /\ Cardinality(s) <= Cardinality(S)
  BY FS_Subset, FS_CardinalityType
<1>1. 0 \in T
  <2>1. Small(S, 0) = {{}}
    BY <1>0, FS_EmptySet DEF Small
  <2> DEFINE g == [s \in {{}} |-> 0]
  <2>2. Sums(f, Small(S, 0), g)
    BY <2>1 DEF Sums
  <2> HIDE DEF g
  <2> QED BY <2>2
<1>2. ASSUME NEW k \in Nat, k \in T PROVE k + 1 \in T
  <2>1. PICK g : Sums(f, Small(S, k), g)
    BY <1>2
  <2> DEFINE h == [s \in Small(S, k + 1) |-> IF s = {} THEN 0 ELSE f[Some(s)] + g[s \ {Some(s)}]]
  <2>2. ASSUME NEW s \in Small(S, k + 1), s # {} PROVE h[s \ {Some(s)}] = g[s \ {Some(s)}]
    <3>1. s \ {Some(s)} \in Small(S, k) /\ s \ {Some(s)} \in Small(S, k + 1)
      BY <1>0, <2>2, Fewer DEF Small
    <3>2. ASSUME NEW t \in Small(S, k), t \in Small(S, k + 1) PROVE h[t] = g[t]
      BY <2>1, <3>2 DEF Sums
    <3> QED BY <3>1, <3>2
  <2>3. Sums(f, Small(S, k + 1), h)
    BY <2>2 DEF Sums
  <2> HIDE DEF h
  <2> QED BY <2>3
<1> HIDE DEF T
<1>3. Cardinality(S) \in T
  BY <1>0, <1>1, <1>2, NatSet
<1>4. Small(S, Cardinality(S)) = SUBSET S
  BY <1>0 DEF Small
<1> QED BY <1>3, <1>4 DEF T

\* A sum is a value of that function.
LEMMA SumIs ==
    ASSUME NEW f, NEW S, IsFiniteSet(S)
    PROVE  \E g : SumOf(f, S) = g[S] /\ Sums(f, SUBSET S, g)
<1> DEFINE g[s \in SUBSET S] ==
      IF s = {} THEN 0
      ELSE LET x == CHOOSE x \in s : TRUE IN f[x] + g[s \ {x}]
<1>1. SumOf(f, S) = g[S]
  BY Zenon DEF SumOf, FoldFunctionOnSet, MapThenFoldSet
<1>2. \E h : h = [s \in SUBSET S |-> IF s = {} THEN 0
                    ELSE LET x == CHOOSE x \in s : TRUE IN f[x] + h[s \ {x}]]
  <2>1. PICK h : Sums(f, SUBSET S, h)
    BY SumDefined
  <2>2. h = [s \in SUBSET S |-> IF s = {} THEN 0
               ELSE LET x == CHOOSE x \in s : TRUE IN f[x] + h[s \ {x}]]
    BY <2>1 DEF Sums, Some
  <2> QED BY <2>2
<1>3. g = [s \in SUBSET S |-> IF s = {} THEN 0
                    ELSE LET x == CHOOSE x \in s : TRUE IN f[x] + g[s \ {x}]]
  BY <1>2
<1> HIDE DEF g
<1>4. Sums(f, SUBSET S, g)
  BY <1>3 DEF Sums, Some
<1> QED BY <1>1, <1>4

\* Functions for a set and for a subset agree on the subset.
LEMMA SumsAgree ==
    ASSUME NEW f, NEW S, IsFiniteSet(S), NEW T \in SUBSET S, NEW g, NEW h,
           Sums(f, SUBSET S, g), Sums(f, SUBSET T, h)
    PROVE  g[T] = h[T]
<1> DEFINE N == {k \in Nat : \A s \in SUBSET T : Cardinality(s) = k => g[s] = h[s]}
<1>0. \A s \in SUBSET T : IsFiniteSet(s) /\ Cardinality(s) \in Nat
  BY FS_Subset, FS_CardinalityType
<1>1. 0 \in N
  <2>1. ASSUME NEW s \in SUBSET T, Cardinality(s) = 0 PROVE g[s] = h[s]
    <3>1. s = {}
      BY <1>0, <2>1, FS_EmptySet
    <3> QED BY <3>1 DEF Sums
  <2> QED BY <2>1
<1>2. ASSUME NEW k \in Nat, k \in N PROVE k + 1 \in N
  <2>1. ASSUME NEW s \in SUBSET T, Cardinality(s) = k + 1 PROVE g[s] = h[s]
    <3>1. s # {}
      BY <2>1, FS_EmptySet
    <3>2. Some(s) \in s /\ Cardinality(s \ {Some(s)}) = k
      BY <1>0, <2>1, <3>1, Fewer
    <3>3. s \ {Some(s)} \in SUBSET T /\ g[s \ {Some(s)}] = h[s \ {Some(s)}]
      BY <1>2, <3>2
    <3>4. g[s] = f[Some(s)] + g[s \ {Some(s)}]
      BY <3>1 DEF Sums
    <3>5. h[s] = f[Some(s)] + h[s \ {Some(s)}]
      BY <3>1 DEF Sums
    <3> QED BY <3>3, <3>4, <3>5
  <2> QED BY <2>1
<1> HIDE DEF N
<1>3. Cardinality(T) \in N
  BY <1>0, <1>1, <1>2, NatSet
<1> QED BY <1>3 DEF N

\* A sum adds one element, which CHOOSE names, to the sum of the others.
LEMMA SumUnfolds ==
    ASSUME NEW f, NEW S, IsFiniteSet(S)
    PROVE  SumOf(f, S) = IF S = {} THEN 0 ELSE f[Some(S)] + SumOf(f, S \ {Some(S)})
<1>1. PICK g : SumOf(f, S) = g[S] /\ Sums(f, SUBSET S, g)
  BY SumIs
<1>2. CASE S = {}
  BY <1>1, <1>2 DEF Sums
<1>3. CASE S # {}
  <2> DEFINE T == S \ {Some(S)}
  <2>1. IsFiniteSet(T) /\ T \in SUBSET S
    BY <1>3, Fewer
  <2>2. PICK h : SumOf(f, T) = h[T] /\ Sums(f, SUBSET T, h)
    BY <2>1, SumIs
  <2>3. g[T] = h[T]
    BY <1>1, <2>1, <2>2, SumsAgree
  <2>4. g[S] = f[Some(S)] + g[T]
    BY <1>1, <1>3 DEF Sums
  <2> QED BY <1>1, <1>3, <2>2, <2>3, <2>4
<1> QED BY <1>2, <1>3

\* What passes from the sets with an element less to a set is so for every subset.
LEMMA SetInduct ==
    ASSUME NEW D, IsFiniteSet(D), NEW P, {} \in P,
           \A s \in SUBSET D : s # {} /\ (\A x \in s : s \ {x} \in P) => s \in P
    PROVE  D \in P
<1> DEFINE N == {k \in Nat : \A s \in SUBSET D : Cardinality(s) = k => s \in P}
<1>0. \A s \in SUBSET D : IsFiniteSet(s) /\ Cardinality(s) \in Nat
  BY FS_Subset, FS_CardinalityType
<1>1. 0 \in N
  BY <1>0, FS_EmptySet
<1>2. ASSUME NEW k \in Nat, k \in N PROVE k + 1 \in N
  <2>1. ASSUME NEW s \in SUBSET D, Cardinality(s) = k + 1 PROVE s \in P
    <3>1. s # {}
      <4>1. Cardinality({}) = 0
        BY FS_EmptySet
      <4> QED BY <2>1, <4>1
    <3>2. ASSUME NEW x \in s PROVE s \ {x} \in P
      <4>1. Cardinality(s \ {x}) = k
        BY <1>0, <2>1, Fewer
      <4> QED BY <1>2, <4>1
    <3> QED BY <3>1, <3>2
  <2> QED BY <2>1
<1> HIDE DEF N
<1>3. Cardinality(D) \in N
  BY <1>0, <1>1, <1>2, NatSet
<1> QED BY <1>3 DEF N

\* The sum of nothing is 0.
LEMMA SumNone ==
    ASSUME NEW f
    PROVE  SumOf(f, {}) = 0
<1>1. IsFiniteSet({})
  BY FS_EmptySet
<1> QED BY <1>1, SumUnfolds

\* A sum of integers is one.
LEMMA SumInt ==
    ASSUME NEW S, IsFiniteSet(S), NEW f, \A x \in S : f[x] \in Int
    PROVE  SumOf(f, S) \in Int
<1> DEFINE P == {s \in SUBSET S : SumOf(f, s) \in Int}
<1>1. {} \in P
  BY SumNone
<1>2. ASSUME NEW s \in SUBSET S, s # {}, \A x \in s : s \ {x} \in P PROVE s \in P
  <2>1. IsFiniteSet(s) /\ Some(s) \in s
    BY <1>2, FS_Subset, Fewer
  <2>2. SumOf(f, s) = f[Some(s)] + SumOf(f, s \ {Some(s)})
    BY <1>2, <2>1, SumUnfolds
  <2> QED BY <1>2, <2>1, <2>2
<1> HIDE DEF P
<1>3. S \in P
  BY <1>1, <1>2, SetInduct
<1> QED BY <1>3 DEF P

\* A sum depends on what is summed up only.
LEMMA SumSame ==
    ASSUME NEW S, IsFiniteSet(S), NEW f, NEW g, \A x \in S : f[x] = g[x]
    PROVE  SumOf(f, S) = SumOf(g, S)
<1> DEFINE P == {s \in SUBSET S : SumOf(f, s) = SumOf(g, s)}
<1>1. {} \in P
  BY SumNone
<1>2. ASSUME NEW s \in SUBSET S, s # {}, \A x \in s : s \ {x} \in P PROVE s \in P
  <2>1. IsFiniteSet(s) /\ Some(s) \in s
    BY <1>2, FS_Subset, Fewer
  <2>2. SumOf(f, s) = f[Some(s)] + SumOf(f, s \ {Some(s)})
    BY <1>2, <2>1, SumUnfolds
  <2>3. SumOf(g, s) = g[Some(s)] + SumOf(g, s \ {Some(s)})
    BY <1>2, <2>1, SumUnfolds
  <2> QED BY <1>2, <2>1, <2>2, <2>3
<1> HIDE DEF P
<1>3. S \in P
  BY <1>1, <1>2, SetInduct
<1> QED BY <1>3 DEF P

\* A sum adds any of its elements to the sum of the others: the order does not matter.
LEMMA SumStep ==
    ASSUME NEW S, IsFiniteSet(S), NEW f, \A x \in S : f[x] \in Int, NEW x \in S
    PROVE  SumOf(f, S) = f[x] + SumOf(f, S \ {x})
<1> DEFINE Total(s) == \A y \in s : SumOf(f, s) = f[y] + SumOf(f, s \ {y})
           P == {s \in SUBSET S : Total(s)}
<1>1. {} \in P
  OBVIOUS
<1>2. ASSUME NEW s \in SUBSET S, s # {}, \A y \in s : s \ {y} \in P PROVE s \in P
  <2>1. IsFiniteSet(s) /\ Some(s) \in s
    BY <1>2, FS_Subset, Fewer
  <2> DEFINE z == Some(s)
  <2>2. SumOf(f, s) = f[z] + SumOf(f, s \ {z})
    BY <1>2, <2>1, SumUnfolds
  <2> HIDE DEF z
  <2>3. ASSUME NEW y \in s, y # z PROVE SumOf(f, s) = f[y] + SumOf(f, s \ {y})
    <3>1. SumOf(f, s \ {z}) = f[y] + SumOf(f, (s \ {z}) \ {y})
      BY <1>2, <2>1, <2>3 DEF z
    <3>2. SumOf(f, s \ {y}) = f[z] + SumOf(f, (s \ {y}) \ {z})
      BY <1>2, <2>1, <2>3 DEF z
    <3>3. (s \ {y}) \ {z} = (s \ {z}) \ {y}
      OBVIOUS
    <3>4. IsFiniteSet((s \ {z}) \ {y})
      BY <2>1, FS_Subset
    <3>5. SumOf(f, (s \ {z}) \ {y}) \in Int /\ f[y] \in Int /\ f[z] \in Int
      BY <2>1, <3>4, SumInt DEF z
    <3> DEFINE rest == SumOf(f, (s \ {z}) \ {y})
               fy == f[y]
               fz == f[z]
    <3>6. SumOf(f, s) = fz + (fy + rest) /\ SumOf(f, s \ {y}) = fz + rest
      BY <2>2, <3>1, <3>2, <3>3
    <3>7. rest \in Int /\ fy \in Int /\ fz \in Int
      BY <3>5
    <3> HIDE DEF rest, fz
    <3> QED BY <3>6, <3>7
  <2> QED BY <2>2, <2>3
<1> HIDE DEF P
<1>3. S \in P
  BY <1>1, <1>2, SetInduct
<1> QED BY <1>3 DEF P

\* The sums over the classes of h, summed up, are the sum.
\* What h puts together under id, and the sum of each such class.
Class(h, S, id) == {n \in S : h[n] = id}
BySum(f, h, S) == [id \in {h[n] : n \in S} |-> SumOf(f, Class(h, S, id))]
\* A sum is the sum of the sums of its classes.
LEMMA SumClasses ==
    ASSUME NEW S, IsFiniteSet(S), NEW f, \A x \in S : f[x] \in Int, NEW h
    PROVE  SumOf(BySum(f, h, S), {h[n] : n \in S}) = SumOf(f, S)
<1> DEFINE Right(s) == SumOf(BySum(f, h, s), {h[n] : n \in s}) = SumOf(f, s)
           P == {s \in SUBSET S : Right(s)}
<1>0. \A s \in SUBSET S : IsFiniteSet(s) /\ IsFiniteSet({h[n] : n \in s})
  <2>1. ASSUME NEW s \in SUBSET S PROVE IsFiniteSet(s) /\ IsFiniteSet({h[n] : n \in s})
    <3>1. IsFiniteSet(s)
      BY FS_Subset
    <3> DEFINE g == [n \in s |-> h[n]]
               I == {h[n] : n \in s}
    <3>2. g \in Surjection(s, I)
      BY DEF Surjection
    <3>3. IsFiniteSet(I)
      BY <3>1, <3>2, FS_Surjection
    <3> QED BY <3>1, <3>3
  <2> QED BY <2>1
<1>1. {} \in P
  <2>1. {h[n] : n \in {}} = {}
    OBVIOUS
  <2> QED BY <2>1, SumNone
<1>2. ASSUME NEW s \in SUBSET S, s # {}, \A y \in s : s \ {y} \in P PROVE s \in P
  <2> PICK x \in s : TRUE
    BY <1>2
  <2> DEFINE t == s \ {x}
             a == h[x]
             new == BySum(f, h, s)
             old == BySum(f, h, t)
             Dom == {h[n] : n \in s}
             OldDom == {h[n] : n \in t}
  <2>1. t \in SUBSET S /\ SumOf(old, OldDom) = SumOf(f, t)
    BY <1>2
  <2>2. Dom = OldDom \cup {a}
    OBVIOUS
  <2>3. SumOf(f, s) = f[x] + SumOf(f, t)
    BY <1>0, SumStep
  <2>4. \A id \in Dom : new[id] = SumOf(f, Class(h, s, id))
    BY DEF BySum
  <2>5. \A id \in OldDom : old[id] = SumOf(f, Class(h, t, id))
    BY DEF BySum
  <2>6. \A id : Class(h, s, id) \in SUBSET S /\ Class(h, t, id) \in SUBSET S
    BY DEF Class
  <2>7. \A id \in Dom : new[id] \in Int
    BY <1>0, <2>4, <2>6, SumInt
  <2>8. \A id \in OldDom : old[id] \in Int
    BY <1>0, <2>5, <2>6, SumInt
  <2>9. new[a] = f[x] + SumOf(f, Class(h, t, a))
    <3>1. x \in Class(h, s, a) /\ Class(h, s, a) \ {x} = Class(h, t, a)
      BY DEF Class
    <3>2. SumOf(f, Class(h, s, a)) = f[x] + SumOf(f, Class(h, s, a) \ {x})
      BY <1>0, <2>6, <3>1, SumStep
    <3> QED BY <2>4, <3>1, <3>2
  <2>10. \A id \in Dom \ {a} : id \in OldDom /\ new[id] = old[id]
    <3>1. ASSUME NEW id \in Dom \ {a} PROVE Class(h, s, id) = Class(h, t, id)
      BY DEF Class
    <3> QED BY <2>2, <2>4, <2>5, <3>1
  <2>11. SumOf(new, Dom) = new[a] + SumOf(new, Dom \ {a})
    BY <1>0, <2>7, SumStep
  <2>12. IsFiniteSet(Dom \ {a}) /\ IsFiniteSet(OldDom)
    BY <1>0, <2>1, FS_Subset
  <2>13. SumOf(new, Dom \ {a}) = SumOf(old, Dom \ {a})
    BY <2>10, <2>12, SumSame
  <2>14. f[x] \in Int /\ SumOf(f, Class(h, t, a)) \in Int /\ SumOf(old, Dom \ {a}) \in Int
    BY <1>0, <2>6, <2>8, <2>10, <2>12, SumInt
  <2> HIDE DEF new, old, Dom, OldDom, t
  <2>15. CASE a \in OldDom
    <3>1. SumOf(old, OldDom) = old[a] + SumOf(old, OldDom \ {a})
      BY <2>8, <2>12, <2>15, SumStep
    <3>2. OldDom \ {a} = Dom \ {a}
      BY <2>2
    <3> DEFINE fx == f[x]
               c == SumOf(f, Class(h, t, a))
               rest == SumOf(old, Dom \ {a})
    <3>3. old[a] = c
      BY <2>5, <2>15
    <3>5. SumOf(f, t) = c + rest
      BY <2>1, <3>1, <3>2, <3>3
    <3>6. SumOf(new, Dom) = (fx + c) + rest
      BY <2>9, <2>11, <2>13
    <3>7. fx \in Int /\ c \in Int /\ rest \in Int /\ SumOf(f, s) = fx + SumOf(f, t)
      BY <2>3, <2>14
    <3> HIDE DEF fx, c, rest
    <3>4. SumOf(new, Dom) = SumOf(f, s)
      BY <3>5, <3>6, <3>7
    <3> QED BY <3>4 DEF new, Dom
  <2>16. CASE a \notin OldDom
    <3>1. Class(h, t, a) = {}
      BY <2>16 DEF Class, OldDom
    <3>2. SumOf(f, {}) = 0
      BY SumNone
    <3>3. OldDom = Dom \ {a}
      BY <2>2, <2>16
    <3>4. SumOf(new, Dom) = SumOf(f, s)
      BY <2>1, <2>3, <2>9, <2>11, <2>13, <2>14, <3>1, <3>2, <3>3
    <3> QED BY <3>4 DEF new, Dom
  <2> QED BY <2>15, <2>16
<1> HIDE DEF P
<1>3. S \in P
  BY <1>1, <1>2, SetInduct
<1> QED BY <1>3 DEF P

\* Names of items and tags; the items of a slot with their projects; what is read, and what
\* is made of it, for slots out of D.
Texts == STRING \cup {"", Hashed}
Pairs == Texts \X STRING
Ingredients(D) ==
    [name : Texts, slot : D, count : Int, input : BOOLEAN, isTag : BOOLEAN]
Resolved(D) == [slot : D, input : BOOLEAN, count : Int, tag : Texts, items : Seq(Pairs)]

\* An ingredient is stored unless its tag is not known.
IsStored(g) == ~ g.isTag \/ g.name \in DOMAIN TagItems

\* A row has an item or a tag that is known.
Known(g) == IF g.isTag THEN g.name \in DOMAIN TagItems ELSE g.name \in DOMAIN Sources

\* What Only keeps.
LEMMA OnlyThose ==
    ASSUME NEW A, NEW s \in Seq(A), NEW I \in SUBSET DOMAIN s
    PROVE  /\ Only(s, I) \in Seq(A)
           /\ \A a : a \in ToSet(Only(s, I)) <=> \E i \in I : a = s[i]
<1> DEFINE ss == [i \in DOMAIN s |-> IF i \in I THEN <<s[i]>> ELSE <<>>]
<1>1. ss \in Seq(Seq(A)) /\ DOMAIN ss = DOMAIN s
  <2>1. \A i \in DOMAIN s : ss[i] \in Seq(A)
    OBVIOUS
  <2>2. DOMAIN s = 1..Len(s) /\ Len(s) \in Nat
    OBVIOUS
  <2> HIDE DEF ss
  <2>3. ss \in [1..Len(s) -> Seq(A)]
    BY <2>1, <2>2 DEF ss
  <2> QED BY <2>2, <2>3
<1>2. \A i \in DOMAIN s : \A a : a \in ToSet(ss[i]) <=> (i \in I /\ a = s[i])
  BY DEF ToSet
<1>3. Only(s, I) = FlattenSeq(ss)
  BY DEF Only
<1> HIDE DEF ss
<1>4. /\ FlattenSeq(ss) \in Seq(A)
      /\ \A a : a \in ToSet(FlattenSeq(ss)) <=> \E i \in DOMAIN ss : a \in ToSet(ss[i])
  BY <1>1, Flat
<1> QED BY <1>1, <1>2, <1>3, <1>4

\* What is stored of a recipe, if it is.
LEMMA Stored ==
    ASSUME NEW D, NEW gs \in Seq(Ingredients(D)), NEW stored \in addRecipe(gs)
    PROVE  /\ stored \in Seq(Ingredients(D))
           /\ \A g : g \in ToSet(stored) <=> (g \in ToSet(gs) /\ IsStored(g))
<1> DEFINE I == {i \in DOMAIN gs : ~ gs[i].isTag}
           J == {i \in DOMAIN gs : gs[i].isTag /\ gs[i].name \in DOMAIN TagItems}
<1>1. stored = ItemRows(gs) \o TagRows(gs) /\ ItemRows(gs) = Only(gs, I) /\ TagRows(gs) = Only(gs, J)
  BY DEF addRecipe, ItemRows, TagRows
<1>2. /\ Only(gs, I) \in Seq(Ingredients(D))
      /\ \A g : g \in ToSet(Only(gs, I)) <=> \E i \in I : g = gs[i]
  BY OnlyThose
<1>3. /\ Only(gs, J) \in Seq(Ingredients(D))
      /\ \A g : g \in ToSet(Only(gs, J)) <=> \E i \in J : g = gs[i]
  BY OnlyThose
<1>4. /\ stored \in Seq(Ingredients(D))
      /\ \A g : g \in ToSet(stored) <=> (g \in ToSet(Only(gs, I)) \/ g \in ToSet(Only(gs, J)))
  BY <1>1, <1>2, <1>3, Joined
<1>5. \A g : g \in ToSet(gs) <=> \E i \in DOMAIN gs : g = gs[i]
  BY DEF ToSet
<1>6. ASSUME NEW g \in ToSet(stored)
      PROVE  g \in ToSet(gs) /\ IsStored(g)
  <2>1. (\E i \in I : g = gs[i]) \/ \E i \in J : g = gs[i]
    BY <1>2, <1>3, <1>4
  <2> QED BY <1>5, <2>1 DEF IsStored
<1>7. ASSUME NEW g \in ToSet(gs), IsStored(g)
      PROVE  g \in ToSet(stored)
  <2>1. PICK i \in DOMAIN gs : g = gs[i]
    BY <1>5
  <2>2. i \in I \/ i \in J
    BY <1>7, <2>1 DEF IsStored
  <2> QED BY <1>2, <1>3, <1>4, <2>1, <2>2
<1> QED BY <1>4, <1>6, <1>7

\* The items of a row, and those an alternative names.
LEMMA Resolution ==
    ASSUME NEW D, NEW g \in Ingredients(D), Known(g)
    PROVE  /\ resolveIngredient(g) \in Resolved(D)
           /\ resolveIngredient(g).slot = g.slot
           /\ resolveIngredient(g).input = g.input
           /\ resolveIngredient(g).count = g.count
           /\ \A x : x \in ToSet(resolveIngredient(g).items) <=>
                 IF g.isTag THEN x \in ToSet(TagItems[g.name])
                 ELSE \E p \in ToSet(Sources[g.name]) : x = <<g.name, p>>
<1> DEFINE items == IF g.isTag THEN TagItems[g.name]
                    ELSE [i \in DOMAIN Sources[g.name] |-> <<g.name, Sources[g.name][i]>>]
           r == resolveIngredient(g)
<1>1. r = [slot |-> g.slot, input |-> g.input, count |-> g.count,
           tag |-> IF g.isTag THEN g.name ELSE "", items |-> items]
  BY DEF resolveIngredient
<1>2. CASE g.isTag
  <2>1. items = TagItems[g.name] /\ items \in Seq(Pairs)
    <3>1. TagItems[g.name] \in Seq(STRING \X STRING)
      BY <1>2, RecipesAssumption DEF Known
    <3>2. STRING \X STRING \subseteq Pairs
      BY DEF Pairs, Texts
    <3>3. items = TagItems[g.name]
      BY <1>2
    <3> QED BY <3>1, <3>2, <3>3
  <2> QED BY <1>1, <1>2, <2>1 DEF Ingredients, Resolved
<1>3. CASE ~ g.isTag
  <2> DEFINE s == Sources[g.name]
  <2>1. s \in Seq(STRING) /\ DOMAIN s = 1..Len(s) /\ Len(s) \in Nat
    BY <1>3, RecipesAssumption DEF Known
  <2>2. items = [i \in 1..Len(s) |-> <<g.name, s[i]>>]
    BY <1>3, <2>1
  <2>3. items \in Seq(Pairs) /\ DOMAIN items = DOMAIN s
    BY <2>1, <2>2 DEF Ingredients, Pairs
  <2>4. \A x : x \in ToSet(items) <=> \E p \in ToSet(s) : x = <<g.name, p>>
    <3> HIDE DEF items, s
    <3> QED BY <2>1, <2>2, <2>3 DEF ToSet
  <2>5. r.items = items /\ r \in Resolved(D) /\ r.slot = g.slot /\ r.input = g.input /\ r.count = g.count
    <3> HIDE DEF items
    <3>1. r = [slot |-> g.slot, input |-> g.input, count |-> g.count, tag |-> "", items |-> items]
      BY <1>1, <1>3
    <3>2. g.slot \in D /\ g.input \in BOOLEAN /\ g.count \in Int
      BY DEF Ingredients
    <3> HIDE DEF r
    <3>3. /\ r.items = items /\ r.slot = g.slot /\ r.input = g.input /\ r.count = g.count
          /\ r.tag = "" /\ r = [slot |-> r.slot, input |-> r.input, count |-> r.count,
                               tag |-> r.tag, items |-> r.items]
      BY <3>1
    <3>4. r.slot \in D /\ r.input \in BOOLEAN /\ r.count \in Int /\ r.tag \in Texts
          /\ r.items \in Seq(Pairs)
      <4>1. r.input \in BOOLEAN
        BY Zenon, <3>2, <3>3
      <4>2. r.tag \in Texts
        BY <3>3 DEF Texts
      <4> QED BY <2>3, <3>2, <3>3, <4>1, <4>2
    <3>5. r \in Resolved(D)
      BY <3>3, <3>4 DEF Resolved
    <3> QED BY <3>3, <3>5
  <2> QED BY <1>3, <2>4, <2>5
<1> QED BY <1>2, <1>3

\* What alternatives of a slot become.
MergedOf(merged, slots, b) ==
    /\ DOMAIN merged = {s.slot : s \in {s \in ToSet(slots) : s.input = b}}
    /\ \A n \in DOMAIN merged :
         /\ merged[n].items \in Seq(Pairs)
         /\ \A x : x \in ToSet(merged[n].items) <=>
              \E s \in ToSet(slots) : s.input = b /\ s.slot = n /\ x \in ToSet(s.items)
         /\ \E s \in ToSet(slots) : s.input = b /\ s.slot = n /\ merged[n].count = s.count

\* mergeSlots keeps all items of a slot, and the count of one of its alternatives.
LEMMA Merged ==
    ASSUME NEW D, NEW slots \in Seq(Resolved(D)), NEW b
    PROVE  MergedOf(mergeSlots(slots, b), slots, b)
<1> DEFINE I == {i \in DOMAIN slots : slots[i].input = b}
           side == Only(slots, I)
           at(n) == {i \in DOMAIN side : side[i].slot = n}
           same(n) == Only(side, at(n))
           parts(n) == [i \in DOMAIN same(n) |-> same(n)[i].items]
           merged == mergeSlots(slots, b)
<1>1. /\ side \in Seq(Resolved(D))
      /\ \A a : a \in ToSet(side) <=> \E i \in I : a = slots[i]
  BY OnlyThose
<1>2. \A a : a \in ToSet(side) <=> (a \in ToSet(slots) /\ a.input = b)
  <2>1. \A a : a \in ToSet(slots) <=> \E i \in DOMAIN slots : a = slots[i]
    BY DEF ToSet
  <2>2. ASSUME NEW a \in ToSet(side) PROVE a \in ToSet(slots) /\ a.input = b
    BY <1>1, <2>1
  <2>3. ASSUME NEW a \in ToSet(slots), a.input = b PROVE a \in ToSet(side)
    BY <1>1, <2>1, <2>3
  <2> QED BY <2>2, <2>3
<1>3. merged = [n \in {side[i].slot : i \in DOMAIN side} |->
                  [same(n)[1] EXCEPT !.items = FlattenSeq(parts(n))]]
  BY DEF mergeSlots
<1> HIDE DEF I, side, merged
<1>4. DOMAIN merged = {s.slot : s \in {s \in ToSet(slots) : s.input = b}}
  <2>1. DOMAIN merged = {s.slot : s \in ToSet(side)}
    BY <1>3 DEF ToSet
  <2> QED BY <1>2, <2>1
<1>5. ASSUME NEW n \in DOMAIN merged
      PROVE  /\ merged[n].items \in Seq(Pairs)
             /\ \A x : x \in ToSet(merged[n].items) <=>
                  \E s \in ToSet(slots) : s.input = b /\ s.slot = n /\ x \in ToSet(s.items)
             /\ \E s \in ToSet(slots) : s.input = b /\ s.slot = n /\ merged[n].count = s.count
  <2> DEFINE those == same(n)
             ps == [i \in DOMAIN those |-> those[i].items]
  <2>1. /\ those \in Seq(Resolved(D))
        /\ \A a : a \in ToSet(those) <=> \E i \in at(n) : a = side[i]
    BY <1>1, OnlyThose
  <2>2. \A a : a \in ToSet(those) <=> (a \in ToSet(slots) /\ a.input = b /\ a.slot = n)
    <3>1. \A a : a \in ToSet(side) <=> \E i \in DOMAIN side : a = side[i]
      BY DEF ToSet
    <3>2. ASSUME NEW a \in ToSet(those) PROVE a \in ToSet(side) /\ a.slot = n
      BY <2>1, <3>1
    <3>3. ASSUME NEW a \in ToSet(side), a.slot = n PROVE a \in ToSet(those)
      BY <2>1, <3>1, <3>3
    <3> QED BY <1>2, <3>2, <3>3
  <2>3. merged[n] = [those[1] EXCEPT !.items = FlattenSeq(ps)]
    BY <1>3
  <2>4. those # <<>>
    <3>1. PICK s \in ToSet(slots) : s.input = b /\ s.slot = n
      BY <1>4
    <3>2. s \in ToSet(those)
      BY <2>2, <3>1
    <3> HIDE DEF those
    <3> QED BY <3>2 DEF ToSet
  <2> HIDE DEF those
  <2>5. those[1] \in Resolved(D) /\ those[1] \in ToSet(those)
    BY <2>1, <2>4 DEF ToSet
  <2>6. ps \in Seq(Seq(Pairs)) /\ DOMAIN ps = DOMAIN those
    <3>1. DOMAIN those = 1..Len(those) /\ Len(those) \in Nat
      BY <2>1
    <3>2. \A i \in 1..Len(those) : those[i].items \in Seq(Pairs)
      <4>1. \A i \in 1..Len(those) : those[i] \in Resolved(D)
        BY <2>1
      <4>2. \A s \in Resolved(D) : s.items \in Seq(Pairs)
        BY DEF Resolved
      <4> QED BY <4>1, <4>2
    <3> QED BY <3>1, <3>2
  <2>7. /\ FlattenSeq(ps) \in Seq(Pairs)
        /\ \A x : x \in ToSet(FlattenSeq(ps)) <=> \E i \in DOMAIN ps : x \in ToSet(ps[i])
    <3> HIDE DEF ps
    <3> QED BY <2>6, Flat
  <2>8. merged[n].items = FlattenSeq(ps) /\ merged[n].count = those[1].count
    BY <2>3, <2>5 DEF Resolved
  <2>9. \A x : x \in ToSet(FlattenSeq(ps)) <=> \E s \in ToSet(those) : x \in ToSet(s.items)
    <3>1. \A i \in DOMAIN ps : ps[i] = those[i].items
      BY <2>6
    <3> HIDE DEF ps
    <3>2. ASSUME NEW x \in ToSet(FlattenSeq(ps)) PROVE \E s \in ToSet(those) : x \in ToSet(s.items)
      <4>1. PICK i \in DOMAIN those : x \in ToSet(those[i].items)
        BY <2>6, <2>7, <3>1
      <4>2. those[i] \in ToSet(those)
        BY DEF ToSet
      <4> QED BY <4>1, <4>2
    <3>3. ASSUME NEW x, NEW s \in ToSet(those), x \in ToSet(s.items) PROVE x \in ToSet(FlattenSeq(ps))
      <4>1. PICK i \in DOMAIN those : s = those[i]
        BY DEF ToSet
      <4> QED BY <2>6, <2>7, <3>1, <3>3, <4>1
    <3> QED BY <3>2, <3>3
  <2>10. \A x : x \in ToSet(merged[n].items) <=>
           \E s \in ToSet(slots) : s.input = b /\ s.slot = n /\ x \in ToSet(s.items)
    BY <2>2, <2>8, <2>9
  <2>11. \E s \in ToSet(slots) : s.input = b /\ s.slot = n /\ merged[n].count = s.count
    BY <2>2, <2>5, <2>8
  <2> QED BY <2>7, <2>8, <2>10, <2>11
<1> QED BY <1>4, <1>5 DEF merged, MergedOf

\* The counts of a side are summed up once, under whatever.
LEMMA Summed ==
    ASSUME NEW merged,
           IsFiniteSet({n \in DOMAIN merged : merged[n].items # <<>>}),
           \A n \in DOMAIN merged : merged[n].count \in Int
    PROVE  LET full == {n \in DOMAIN merged : merged[n].items # <<>>}
               summary == getIngredientSummary(merged)
           IN  SumOf(summary, DOMAIN summary) = SumOf([n \in full |-> merged[n].count], full)
<1> DEFINE full == {n \in DOMAIN merged : merged[n].items # <<>>}
           summary == getIngredientSummary(merged)
           count == [n \in full |-> merged[n].count]
           h == [n \in full |-> SummaryId(merged[n])]
           ids == {h[n] : n \in full}
<1>1. summary = [id \in {SummaryId(merged[n]) : n \in full} |->
                   SumOf(count, {n \in full : SummaryId(merged[n]) = id})]
  BY DEF getIngredientSummary
<1>2. ids = {SummaryId(merged[n]) : n \in full}
  OBVIOUS
<1>3. \A id : Class(h, full, id) = {n \in full : SummaryId(merged[n]) = id}
  BY DEF Class
<1>4. \A n \in full : count[n] \in Int
  OBVIOUS
<1> HIDE DEF full, summary, count, h
<1>5. summary = BySum(count, h, full)
  BY <1>1, <1>2, <1>3 DEF BySum
<1>6. IsFiniteSet(full)
  BY DEF full
<1>7. SumOf(BySum(count, h, full), ids) = SumOf(count, full)
  BY <1>4, <1>6, SumClasses
<1>8. DOMAIN summary = ids
  BY <1>1, <1>2
<1> QED BY <1>5, <1>7, <1>8 DEF summary, count, full

\* A side is shown as w says if its rows say so.
LEMMA SideIsShown ==
    ASSUME NEW D, NEW stored \in Seq(Ingredients(D)), NEW b, NEW w, NEW count,
           \A g \in ToSet(stored) : Known(g),
           IsFiniteSet(DOMAIN w),
           \A n \in DOMAIN w : count[n] \in Int,
           \A g \in ToSet(stored) : g.input = b => g.slot \in DOMAIN w /\ g.count = count[g.slot],
           \A n \in DOMAIN w : \A x :
               x \in Shown(w[n]) <=> \E g \in ToSet(stored) :
                   g.input = b /\ g.slot = n /\ x \in ToSet(resolveIngredient(g).items)
    PROVE  LET slots == [i \in DOMAIN stored |-> resolveIngredient(stored[i])]
               merged == mergeSlots(slots, b)
           IN  ShowsSide(merged, getIngredientSummary(merged), w, count)
<1> DEFINE slots == [i \in DOMAIN stored |-> resolveIngredient(stored[i])]
           merged == mergeSlots(slots, b)
           full == {n \in DOMAIN w : Shown(w[n]) # {}}
           some == {n \in DOMAIN merged : merged[n].items # <<>>}
           summary == getIngredientSummary(merged)
<1>1. \A g \in ToSet(stored) :
        /\ g \in Ingredients(D) /\ resolveIngredient(g) \in Resolved(D)
        /\ resolveIngredient(g).slot = g.slot
        /\ resolveIngredient(g).input = g.input
        /\ resolveIngredient(g).count = g.count
  <2>1. \A g \in ToSet(stored) : g \in Ingredients(D)
    BY DEF ToSet
  <2> QED BY <2>1, Resolution
<1>2. /\ slots \in Seq(Resolved(D))
      /\ \A s : s \in ToSet(slots) <=> \E g \in ToSet(stored) : s = resolveIngredient(g)
  <2>1. \A i \in DOMAIN stored : stored[i] \in ToSet(stored) /\ slots[i] = resolveIngredient(stored[i])
    BY DEF ToSet
  <2>2. DOMAIN stored = 1..Len(stored) /\ Len(stored) \in Nat /\ DOMAIN slots = DOMAIN stored
    OBVIOUS
  <2>3. \A i \in 1..Len(stored) : slots[i] \in Resolved(D)
    BY <1>1, <2>1, <2>2
  <2>4. slots \in [1..Len(stored) -> Resolved(D)]
    <3>1. slots = [i \in 1..Len(stored) |-> slots[i]]
      BY <2>2
    <3> HIDE DEF slots
    <3> QED BY <2>3, <3>1
  <2> HIDE DEF slots
  <2>5. ASSUME NEW s \in ToSet(slots) PROVE \E g \in ToSet(stored) : s = resolveIngredient(g)
    BY <2>1, <2>2 DEF ToSet
  <2>6. ASSUME NEW g \in ToSet(stored) PROVE resolveIngredient(g) \in ToSet(slots)
    <3>1. PICK i \in DOMAIN stored : g = stored[i]
      BY DEF ToSet
    <3> QED BY <2>1, <2>2, <3>1 DEF ToSet
  <2> QED BY <2>2, <2>4, <2>5, <2>6
<1> HIDE DEF slots
<1>3. MergedOf(merged, slots, b)
  BY <1>2, Merged
<1> HIDE DEF merged
<1>4. ASSUME NEW n \in DOMAIN merged
      PROVE  n \in DOMAIN w /\ merged[n].count = count[n]
  <2>1. PICK s \in ToSet(slots) : s.input = b /\ s.slot = n /\ merged[n].count = s.count
    BY <1>3 DEF MergedOf
  <2>2. PICK g \in ToSet(stored) : s = resolveIngredient(g)
    BY <1>2
  <2> QED BY <1>1, <2>1, <2>2
<1>5. ASSUME NEW n \in DOMAIN merged
      PROVE  ToSet(merged[n].items) = Shown(w[n])
  <2>1. ASSUME NEW x \in ToSet(merged[n].items) PROVE x \in Shown(w[n])
    <3>1. PICK s \in ToSet(slots) : s.input = b /\ s.slot = n /\ x \in ToSet(s.items)
      BY <1>3 DEF MergedOf
    <3>2. PICK g \in ToSet(stored) : s = resolveIngredient(g)
      BY <1>2
    <3>3. g.input = b /\ g.slot = n
      BY <1>1, <3>1, <3>2
    <3> QED BY <1>4, <3>1, <3>2, <3>3
  <2>2. ASSUME NEW x \in Shown(w[n]) PROVE x \in ToSet(merged[n].items)
    <3>1. PICK g \in ToSet(stored) : g.input = b /\ g.slot = n /\ x \in ToSet(resolveIngredient(g).items)
      BY <1>4
    <3>2. resolveIngredient(g) \in ToSet(slots)
      BY <1>2
    <3> QED BY <1>1, <1>3, <3>1, <3>2 DEF MergedOf
  <2> QED BY <2>1, <2>2
<1>6. ASSUME NEW n \in full PROVE n \in DOMAIN merged
  <2>1. PICK x : x \in Shown(w[n])
    OBVIOUS
  <2>2. PICK g \in ToSet(stored) : g.input = b /\ g.slot = n
    BY <2>1
  <2>3. resolveIngredient(g) \in ToSet(slots)
    BY <1>2
  <2> QED BY <1>1, <1>3, <2>2, <2>3 DEF MergedOf
<1>7. some = full
  <2>1. ASSUME NEW n \in DOMAIN merged PROVE merged[n].items # <<>> <=> Shown(w[n]) # {}
    <3>1. merged[n].items \in Seq(Pairs)
      BY <1>3 DEF MergedOf
    <3>2. \A s \in Seq(Pairs) : s # <<>> <=> ToSet(s) # {}
      <4>1. ASSUME NEW s \in Seq(Pairs), s # <<>> PROVE s[1] \in ToSet(s)
        <5>1. 1 \in DOMAIN s
          BY <4>1
        <5> QED BY <5>1 DEF ToSet
      <4>2. ToSet(<<>>) = {}
        BY DEF ToSet
      <4> QED BY <4>1, <4>2
    <3> QED BY <1>5, <3>1, <3>2
  <2> QED BY <1>4, <1>6, <2>1
<1>8. SumOf(summary, DOMAIN summary) = SumOf(count, full)
  <2>1. IsFiniteSet(some)
    BY <1>7, FS_Subset
  <2>2. \A n \in DOMAIN merged : merged[n].count \in Int
    BY <1>4
  <2> DEFINE c == [n \in some |-> merged[n].count]
  <2>3. SumOf(summary, DOMAIN summary) = SumOf(c, some)
    BY <2>1, <2>2, Summed
  <2>4. \A n \in some : c[n] = count[n]
    BY <1>4
  <2> HIDE DEF c, some
  <2>5. SumOf(c, some) = SumOf(count, some)
    BY <2>1, <2>4, SumSame
  <2> QED BY <1>7, <2>3, <2>5
<1>9. ShowsSide(merged, summary, w, count)
  BY <1>4, <1>5, <1>6, <1>8 DEF ShowsSide
<1> QED BY <1>9 DEF merged, slots

\* What one alternative is, and whether a list of them is refused.
IsTag(json) == json.as \in {"hash", "tag"}
RowOf(j, slot) == Ingredient(j.name, slot, 1, TRUE, IsTag(j))
Unreadable(jsons) == jsons = <<>> \/ \E i \in DOMAIN jsons : jsons[i].as = "other"

\* Alternatives are read one by one, or none of them.
LEMMA ParsedArray ==
    ASSUME NEW jsons \in Seq(Jsons), NEW slot \in Nat
    PROVE  LET parsed == parseArrayIngredient(jsons, slot)
           IN  /\ parsed \in Seq(Ingredients(Nat))
               /\ parsed = <<>> <=> Unreadable(jsons)
               /\ ~ Unreadable(jsons) =>
                    \A g : g \in ToSet(parsed) <=> \E j \in ToSet(jsons) : g = RowOf(j, slot)
<1> DEFINE parsed == parseArrayIngredient(jsons, slot)
           read(i) == RowOf(jsons[i], slot)
<1>0. DOMAIN jsons = 1..Len(jsons) /\ Len(jsons) \in Nat /\ \A i \in DOMAIN jsons : jsons[i] \in Jsons
  OBVIOUS
<1>1. CASE \E i \in DOMAIN jsons : jsons[i].as = "other"
  <2>1. parsed = <<>>
    BY <1>1 DEF parseArrayIngredient, readRecipeIngredient
  <2>2. Unreadable(jsons)
    BY <1>1 DEF Unreadable
  <2> HIDE DEF parsed
  <2>3. parsed \in Seq(Ingredients(Nat))
    BY <2>1
  <2> QED BY <2>1, <2>2, <2>3 DEF parsed
<1>2. CASE ~ \E i \in DOMAIN jsons : jsons[i].as = "other"
  <2>1. \A i \in DOMAIN jsons : readRecipeIngredient(jsons[i], slot) = {read(i)}
    BY <1>2 DEF readRecipeIngredient, RowOf, IsTag
  <2>2. \A i \in DOMAIN jsons : read(i) \in Ingredients(Nat)
    <3>1. \A i \in DOMAIN jsons : jsons[i].name \in Texts
      BY <1>0 DEF Jsons, Texts
    <3>2. \A i \in DOMAIN jsons : IsTag(jsons[i]) \in BOOLEAN
      BY DEF IsTag
    <3> QED BY <3>1, <3>2 DEF RowOf, Ingredient, Ingredients
  <2> HIDE DEF read
  <2>3. parsed = [i \in DOMAIN jsons |-> read(i)]
    <3>1. \A i \in DOMAIN jsons : (CHOOSE g \in readRecipeIngredient(jsons[i], slot) : TRUE) = read(i)
      BY <2>1
    <3>2. ~ \E i \in DOMAIN jsons : readRecipeIngredient(jsons[i], slot) = {}
      BY <2>1
    <3> QED BY <3>1, <3>2 DEF parseArrayIngredient
  <2> HIDE DEF parsed
  <2>4. parsed \in Seq(Ingredients(Nat)) /\ DOMAIN parsed = DOMAIN jsons
    BY <1>0, <2>2, <2>3
  <2>5. parsed = <<>> <=> jsons = <<>>
    BY <1>0, <2>4
  <2>6. ASSUME NEW g \in ToSet(parsed)
        PROVE  \E j \in ToSet(jsons) : g = RowOf(j, slot)
    <3>1. PICK i \in DOMAIN jsons : g = read(i)
      BY <2>3, <2>4 DEF ToSet
    <3>2. jsons[i] \in ToSet(jsons)
      BY DEF ToSet
    <3> QED BY <3>1, <3>2 DEF read
  <2>7. ASSUME NEW j \in ToSet(jsons)
        PROVE  RowOf(j, slot) \in ToSet(parsed)
    <3>1. PICK i \in DOMAIN jsons : j = jsons[i]
      BY DEF ToSet
    <3>2. parsed[i] \in ToSet(parsed)
      BY <2>4 DEF ToSet
    <3> QED BY <2>3, <3>1, <3>2 DEF read
  <2> QED BY <1>2, <2>4, <2>5, <2>6, <2>7 DEF Unreadable, parsed
<1> QED BY <1>1, <1>2

\* A recipe has the ingredients that were parsed and its result.
LEMMA Assembled ==
    ASSUME NEW parsed \in Seq(Seq(Ingredients(Nat))), NEW out \in Results,
           NEW gs \in Assemble(parsed, out)
    PROVE  /\ gs \in Seq(Ingredients(Nat))
           /\ \A g : g \in ToSet(gs) <=>
                ((\E i \in DOMAIN parsed : g \in ToSet(parsed[i])) \/ g = parseResult(out))
<1> DEFINE flattened == FlattenSeq(parsed)
           last == parseResult(out)
<1>1. gs = Append(flattened, last)
  BY DEF Assemble
<1>2. /\ flattened \in Seq(Ingredients(Nat))
      /\ \A g : g \in ToSet(flattened) <=> \E i \in DOMAIN parsed : g \in ToSet(parsed[i])
  BY Flat
<1>3. last \in Ingredients(Nat)
  <2>1. out.name \in Texts /\ out.count \in Int
    BY DEF Results, SlotJsons, Texts
  <2> QED BY <2>1 DEF parseResult, Ingredient, Ingredients
<1> HIDE DEF flattened, last
<1>4. <<last>> \in Seq(Ingredients(Nat)) /\ ToSet(<<last>>) = {last}
  BY <1>3 DEF ToSet
<1>5. Append(flattened, last) = flattened \o <<last>>
  BY <1>2, <1>3
<1> DEFINE one == <<last>>
<1>7. one \in Seq(Ingredients(Nat)) /\ ToSet(one) = {last} /\ gs = flattened \o one
  BY <1>1, <1>4, <1>5
<1> HIDE DEF one
<1>6. gs \in Seq(Ingredients(Nat)) /\ \A g : g \in ToSet(gs) <=> (g \in ToSet(flattened) \/ g = last)
  BY <1>2, <1>7, Joined
<1> QED BY <1>2, <1>6 DEF last

\* What an alternative of a crafting recipe offers is what its row has, if it is stored.
LEMMA Offered ==
    ASSUME NEW j \in Jsons, j.as # "other", NEW slot \in Nat
    PROVE  /\ RowOf(j, slot).input = TRUE /\ RowOf(j, slot).slot = slot
           /\ RowOf(j, slot).count = 1
           /\ IsStored(RowOf(j, slot)) => Known(RowOf(j, slot))
           /\ \A x : x \in Items(j) <=>
                (IsStored(RowOf(j, slot)) /\ x \in ToSet(resolveIngredient(RowOf(j, slot)).items))
<1> DEFINE g == RowOf(j, slot)
<1>1. /\ g.name = j.name /\ g.slot = slot /\ g.count = 1 /\ g.input = TRUE /\ g.isTag = IsTag(j)
      /\ g \in Ingredients(Nat)
  <2>1. j.name \in Texts
    BY DEF Jsons, Texts
  <2>2. IsTag(j) \in BOOLEAN
    BY DEF IsTag
  <2> QED BY <2>1, <2>2 DEF RowOf, Ingredient, Ingredients
<1> HIDE DEF g
<1>2. CASE IsTag(j)
  <2>1. Items(j) = IF j.name \in DOMAIN TagItems THEN ToSet(TagItems[j.name]) ELSE {}
    BY <1>2 DEF Items, IsTag
  <2>2. g.isTag /\ (Known(g) <=> g.name \in DOMAIN TagItems)
    BY <1>1, <1>2 DEF Known
  <2>3. CASE g.name \in DOMAIN TagItems
    <3>1. \A x : x \in ToSet(resolveIngredient(g).items) <=> x \in ToSet(TagItems[g.name])
      BY <1>1, <2>2, <2>3, Resolution
    <3> QED BY <1>1, <2>1, <2>2, <2>3, <3>1 DEF IsStored, g
  <2>4. CASE g.name \notin DOMAIN TagItems
    BY <1>1, <2>1, <2>2, <2>4 DEF IsStored, g
  <2> QED BY <2>3, <2>4
<1>3. CASE ~ IsTag(j)
  <2>1. Items(j) = {<<j.name, p>> : p \in ToSet(Sources[j.name])}
    BY <1>3 DEF Items, IsTag
  <2>2. ~ g.isTag /\ Known(g)
    <3>1. j.as \in {"plain", "item"}
      BY <1>3 DEF Jsons, IsTag
    <3>2. j.name \in DOMAIN Sources
      BY <3>1 DEF Jsons
    <3> QED BY <1>1, <1>3, <3>2 DEF Known
  <2>3. \A x : x \in ToSet(resolveIngredient(g).items) <=>
           \E p \in ToSet(Sources[g.name]) : x = <<g.name, p>>
    BY <1>1, <2>2, Resolution
  <2>4. \A x : x \in Items(j) <=> x \in ToSet(resolveIngredient(g).items)
    BY <1>1, <2>1, <2>3
  <2> QED BY <1>1, <2>2, <2>4 DEF IsStored, g
<1> QED BY <1>2, <1>3

\* The js are what is written in the slots, and read one after another.
Reads(f, k, js, slot) ==
    /\ \A i \in 1..k : js[i] \in Seq(Jsons) /\ slot[i] \in Nat
    /\ parseRecipe(f) = Assemble([i \in 1..k |-> parseArrayIngredient(js[i], slot[i])], f.result)
    /\ IsFiniteSet(DOMAIN Written(f))
    /\ \A i \in 1..k : slot[i] \in DOMAIN Written(f) /\ Written(f)[slot[i]] = js[i]
    /\ \A n \in DOMAIN Written(f) : \E i \in 1..k : slot[i] = n

\* A row of an alternative that is written.
Alternative(g, k, js, slot) == \E i \in 1..k : \E j \in ToSet(js[i]) : g = RowOf(j, slot[i])

\* A crafting recipe is read exactly if each of its slots can be.
LEMMA ReadIfReadable ==
    ASSUME NEW f, NEW k \in Nat, NEW js, NEW slot, Reads(f, k, js, slot)
    PROVE  (parseRecipe(f) # {}) <=> Readable(f)
<1> DEFINE parsed == [i \in 1..k |-> parseArrayIngredient(js[i], slot[i])]
<1>1. parseRecipe(f) = {} <=> <<>> \in ToSet(parsed)
  BY DEF Reads, Assemble
<1>2. <<>> \in ToSet(parsed) <=> \E i \in 1..k : parseArrayIngredient(js[i], slot[i]) = <<>>
  BY DEF ToSet
<1>3. \A i \in 1..k : parseArrayIngredient(js[i], slot[i]) = <<>> <=> Unreadable(js[i])
  BY ParsedArray DEF Reads
<1>4. Readable(f) <=> \A n \in DOMAIN Written(f) : ~ Unreadable(Written(f)[n])
  BY DEF Readable, Unreadable
<1> DEFINE w == Written(f)
<1>6. /\ \A i \in 1..k : slot[i] \in DOMAIN w /\ w[slot[i]] = js[i]
      /\ \A n \in DOMAIN w : \E i \in 1..k : slot[i] = n
  BY DEF Reads
<1> HIDE DEF w
<1>7. ASSUME \A n \in DOMAIN w : ~ Unreadable(w[n]), NEW i \in 1..k PROVE ~ Unreadable(js[i])
  BY <1>6, <1>7
<1>8. ASSUME \A i \in 1..k : ~ Unreadable(js[i]), NEW n \in DOMAIN w PROVE ~ Unreadable(w[n])
  <2>1. PICK i \in 1..k : slot[i] = n
    BY <1>6
  <2>2. w[n] = js[i]
    BY <1>6, <2>1
  <2> QED BY <1>8, <2>2
<1>5. (\A n \in DOMAIN w : ~ Unreadable(w[n])) <=> \A i \in 1..k : ~ Unreadable(js[i])
  BY <1>7, <1>8
<1> HIDE DEF parsed
<1> QED BY <1>1, <1>2, <1>3, <1>4, <1>5 DEF w

\* The rows of a crafting recipe.
LEMMA CraftingRows ==
    ASSUME NEW f, f.result \in Results, NEW k \in Nat, NEW js, NEW slot, Reads(f, k, js, slot),
           NEW gs \in parseRecipe(f), NEW stored \in addRecipe(gs)
    PROVE  /\ stored \in Seq(Ingredients(Nat))
           /\ \A i \in 1..k : \A j \in ToSet(js[i]) : j \in Jsons /\ j.as # "other"
           /\ \A g : g \in ToSet(stored) <=>
                (IsStored(g) /\ (g = parseResult(f.result) \/ Alternative(g, k, js, slot)))
<1> DEFINE parsed == [i \in 1..k |-> parseArrayIngredient(js[i], slot[i])]
<1>1. gs \in Assemble(parsed, f.result)
  BY DEF Reads
<1>2. ~ (<<>> \in ToSet(parsed))
  BY <1>1 DEF Assemble
<1>3. \A i \in 1..k : js[i] \in Seq(Jsons) /\ slot[i] \in Nat /\ ~ Unreadable(js[i])
  <2>1. ASSUME NEW i \in 1..k PROVE parseArrayIngredient(js[i], slot[i]) # <<>>
    <3>1. parsed[i] \in ToSet(parsed)
      BY DEF ToSet
    <3> QED BY <1>2, <3>1
  <2> QED BY <2>1, ParsedArray DEF Reads
<1>4. \A i \in 1..k : \A j \in ToSet(js[i]) : j \in Jsons /\ j.as # "other"
  <2>1. ASSUME NEW i \in 1..k, NEW j \in ToSet(js[i]) PROVE j \in Jsons /\ j.as # "other"
    <3>1. PICK n \in DOMAIN js[i] : j = js[i][n]
      BY DEF ToSet
    <3> QED BY <1>3, <3>1 DEF Unreadable
  <2> QED BY <2>1
<1>5. ASSUME NEW i \in 1..k
      PROVE  /\ parsed[i] \in Seq(Ingredients(Nat))
             /\ \A g : g \in ToSet(parsed[i]) <=> \E j \in ToSet(js[i]) : g = RowOf(j, slot[i])
  <2>1. js[i] \in Seq(Jsons) /\ slot[i] \in Nat /\ ~ Unreadable(js[i])
    BY <1>3
  <2>2. parsed[i] = parseArrayIngredient(js[i], slot[i])
    OBVIOUS
  <2> HIDE DEF parsed
  <2> QED BY <2>1, <2>2, ParsedArray
<1>6. parsed \in Seq(Seq(Ingredients(Nat))) /\ DOMAIN parsed = 1..k
  <2>1. DOMAIN parsed = 1..k /\ parsed = [i \in 1..k |-> parsed[i]]
    OBVIOUS
  <2> HIDE DEF parsed
  <2>2. parsed \in [1..k -> Seq(Ingredients(Nat))]
    BY <1>5, <2>1
  <2> QED BY <2>1, <2>2
<1> HIDE DEF parsed
<1>7. /\ gs \in Seq(Ingredients(Nat))
      /\ \A g : g \in ToSet(gs) <=>
           ((\E i \in DOMAIN parsed : g \in ToSet(parsed[i])) \/ g = parseResult(f.result))
  BY <1>1, <1>6, Assembled
<1>8. /\ stored \in Seq(Ingredients(Nat))
      /\ \A g : g \in ToSet(stored) <=> (g \in ToSet(gs) /\ IsStored(g))
  BY <1>7, Stored
<1>10. \A g : Alternative(g, k, js, slot) <=> \E i \in DOMAIN parsed : g \in ToSet(parsed[i])
  BY <1>5, <1>6 DEF Alternative
<1>9. \A g : g \in ToSet(gs) <=> (g = parseResult(f.result) \/ Alternative(g, k, js, slot))
  BY <1>7, <1>10
<1> QED BY <1>4, <1>8, <1>9

\* A crafting recipe is shown.
LEMMA CraftingIsShown ==
    ASSUME NEW f, f.result \in Results, f.type # "custom", NEW k \in Nat, NEW js, NEW slot,
           Reads(f, k, js, slot)
    PROVE  IsShown(f)
<1>1. ASSUME NEW gs \in parseRecipe(f), NEW stored \in addRecipe(gs)
      PROVE  LET r == resolveRecipe(stored)
             IN  /\ ShowsSide(r.inputs, r.needed, Written(f), Needed(f))
                 /\ ShowsSide(r.outputs, r.made,
                              [n \in DOMAIN Made(f) |-> Custom(Made(f)[n])], Counted(Made(f)))
  <2> DEFINE w == Written(f)
             last == parseResult(f.result)
             slots == [i \in DOMAIN stored |-> resolveIngredient(stored[i])]
             inputs == mergeSlots(slots, TRUE)
             outputs == mergeSlots(slots, FALSE)
             wm == [n \in DOMAIN Made(f) |-> Custom(Made(f)[n])]
  <2>1. /\ stored \in Seq(Ingredients(Nat))
        /\ \A i \in 1..k : \A j \in ToSet(js[i]) : j \in Jsons /\ j.as # "other"
        /\ \A g : g \in ToSet(stored) <=>
             (IsStored(g) /\ (g = last \/ Alternative(g, k, js, slot)))
    BY CraftingRows
  <2>2. /\ last.slot = 1 /\ last.input = FALSE /\ last.isTag = FALSE /\ last.name = f.result.name
        /\ last.count = f.result.count /\ f.result.count \in Int /\ f.result.hash = FALSE
        /\ f.result.name \in DOMAIN Sources /\ last \in Ingredients(Nat)
    <3>1. /\ f.result.hash = FALSE /\ f.result.count \in Int /\ f.result.name \in STRING
          /\ f.result.name \in DOMAIN Sources
      BY DEF Results, SlotJsons
    <3> QED BY <3>1 DEF parseResult, Ingredient, Ingredients, Texts
  <2>3. ASSUME NEW i \in 1..k, NEW j \in ToSet(js[i])
        PROVE  /\ RowOf(j, slot[i]).input = TRUE /\ RowOf(j, slot[i]).slot = slot[i] /\ RowOf(j, slot[i]).count = 1
               /\ IsStored(RowOf(j, slot[i])) => Known(RowOf(j, slot[i]))
               /\ \A x : x \in Items(j) <=>
                    (IsStored(RowOf(j, slot[i])) /\ x \in ToSet(resolveIngredient(RowOf(j, slot[i])).items))
    <3>1. slot[i] \in Nat /\ j \in Jsons /\ j.as # "other"
      BY <2>1 DEF Reads
    <3> QED BY <3>1, Offered
  <2>4. Known(last)
    BY <2>2 DEF Known
  <2> HIDE DEF last
  <2>9. ASSUME NEW g \in ToSet(stored)
        PROVE  \/ g = last
               \/ \E i \in 1..k : \E j \in ToSet(js[i]) : g = RowOf(j, slot[i]) /\ IsStored(g)
    BY <2>1 DEF Alternative
  <2>5. ASSUME NEW g \in ToSet(stored) PROVE Known(g)
    BY <2>3, <2>4, <2>9
  <2>6. ShowsSide(inputs, getIngredientSummary(inputs), w, Needed(f))
    <3>1. \A n \in DOMAIN w : Needed(f)[n] = 1
      BY DEF Needed
    <3>2. ASSUME NEW g \in ToSet(stored), g.input = TRUE
          PROVE  g.slot \in DOMAIN w /\ g.count = Needed(f)[g.slot]
      <4>1. PICK i \in 1..k : \E j \in ToSet(js[i]) : g = RowOf(j, slot[i])
        BY <2>2, <2>9, <3>2
      <4>2. g.slot = slot[i] /\ g.count = 1
        BY <2>3, <4>1
      <4>3. slot[i] \in DOMAIN w
        BY DEF Reads
      <4> QED BY <3>1, <4>2, <4>3
    <3>3. ASSUME NEW n \in DOMAIN w, NEW x \in Shown(w[n])
          PROVE  \E g \in ToSet(stored) :
                   g.input = TRUE /\ g.slot = n /\ x \in ToSet(resolveIngredient(g).items)
      <4>1. PICK i \in 1..k : slot[i] = n /\ w[n] = js[i]
        BY DEF Reads
      <4>2. PICK j \in ToSet(js[i]) : x \in Items(j)
        BY <4>1 DEF Shown, ToSet
      <4> DEFINE g == RowOf(j, slot[i])
      <4>3. IsStored(g) /\ x \in ToSet(resolveIngredient(g).items) /\ g.input = TRUE /\ g.slot = slot[i]
        BY <2>3, <4>2
      <4>4. Alternative(g, k, js, slot)
        BY DEF Alternative
      <4> HIDE DEF g
      <4>5. g \in ToSet(stored)
        BY <2>1, <4>3, <4>4
      <4> QED BY <4>1, <4>3, <4>5
    <3>4. ASSUME NEW n \in DOMAIN w, NEW g \in ToSet(stored), g.input = TRUE, g.slot = n,
                 NEW x \in ToSet(resolveIngredient(g).items)
          PROVE  x \in Shown(w[n])
      <4>1. PICK i \in 1..k : \E j \in ToSet(js[i]) : g = RowOf(j, slot[i]) /\ IsStored(g)
        BY <2>2, <2>9, <3>4
      <4>2. PICK j \in ToSet(js[i]) : g = RowOf(j, slot[i]) /\ IsStored(g)
        BY <4>1
      <4>3. x \in Items(j) /\ slot[i] = n
        BY <2>3, <3>4, <4>2
      <4>4. w[n] = js[i]
        BY <4>3 DEF Reads
      <4> QED BY <4>3, <4>4 DEF Shown, ToSet
    <3>5. IsFiniteSet(DOMAIN w) /\ \A n \in DOMAIN w : Needed(f)[n] \in Int
      BY <3>1 DEF Reads
    <3> HIDE DEF w, inputs, slots
    <3>6. \A n \in DOMAIN w : \A x :
            x \in Shown(w[n]) <=> \E g \in ToSet(stored) :
                g.input = TRUE /\ g.slot = n /\ x \in ToSet(resolveIngredient(g).items)
      BY <3>3, <3>4
    <3> QED BY <2>1, <2>5, <3>2, <3>5, <3>6, SideIsShown DEF inputs, slots
  <2>7. ShowsSide(outputs, getIngredientSummary(outputs), wm, Counted(Made(f)))
    <3>1. /\ Made(f) = [n \in {1} |-> f.result]
          /\ DOMAIN wm = {1} /\ wm[1] = Custom(f.result)
          /\ Counted(Made(f))[1] = f.result.count
      BY DEF Made, Counted
    <3>2. ASSUME NEW g \in ToSet(stored), g.input = FALSE
          PROVE  g = last
      BY <2>3, <2>9, <3>2
    <3>3. last \in ToSet(stored)
      BY <2>1, <2>2 DEF IsStored
    <3>4. \A x : x \in Shown(wm[1]) <=> x \in ToSet(resolveIngredient(last).items)
      <4>1. wm[1] = <<[as |-> "plain", name |-> f.result.name]>>
        BY <2>2, <3>1 DEF Custom
      <4>2. Shown(wm[1]) = Items([as |-> "plain", name |-> f.result.name])
        <5> DEFINE json == [as |-> "plain", name |-> f.result.name]
        <5>1. wm[1] = <<json>>
          BY <4>1
        <5> HIDE DEF json, wm
        <5>2. Shown(wm[1]) = Items(json)
          BY <5>1 DEF Shown
        <5> QED BY <5>2 DEF json
      <4>3. Items([as |-> "plain", name |-> f.result.name])
              = {<<f.result.name, p>> : p \in ToSet(Sources[f.result.name])}
        BY DEF Items
      <4>4. \A x : x \in ToSet(resolveIngredient(last).items) <=>
                 \E p \in ToSet(Sources[last.name]) : x = <<last.name, p>>
        BY <2>2, <2>4, Resolution
      <4> QED BY <2>2, <4>2, <4>3, <4>4
    <3>5. IsFiniteSet(DOMAIN wm) /\ \A n \in DOMAIN wm : Counted(Made(f))[n] \in Int
      BY <2>2, <3>1, FS_Singleton
    <3> HIDE DEF wm, outputs, slots
    <3>6. \A g \in ToSet(stored) : g.input = FALSE =>
             g.slot \in DOMAIN wm /\ g.count = Counted(Made(f))[g.slot]
      BY <2>2, <3>1, <3>2
    <3>7. \A n \in DOMAIN wm : \A x :
            x \in Shown(wm[n]) <=> \E g \in ToSet(stored) :
                g.input = FALSE /\ g.slot = n /\ x \in ToSet(resolveIngredient(g).items)
      BY <2>2, <3>1, <3>2, <3>3, <3>4
    <3> QED BY <2>1, <2>5, <3>5, <3>6, <3>7, SideIsShown DEF outputs, slots
  <2> HIDE DEF inputs, outputs, w, wm
  <2>8. resolveRecipe(stored) = [inputs |-> inputs, outputs |-> outputs,
                                 needed |-> getIngredientSummary(inputs),
                                 made |-> getIngredientSummary(outputs)]
    BY DEF resolveRecipe, inputs, outputs
  <2> QED BY <2>6, <2>7, <2>8 DEF w, wm
<1>2. (parseRecipe(f) # {}) <=> Readable(f)
  BY ReadIfReadable
<1> QED BY <1>1, <1>2 DEF IsShown

\* A file has passed its schema.
LEMMA FileFacts ==
    ASSUME NEW f \in RecipeFiles
    PROVE  FileOK(f)
  BY RecipesAssumption

\* readShapelessCraftingRecipe, whose slots are the places in a list.
LEMMA ShapelessIsShown ==
    ASSUME NEW f, FileOK(f), f.type = "shapeless"
    PROVE  IsShown(f)
<1> DEFINE js == f.ingredients
           k == Len(js)
           slot == [i \in 1..k |-> i]
<1>1. js \in Seq(Seq(Jsons)) /\ k \in Nat /\ DOMAIN js = 1..k /\ f.result \in Results
  BY DEF FileOK
<1>2. Written(f) = js
  BY DEF Written
<1>3. parseRecipe(f) = Assemble([i \in DOMAIN js |-> parseArrayIngredient(js[i], i)], f.result)
  BY DEF parseRecipe, readShapelessCraftingRecipe
<1> HIDE DEF js, k
<1>4. [i \in DOMAIN js |-> parseArrayIngredient(js[i], i)]
        = [i \in 1..k |-> parseArrayIngredient(js[i], slot[i])]
  BY <1>1
<1>5. \A i \in 1..k : js[i] \in Seq(Jsons) /\ slot[i] = i /\ slot[i] \in Nat
  BY <1>1
<1> HIDE DEF slot
<1> DEFINE w == Written(f)
<1>7. DOMAIN w = 1..k /\ \A i \in 1..k : w[i] = js[i]
  BY <1>1, <1>2
<1> HIDE DEF w
<1>8. IsFiniteSet(DOMAIN w)
  BY <1>1, <1>7, FS_Interval
<1>9. /\ \A i \in 1..k : slot[i] \in DOMAIN w /\ w[slot[i]] = js[i]
      /\ \A n \in DOMAIN w : \E i \in 1..k : slot[i] = n
  BY <1>5, <1>7
<1>10. parseRecipe(f) = Assemble([i \in 1..k |-> parseArrayIngredient(js[i], slot[i])], f.result)
  BY <1>3, <1>4
<1>6. Reads(f, k, js, slot)
  BY <1>5, <1>8, <1>9, <1>10 DEF Reads, w
<1> QED BY <1>1, <1>6, CraftingIsShown

\* readSmeltingRecipe and readStonecuttingRecipe, with one slot.
LEMMA SmeltingIsShown ==
    ASSUME NEW f, FileOK(f), f.type \in {"smelting", "stonecutting"}
    PROVE  IsShown(f)
<1> DEFINE js == [i \in 1..1 |-> f.ingredient]
           slot == [i \in 1..1 |-> 1]
<1>1. f.ingredient \in Seq(Jsons) /\ f.result \in Results
  BY DEF FileOK
<1>2. Written(f) = [n \in {1} |-> f.ingredient]
  BY DEF Written
<1>3. parseRecipe(f) = Assemble(<<parseArrayIngredient(f.ingredient, 1)>>, f.result)
  BY DEF parseRecipe, readSmeltingRecipe, readStonecuttingRecipe
<1>4. <<parseArrayIngredient(f.ingredient, 1)>>
        = [i \in 1..1 |-> parseArrayIngredient(js[i], slot[i])]
  OBVIOUS
<1>5. \A i \in 1..1 : js[i] = f.ingredient /\ slot[i] = 1
  OBVIOUS
<1> HIDE DEF js, slot
<1>6. IsFiniteSet(DOMAIN Written(f))
  BY <1>2, FS_Singleton
<1>7. Reads(f, 1, js, slot)
  BY <1>1, <1>2, <1>3, <1>4, <1>5, <1>6 DEF Reads
<1> QED BY <1>1, <1>7, CraftingIsShown

\* readSmithingTransformRecipe, whose slots are counted from 0.
LEMMA SmithingIsShown ==
    ASSUME NEW f, FileOK(f), f.type = "smithing"
    PROVE  IsShown(f)
<1> DEFINE js == f.parts
           slot == [i \in 1..3 |-> i - 1]
<1>1. js \in Seq(Seq(Jsons)) /\ DOMAIN js = 1..3 /\ f.result \in Results
  BY DEF FileOK
<1>2. Written(f) = [n \in 0..2 |-> js[n + 1]]
  BY DEF Written
<1>3. parseRecipe(f) = Assemble([i \in 1..3 |-> parseArrayIngredient(js[i], i - 1)], f.result)
  BY DEF parseRecipe, readSmithingTransformRecipe
<1>4. \A i \in 1..3 : js[i] \in Seq(Jsons)
  BY <1>1
<1>5. \A i \in 1..3 : slot[i] = i - 1
  OBVIOUS
<1> HIDE DEF js, slot
<1>6. [i \in 1..3 |-> parseArrayIngredient(js[i], i - 1)]
        = [i \in 1..3 |-> parseArrayIngredient(js[i], slot[i])]
  BY <1>5
<1> DEFINE w == Written(f)
<1>7. DOMAIN w = 0..2 /\ \A n \in 0..2 : w[n] = js[n + 1]
  BY <1>2
<1> HIDE DEF w
<1>8. IsFiniteSet(0..2)
  <2>1. 0 \in Int /\ 2 \in Int
    OBVIOUS
  <2>2. \A m, n \in Int : IsFiniteSet(m..n)
    BY FS_Interval
  <2> QED BY Zenon, <2>1, <2>2
<1>9. \A i \in 1..3 : slot[i] \in 0..2 /\ slot[i] \in Nat /\ slot[i] + 1 = i
  BY <1>5
<1>10. \A n \in 0..2 : n + 1 \in 1..3 /\ slot[n + 1] = n
  BY <1>5
<1>11. /\ \A i \in 1..3 : slot[i] \in DOMAIN w /\ w[slot[i]] = js[i]
       /\ \A n \in DOMAIN w : \E i \in 1..3 : slot[i] = n
  BY <1>7, <1>9, <1>10
<1>12. IsFiniteSet(DOMAIN w)
  BY <1>7, <1>8
<1>13. \A i \in 1..3 : slot[i] \in Nat
  BY <1>9
<1>14. Reads(f, 3, js, slot)
  BY <1>3, <1>4, <1>6, <1>11, <1>12, <1>13 DEF Reads, w
<1> QED BY <1>1, <1>14, CraftingIsShown

\* The cells of a pattern that have a key.
LEMMA KeyedCells ==
    ASSUME NEW f, FileOK(f), f.type = "shaped"
    PROVE  LET keyed(row) ==
                 Only([col \in DOMAIN f.pattern[row] |-> <<row, col>>],
                      {col \in DOMAIN f.pattern[row] : f.pattern[row][col] \in DOMAIN f.key})
               cells == FlattenSeq([row \in DOMAIN f.pattern |-> keyed(row)])
           IN  /\ cells \in Seq((1..3) \X (1..3))
               /\ \A c : c \in ToSet(cells) <=>
                    \E row \in DOMAIN f.pattern : \E col \in DOMAIN f.pattern[row] :
                      c = <<row, col>> /\ f.pattern[row][col] \in DOMAIN f.key
<1> DEFINE A == (1..3) \X (1..3)
           row2(row) == [col \in DOMAIN f.pattern[row] |-> <<row, col>>]
           cols(row) == {col \in DOMAIN f.pattern[row] : f.pattern[row][col] \in DOMAIN f.key}
           keyed == [row \in DOMAIN f.pattern |-> Only(row2(row), cols(row))]
           cells == FlattenSeq(keyed)
<1>1. /\ f.pattern \in Seq(Seq(STRING)) /\ Len(f.pattern) <= 3
      /\ \A row \in DOMAIN f.pattern : Len(f.pattern[row]) <= 3
  BY DEF FileOK
<1>2. DOMAIN f.pattern = 1..Len(f.pattern) /\ Len(f.pattern) \in Nat /\ DOMAIN f.pattern \subseteq 1..3
  BY <1>1
<1>3. ASSUME NEW row \in DOMAIN f.pattern
      PROVE  /\ DOMAIN f.pattern[row] \subseteq 1..3
             /\ keyed[row] \in Seq(A)
             /\ \A c : c \in ToSet(keyed[row]) <=>
                  \E col \in DOMAIN f.pattern[row] :
                     c = <<row, col>> /\ f.pattern[row][col] \in DOMAIN f.key
  <2> DEFINE s == row2(row)
             I == cols(row)
             n == Len(f.pattern[row])
  <2>1. n \in Nat /\ n <= 3 /\ DOMAIN f.pattern[row] = 1..n
    BY <1>1
  <2>2. s \in Seq(A) /\ DOMAIN s = 1..n /\ \A col \in 1..n : s[col] = <<row, col>>
    BY <1>2, <2>1
  <2>3. I \in SUBSET DOMAIN s /\ \A col : col \in I <=> (col \in 1..n /\ f.pattern[row][col] \in DOMAIN f.key)
    BY <2>1, <2>2
  <2>4. keyed[row] = Only(s, I)
    OBVIOUS
  <2> HIDE DEF A, s, I, n, keyed
  <2>5. /\ Only(s, I) \in Seq(A)
        /\ \A c : c \in ToSet(Only(s, I)) <=> \E i \in I : c = s[i]
    BY <2>2, <2>3, OnlyThose
  <2>6. DOMAIN f.pattern[row] \subseteq 1..3
    BY <2>1
  <2>7. ASSUME NEW c \in ToSet(Only(s, I))
        PROVE  \E col \in 1..n : c = <<row, col>> /\ f.pattern[row][col] \in DOMAIN f.key
    <3>1. PICK i \in I : c = s[i]
      BY <2>5
    <3> QED BY <2>2, <2>3, <3>1
  <2>8. ASSUME NEW c, NEW col \in 1..n, c = <<row, col>>, f.pattern[row][col] \in DOMAIN f.key
        PROVE  c \in ToSet(Only(s, I))
    <3>1. col \in I /\ c = s[col]
      BY <2>2, <2>3, <2>8
    <3> QED BY <2>5, <3>1
  <2> QED BY <2>1, <2>4, <2>5, <2>6, <2>7, <2>8
<1>4. keyed \in Seq(Seq(A)) /\ DOMAIN keyed = DOMAIN f.pattern
  <2>1. DOMAIN keyed = DOMAIN f.pattern /\ keyed = [row \in DOMAIN f.pattern |-> keyed[row]]
    OBVIOUS
  <2> HIDE DEF keyed, A
  <2> QED BY <1>2, <1>3, <2>1
<1>5. /\ cells \in Seq(A)
      /\ \A c : c \in ToSet(cells) <=> \E row \in DOMAIN keyed : c \in ToSet(keyed[row])
  <2> HIDE DEF keyed, A
  <2> QED BY <1>4, Flat
<1>6. \A c : c \in ToSet(cells) <=>
        \E row \in DOMAIN f.pattern : \E col \in DOMAIN f.pattern[row] :
          c = <<row, col>> /\ f.pattern[row][col] \in DOMAIN f.key
  <2> HIDE DEF keyed, cells
  <2> QED BY <1>3, <1>4, <1>5
<1> QED BY <1>5, <1>6

\* The slots of the grid are numbered row by row.
LEMMA Grid ==
    ASSUME NEW f
    PROVE  /\ \A row, col \in 1..3 :
                (row - 1) * 3 + col \in 1..9 /\ Cell(f, (row - 1) * 3 + col) = <<row, col>>
           /\ \A n \in 1..9 :
                /\ Cell(f, n)[1] \in 1..3 /\ Cell(f, n)[2] \in 1..3
                /\ (Cell(f, n)[1] - 1) * 3 + Cell(f, n)[2] = n
<1>1. ASSUME NEW row \in 1..3, NEW col \in 1..3
      PROVE  (row - 1) * 3 + col \in 1..9 /\ Cell(f, (row - 1) * 3 + col) = <<row, col>>
  <2> DEFINE n == (row - 1) * 3 + col
  <2>1. n \in 1..9
    OBVIOUS
  <2>2. ((n - 1) \div 3) + 1 = row /\ ((n - 1) % 3) + 1 = col
    <3>1. CASE row = 1
      BY <3>1
    <3>2. CASE row = 2
      BY <3>2
    <3>3. CASE row = 3
      BY <3>3
    <3> QED BY <3>1, <3>2, <3>3
  <2> HIDE DEF n
  <2>3. Cell(f, n) = <<row, col>>
    BY <2>2 DEF Cell
  <2> QED BY <2>1, <2>3 DEF n
<1>2. ASSUME NEW n \in 1..9
      PROVE  /\ Cell(f, n)[1] \in 1..3 /\ Cell(f, n)[2] \in 1..3
             /\ (Cell(f, n)[1] - 1) * 3 + Cell(f, n)[2] = n
  <2>1. Cell(f, n)[1] = ((n - 1) \div 3) + 1 /\ Cell(f, n)[2] = ((n - 1) % 3) + 1
    BY DEF Cell
  <2>2. /\ ((n - 1) \div 3) + 1 \in 1..3 /\ ((n - 1) % 3) + 1 \in 1..3
        /\ ((n - 1) \div 3) * 3 + (((n - 1) % 3) + 1) = n
    OBVIOUS
  <2> QED BY <2>1, <2>2
<1> QED BY <1>1, <1>2

\* readShapedCraftingRecipe, whose slots are the cells of a grid.
LEMMA ShapedIsShown ==
    ASSUME NEW f, FileOK(f), f.type = "shaped"
    PROVE  IsShown(f)
<1> DEFINE keyed(row) ==
               Only([col \in DOMAIN f.pattern[row] |-> <<row, col>>],
                    {col \in DOMAIN f.pattern[row] : f.pattern[row][col] \in DOMAIN f.key})
           cells == FlattenSeq([row \in DOMAIN f.pattern |-> keyed(row)])
           k == Len(cells)
           js == [i \in 1..k |-> f.key[f.pattern[cells[i][1]][cells[i][2]]]]
           slot == [i \in 1..k |-> (cells[i][1] - 1) * 3 + cells[i][2]]
           w == Written(f)
<1>1. /\ cells \in Seq((1..3) \X (1..3))
      /\ \A c : c \in ToSet(cells) <=>
           \E row \in DOMAIN f.pattern : \E col \in DOMAIN f.pattern[row] :
             c = <<row, col>> /\ f.pattern[row][col] \in DOMAIN f.key
  BY KeyedCells
<1>2. parseRecipe(f)
        = Assemble([i \in DOMAIN cells |->
                      parseArrayIngredient(f.key[f.pattern[cells[i][1]][cells[i][2]]],
                                           (cells[i][1] - 1) * 3 + cells[i][2])],
                   f.result)
  BY DEF parseRecipe, readShapedCraftingRecipe, SlotOf
<1>3. /\ f.pattern \in Seq(Seq(STRING)) /\ Len(f.pattern) <= 3
      /\ \A row \in DOMAIN f.pattern : Len(f.pattern[row]) <= 3
      /\ \A char \in DOMAIN f.key : f.key[char] \in Seq(Jsons)
      /\ f.result \in Results
  BY DEF FileOK
<1>4. /\ DOMAIN w = {n \in 1..9 : InPattern(f, n)}
      /\ \A n \in DOMAIN w : w[n] = f.key[f.pattern[Cell(f, n)[1]][Cell(f, n)[2]]]
  BY DEF Written
<1> HIDE DEF cells, w
<1>5. k \in Nat /\ DOMAIN cells = 1..k /\ \A i \in 1..k : cells[i] \in (1..3) \X (1..3)
  BY <1>1
<1>6. \A i \in 1..k : /\ js[i] = f.key[f.pattern[cells[i][1]][cells[i][2]]]
                      /\ slot[i] = (cells[i][1] - 1) * 3 + cells[i][2]
  OBVIOUS
<1>7. \A c : c \in ToSet(cells) <=> \E i \in 1..k : c = cells[i]
  BY <1>5 DEF ToSet
<1> HIDE DEF k, js, slot
<1>8. [i \in DOMAIN cells |->
         parseArrayIngredient(f.key[f.pattern[cells[i][1]][cells[i][2]]],
                              (cells[i][1] - 1) * 3 + cells[i][2])]
        = [i \in 1..k |-> parseArrayIngredient(js[i], slot[i])]
  BY <1>5, <1>6
<1>9. ASSUME NEW i \in 1..k
      PROVE  /\ js[i] \in Seq(Jsons) /\ slot[i] \in Nat
             /\ slot[i] \in DOMAIN w /\ w[slot[i]] = js[i]
  <2>1. PICK row \in DOMAIN f.pattern : \E col \in DOMAIN f.pattern[row] :
          cells[i] = <<row, col>> /\ f.pattern[row][col] \in DOMAIN f.key
    BY <1>1, <1>7
  <2>2. PICK col \in DOMAIN f.pattern[row] :
          cells[i] = <<row, col>> /\ f.pattern[row][col] \in DOMAIN f.key
    BY <2>1
  <2>3. row \in 1..3 /\ col \in 1..3
    BY <1>5, <2>2
  <2>4. js[i] = f.key[f.pattern[row][col]] /\ slot[i] = (row - 1) * 3 + col
    BY <1>6, <2>2
  <2>5. slot[i] \in 1..9 /\ Cell(f, slot[i]) = <<row, col>>
    BY <2>3, <2>4, Grid
  <2>6. slot[i] \in DOMAIN w
    BY <1>4, <2>2, <2>5 DEF InPattern
  <2>7. w[slot[i]] = f.key[f.pattern[row][col]]
    BY <1>4, <2>5, <2>6
  <2>8. js[i] \in Seq(Jsons)
    BY <1>3, <2>2, <2>4
  <2>9. slot[i] \in Nat
    BY <2>5
  <2> QED BY <2>4, <2>6, <2>7, <2>8, <2>9
<1>10. ASSUME NEW n \in DOMAIN w
       PROVE  \E i \in 1..k : slot[i] = n
  <2> DEFINE row == Cell(f, n)[1]
             col == Cell(f, n)[2]
  <2>1. n \in 1..9 /\ InPattern(f, n)
    BY <1>4
  <2>2. row \in DOMAIN f.pattern /\ col \in DOMAIN f.pattern[row] /\ f.pattern[row][col] \in DOMAIN f.key
    BY <2>1 DEF InPattern
  <2>3. (row - 1) * 3 + col = n
    BY <2>1, Grid
  <2> HIDE DEF row, col
  <2>4. <<row, col>> \in ToSet(cells)
    BY <1>1, <2>2
  <2>5. PICK i \in 1..k : cells[i] = <<row, col>>
    BY <1>7, <2>4
  <2>6. slot[i] = n
    BY <1>6, <2>3, <2>5
  <2> QED BY <2>6
<1>11. IsFiniteSet(DOMAIN w)
  <2>1. \A m, n \in Int : IsFiniteSet(m..n)
    BY FS_Interval
  <2>2. 1 \in Int /\ 9 \in Int
    OBVIOUS
  <2>3. IsFiniteSet(1..9)
    BY Zenon, <2>1, <2>2
  <2> QED BY <1>4, <2>3, FS_Subset
<1>12. parseRecipe(f) = Assemble([i \in 1..k |-> parseArrayIngredient(js[i], slot[i])], f.result)
  BY <1>2, <1>8
<1>13. Reads(f, k, js, slot)
  BY <1>9, <1>10, <1>11, <1>12 DEF Reads, w
<1> QED BY <1>3, <1>5, <1>13, CraftingIsShown

\* A set is listed without leaving any of its elements out.
LEMMA Listing ==
    ASSUME NEW S, IsFiniteSet(S)
    PROVE  /\ Cardinality(S) \in Nat
           /\ \A i \in 1..Cardinality(S) : SetToSeq(S)[i] \in S
           /\ \A x \in S : \E i \in 1..Cardinality(S) : SetToSeq(S)[i] = x
<1> DEFINE k == Cardinality(S)
           s == SetToSeq(S)
<1>1. k \in Nat /\ ExistsBijection(1..k, S)
  BY FS_CardinalityType
<1>2. \E f \in [1..k -> S] : IsInjective(f)
  BY <1>1 DEF ExistsBijection, Bijection, Injection
<1>3. s \in [1..k -> S] /\ IsInjective(s)
  BY <1>2 DEF SetToSeq
<1> HIDE DEF s
<1>4. s \in Injection(1..k, S)
  BY <1>3 DEF Injection
<1>5. Cardinality(1..k) = k
  <2>1. \A m, n \in Int : Cardinality(m..n) = IF m > n THEN 0 ELSE n - m + 1
    BY FS_Interval
  <2> HIDE DEF k
  <2> QED BY <1>1, <2>1
<1>6. s \in Surjection(1..k, S)
  BY <1>4, <1>5, FS_Injection
<1> QED BY <1>1, <1>3, <1>6 DEF Surjection, s

\* The ingredients of a side, whatever the order of its slots.
LEMMA SideRead ==
    ASSUME NEW side, IsFiniteSet(DOMAIN side), NEW D, NEW b,
           \A n \in DOMAIN side : readSingleIngredient(side[n], n, b) \in Ingredients(D)
    PROVE  LET order == SetToSeq(DOMAIN side)
               gs == [i \in 1..Cardinality(DOMAIN side) |->
                        readSingleIngredient(side[order[i]], order[i], b)]
           IN  /\ gs \in Seq(Ingredients(D))
               /\ \A g : g \in ToSet(gs) <=>
                    \E n \in DOMAIN side : g = readSingleIngredient(side[n], n, b)
<1> DEFINE S == DOMAIN side
           k == Cardinality(S)
           order == SetToSeq(S)
           gs == [i \in 1..k |-> readSingleIngredient(side[order[i]], order[i], b)]
<1>1. /\ k \in Nat /\ \A i \in 1..k : order[i] \in S
      /\ \A x \in S : \E i \in 1..k : order[i] = x
  BY Listing
<1>2. DOMAIN gs = 1..k /\ \A i \in 1..k : gs[i] = readSingleIngredient(side[order[i]], order[i], b)
  OBVIOUS
<1>3. gs = [i \in 1..k |-> gs[i]]
  OBVIOUS
<1> HIDE DEF gs, k, order
<1>4. \A i \in 1..k : gs[i] \in Ingredients(D)
  BY <1>1, <1>2
<1>5. gs \in Seq(Ingredients(D))
  <2>1. gs \in [1..k -> Ingredients(D)]
    BY <1>3, <1>4
  <2> QED BY <1>1, <2>1
<1>6. \A g : g \in ToSet(gs) <=> \E i \in 1..k : g = gs[i]
  BY <1>2 DEF ToSet
<1>7. ASSUME NEW g \in ToSet(gs)
      PROVE  \E n \in S : g = readSingleIngredient(side[n], n, b)
  <2>1. PICK i \in 1..k : g = gs[i]
    BY <1>6
  <2> QED BY <1>1, <1>2, <2>1
<1>8. ASSUME NEW n \in S
      PROVE  readSingleIngredient(side[n], n, b) \in ToSet(gs)
  <2>1. PICK i \in 1..k : order[i] = n
    BY <1>1
  <2> QED BY <1>2, <1>6, <2>1
<1> QED BY <1>5, <1>7, <1>8 DEF gs, k, order

\* An ingredient of a mod's own recipe type: an item is stored, a tag is not.
LEMMA CustomRow ==
    ASSUME NEW j \in SlotJsons, NEW D, NEW n \in D, NEW b \in BOOLEAN
    PROVE  LET g == readSingleIngredient(j, n, b)
           IN  /\ g \in Ingredients(D)
               /\ g.slot = n /\ g.input = b /\ g.count = j.count /\ g.count \in Int
               /\ IsStored(g) <=> ~ j.hash
               /\ IsStored(g) => Known(g)
               /\ ~ j.hash => \A x : x \in Shown(Custom(j)) <=> x \in ToSet(resolveIngredient(g).items)
<1> DEFINE g == readSingleIngredient(j, n, b)
           name == IF j.hash THEN Hashed ELSE j.name
<1>1. /\ j.hash \in BOOLEAN /\ j.name \in STRING /\ j.count \in Int
      /\ ~ j.hash => j.name \in DOMAIN Sources
  BY DEF SlotJsons
<1>2. g = [name |-> name, slot |-> n, count |-> j.count, input |-> b, isTag |-> j.hash]
  BY DEF readSingleIngredient, Ingredient
<1>3. name \in Texts
  BY <1>1 DEF Texts
<1> HIDE DEF g, name
<1>4. /\ g.name = name /\ g.slot = n /\ g.count = j.count /\ g.input = b /\ g.isTag = j.hash
  BY <1>2
<1>5. g \in Ingredients(D)
  BY <1>1, <1>2, <1>3 DEF Ingredients
<1>6. IsStored(g) <=> ~ j.hash
  BY <1>4, RecipesAssumption DEF IsStored, name
<1>7. ASSUME ~ j.hash
      PROVE  /\ Known(g)
             /\ \A x : x \in Shown(Custom(j)) <=> x \in ToSet(resolveIngredient(g).items)
  <2>1. g.name = j.name /\ ~ g.isTag /\ Known(g)
    BY <1>1, <1>4, <1>7 DEF Known, name
  <2>2. \A x : x \in ToSet(resolveIngredient(g).items) <=>
               \E p \in ToSet(Sources[j.name]) : x = <<j.name, p>>
    BY <1>5, <2>1, Resolution
  <2> DEFINE json == [as |-> "plain", name |-> j.name]
  <2>3. Custom(j) = <<json>>
    BY <1>7 DEF Custom
  <2>4. Items(json) = {<<j.name, p>> : p \in ToSet(Sources[j.name])}
    BY DEF Items
  <2> HIDE DEF json
  <2>5. Shown(Custom(j)) = Items(json)
    BY <2>3 DEF Shown
  <2> QED BY <2>1, <2>2, <2>4, <2>5
<1> QED BY <1>1, <1>4, <1>5, <1>6, <1>7 DEF g

\* What is stored of a mod's own recipe type.
LEMMA CustomRows ==
    ASSUME NEW f, FileOK(f), f.type = "custom",
           NEW gs \in parseRecipe(f), NEW stored \in addRecipe(gs)
    PROVE  LET D == DOMAIN f.input \cup DOMAIN f.output
           IN  /\ stored \in Seq(Ingredients(D))
               /\ \A g : g \in ToSet(stored) <=>
                    /\ IsStored(g)
                    /\ \/ \E n \in DOMAIN f.input : g = readSingleIngredient(f.input[n], n, TRUE)
                       \/ \E n \in DOMAIN f.output : g = readSingleIngredient(f.output[n], n, FALSE)
<1> DEFINE D == DOMAIN f.input \cup DOMAIN f.output
           side(slots, b) ==
               LET order == SetToSeq(DOMAIN slots)
               IN  [i \in 1..Cardinality(DOMAIN slots) |->
                      readSingleIngredient(slots[order[i]], order[i], b)]
           ins == side(f.input, TRUE)
           outs == side(f.output, FALSE)
<1>1. gs = ins \o outs
  BY DEF parseRecipe, readCustomRecipe
<1>2. /\ IsFiniteSet(DOMAIN f.input) /\ \A n \in DOMAIN f.input : f.input[n] \in SlotJsons
      /\ IsFiniteSet(DOMAIN f.output) /\ \A n \in DOMAIN f.output : f.output[n] \in SlotJsons
  BY DEF FileOK
<1>3. /\ \A n \in DOMAIN f.input : readSingleIngredient(f.input[n], n, TRUE) \in Ingredients(D)
      /\ \A n \in DOMAIN f.output : readSingleIngredient(f.output[n], n, FALSE) \in Ingredients(D)
  BY <1>2, CustomRow
<1> HIDE DEF D
<1>4. /\ ins \in Seq(Ingredients(D))
      /\ \A g : g \in ToSet(ins) <=>
           \E n \in DOMAIN f.input : g = readSingleIngredient(f.input[n], n, TRUE)
  BY <1>2, <1>3, SideRead
<1>5. /\ outs \in Seq(Ingredients(D))
      /\ \A g : g \in ToSet(outs) <=>
           \E n \in DOMAIN f.output : g = readSingleIngredient(f.output[n], n, FALSE)
  BY <1>2, <1>3, SideRead
<1> HIDE DEF ins, outs
<1>6. /\ gs \in Seq(Ingredients(D))
      /\ \A g : g \in ToSet(gs) <=> (g \in ToSet(ins) \/ g \in ToSet(outs))
  BY <1>1, <1>4, <1>5, Joined
<1>7. /\ stored \in Seq(Ingredients(D))
      /\ \A g : g \in ToSet(stored) <=> (g \in ToSet(gs) /\ IsStored(g))
  BY <1>6, Stored
<1>8. \A g : g \in ToSet(stored) <=>
         /\ IsStored(g)
         /\ \/ \E n \in DOMAIN f.input : g = readSingleIngredient(f.input[n], n, TRUE)
            \/ \E n \in DOMAIN f.output : g = readSingleIngredient(f.output[n], n, FALSE)
  BY <1>4, <1>5, <1>6, <1>7
<1> QED BY <1>7, <1>8 DEF D

\* A side without a tag is shown if what is stored for it is what it says.
LEMMA CustomSideIsShown ==
    ASSUME NEW side, IsFiniteSet(DOMAIN side), \A n \in DOMAIN side : side[n] \in SlotJsons,
           ~ Tagged(side), NEW b \in BOOLEAN, NEW w, NEW count,
           w = [n \in DOMAIN side |-> Custom(side[n])],
           \A n \in DOMAIN side : count[n] = side[n].count,
           NEW D, NEW stored \in Seq(Ingredients(D)), \A g \in ToSet(stored) : Known(g),
           \A g : (g \in ToSet(stored) /\ g.input = b) <=>
             (IsStored(g) /\ \E n \in DOMAIN side : g = readSingleIngredient(side[n], n, b))
    PROVE  LET slots == [i \in DOMAIN stored |-> resolveIngredient(stored[i])]
               merged == mergeSlots(slots, b)
           IN  ShowsSide(merged, getIngredientSummary(merged), w, count)
<1> DEFINE S == DOMAIN side
           row(n) == readSingleIngredient(side[n], n, b)
<1>1. \A n \in S : /\ row(n).slot = n /\ row(n).input = b /\ row(n).count = side[n].count
                   /\ side[n].count \in Int /\ IsStored(row(n))
                   /\ \A x : x \in Shown(Custom(side[n])) <=> x \in ToSet(resolveIngredient(row(n)).items)
  BY CustomRow DEF Tagged
<1>2. DOMAIN w = S /\ \A n \in S : w[n] = Custom(side[n])
  OBVIOUS
<1>3. \A n \in DOMAIN w : count[n] \in Int
  BY <1>1, <1>2
<1> HIDE DEF row
<1>4. \A g \in ToSet(stored) : g.input = b => \E n \in S : g = row(n)
  BY DEF row
<1>5. \A n \in S : row(n) \in ToSet(stored)
  BY <1>1 DEF row
<1>6. ASSUME NEW g \in ToSet(stored), g.input = b
      PROVE  g.slot \in DOMAIN w /\ g.count = count[g.slot]
  <2>1. PICK n \in S : g = row(n)
    BY <1>4, <1>6
  <2> QED BY <1>1, <1>2, <2>1
<1>7. ASSUME NEW n \in DOMAIN w, NEW x \in Shown(w[n])
      PROVE  \E g \in ToSet(stored) : g.input = b /\ g.slot = n /\ x \in ToSet(resolveIngredient(g).items)
  <2>1. n \in S /\ x \in ToSet(resolveIngredient(row(n)).items)
    BY <1>1, <1>2
  <2> QED BY <1>1, <1>5, <2>1
<1>8. ASSUME NEW n \in DOMAIN w, NEW g \in ToSet(stored), g.input = b, g.slot = n,
             NEW x \in ToSet(resolveIngredient(g).items)
      PROVE  x \in Shown(w[n])
  <2>1. PICK m \in S : g = row(m)
    BY <1>4, <1>8
  <2>2. m = n
    BY <1>1, <1>8, <2>1
  <2> QED BY <1>1, <1>2, <2>1, <2>2
<1>9. \A n \in DOMAIN w : \A x :
        x \in Shown(w[n]) <=> \E g \in ToSet(stored) :
            g.input = b /\ g.slot = n /\ x \in ToSet(resolveIngredient(g).items)
  BY <1>7, <1>8
<1>10. IsFiniteSet(DOMAIN w)
  BY <1>2
<1> QED BY <1>3, <1>6, <1>9, <1>10, SideIsShown

\* readCustomRecipe, whose slots have names on either side.
LEMMA CustomIsShown ==
    ASSUME NEW f, FileOK(f), f.type = "custom"
    PROVE  IsShown(f)
<1>1. /\ IsFiniteSet(DOMAIN f.input) /\ \A n \in DOMAIN f.input : f.input[n] \in SlotJsons
      /\ IsFiniteSet(DOMAIN f.output) /\ \A n \in DOMAIN f.output : f.output[n] \in SlotJsons
  BY DEF FileOK
<1>2. /\ Written(f) = [n \in DOMAIN f.input |-> Custom(f.input[n])]
      /\ Made(f) = f.output
      /\ \A n \in DOMAIN f.input : Needed(f)[n] = f.input[n].count
      /\ \A n \in DOMAIN f.output : Counted(Made(f))[n] = f.output[n].count
  BY DEF Written, Made, Needed, Counted
<1>3. parseRecipe(f) # {}
  BY DEF parseRecipe, readCustomRecipe
<1>4. Readable(f)
  <2>1. \A n \in DOMAIN f.input : Custom(f.input[n]) # <<>>
    BY DEF Custom
  <2>2. \A n \in DOMAIN f.input : \A i \in DOMAIN Custom(f.input[n]) : Custom(f.input[n])[i].as # "other"
    BY DEF Custom
  <2> QED BY <1>2, <2>1, <2>2 DEF Readable
<1>5. ASSUME NEW gs \in parseRecipe(f), NEW stored \in addRecipe(gs)
      PROVE  LET r == resolveRecipe(stored)
             IN  /\ \/ Tagged(f.input)
                    \/ ShowsSide(r.inputs, r.needed, Written(f), Needed(f))
                 /\ \/ Tagged(Made(f))
                    \/ ShowsSide(r.outputs, r.made,
                                 [n \in DOMAIN Made(f) |-> Custom(Made(f)[n])], Counted(Made(f)))
  <2> DEFINE D == DOMAIN f.input \cup DOMAIN f.output
             slots == [i \in DOMAIN stored |-> resolveIngredient(stored[i])]
             inputs == mergeSlots(slots, TRUE)
             outputs == mergeSlots(slots, FALSE)
             in(n) == readSingleIngredient(f.input[n], n, TRUE)
             out(n) == readSingleIngredient(f.output[n], n, FALSE)
             wm == [n \in DOMAIN f.output |-> Custom(f.output[n])]
  <2>1. /\ stored \in Seq(Ingredients(D))
        /\ \A g : g \in ToSet(stored) <=>
             (IsStored(g) /\ ((\E n \in DOMAIN f.input : g = in(n)) \/ (\E n \in DOMAIN f.output : g = out(n))))
    BY CustomRows
  <2>2. \A n \in DOMAIN f.input : in(n).input = TRUE /\ (IsStored(in(n)) => Known(in(n)))
    BY <1>1, CustomRow
  <2>3. \A n \in DOMAIN f.output : out(n).input = FALSE /\ (IsStored(out(n)) => Known(out(n)))
    BY <1>1, CustomRow
  <2> HIDE DEF in, out
  <2>4. \A g \in ToSet(stored) : Known(g)
    BY <2>1, <2>2, <2>3
  <2>5. \A g : (g \in ToSet(stored) /\ g.input = TRUE) <=> (IsStored(g) /\ \E n \in DOMAIN f.input : g = in(n))
    BY <2>1, <2>2, <2>3
  <2>6. \A g : (g \in ToSet(stored) /\ g.input = FALSE) <=> (IsStored(g) /\ \E n \in DOMAIN f.output : g = out(n))
    BY <2>1, <2>2, <2>3
  <2> HIDE DEF D
  <2>7. ASSUME ~ Tagged(f.input)
        PROVE  ShowsSide(inputs, getIngredientSummary(inputs), Written(f), Needed(f))
    <3>1. \A g : (g \in ToSet(stored) /\ g.input = TRUE) <=>
             (IsStored(g) /\ \E n \in DOMAIN f.input : g = readSingleIngredient(f.input[n], n, TRUE))
      BY <2>5 DEF in
    <3>2. Written(f) = [n \in DOMAIN f.input |-> Custom(f.input[n])]
      BY <1>2
    <3>3. \A n \in DOMAIN f.input : Needed(f)[n] = f.input[n].count
      BY <1>2
    <3>4. stored \in Seq(Ingredients(D))
      BY <2>1
    <3>5. TRUE \in BOOLEAN
      OBVIOUS
    <3> HIDE DEF slots
    <3> DEFINE side == f.input
               count == Needed(f)
               w == Written(f)
               b == TRUE
    <3>6. /\ IsFiniteSet(DOMAIN side) /\ \A n \in DOMAIN side : side[n] \in SlotJsons
          /\ ~ Tagged(side) /\ b \in BOOLEAN
          /\ w = [n \in DOMAIN side |-> Custom(side[n])]
          /\ \A n \in DOMAIN side : count[n] = side[n].count
          /\ \A g : (g \in ToSet(stored) /\ g.input = b) <=>
                (IsStored(g) /\ \E n \in DOMAIN side : g = readSingleIngredient(side[n], n, b))
      BY <1>1, <2>7, <3>1, <3>2, <3>3, <3>5
    <3> HIDE DEF side, count, w, b
    <3>7. ShowsSide(mergeSlots(slots, b), getIngredientSummary(mergeSlots(slots, b)), w, count)
      BY <2>4, <3>4, <3>6, CustomSideIsShown DEF slots
    <3> QED BY <3>7 DEF side, count, w, b
  <2>8. ASSUME ~ Tagged(f.output)
        PROVE  ShowsSide(outputs, getIngredientSummary(outputs), wm, Counted(Made(f)))
    <3>1. \A g : (g \in ToSet(stored) /\ g.input = FALSE) <=>
             (IsStored(g) /\ \E n \in DOMAIN f.output : g = readSingleIngredient(f.output[n], n, FALSE))
      BY <2>6 DEF out
    <3>2. wm = [n \in DOMAIN f.output |-> Custom(f.output[n])]
      BY <1>2
    <3>3. \A n \in DOMAIN f.output : Counted(Made(f))[n] = f.output[n].count
      BY <1>2
    <3>4. stored \in Seq(Ingredients(D))
      BY <2>1
    <3>5. FALSE \in BOOLEAN
      OBVIOUS
    <3> HIDE DEF slots
    <3> DEFINE side == f.output
               count == Counted(Made(f))
               w == wm
               b == FALSE
    <3>6. /\ IsFiniteSet(DOMAIN side) /\ \A n \in DOMAIN side : side[n] \in SlotJsons
          /\ ~ Tagged(side) /\ b \in BOOLEAN
          /\ w = [n \in DOMAIN side |-> Custom(side[n])]
          /\ \A n \in DOMAIN side : count[n] = side[n].count
          /\ \A g : (g \in ToSet(stored) /\ g.input = b) <=>
                (IsStored(g) /\ \E n \in DOMAIN side : g = readSingleIngredient(side[n], n, b))
      BY <1>1, <2>8, <3>1, <3>2, <3>3, <3>5
    <3> HIDE DEF side, count, w, b
    <3>7. ShowsSide(mergeSlots(slots, b), getIngredientSummary(mergeSlots(slots, b)), w, count)
      BY <2>4, <3>4, <3>6, CustomSideIsShown DEF slots
    <3> QED BY <3>7 DEF side, count, w, b
  <2>9. wm = [n \in DOMAIN Made(f) |-> Custom(Made(f)[n])]
    BY <1>2
  <2> HIDE DEF inputs, outputs, wm
  <2>10. resolveRecipe(stored) = [inputs |-> inputs, outputs |-> outputs,
                                  needed |-> getIngredientSummary(inputs),
                                  made |-> getIngredientSummary(outputs)]
    BY DEF resolveRecipe, inputs, outputs
  <2> QED BY <1>2, <2>7, <2>8, <2>9, <2>10
<1> QED BY <1>3, <1>4, <1>5 DEF IsShown

\* Every file is shown as it is written.
THEOREM FilesAreShown == EveryFileIsShown
<1>1. ASSUME NEW f \in RecipeFiles PROVE IsShown(f)
  <2>1. FileOK(f)
    BY FileFacts
  <2>2. f.type \in {"shaped", "shapeless", "smelting", "stonecutting", "smithing", "custom"}
    BY <2>1 DEF FileOK
  <2> QED BY <2>1, <2>2, ShapedIsShown, ShapelessIsShown, SmeltingIsShown, SmithingIsShown, CustomIsShown
<1> QED BY <1>1 DEF EveryFileIsShown

\* Whatever is committed, for every content and any number of ingestions.
THEOREM ShownAsWrittenHolds == Spec => []ShownAsWritten
<1>1. ShownAsWritten
  BY FilesAreShown DEF ShownAsWritten
<1> QED BY <1>1, PTL
=============================================================================
