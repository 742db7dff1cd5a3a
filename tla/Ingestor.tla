------------------------------ MODULE Ingestor ------------------------------
(***************************************************************************)
(* The ingestor of game content (service/storage/ingestor): what it does   *)
(* to the content tables, in a transaction, while others do the same.      *)
(*                                                                         *)
(* A mod is ingested by its deployment, of which there is one at a time,   *)
(* into tables that are wiped first.  The virtual project of the game is   *)
(* ingested by importGameData, of which there may be several at a time,    *)
(* through one shared object: its ProjectDatabaseAccess has a pointer to   *)
(* the transaction in use.  Names of items and tags are rows shared by     *)
(* all projects.  An INSERT waits for the transaction that has inserted    *)
(* the same row, and REFRESH MATERIALIZED VIEW locks the view, until that  *)
(* transaction ends.  A failed statement rolls its transaction back, and   *)
(* what is executed in it afterwards fails as well.                        *)
(***************************************************************************)
EXTENDS Integers, Sequences

CONSTANTS
    Mods,       \* projects that are deployed (those without a mod id ingest nothing)
    Imports,    \* coroutines of importGameData
    Game,       \* the virtual project
    Direct,     \* no transaction: each statement commits by itself
    Free,       \* nobody holds the lock of the view
    Shared,     \* the owner of the rows of names
    NumNames,   \* items and tags, numbered in the order std::set gives them
    Repos,      \* what the repository of a mod may hold
    GameRepos,  \* what the files of the game may hold: only tags are read
    NoRepo,
    MaxRuns,    \* bound: ingestions of mods
    MaxTrouble  \* bound: statements that fail, and crashes of the process

VARIABLES
    pc,         \* where each coroutine stands
    repo,       \* what it ingests
    gen,        \* number of its ingestion (of mods)
    todo,       \* names still to be registered by its loop
    result,     \* what runIngestor returns
    errors,     \* whether an issue of level ERROR was raised
    trans,      \* the transaction that it has opened
    client,     \* clientPtr_ of the virtual project
    rows,       \* committed rows of each project's version
    known,      \* committed rows of item and tag
    flat,       \* tag_item_flat, by project
    view,       \* who holds the lock of tag_item_flat
    runs, faults, crashes,
    before,     \* history: a project's rows when its ingestion began
    overlap     \* history: two imports have been ingesting at once

Names == 1..NumNames
Coroutines == Mods \cup Imports
Projects == Mods \cup {Game}
Project(w) == IF w \in Mods THEN w ELSE Game

ASSUME NamesAssumption == NumNames \in Nat
ASSUME PeopleAssumption ==
    /\ Mods \cap Imports = {}
    /\ Game \notin Mods
    /\ Shared \notin Projects
    /\ {Direct, Free} \cap Coroutines = {}
ASSUME BoundsAssumption == MaxRuns \in Nat /\ MaxTrouble \in Nat
\* The names of items come before those of tags, which are registered later.
ASSUME ReposAssumption ==
    \A r \in Repos \cup GameRepos :
        /\ r.items \in SUBSET Names /\ r.tags \in SUBSET Names
        /\ \A i \in r.items, t \in r.tags : i < t
        /\ r.entries \in SUBSET (r.tags \X Names)
        /\ r.recipe \in {"none", "own", "game", "unknown"}
        /\ r.needs \in Names
        /\ r.readable \in BOOLEAN
        /\ r \in GameRepos => r.recipe = "none"

vars == <<pc, repo, gen, todo, result, errors, trans, client, rows, known, flat,
          view, runs, faults, crashes, before, overlap>>
tables == <<rows, known, flat>>
history == <<runs, crashes, before, overlap>>

Stages == {"wipe", "prepare", "items", "tags", "links", "recipes",
           "finish", "release"}

NoTrans == [state |-> "none", wiped |-> FALSE, added |-> {}, names |-> {},
            locks |-> {}, flat |-> {}]
Opened == [NoTrans EXCEPT !.state = "open"]
Doomed == [NoTrans EXCEPT !.state = "aborted"]
Open(t) == t \in Coroutines /\ trans[t].state = "open"
Aborted(t) == t \in Coroutines /\ trans[t].state = "aborted"

-----------------------------------------------------------------------------
(* Rows *)

Row(kind, g, of) == [kind |-> kind, gen |-> g, of |-> of]

\* getDbClientPtr: the transaction a statement of w is executed in.
Target(w) == IF w \in Mods THEN w ELSE client

\* The rows of project p and the names, as target t sees them.
Seen(t, p) ==
    IF t \in Coroutines /\ Project(t) = p
    THEN (IF trans[t].wiped THEN {} ELSE rows[p]) \cup trans[t].added
    ELSE rows[p]
NamesSeen(t) == IF t \in Coroutines THEN known \cup trans[t].names ELSE known

HasRow(t, p, kind, of) == \E r \in Seen(t, p) : r.kind = kind /\ r.of = of

\* The rows that addProjectItem and addTag insert for name n and have to wait for:
\* one of item or tag, and one of the project.
Inserted(w, kind, n) ==
    (IF n \in NamesSeen(Target(w)) THEN {} ELSE {<<n, Shared>>})
        \cup (IF HasRow(Target(w), Project(w), kind, <<n>>) THEN {} ELSE {<<n, Project(w)>>})
Held(t) == UNION {trans[u].locks : u \in Coroutines \ {t}}

\* A statement of w that succeeds, with the rows rs and names ns.
Execute(w, rs, ns, ls) ==
    LET t == Target(w) IN
    IF t \in Coroutines
    THEN /\ Open(t)
         /\ trans' = [trans EXCEPT ![t].added = @ \cup rs, ![t].names = @ \cup ns,
                                   ![t].locks = @ \cup ls]
         /\ UNCHANGED tables
    ELSE /\ rows' = [rows EXCEPT ![Project(w)] = @ \cup rs]
         /\ known' = known \cup ns
         /\ UNCHANGED <<trans, flat>>

\* (Mutant: the view is not locked while it is computed.)
RefreshUnlocked(t) == UNCHANGED view
\* (Mutant: its lock is not given back.)
KeepView(t) == UNCHANGED view

\* REFRESH MATERIALIZED VIEW in transaction t, and the end of t.
LockView(t) == view \in {Free, t} /\ view' = IF t \in Coroutines THEN t ELSE Free
UnlockView(t) == view' = IF view = t THEN Free ELSE view

\* (Mutant: the statements after one that failed are executed.)
FailAlone(t) == faults + crashes < MaxTrouble /\ faults' = faults + 1 /\ UNCHANGED <<trans, view>>

\* A statement that fails in t: by itself, or as t has been rolled back.
Fail(t) ==
    \/ /\ Aborted(t)
       /\ UNCHANGED <<trans, view, faults>>
    \/ /\ faults + crashes < MaxTrouble
       /\ faults' = faults + 1
       /\ ~ Aborted(t)
       /\ trans' = IF t \in Coroutines THEN [trans EXCEPT ![t] = Doomed] ELSE trans
       /\ UnlockView(t)

Goto(w, stage) == pc' = [pc EXCEPT ![w] = stage]
Return(w, r) == Goto(w, "release") /\ result' = [result EXCEPT ![w] = r]

-----------------------------------------------------------------------------
(* An ingestion *)

\* Step 4 of a deployment, or ingestGameData: runIngestor opens the transaction and makes
\* the project's object use it.
Start(w) ==
    /\ pc[w] = "idle"
    /\ w \in Mods => runs < MaxRuns
    /\ IF w \in Mods
       THEN runs' = runs + 1 /\ gen' = [gen EXCEPT ![w] = @ + 1]
       ELSE UNCHANGED <<runs, gen>>
    /\ Goto(w, IF w \in Mods THEN "wipe" ELSE "prepare")
    /\ trans' = [trans EXCEPT ![w] = Opened]
    /\ client' = IF w \in Imports THEN w ELSE client
    /\ before' = [before EXCEPT ![w] = rows[Project(w)]]
    /\ overlap' = (overlap \/ (w \in Imports /\ \E i \in Imports \ {w} : pc[i] # "idle"))
    /\ UNCHANGED <<repo, todo, result, errors, tables, view, faults, crashes>>

\* (Mutant: nothing is deleted.)
KeepRows(w) ==
    /\ pc[w] = "wipe"
    /\ Goto(w, "prepare")
    /\ UNCHANGED <<repo, gen, todo, result, errors, trans, client, tables, view, faults, history>>
\* (Mutant: the view is also computed after the deletion.)
WipeAndRefresh(w) ==
    /\ pc[w] = "wipe"
    /\ LockView(w)
    /\ trans' = [trans EXCEPT ![w].wiped = TRUE]
    /\ Goto(w, "prepare")
    /\ UNCHANGED <<repo, gen, todo, result, errors, client, tables, faults, history>>

\* wipeExistingData, for projects whose data is replaced.
Wipe(w) ==
    /\ pc[w] = "wipe"
    /\ \/ /\ Open(w)
          /\ trans' = [trans EXCEPT ![w].wiped = TRUE, ![w].added = {}]
          /\ Goto(w, "prepare")
          /\ UNCHANGED <<result, view, faults>>
       \/ Fail(Target(w)) /\ Return(w, "ErrInternal")
    /\ UNCHANGED <<repo, gen, todo, errors, client, tables, history>>

\* The loops over items and over tags, and what follows them.
Loop(w, stage, names) == Goto(w, stage) /\ todo' = [todo EXCEPT ![w] = names]
Execution(w, r) ==
    IF r.tags # {} THEN Loop(w, "tags", r.tags)
    ELSE Loop(w, IF w \in Mods THEN "recipes" ELSE "finish", {})

\* prepare of the sub-ingestors: the files are read, and hold r.  An exception is
\* caught in ingestGameContentData and ends it.
Prepare(w, r) ==
    /\ pc[w] = "prepare"
    /\ r \in IF w \in Mods THEN Repos ELSE GameRepos
    /\ repo' = [repo EXCEPT ![w] = r]
    /\ IF r.readable
       THEN /\ IF r.items # {} THEN Loop(w, "items", r.items) ELSE Execution(w, r)
            /\ UNCHANGED <<result, errors>>
       ELSE /\ Return(w, "ErrInternal")
            /\ errors' = [errors EXCEPT ![w] = TRUE]
            /\ UNCHANGED todo
    /\ UNCHANGED <<gen, trans, client, tables, view, faults, history>>

\* The next name of the loop over a std::set.
Next1(w) == CHOOSE n \in todo[w] : \A m \in todo[w] : n <= m

\* addProjectItem: a failure ends the ingestion.
RegisterItem(w) ==
    /\ pc[w] = "items"
    /\ LET n == Next1(w)
           ls == Inserted(w, "item", n) IN
       \/ /\ ls \cap Held(Target(w)) = {}
          /\ Execute(w, {Row("item", gen[w], <<n>>) : l \in ls \cap {<<n, Project(w)>>}}, {n}, ls)
          /\ IF todo[w] # {n} THEN Loop(w, "items", todo[w] \ {n}) ELSE Execution(w, repo[w])
          /\ UNCHANGED <<result, view, faults>>
       \/ Fail(Target(w)) /\ Return(w, "ErrBadRequest") /\ UNCHANGED <<todo, tables>>
    /\ UNCHANGED <<repo, gen, errors, client, history>>

\* addTag, in the execution of the tags: the result is not looked at.
RegisterTag(w) ==
    /\ pc[w] = "tags"
    /\ LET n == Next1(w)
           ls == Inserted(w, "tag", n) IN
       /\ \/ /\ ls \cap Held(Target(w)) = {}
             /\ Execute(w, {Row("tag", gen[w], <<n>>) : l \in ls \cap {<<n, Project(w)>>}}, {n}, ls)
             /\ UNCHANGED <<view, faults>>
          \/ Fail(Target(w)) /\ UNCHANGED tables
       /\ Loop(w, IF todo[w] = {n} THEN "links" ELSE "tags", todo[w] \ {n})
    /\ UNCHANGED <<result, repo, gen, errors, client, history>>

\* addTagItemEntry links a tag of this version to items of this or of the game's; what
\* is not there is left out, and the result is not looked at.
Link(w) ==
    /\ pc[w] = "links"
    /\ LET t == Target(w)
           found == {e \in repo[w].entries :
                        /\ HasRow(t, Project(w), "tag", <<e[1]>>)
                        /\ HasRow(t, Project(w), "item", <<e[2]>>) \/ HasRow(t, Game, "item", <<e[2]>>)} IN
       \/ Execute(w, {Row("entry", gen[w], e) : e \in found}, {}, {}) /\ UNCHANGED <<view, faults>>
       \/ Fail(Target(w)) /\ UNCHANGED tables
    /\ Goto(w, IF w \in Mods THEN "recipes" ELSE "finish")
    /\ UNCHANGED <<repo, gen, todo, result, errors, client, history>>

\* addRecipeType and addRecipe.  The type is looked up in both versions, each through
\* its own object; if there is none, an error is raised and the recipe left out.  Other
\* failures are exceptions.  An ingredient that has no row is left out.
TypeFound(w) ==
    \/ repo[w].recipe = "own"
    \/ repo[w].recipe = "game" /\ ~ Aborted(client)
AddRecipe(w) ==
    /\ pc[w] = "recipes"
    /\ \/ /\ repo[w].recipe = "none"
          /\ Goto(w, "finish")
          /\ UNCHANGED <<result, errors, trans, tables, view, faults>>
       \/ /\ \/ repo[w].recipe = "unknown" /\ UNCHANGED <<trans, view, faults>>
             \/ repo[w].recipe = "game" /\ Fail(client)
          /\ errors' = [errors EXCEPT ![w] = TRUE]
          /\ Goto(w, "finish")
          /\ UNCHANGED <<result, tables>>
       \/ /\ TypeFound(w)
          /\ Execute(w, {Row("recipe", gen[w], IF repo[w].needs \in NamesSeen(w) THEN <<repo[w].needs>> ELSE <<>>)}, {}, {})
          /\ Goto(w, "finish")
          /\ UNCHANGED <<result, errors, view, faults>>
       \/ /\ TypeFound(w)
          /\ Fail(Target(w))
          /\ Return(w, "ErrInternal")
          /\ errors' = [errors EXCEPT ![w] = TRUE]
          /\ UNCHANGED tables
    /\ UNCHANGED <<repo, gen, todo, client, history>>

Entries(rs) == {r \in rs : r.kind = "entry"}

\* finish: the view is computed anew if there are tags, from what the transaction sees;
\* others see that, and get the lock, when it ends.
Finish(w) ==
    LET t == Target(w)
        current == [p \in Projects |-> Entries(Seen(t, p))] IN
    /\ pc[w] = "finish"
    /\ \/ /\ repo[w].tags = {}
          /\ UNCHANGED <<trans, flat, view, faults>>
       \/ /\ repo[w].tags # {}
          /\ LockView(t)
          /\ IF t \in Coroutines
             THEN /\ Open(t)
                  /\ trans' = [trans EXCEPT ![t].flat = {current}]
                  /\ UNCHANGED flat
             ELSE flat' = current /\ UNCHANGED trans
          /\ UNCHANGED faults
       \/ repo[w].tags # {} /\ Fail(Target(w)) /\ UNCHANGED flat
    /\ Return(w, "Ok")
    /\ UNCHANGED <<repo, gen, todo, errors, client, rows, known, history>>

\* Every way out of runIngestor puts the pointer back and releases the transaction,
\* which commits unless a statement has failed.
Release(w) ==
    LET x == trans[w]  p == Project(w) IN
    /\ pc[w] = "release"
    /\ client' = IF w \in Imports THEN Direct ELSE client
    /\ IF Open(w)
       THEN /\ rows' = [rows EXCEPT ![p] = Seen(w, p)]
            /\ known' = known \cup x.names
            /\ flat' = IF x.flat = {} THEN flat ELSE CHOOSE f \in x.flat : TRUE
            /\ trans' = [trans EXCEPT ![w] = [NoTrans EXCEPT !.state = "committed"]]
            /\ UnlockView(w)
       ELSE UNCHANGED <<rows, known, flat, trans, view>>
    /\ Goto(w, "done")
    /\ UNCHANGED <<repo, gen, todo, result, errors, faults, history>>

\* What is local to the coroutines in W, as before they began.
Reset(f, W, value) == [w \in Coroutines |-> IF w \in W THEN value ELSE f[w]]
Forget(W) ==
    /\ pc' = Reset(pc, W, "idle")
    /\ repo' = Reset(repo, W, NoRepo)
    /\ todo' = Reset(todo, W, {})
    /\ result' = Reset(result, W, "Ok")
    /\ errors' = Reset(errors, W, FALSE)
    /\ trans' = Reset(trans, W, NoTrans)
    /\ before' = Reset(before, W, {})

\* The caller goes on: the deployment with its outcome, the import with its own steps.
End(w) ==
    /\ pc[w] = "done"
    /\ Forget({w})
    /\ UNCHANGED <<gen, client, tables, view, faults, runs, crashes, overlap>>

\* registerItems: the items of the game, one by one in the order of the directory,
\* through the pointer.
RegisterGameItem(w, n) ==
    /\ w \in Imports
    /\ pc[w] = "done" /\ result[w] = "Ok"
    /\ LET ls == Inserted(w, "item", n) IN
       \/ /\ ls \cap Held(Target(w)) = {}
          /\ Execute(w, {Row("item", gen[w], <<n>>) : l \in ls \cap {<<n, Game>>}}, {n}, ls)
          /\ UNCHANGED <<view, faults>>
       \/ Fail(Target(w)) /\ UNCHANGED tables
    /\ UNCHANGED <<pc, repo, gen, todo, result, errors, client, history>>

\* The process ends: transactions are rolled back, objects are gone.
Crash ==
    /\ faults + crashes < MaxTrouble
    /\ crashes' = crashes + 1
    /\ Forget(Coroutines)
    /\ client' = Direct
    /\ view' = Free
    /\ UNCHANGED <<gen, tables, runs, faults, overlap>>

Step(w) ==
    \/ Wipe(w) \/ \E r \in Repos \cup GameRepos : Prepare(w, r)
    \/ RegisterItem(w) \/ RegisterTag(w) \/ Link(w) \/ AddRecipe(w)
    \/ Finish(w) \/ Release(w) \/ End(w)
Next ==
    \/ \E w \in Coroutines : Start(w) \/ Step(w)
    \/ \E w \in Imports, n \in Names : RegisterGameItem(w, n)
    \/ Crash

Init ==
    /\ pc = [w \in Coroutines |-> "idle"]
    /\ repo = [w \in Coroutines |-> NoRepo]
    /\ gen = [w \in Coroutines |-> 0]
    /\ todo = [w \in Coroutines |-> {}]
    /\ result = [w \in Coroutines |-> "Ok"]
    /\ errors = [w \in Coroutines |-> FALSE]
    /\ trans = [w \in Coroutines |-> NoTrans]
    /\ client = Direct
    /\ rows = [p \in Projects |-> {}]
    /\ known = {}
    /\ flat = [p \in Projects |-> {}]
    /\ view = Free
    /\ runs = 0 /\ faults = 0 /\ crashes = 0
    /\ before = [w \in Coroutines |-> {}]
    /\ overlap = FALSE

Spec == Init /\ [][Next]_vars
-----------------------------------------------------------------------------
(* Properties *)

AllRows == [kind : {"item", "tag", "entry", "recipe"}, gen : Nat, of : Seq(Names)]
Locks == Names \X (Projects \cup {Shared})
Transactions ==
    [state : {"none", "open", "aborted", "committed"}, wiped : BOOLEAN,
     added : SUBSET AllRows, names : SUBSET Names, locks : SUBSET Locks,
     flat : SUBSET [Projects -> SUBSET AllRows]]

\* Types of the variables; the pointer leads to an import that is being ingested, and the
\* lock of the view is held by an open transaction.
TypeOK ==
    /\ pc \in [Coroutines -> Stages \cup {"idle", "done"}]
    /\ repo \in [Coroutines -> Repos \cup GameRepos \cup {NoRepo}]
    /\ gen \in [Coroutines -> Nat]
    /\ todo \in [Coroutines -> SUBSET Names]
    /\ result \in [Coroutines -> {"Ok", "ErrInternal", "ErrBadRequest"}]
    /\ errors \in [Coroutines -> BOOLEAN]
    /\ trans \in [Coroutines -> Transactions]
    /\ client \in Imports \cup {Direct}
    /\ client \in Imports => pc[client] \notin {"idle", "done"}
    /\ rows \in [Projects -> SUBSET AllRows]
    /\ flat \in [Projects -> SUBSET AllRows]
    /\ before \in [Coroutines -> SUBSET AllRows]
    /\ known \in SUBSET Names
    /\ view \in Coroutines \cup {Free}
    /\ view \in Coroutines => trans[view].state = "open"
    /\ runs \in 0..MaxRuns 
    /\ faults \in Nat /\ crashes \in Nat /\ faults + crashes <= MaxTrouble
    /\ overlap \in BOOLEAN

\* Readers of a mod never see rows of two of its deployments side by side, whatever
\* fails: what is left of the last one goes in the transaction that brings the next.
OneSource ==
    \A m \in Mods : \A r, s \in rows[m] : r.gen = s.gen

\* What an ingestion must leave behind: all that is in the repository, except links to
\* items of others and a recipe whose type is unknown.
Wanted(w) ==
    LET r == repo[w] IN
    {Row("item", gen[w], <<i>>) : i \in r.items} \cup {Row("tag", gen[w], <<t>>) : t \in r.tags}
        \cup {Row("entry", gen[w], e) : e \in {e \in r.entries : e[2] \in r.items}}

\* A deployment whose ingestion returns Ok, and had no failed statement, has all of its
\* content in the tables and nothing else; with a failed statement, even if Ok is
\* returned, the tables are as before.
DoneIsWhole ==
    \A m \in Mods :
        pc[m] = "done" =>
            /\ trans[m].state = "aborted" => rows[m] = before[m]
            /\ trans[m].state = "committed" /\ result[m] = "Ok" =>
                  /\ Wanted(m) \subseteq rows[m]
                  /\ \A r \in rows[m] : r.gen = gen[m]
                  /\ (repo[m].recipe # "none" /\ ~ errors[m]) => \E r \in rows[m] : r.kind = "recipe"

\* The materialized view has every link between a tag and an item that is committed, of
\* every project, while several of them are ingested: nobody's refresh undoes another's.
FlatIsCurrent ==
    overlap \/ \A p \in Projects : Entries(rows[p]) \subseteq flat[p]

\* Whose end the next statement of w has to wait for.
WaitsFor(w, u) ==
    /\ u # Target(w)
    /\ ~ Aborted(Target(w))
    /\ \/ /\ pc[w] = "items"
          /\ Inserted(w, "item", Next1(w)) \cap trans[u].locks # {}
       \/ /\ pc[w] = "tags"
          /\ Inserted(w, "tag", Next1(w)) \cap trans[u].locks # {}
       \/ /\ pc[w] = "finish" /\ repo[w].tags # {}
          /\ view = u

\* Ingestions of several projects that bring the same names do not wait for each other
\* in a circle: all insert names in the same order, and the view is locked last.
NoWaitCycle ==
    overlap \/ ~ \E S \in SUBSET Coroutines :
        S # {} /\ \A w \in S : \E u \in S : WaitsFor(w, u)
=============================================================================
