-------------------------------- MODULE Rows --------------------------------
(***************************************************************************)
(* The handlers that write rows through the generated classes (Models)     *)
(* into the tables of sql/ (Migrations), one class at a time.              *)
(*                                                                         *)
(* A handler is the sequence of its statements.  Each is one query:        *)
(* whatever lies between two of them, an await, lets others in.  An object *)
(* is read or filled, awaits, and is written back: it may be stale by      *)
(* then, and it writes every column that has ever been set in it.          *)
(*                                                                         *)
(* A value is <<column, handler, statement, n>>: what the n-th handler has *)
(* set there; keys and defaults are <<column, row>>.  What a value says is *)
(* left out.  Permissions, indexes other than primary keys and references  *)
(* are in Deployments, Members and Issues.                                 *)
(***************************************************************************)
EXTENDS Models, Migrations

CONSTANTS
  Actors,      \* handlers that run at once
  MaxRows,     \* bound: rows of the table, 1..MaxRows
  MaxHandlers  \* bound: handlers that have started

ASSUME BoundsAssumption == MaxRows \in Nat /\ MaxHandlers \in Nat

RowIds == 1..MaxRows
NoRow == <<>>

VARIABLES
  class,    \* the class in question
  table,    \* the row of each id, or NoRow
  truth,    \* what was last set in each of its columns, whoever did it
  issued,   \* ids that the table has generated
  raced,    \* deployments failed by a start-up while they were under way
  started,  \* handlers that have started
  work      \* the handler of each actor

vars == <<class, table, truth, issued, raced, started, work>>

-----------------------------------------------------------------------------
(* Statements of a handler *)

To(set, null) == [set |-> set, null |-> null]
Set(set) == {To(set, {})}
SetSome(set, some) == {To(set \cup s, {}) : s \in SUBSET some}
Statement(do, sets, needs) == [do |-> do, sets |-> sets, needs |-> needs]

\* Read a row and go on if these columns are not null, or only look whether it exists.
Read(needs) == Statement("read", {}, needs)
Look(found) == Statement(IF found THEN "if there" ELSE "if not there", {}, {})
\* A query of rows of the table, each followed by more columns.
Query(more) == [do |-> "query", more |-> more]
\* Insert the object; write it back, whether or not the answer is looked at.
Insert(sets) == Statement("insert", sets, {})
Update(sets) == Statement("update", sets, {})
UpdateAnyway(sets) == Statement("update anyway", sets, {})
\* updateBy: columns of the row with the key; of every row that is in progress.
UpdateBy(sets) == Statement("updateBy", sets, {})
UpdateInProgress(sets) == Statement("updateBy status", sets, {})
SetActive(sets) == Statement("activate", sets, {})
Handler(name, does) == [name |-> name, does |-> does]

\* Names of columns of a table.
Named(columns, test(_)) == {columns[i].name : i \in {i \in DOMAIN columns : test(columns[i])}}

-----------------------------------------------------------------------------
(* The handlers *)

Source == {"source_repo", "source_branch", "source_path"}
Validated == Source \cup {"id", "name", "type", "platforms", "is_public"}

validateProjectData(set) == SetSome(set \cup Validated, {"modid"})
existsForData == Look(FALSE)
create ==
    Handler("create",
            <<existsForData, Insert(validateProjectData({"is_community", "visibility", "flags"}))>>)
updateSource == Handler("updateSource", <<Look(TRUE), Update(validateProjectData({}))>>)
\* For an admin the project, for others with their membership.
Membership == Query(<<"user_id", "project_id", "role">>)
getUserProject == {Read({}), Membership}
update ==
    {Handler("update", <<read, Update(SetSome({}, {"visibility"}))>>) : read \in getUserProject}
removeFlag ==
    Handler("removeFlag",
            <<Read({"flags"}), Update({To({"flags"}, {}), To({}, {"flags"})})>>)

createUserIfNotExists ==
    Handler("createUserIfNotExists", <<Look(FALSE), Insert(Set({"id"}))>>)
linkUserModrinthAccount == Handler("linkUserModrinthAccount", <<UpdateBy(Set({"modrinth_id"}))>>)
unlinkUserModrinthAccount ==
    Handler("unlinkUserModrinthAccount", <<UpdateBy({To({}, {"modrinth_id"})})>>)
assignUserProject ==
    Handler("assignUserProject", <<Insert(Set({"user_id", "project_id", "role"}))>>)

setupProjectVersions ==
    {Handler("setupProjectVersions", <<Read({"name"}), Update(Set({"branch"}))>>),
     Handler("setupProjectVersions", <<Insert(Set({"project_id", "name", "branch"}))>>)}
createDefaultVersion ==
    Handler("createDefaultVersion", <<Insert(Set({"project_id", "branch"}))>>)

addRecipeType == Handler("addRecipeType", <<Insert(Set({"version_id", "loc"}))>>)
addRecipe == Handler("addRecipe", <<Insert(Set({"version_id", "loc", "type_id"}))>>)
importGameData ==
    Handler("importGameData",
            <<Insert({To({"game_version", "loader", "loader_version"}, {"user_id"})})>>)

\* CREATED; deployProject: LOADING, the revision, setActiveDeployment; SUCCESS or ERROR.
deployProjectCached ==
    Handler("deployProjectCached",
            <<Insert(SetSome({"project_id", "status"} \cup Source, {"user_id"})),
              UpdateAnyway(Set({"status"})), UpdateAnyway(Set({"revision"})),
              SetActive(Set({"active"})), UpdateAnyway(Set({"status"}))>>)
failLoadingDeployments ==
    Handler("failLoadingDeployments", <<UpdateInProgress(Set({"status"}))>>)

addProjectIssueExternal ==
    Handler("addProjectIssueExternal",
            <<Insert(SetSome({"deployment_id", "level", "type", "subject", "details"},
                             {"file", "version_name"}))>>)
addProjectIssueInternal ==
    Handler("addProjectIssueInternal",
            <<Insert(Set({"deployment_id", "level", "type", "subject", "details", "file"}))>>)

submitReport ==
    Handler("submitReport",
            <<Insert(SetSome({"project_id", "type", "submitter_id", "status", "reason", "body",
                              "version_id"}, {"path", "locale"}))>>)
ruleReport == Handler("ruleReport", <<Read({}), Update(Set({"status"}))>>)

createAccessKey ==
    Handler("createAccessKey", <<Insert(SetSome({"name", "value", "user_id"}, {"expires_at"}))>>)

\* Handlers that show rows: one by its key, or a page of them with their number.
Shows(read) == Handler("read", <<read>>)
paginatedQuery == Shows(Query(<<"total_rows", "total_pages">>))
findProjects == paginatedQuery
getUserProjects == Shows(Membership)
getVersionsDev == paginatedQuery
getProjectRecipesDev == paginatedQuery
getProjectTagItemsFlat == Shows(Query(<<>>))
getDataImports == paginatedQuery
getDeployment == Shows(Read({}))
getReports == paginatedQuery
getReport == Shows(Read({}))
getAccessKeys == paginatedQuery

\* What any handler can do with any class: insert what the table needs, or all that can be
\* given, and read a row and write one column back.
addModel(C, columns) ==
    LET needed == Named(columns, LAMBDA c : c.notNull /\ c.filled = "never")
        all == Named(columns, LAMBDA c : c.filled # "always") \ (KeysOf(C) \ needed)
    IN  Handler("addModel", <<Insert(Set(needed) \cup Set(all))>>)
updateModel(C) ==
    Handler("updateModel",
            <<Read({}), Update({To({c}, {}) : c \in C.accessors.set \ KeysOf(C)}
                               \cup {To({}, {c}) : c \in C.accessors.null \ KeysOf(C)})>>)

\* (A deployment is written back by its worker only.)
Handlers(C) ==
    {addModel(C, Schema[C.table])} \cup {updateModel(D) : D \in {C} \ {Deployment}} \cup
    (CASE C = Project ->
            {create, updateSource, removeFlag, findProjects, getUserProjects} \cup update
       [] C = User ->
            {createUserIfNotExists, linkUserModrinthAccount, unlinkUserModrinthAccount}
       [] C = UserProject -> {assignUserProject}
       [] C = ProjectVersion -> setupProjectVersions \cup {createDefaultVersion, getVersionsDev}
       [] C = Item -> {getProjectTagItemsFlat}
       [] C = RecipeType -> {addRecipeType}
       [] C = Recipe -> {addRecipe, getProjectRecipesDev}
       [] C = DataImport -> {importGameData, getDataImports}
       [] C = Deployment -> {deployProjectCached, failLoadingDeployments, getDeployment}
       [] C = ProjectIssue -> {addProjectIssueExternal, addProjectIssueInternal}
       [] C = Report -> {submitReport, ruleReport, getReports, getReport}
       [] C = AccessKey -> {createAccessKey, getAccessKeys}
       [] OTHER -> {})

\* Parts of a deployment, of which a project has one at a time (TaskTable).
InDeployment == {"deployProjectCached", "setupProjectVersions", "createDefaultVersion"}

-----------------------------------------------------------------------------
(* Rows *)

Columns == Schema[class.table]
FilledOf == Named(Columns, LAMBDA c : c.filled # "never")
TriggersOf == Named(Columns, LAMBDA c : c.filled = "always")
Stored(row, c) == row[CHOOSE i \in DOMAIN Columns : Columns[i].name = c]

Filling(id, c) == <<c, id>>
Found(id) ==
    table[id] # NoRow /\ \A c \in class.byPrimaryKey : Stored(table[id], c) = Filling(id, c)

\* The id comes from the table, not from the request.
IdIsGenerated == KeysOf(class) \subseteq FilledOf

Running(a) == work[a].at # 0
Current(a) == work[a].does[work[a].at]
Doing(a, do) == Running(a) /\ Current(a).do = do
Value(a, id, c) ==
    IF c \in KeysOf(class) THEN Filling(id, c) ELSE <<c, work[a].name, work[a].at, work[a].n>>

Idle == [name |-> "none", does |-> <<>>, at |-> 0, n |-> 0, id |-> 0,
         object |-> New(class), outcome |-> "ok"]
Going(w) == [w EXCEPT !.at = IF w.at = Len(w.does) THEN 0 ELSE w.at + 1]
Goes(a, object) == work' = [work EXCEPT ![a] = Going([@ EXCEPT !.object = object])]
Ends(a, object, why) ==
    work' = [work EXCEPT ![a].at = 0, ![a].object = object, ![a].outcome = why]
KeepTable == UNCHANGED <<class, table, truth, issued, raced, started>>

\* What s sets is set in these rows.
Write(a, ids, rowOf(_), s) ==
    /\ table' = [id \in RowIds |-> IF id \in ids THEN rowOf(id) ELSE table[id]]
    /\ truth' = [id \in RowIds |->
                   IF id \in ids
                   THEN [c \in ColumnsOf(class) |->
                           IF c \in s.set THEN Value(a, id, c)
                           ELSE IF c \in s.null THEN NullValue ELSE truth[id][c]]
                   ELSE truth[id]]

-----------------------------------------------------------------------------
(* Actions *)

Init ==
    /\ class \in Models
    /\ table = [id \in RowIds |-> NoRow]
    /\ truth = [id \in RowIds |-> NoRow]
    /\ issued = 0
    /\ raced = {}
    /\ started = 0
    /\ work = [a \in Actors |-> Idle]

\* The request names a row, unless the handler inserts one whose id the table generates.
Start(a) ==
    /\ ~Running(a)
    /\ started < MaxHandlers
    /\ \E h \in Handlers(class), id \in RowIds \cup {0} :
         /\ id = 0 <=> (IdIsGenerated /\ h.does[1].do = "insert")
         /\ h.name \in InDeployment =>
              \A b \in Actors : Running(b) => work[b].name \notin InDeployment
         /\ work' = [work EXCEPT ![a] = [Idle EXCEPT !.name = h.name, !.does = h.does, !.at = 1,
                                                     !.n = started + 1, !.id = id]]
    /\ started' = started + 1
    /\ UNCHANGED <<class, table, truth, issued, raced>>

findByPrimaryKey(a) ==
    /\ Doing(a, "read")
    /\ LET row == table[work[a].id]
           o == FromRow(class, row)
       IN  IF ~Found(work[a].id) THEN Ends(a, New(class), "not found")
           ELSE IF \E c \in Current(a).needs : o.values[c] = Null THEN Ends(a, o, "ok")
           ELSE Goes(a, o)
    /\ KeepTable

\* The object is made of the first columns of the result.
\* (Mutant: the counts come before the row.)
findByQuery_counts_first(a) ==
    /\ Doing(a, "query")
    /\ LET row == table[work[a].id]
           more == [i \in DOMAIN Current(a).more |-> <<Current(a).more[i]>>]
       IN  \/ row # NoRow /\ Goes(a, FromRow(class, more \o row))
           \/ Ends(a, New(class), "not found")
    /\ KeepTable
findByQuery(a) ==
    /\ Doing(a, "query")
    /\ LET row == table[work[a].id]
           more == [i \in DOMAIN Current(a).more |-> <<Current(a).more[i]>>]
       IN  \/ row # NoRow /\ Goes(a, FromRow(class, row \o more))
           \/ Ends(a, New(class), "not found")
    /\ KeepTable

Exists(a) ==
    /\ \/ Doing(a, "if there")
       \/ Doing(a, "if not there")
    /\ IF Found(work[a].id) = (Current(a).do = "if there")
       THEN Goes(a, work[a].object)
       ELSE Ends(a, work[a].object, "not found")
    /\ KeepTable

\* A row without a value that it needs is refused, and so is one whose key is there.
insert(a) ==
    /\ Doing(a, "insert")
    /\ \E s \in Current(a).sets :
         LET id == IF IdIsGenerated THEN issued + 1 ELSE work[a].id
             o == Assign(work[a].object, s.set, s.null, [c \in s.set |-> Value(a, id, c)])
             sent == InsertOf(class, o)
             row == NewRow(Columns, sent.values,
                           [c \in ColumnsOf(class) |-> Filling(id, c)])
             given == s.set \ TriggersOf
         IN  /\ id \in RowIds
             /\ IF Missing(Columns, row)
                THEN Ends(a, o, "missing") /\ UNCHANGED <<table, truth, issued>>
                ELSE IF table[id] # NoRow
                THEN Ends(a, o, "exists") /\ UNCHANGED <<table, truth, issued>>
                ELSE /\ table' = [table EXCEPT ![id] = row]
                     /\ truth' = [truth EXCEPT ![id] =
                           [c \in ColumnsOf(class) |->
                              IF c \in given THEN Value(a, id, c)
                              ELSE IF c \in FilledOf THEN Filling(id, c)
                              ELSE NullValue]]
                     /\ issued' = IF IdIsGenerated THEN id ELSE issued
                     /\ work' = [work EXCEPT ![a] =
                           Going([@ EXCEPT !.id = id,
                                           !.object = IF sent.returns THEN FromRow(class, row)
                                                      ELSE o])]
    /\ UNCHANGED <<class, raced, started>>

\* Every column that has been set is written, by this statement or an earlier one.  Without
\* any, the statement is not SQL; without the row, there is nothing to update.
mapperUpdate(a) ==
    /\ \/ Doing(a, "update")
       \/ Doing(a, "update anyway")
    /\ \E s \in Current(a).sets :
         LET id == work[a].id
             o == Assign(work[a].object, s.set, s.null, [c \in s.set |-> Value(a, id, c)])
             sent == UpdateOf(class, o)
             row == ChangedRow(Columns, table[id], sent)
             why == IF DOMAIN sent = {} THEN "empty"
                    ELSE IF table[id] = NoRow THEN "gone"
                    ELSE IF Missing(Columns, row) THEN "missing" ELSE "ok"
         IN  IF why = "ok"
             THEN Write(a, {id}, LAMBDA i : row, s) /\ Goes(a, o)
             ELSE /\ IF Current(a).do = "update anyway" THEN Goes(a, o) ELSE Ends(a, o, why)
                  /\ UNCHANGED <<table, truth>>
    /\ UNCHANGED <<class, issued, raced, started>>

\* CREATED and LOADING.
InProgress(id) ==
    LET status == Stored(table[id], "status")
    IN  Len(status) = 4 /\ status[2] = "deployProjectCached" /\ status[3] \in {1, 2}
UnderWay(id) ==
    \E b \in Actors : Running(b) /\ work[b].name = "deployProjectCached" /\ work[b].id = id

\* updateBy names one column, without an object.
With(a, id, s) ==
    ChangedRow(Columns, table[id],
               [c \in s.set \cup s.null |-> IF c \in s.set THEN Value(a, id, c) ELSE NullValue])

updateBy(a) ==
    /\ \/ Doing(a, "updateBy")
       \/ Doing(a, "updateBy status")
    /\ \E s \in Current(a).sets :
         LET there == {id \in RowIds : table[id] # NoRow}
             ids == IF Current(a).do = "updateBy" THEN there \cap {work[a].id}
                    ELSE {id \in there : InProgress(id)}
         IN  /\ Write(a, ids, LAMBDA id : With(a, id, s), s)
             /\ raced' = raced \cup {id \in ids : UnderWay(id)}
    /\ Goes(a, work[a].object)
    /\ UNCHANGED <<class, issued, started>>

\* In one transaction: every deployment of the project, and then this object.
setActiveDeployment(a) ==
    /\ Doing(a, "activate")
    /\ LET active == To({"active"}, {})
           o == Assign(work[a].object, active.set, {},
                     [c \in active.set |-> Value(a, work[a].id, c)])
           sent == UpdateOf(class, o)
           on(id) == IF id = work[a].id
                     THEN ChangedRow(Columns, table[id], sent)
                     ELSE With(a, id, active)
       IN  /\ Write(a, {id \in RowIds : table[id] # NoRow}, on, active)
           /\ Goes(a, o)
    /\ UNCHANGED <<class, issued, raced, started>>

\* deployProject returns early or throws: its caller goes on with the last status.
deployProjectFails(a) ==
    /\ Running(a)
    /\ work[a].name = "deployProjectCached"
    /\ work[a].at \in {3, 4}
    /\ work' = [work EXCEPT ![a].at = Len(work[a].does)]
    /\ KeepTable

deleteByPrimaryKey(id) ==
    /\ Found(id)
    /\ table' = [table EXCEPT ![id] = NoRow]
    /\ truth' = [truth EXCEPT ![id] = NoRow]
    /\ UNCHANGED <<class, issued, raced, started, work>>

\* The process stops, and starts without the handlers that were running.
Restart ==
    /\ \E a \in Actors : Running(a)
    /\ work' = [a \in Actors |-> Idle]
    /\ KeepTable

Next ==
    \/ \E a \in Actors :
         \/ Start(a) \/ findByPrimaryKey(a) \/ findByQuery(a) \/ Exists(a) \/ insert(a)
         \/ mapperUpdate(a) \/ updateBy(a) \/ setActiveDeployment(a) \/ deployProjectFails(a)
    \/ \E id \in RowIds : deleteByPrimaryKey(id)
    \/ Restart

Spec == Init /\ [][Next]_vars

-----------------------------------------------------------------------------
(* Properties *)

IsOf(v, c) == v = NullValue \/ v[1] = c

\* The rows have the columns that the class expects (getColumnNumber, metaData_).
TypeOK ==
    /\ class \in Models
    /\ \A id \in RowIds : table[id] = NoRow \/ Len(table[id]) = Len(class.metaData)
    /\ issued \in 0..MaxRows
    /\ raced \subseteq RowIds
    /\ started \in 0..MaxHandlers
    /\ \A a \in Actors :
         /\ work[a].at \in 0..Len(work[a].does)
         /\ work[a].id \in 0..MaxRows
         /\ DOMAIN work[a].object.values = ColumnsOf(class)
         /\ work[a].object.dirty \subseteq ColumnsOf(class)

\* No write is lost: each column of a row has what was last set there, however many
\* handlers held the row, and wrote it back, in the meantime.  The status of a deployment
\* that a start-up failed under its worker is overwritten (deployment.cc:154 and 335 after
\* database_deployments.cc:90).
StoredAsSet ==
    \A id \in RowIds : table[id] # NoRow =>
      \A c \in ColumnsOf(class) :
        Stored(table[id], c) = truth[id][c] \/ (c = "status" /\ id \in raced)

\* What an object shows for a column is a value of that column: the constructor takes a
\* row's values by their position (models/*.cc), in the order that the migrations gave them.
ReadAsStored ==
    \A a \in Actors :
      LET shown == toJson(class, work[a].object)
      IN  \A c \in ColumnsOf(class) : c \in DOMAIN shown /\ IsOf(shown[c], c)

\* A statement is refused by the table for two reasons only: a project without a modid,
\* which the request need not give; and the update of a project that changes nothing.
RefusedForAReason ==
    \A a \in Actors :
      /\ work[a].outcome = "missing" =>
           class = Project /\ work[a].object.values["modid"] = Null
      /\ work[a].outcome = "empty" => work[a].name = "update"

\* The object that an insert gives back is the row, with what the table has filled in, and
\* nothing of it is written again by the next update.  That is so for what the program's
\* handlers set: a class asks for the row only if it has left something to the table
\* (needSelection), so that of an insert with created_at nobody would learn the id.
ReturnedIsStored ==
    [][\A a \in Actors :
         (/\ Doing(a, "insert")
          /\ work[a].name # "addModel"
          /\ work'[a].n = work[a].n
          /\ work'[a] # work[a]
          /\ work'[a].outcome = "ok")
         => LET o == work'[a].object
                row == table'[work'[a].id]
            IN  /\ \A c \in ColumnsOf(class) : o.values[c] = Stored(row, c)
                /\ FilledOf # {} => o.dirty = {}]_vars
=============================================================================
