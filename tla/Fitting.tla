------------------------------- MODULE Fitting -------------------------------
(***************************************************************************)
(* What makes the handlers of Rows write what they mean to: the classes    *)
(* list the columns of their tables in the same order, their statements    *)
(* name and bind them alike, and the handlers set what the table needs and *)
(* write a row once.  The invariant that follows from it.                  *)
(***************************************************************************)
EXTENDS Rows

-----------------------------------------------------------------------------
(* Classes that fit their tables *)

Deploying == "deployProjectCached"
Looks == {"if there", "if not there"}
Reads == {"read", "query"} \cup Looks
Writes == {"insert", "update", "update anyway", "updateBy", "updateBy status", "activate"}

FilledIn(C) == Named(Schema[C.table], LAMBDA c : c.filled # "never")
NeededIn(C) == Named(Schema[C.table], LAMBDA c : c.notNull)
GeneratesId(C) == KeysOf(C) \subseteq FilledIn(C)

\* A list without repetition, and its names up to one of them.
Distinct(columns) ==
    /\ columns \in Seq(STRING)
    /\ \A i, j \in 1..Len(columns) : columns[i] = columns[j] => i = j
Upto(columns, c) == {columns[i] : i \in 1..Place(columns, c)}

\* The class lists the columns of its table, in their order.
RowFits(C) ==
    LET columns == Schema[C.table] IN
    /\ Distinct(C.row) /\ Len(C.row) # 0
    /\ DOMAIN columns = 1..Len(C.row)
    /\ \A i \in 1..Len(C.row) : columns[i].name = C.row[i]
    /\ \A i \in 1..Len(C.row) : columns[i].notNull \in BOOLEAN
    /\ Len(C.metaData) = Len(C.row)
    /\ KeysOf(C) \subseteq ColumnsOf(C)
    /\ Range(C.json) = ColumnsOf(C)

\* Its statements name columns and bind values in the same order, and leave to the table
\* what it can fill in.
StatementsFit(C) ==
    LET how == C.inserting IN
    /\ Distinct(C.updateColumns) /\ C.updateArgs = C.updateColumns
    /\ Range(C.updateColumns) \subseteq ColumnsOf(C)
    /\ Distinct(C.outputArgs) /\ how.columns = C.row
    /\ Range(C.outputArgs) = ColumnsOf(C) \ how.always
    /\ \A c \in Range(C.outputArgs) : Upto(C.outputArgs, c) = Upto(C.row, c) \ how.always
    /\ how.always \subseteq FilledIn(C)

\* What a handler sets is in the statement, and what the table needs is set.
Modid(C, c) == C = Project /\ c = "modid"
InsertFits(C, name, s) ==
    LET how == C.inserting IN
    /\ s.set \cup s.null \subseteq ColumnsOf(C)
    /\ s.set \cap s.null = {}
    /\ s.set \cap how.always \subseteq KeysOf(C)
    /\ s.null \cap FilledIn(C) = {}
    /\ \A c \in NeededIn(C) \ FilledIn(C) : c \in s.set \/ Modid(C, c)
    /\ FilledIn(C) # {} /\ name # "addModel" =>
          how.always \cup (how.unlessSet \ (s.set \cup s.null)) # {}
UpdateFits(C, name, s) ==
    /\ s.set \cup s.null \subseteq Range(C.updateColumns)
    /\ s.set \cap s.null = {}
    /\ \A c \in s.null \cap NeededIn(C) : Modid(C, c)
    /\ s.set \cup s.null = {} => name = "update"
UpdateByFits(C, s) ==
    /\ s.set \cup s.null \subseteq ColumnsOf(C)
    /\ s.set \cap s.null = {}
    /\ s.null \cap NeededIn(C) = {}

\* A handler inserts a row after it has looked for it at most.  All but a deployment write
\* once, in the end, and to deployments only their status.
StatementFits(C, h, k) ==
    LET st == h.does[k] IN
    /\ st.do \in Reads \cup Writes
    /\ h.name # Deploying /\ k # Len(h.does) => st.do \in Reads
    /\ h.name # Deploying /\ C = Deployment => st.do \in Reads \cup {"insert", "updateBy status"}
    /\ st.do = "query" => Len(st.more) \in Nat /\ DOMAIN st.more = 1..Len(st.more)
    /\ st.do = "insert" =>
          /\ \A j \in 1..(k - 1) : h.does[j].do \in Looks
          /\ \A s \in st.sets : InsertFits(C, h.name, s)
    /\ st.do \in {"update", "update anyway"} => \A s \in st.sets : UpdateFits(C, h.name, s)
    /\ st.do = "updateBy" => \A s \in st.sets : UpdateByFits(C, s)
    /\ st.do = "updateBy status" => C = Deployment /\ st.sets = Set({"status"})
    /\ st.do = "activate" => h.name = Deploying
HandlerFits(C, h) ==
    /\ Len(h.does) \in Nat \ {0}
    /\ \A k \in 1..Len(h.does) : StatementFits(C, h, k)
    /\ h.name = Deploying => C = Deployment /\ h = deployProjectCached

Fits(C) ==
    /\ RowFits(C) /\ StatementsFit(C)
    /\ \A h \in Handlers(C) : HandlerFits(C, h)
    /\ C = Deployment =>
          /\ C # Project /\ GeneratesId(C) /\ FilledIn(C) # {}
          /\ {"status", "revision", "active"} \subseteq Range(C.updateColumns)

\* Every class fits its table: the code that drogon_ctl has generated, and what the handlers
\* set, against sql/.
ASSUME FitsAssumption == \A C \in Models : Fits(C)

-----------------------------------------------------------------------------
(* Rows and objects *)

\* A row of n values, its value in a column, and whether it lacks one.
IsRow(row) == row = [i \in 1..Len(class.row) |-> row[i]]
At(row, c) == row[Place(class.row, c)]
Lacks(row) == \E c \in ColumnsOf(class) \cap NeededIn(class) : At(row, c) = Null
IsWork(w) ==
    w = [name |-> w.name, does |-> w.does, at |-> w.at, n |-> w.n, id |-> w.id,
         object |-> w.object, outcome |-> w.outcome]

Shape ==
    /\ class \in Models
    /\ table = [id \in RowIds |-> table[id]]
    /\ truth = [id \in RowIds |-> truth[id]]
    /\ issued \in 0..MaxRows
    /\ raced \subseteq RowIds
    /\ started \in 0..MaxHandlers
    /\ work = [a \in Actors |-> work[a]]

\* A row has a value of its own for each column, the last that was set.
IsLast(id, v, c) == v = truth[id][c] \/ (c = "status" /\ id \in raced)
RowOK(id) ==
    /\ IsRow(table[id])
    /\ \A c \in ColumnsOf(class) : IsOf(At(table[id], c), c)
    /\ ~Lacks(table[id])
    /\ IdIsGenerated => id <= issued
    /\ \A c \in ColumnsOf(class) : IsLast(id, At(table[id], c), c)
RowsOK == \A id \in RowIds : table[id] # NoRow => RowOK(id)

\* An object has a value for each column.
ObjectOK(o) ==
    /\ o.dirty \subseteq ColumnsOf(class)
    /\ DOMAIN o.values = ColumnsOf(class)
    /\ \A c \in ColumnsOf(class) : IsOf(o.values[c], c)
\* What has been set in an object is what was last set in the row.
UpToDate(o, id) ==
    \A c \in o.dirty :
        /\ o.values[c] # Null
        /\ table[id] # NoRow => IsLast(id, o.values[c], c)
Started(w) ==
    /\ \E h \in Handlers(class) : w.name = h.name /\ w.does = h.does
    /\ w.at \in 1..Len(w.does)
    /\ w.outcome = "ok" /\ w.n # 0
    /\ w.at # 1 \/ w.does[1].do # "insert" => w.id \in RowIds
    /\ (\A j \in 1..(w.at - 1) : w.does[j].do \in Looks) => w.object = New(class)
    /\ w.name # Deploying => w.object.dirty = {}
    /\ w.name = Deploying /\ w.at # 1 =>
          /\ w.object.dirty \subseteq {"status", "revision", "active"}
          /\ w.id <= issued
          /\ UpToDate(w.object, w.id)
WorkOK(a) ==
    /\ IsWork(work[a])
    /\ Len(work[a].does) \in Nat
    /\ work[a].id \in 0..MaxRows
    /\ ObjectOK(work[a].object)
    /\ work[a].at = 0 \/ Started(work[a])
WorksOK == \A a \in Actors : WorkOK(a)

\* Deployments of a project exclude each other.
Deploys(a) == work[a].at # 0 /\ work[a].name \in InDeployment
OneDeployment == \A a, b \in Actors : Deploys(a) /\ Deploys(b) => a = b

\* Between any two statements of any handlers, each row has the last values that were set in
\* it, and what is still to be written back is among them.
Sound == Shape /\ RowsOK /\ WorksOK /\ OneDeployment
=============================================================================
