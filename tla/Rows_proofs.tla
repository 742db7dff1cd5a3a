------------------------------ MODULE Rows_proofs ------------------------------
(***************************************************************************)
(* That no write is lost and no value lands in another column's place, for *)
(* any number of handlers, rows and restarts.                              *)
(*                                                                         *)
(* What the classes have in common with their tables (Fitting) is decided  *)
(* by TLC, class by class: it is a finite fact about the generated code.   *)
(* What follows from it for handlers that interleave is proved here.       *)
(***************************************************************************)
EXTENDS Fitting, TLAPS, FiniteSetTheorems

ClassFits == Fits(class)

-----------------------------------------------------------------------------
(* Columns and the values that are bound to them *)

\* A column has one place in a list.
LEMMA PlaceIs ==
    ASSUME NEW columns, Distinct(columns)
    PROVE /\ \A i \in 1..Len(columns) : Place(columns, columns[i]) = i
          /\ \A c \in Range(columns) :
                Place(columns, c) \in 1..Len(columns) /\ columns[Place(columns, c)] = c
<1>1. DOMAIN columns = 1..Len(columns)
  BY DEF Distinct
<1>2. ASSUME NEW i \in 1..Len(columns) PROVE Place(columns, columns[i]) = i
  <2> DEFINE p == Place(columns, columns[i])
  <2>1. p \in DOMAIN columns /\ columns[p] = columns[i]
    BY <1>1 DEF Place
  <2> QED BY <1>1, <2>1 DEF Distinct
<1>3. ASSUME NEW c \in Range(columns)
      PROVE Place(columns, c) \in 1..Len(columns) /\ columns[Place(columns, c)] = c
  BY <1>1, <1>3 DEF Place, Range
<1> QED BY <1>2, <1>3

\* No two columns of a set have the same number in it.
LEMMA NumbersDiffer ==
    ASSUME NEW columns, Distinct(columns), NEW some, some \subseteq Range(columns),
           NEW c \in some, NEW d \in some, Number(columns, some, c) = Number(columns, some, d)
    PROVE c = d
<1> DEFINE U(x) == {columns[i] : i \in 1..Place(columns, x)} \cap some
<1>0. Len(columns) \in Nat /\ DOMAIN columns = 1..Len(columns)
  BY DEF Distinct
<1>1. ASSUME NEW x \in some PROVE IsFiniteSet(U(x)) /\ x \in U(x)
  <2>1. Place(columns, x) \in 1..Len(columns) /\ columns[Place(columns, x)] = x
    BY PlaceIs
  <2> DEFINE k == Place(columns, x)
             V == {columns[i] : i \in 1..k}
             f == [i \in 1..k |-> columns[i]]
  <2>2. IsFiniteSet(1..k)
    BY <1>0, <2>1, FS_Interval
  <2>3. f \in Surjection(1..k, V)
    BY DEF Surjection
  <2>4. IsFiniteSet(V)
    BY <2>2, <2>3, FS_Surjection
  <2>5. x \in V
    BY <1>0, <2>1
  <2> QED BY <2>4, <2>5, FS_Subset
<1>2. ASSUME NEW x \in some, NEW y \in some, Place(columns, x) < Place(columns, y),
             Cardinality(U(x)) = Cardinality(U(y))
      PROVE FALSE
  <2>1. /\ Place(columns, x) \in 1..Len(columns) /\ columns[Place(columns, x)] = x
        /\ Place(columns, y) \in 1..Len(columns) /\ columns[Place(columns, y)] = y
    BY PlaceIs
  <2>2. U(x) \subseteq U(y)
    BY <1>0, <1>2, <2>1
  <2>3. y \notin U(x)
    <3>1. \A i \in 1..Place(columns, x) : columns[i] # y
      BY <1>0, <1>2, <2>1 DEF Distinct
    <3> QED BY <3>1
  <2>4. y \in U(y) /\ IsFiniteSet(U(y)) /\ IsFiniteSet(U(x))
    BY <1>1
  <2> HIDE DEF U
  <2> QED BY <1>2, <2>2, <2>3, <2>4, FS_Subset
<1>3. /\ Place(columns, c) \in 1..Len(columns) /\ columns[Place(columns, c)] = c
      /\ Place(columns, d) \in 1..Len(columns) /\ columns[Place(columns, d)] = d
  BY PlaceIs
<1>4. Cardinality(U(c)) = Cardinality(U(d))
  BY DEF Number
<1>5. ~ (Place(columns, c) < Place(columns, d)) /\ ~ (Place(columns, d) < Place(columns, c))
  BY <1>2, <1>4
<1>6. Place(columns, c) = Place(columns, d)
  BY <1>0, <1>3, <1>5
<1> QED BY <1>3, <1>6

\* Where columns and values have the same order, each column gets its value.
LEMMA BoundIs ==
    ASSUME NEW o, NEW args, NEW columns, Distinct(args),
           NEW named, named = Range(args) \cap o.dirty,
           \A c \in named : Number(columns, named, c) = Number(args, named, c)
    PROVE Bound(o, args, columns, named) = [c \in named |-> o.values[c]]
<1> DEFINE set == Range(args) \cap o.dirty
<1>1. ASSUME NEW c \in named
      PROVE (CHOOSE d \in set : Number(args, set, d) = Number(columns, named, c)) = c
  <2>1. \A d \in set : Number(args, set, d) = Number(args, set, c) => d = c
    BY NumbersDiffer
  <2>2. Number(args, set, c) = Number(columns, named, c)
    OBVIOUS
  <2> QED BY <2>1, <2>2
<1>2. Bound(o, args, columns, named) =
         [c \in named |->
            o.values[CHOOSE d \in set : Number(args, set, d) = Number(columns, named, c)]]
  BY DEF Bound
<1> HIDE DEF set
<1> QED BY <1>1, <1>2

\* An UPDATE sends the columns that have been set, each with its value.
LEMMA UpdateIs ==
    ASSUME NEW C, StatementsFit(C), NEW o
    PROVE UpdateOf(C, o) = [c \in Range(C.updateColumns) \cap o.dirty |-> o.values[c]]
<1>1. Distinct(C.updateColumns) /\ C.updateArgs = C.updateColumns
  BY DEF StatementsFit
<1>2. Bound(o, C.updateColumns, C.updateColumns, Range(C.updateColumns) \cap o.dirty) =
         [c \in Range(C.updateColumns) \cap o.dirty |-> o.values[c]]
  BY <1>1, BoundIs
<1> QED BY <1>1, <1>2 DEF UpdateOf

\* An INSERT sends what has been set and is not left to the table, each column with its value.
LEMMA InsertIs ==
    ASSUME NEW C, StatementsFit(C), NEW o, o.dirty \subseteq ColumnsOf(C)
    PROVE /\ InsertOf(C, o).values = [c \in o.dirty \ C.inserting.always |-> o.values[c]]
          /\ InsertOf(C, o).returns <=>
                C.inserting.always \cup (C.inserting.unlessSet \ o.dirty) # {}
<1> DEFINE how == C.inserting
           left == how.always \cup (how.unlessSet \ o.dirty)
           named == o.dirty \ how.always
<1>1. /\ Distinct(C.outputArgs) /\ how.columns = C.row
      /\ Range(C.outputArgs) = ColumnsOf(C) \ how.always
      /\ \A c \in Range(C.outputArgs) : Upto(C.outputArgs, c) = Upto(C.row, c) \ how.always
  BY DEF StatementsFit
<1>2. /\ (Range(how.columns) \cap o.dirty) \ left = named
      /\ named = Range(C.outputArgs) \cap o.dirty
  BY <1>1 DEF ColumnsOf
<1>3. \A c \in named : Number(how.columns, named, c) = Number(C.outputArgs, named, c)
  <2>0. \A c \in named : Upto(C.outputArgs, c) = Upto(C.row, c) \ how.always
    BY <1>1, <1>2
  <2>1. \A c \in named : Upto(C.row, c) \cap named = Upto(C.outputArgs, c) \cap named
    BY <2>0
  <2> QED BY <1>1, <2>1 DEF Number, Upto
<1>4. Bound(o, C.outputArgs, how.columns, named) = [c \in named |-> o.values[c]]
  <2>1. Distinct(C.outputArgs) /\ named = Range(C.outputArgs) \cap o.dirty
    BY <1>1, <1>2
  <2> HIDE DEF named, how
  <2> QED BY <1>3, <2>1, BoundIs
<1> QED BY <1>2, <1>4 DEF InsertOf

-----------------------------------------------------------------------------
(* Sequences of values as rows and objects *)

\* A function of 1..n is a sequence, and what is appended to it does not move its values.
LEMMA SequenceIs ==
    ASSUME NEW f, NEW n \in Nat, f = [i \in 1..n |-> f[i]]
    PROVE f \in Seq(Range(f)) /\ Len(f) = n /\ DOMAIN f = 1..n
<1>1. f \in [1..n -> Range(f)]
  BY DEF Range
<1>2. f \in Seq(Range(f))
  BY <1>1
<1> QED BY <1>1, <1>2

\* A sequence with another one appended has its own elements first.
LEMMA AppendedIs ==
    ASSUME NEW f, NEW n \in Nat, f = [i \in 1..n |-> f[i]],
           NEW g, NEW m \in Nat, g = [i \in 1..m |-> g[i]]
    PROVE Len(f \o g) = n + m /\ \A i \in 1..n : (f \o g)[i] = f[i]
<1> DEFINE S == Range(f) \cup Range(g)
<1>1. f \in [1..n -> S] /\ g \in [1..m -> S]
  BY DEF Range
<1> HIDE DEF S
<1>2. f \in Seq(S) /\ g \in Seq(S) /\ Len(f) = n /\ Len(g) = m
  <2>1. f \in Seq(S) /\ g \in Seq(S)
    BY <1>1
  <2>2. Len(f) = n /\ Len(g) = m
    BY SequenceIs
  <2> QED BY <2>1, <2>2
<1> QED BY <1>2

\* Stored finds a column by its place.
LEMMA StoredIs ==
    ASSUME RowFits(class), NEW row
    PROVE /\ \A c \in ColumnsOf(class) : Stored(row, c) = At(row, c)
          /\ \A i \in 1..Len(class.row) :
                class.row[i] \in ColumnsOf(class) /\ At(row, class.row[i]) = row[i]
<1>1. /\ Distinct(class.row) /\ DOMAIN class.row = 1..Len(class.row)
      /\ DOMAIN Columns = 1..Len(class.row)
      /\ \A i \in 1..Len(class.row) : Columns[i].name = class.row[i]
  BY DEF RowFits, Columns, Distinct
<1>2. ASSUME NEW c \in ColumnsOf(class)
      PROVE (CHOOSE i \in DOMAIN Columns : Columns[i].name = c) = Place(class.row, c)
  <2>1. /\ Place(class.row, c) \in 1..Len(class.row) /\ class.row[Place(class.row, c)] = c
        /\ \A i \in 1..Len(class.row) : Place(class.row, class.row[i]) = i
    BY <1>1, PlaceIs DEF ColumnsOf
  <2>2. \A i \in DOMAIN Columns : Columns[i].name = c <=> i = Place(class.row, c)
    BY <1>1, <2>1
  <2>3. Place(class.row, c) \in DOMAIN Columns
    BY <1>1, <2>1
  <2> QED BY <2>2, <2>3
<1>3. \A c \in ColumnsOf(class) : Stored(row, c) = At(row, c)
  BY <1>2 DEF Stored, At
<1>4. \A i \in 1..Len(class.row) :
         class.row[i] \in ColumnsOf(class) /\ Place(class.row, class.row[i]) = i
  BY <1>1, PlaceIs DEF ColumnsOf, Range
<1> QED BY <1>3, <1>4 DEF At

\* The object of a row has its values, also if something is appended to the row.
LEMMA FromRowIs ==
    ASSUME RowFits(class), NEW row, IsRow(row)
    PROVE FromRow(class, row) =
             [values |-> [c \in ColumnsOf(class) |-> At(row, c)], dirty |-> {}]
<1>1. Len(class.row) \in Nat
  BY DEF RowFits, Distinct
<1>2. Len(row) = Len(class.row)
  BY <1>1, SequenceIs DEF IsRow
<1>4. [c \in ColumnsOf(class) |-> row[Place(class.row, c)]] =
         [c \in ColumnsOf(class) |-> At(row, c)]
  BY DEF At
<1>5. ~ (Len(class.row) > Len(row))
  BY <1>1, <1>2
<1> QED BY <1>4, <1>5 DEF FromRow

\* Columns that follow those of the class are not looked at.
LEMMA FromMoreIs ==
    ASSUME RowFits(class), NEW row, IsRow(row), NEW more, NEW m \in Nat,
           more = [i \in 1..m |-> more[i]]
    PROVE FromRow(class, row \o more) =
             [values |-> [c \in ColumnsOf(class) |-> At(row, c)], dirty |-> {}]
<1>1. Len(class.row) \in Nat
  BY DEF RowFits, Distinct
<1>2. /\ Len(row \o more) = Len(class.row) + m
      /\ \A i \in 1..Len(class.row) : (row \o more)[i] = row[i]
  BY <1>1, AppendedIs DEF IsRow
<1>3. \A c \in ColumnsOf(class) :
         Place(class.row, c) \in 1..Len(class.row)
  BY PlaceIs DEF RowFits, ColumnsOf
<1>4. [c \in ColumnsOf(class) |-> (row \o more)[Place(class.row, c)]] =
         [c \in ColumnsOf(class) |-> At(row, c)]
  BY <1>2, <1>3 DEF At
<1>5. ~ (Len(class.row) > Len(row \o more))
  BY <1>1, <1>2
<1> QED BY <1>4, <1>5 DEF FromRow

-----------------------------------------------------------------------------
(* Rows that are made and changed *)

\* Which columns of the table are filled, and which may not be null.
LEMMA KindsAre ==
    ASSUME RowFits(class), NEW i \in 1..Len(class.row)
    PROVE /\ class.row[i] \in FilledOf <=> Columns[i].filled # "never"
          /\ class.row[i] \in TriggersOf <=> Columns[i].filled = "always"
          /\ class.row[i] \in NeededIn(class) <=> Columns[i].notNull
<1>1. /\ DOMAIN Columns = 1..Len(class.row)
      /\ \A j \in 1..Len(class.row) : Columns[j].name = class.row[j]
      /\ \A j \in 1..Len(class.row) : class.row[i] = class.row[j] => i = j
  BY DEF RowFits, Columns, Distinct
<1>2. FilledOf = {Columns[j].name : j \in {j \in DOMAIN Columns : Columns[j].filled # "never"}}
  BY DEF FilledOf, Named
<1>3. TriggersOf = {Columns[j].name : j \in {j \in DOMAIN Columns : Columns[j].filled = "always"}}
  BY DEF TriggersOf, Named
<1>4. NeededIn(class) = {Columns[j].name : j \in {j \in DOMAIN Columns : Columns[j].notNull}}
  BY DEF NeededIn, Named, Columns
<1>5. class.row[i] \in FilledOf <=> Columns[i].filled # "never"
  BY <1>1, <1>2
<1>6. class.row[i] \in TriggersOf <=> Columns[i].filled = "always"
  BY <1>1, <1>3
<1>7. class.row[i] \in NeededIn(class) <=> Columns[i].notNull
  BY <1>1, <1>4
<1> QED BY <1>5, <1>6, <1>7

\* A row is refused when it lacks a value that the table needs.
LEMMA MissingIs ==
    ASSUME RowFits(class), NEW row
    PROVE Missing(Columns, row) <=> Lacks(row)
<1>1. DOMAIN Columns = 1..Len(class.row)
  BY DEF RowFits, Columns
<1>2. ASSUME Missing(Columns, row)
      PROVE \E c \in ColumnsOf(class) \cap NeededIn(class) : At(row, c) = Null
  <2>1. PICK i \in 1..Len(class.row) : Columns[i].notNull /\ row[i] = NullValue
    BY <1>1, <1>2 DEF Missing
  <2>2. class.row[i] \in ColumnsOf(class) \cap NeededIn(class) /\ At(row, class.row[i]) = Null
    BY <2>1, KindsAre, StoredIs DEF Null, NullValue
  <2> QED BY <2>2
<1>3. ASSUME NEW c \in ColumnsOf(class) \cap NeededIn(class), At(row, c) = Null
      PROVE Missing(Columns, row)
  <2>1. Place(class.row, c) \in 1..Len(class.row) /\ class.row[Place(class.row, c)] = c
    BY PlaceIs DEF RowFits, ColumnsOf
  <2> DEFINE i == Place(class.row, c)
  <2>2. Columns[i].notNull
    BY <2>1, KindsAre
  <2>3. row[i] = Null
    BY <1>3 DEF At
  <2> QED BY <1>1, <2>1, <2>2, <2>3 DEF Missing, Null, NullValue
<1> QED BY <1>2, <1>3 DEF Lacks

\* What an INSERT and an UPDATE put in each column.
LEMMA NewRowIs ==
    ASSUME RowFits(class), NEW given, NEW filling
    PROVE LET row == NewRow(Columns, given, filling) IN
          /\ IsRow(row)
          /\ \A c \in ColumnsOf(class) :
                At(row, c) = IF c \notin TriggersOf /\ c \in DOMAIN given THEN given[c]
                                 ELSE IF c \in FilledOf THEN filling[c] ELSE Null
<1> DEFINE row == NewRow(Columns, given, filling)
<1>1. /\ DOMAIN Columns = 1..Len(class.row)
      /\ \A j \in 1..Len(class.row) : Columns[j].name = class.row[j]
  BY DEF RowFits, Columns
<1>2. IsRow(row)
  BY <1>1 DEF NewRow, IsRow
<1>3. ASSUME NEW c \in ColumnsOf(class)
      PROVE At(row, c) = IF c \notin TriggersOf /\ c \in DOMAIN given THEN given[c]
                             ELSE IF c \in FilledOf THEN filling[c] ELSE Null
  <2> DEFINE i == Place(class.row, c)
  <2>1. i \in 1..Len(class.row) /\ class.row[i] = c
    BY PlaceIs DEF RowFits, ColumnsOf
  <2>2. At(row, c) = row[i]
    BY DEF At
  <2>3. /\ c \in FilledOf <=> Columns[i].filled # "never"
        /\ c \in TriggersOf <=> Columns[i].filled = "always"
    BY <2>1, KindsAre
  <2> HIDE DEF i
  <2>4. row[i] = IF Columns[i].filled # "always" /\ c \in DOMAIN given THEN given[c]
                 ELSE IF Columns[i].filled # "never" THEN filling[c] ELSE NullValue
    BY <1>1, <2>1 DEF NewRow
  <2> QED BY <2>2, <2>3, <2>4 DEF Null, NullValue
<1> QED BY <1>2, <1>3

\* An UPDATE changes the columns that it names, and leaves the others.
LEMMA ChangedRowIs ==
    ASSUME RowFits(class), NEW old, NEW given
    PROVE LET row == ChangedRow(Columns, old, given) IN
          /\ IsRow(row)
          /\ \A c \in ColumnsOf(class) :
                At(row, c) = IF c \in DOMAIN given THEN given[c] ELSE At(old, c)
<1> DEFINE row == ChangedRow(Columns, old, given)
<1>1. /\ DOMAIN Columns = 1..Len(class.row)
      /\ \A j \in 1..Len(class.row) : Columns[j].name = class.row[j]
  BY DEF RowFits, Columns
<1>2. IsRow(row)
  BY <1>1 DEF ChangedRow, IsRow
<1>3. ASSUME NEW c \in ColumnsOf(class)
      PROVE At(row, c) = IF c \in DOMAIN given THEN given[c] ELSE At(old, c)
  <2> DEFINE i == Place(class.row, c)
  <2>1. i \in 1..Len(class.row) /\ class.row[i] = c
    BY PlaceIs DEF RowFits, ColumnsOf
  <2>2. At(row, c) = row[i] /\ At(old, c) = old[i]
    BY DEF At
  <2> HIDE DEF i
  <2>3. row[i] = IF c \in DOMAIN given THEN given[c] ELSE old[i]
    BY <1>1, <2>1 DEF ChangedRow
  <2> QED BY <2>2, <2>3
<1> QED BY <1>2, <1>3

-----------------------------------------------------------------------------
(* Steps of a handler *)

\* A handler that goes on with an object: the next statement, or none.
LEMMA GoingIs ==
    ASSUME NEW w, IsWork(w), NEW o
    PROVE LET v == Going([w EXCEPT !.object = o]) IN
          v = [name |-> w.name, does |-> w.does,
               at |-> IF w.at = Len(w.does) THEN 0 ELSE w.at + 1, n |-> w.n, id |-> w.id,
               object |-> o, outcome |-> w.outcome]
<1> DEFINE u == [w EXCEPT !.object = o]
<1>1. u = [name |-> w.name, does |-> w.does, at |-> w.at, n |-> w.n, id |-> w.id,
           object |-> o, outcome |-> w.outcome]
  BY DEF IsWork
<1>2. Going(u) = [u EXCEPT !.at = IF u.at = Len(u.does) THEN 0 ELSE u.at + 1]
  BY DEF Going
<1> HIDE DEF u
<1>3. u.at = w.at /\ u.does = w.does
  BY <1>1
<1>4. Going(u) = [u EXCEPT !.at = IF w.at = Len(w.does) THEN 0 ELSE w.at + 1]
  BY <1>2, <1>3
<1>5. Going(u) = [name |-> w.name, does |-> w.does,
               at |-> IF w.at = Len(w.does) THEN 0 ELSE w.at + 1, n |-> w.n, id |-> w.id,
               object |-> o, outcome |-> w.outcome]
  BY <1>1, <1>4
<1> QED BY <1>5 DEF u

\* Only this handler goes on.
LEMMA GoesIs ==
    ASSUME NEW a \in Actors, work = [b \in Actors |-> work[b]], IsWork(work[a]), NEW o, Goes(a, o)
    PROVE /\ work' = [b \in Actors |-> work'[b]] /\ IsWork(work'[a])
          /\ \A b \in Actors \ {a} : work'[b] = work[b]
          /\ work'[a].name = work[a].name /\ work'[a].does = work[a].does
          /\ work'[a].at = IF work[a].at = Len(work[a].does) THEN 0 ELSE work[a].at + 1
          /\ work'[a].n = work[a].n /\ work'[a].id = work[a].id
          /\ work'[a].object = o /\ work'[a].outcome = work[a].outcome
<1>1. work' = [work EXCEPT ![a] = Going([work[a] EXCEPT !.object = o])]
  BY DEF Goes
<1>2. /\ work' = [b \in Actors |-> work'[b]]
      /\ \A b \in Actors \ {a} : work'[b] = work[b]
      /\ work'[a] = Going([work[a] EXCEPT !.object = o])
  BY <1>1
<1>3. work'[a] = [name |-> work[a].name, does |-> work[a].does,
               at |-> IF work[a].at = Len(work[a].does) THEN 0 ELSE work[a].at + 1,
               n |-> work[a].n, id |-> work[a].id,
               object |-> o, outcome |-> work[a].outcome]
  BY <1>2, GoingIs
<1> QED BY <1>2, <1>3 DEF IsWork

\* Only this handler ends.
LEMMA EndsIs ==
    ASSUME NEW a \in Actors, work = [b \in Actors |-> work[b]], IsWork(work[a]), NEW o, NEW why,
           Ends(a, o, why)
    PROVE /\ work' = [b \in Actors |-> work'[b]] /\ IsWork(work'[a])
          /\ \A b \in Actors \ {a} : work'[b] = work[b]
          /\ work'[a].name = work[a].name /\ work'[a].does = work[a].does
          /\ work'[a].at = 0
          /\ work'[a].n = work[a].n /\ work'[a].id = work[a].id
          /\ work'[a].object = o /\ work'[a].outcome = why
<1>1. work' = [work EXCEPT ![a] = [work[a] EXCEPT !.at = 0, !.object = o, !.outcome = why]]
  BY DEF Ends
<1>2. /\ work' = [b \in Actors |-> work'[b]]
      /\ \A b \in Actors \ {a} : work'[b] = work[b]
      /\ work'[a] = [work[a] EXCEPT !.at = 0, !.object = o, !.outcome = why]
  BY <1>1
<1> QED BY <1>2 DEF IsWork

-----------------------------------------------------------------------------
(* What handlers do, and what stays as it is *)

\* What is known of a handler that is running.
LEMMA RunningIs ==
    ASSUME ClassFits, NEW a \in Actors, WorkOK(a), Running(a)
    PROVE /\ Started(work[a])
          /\ work[a].at \in 1..Len(work[a].does)
          /\ Len(work[a].does) \in Nat
          /\ StatementFits(class, [name |-> work[a].name, does |-> work[a].does], work[a].at)
          /\ work[a].name = Deploying =>
                class = Deployment /\ work[a].does = deployProjectCached.does
<1>1. Started(work[a]) /\ work[a].at \in 1..Len(work[a].does) /\ Len(work[a].does) \in Nat
  BY DEF WorkOK, Running, Started
<1>2. PICK h \in Handlers(class) : work[a].name = h.name /\ work[a].does = h.does
  BY <1>1 DEF Started
<1>3. HandlerFits(class, h)
  BY DEF ClassFits, Fits
<1>4. StatementFits(class, h, work[a].at)
  BY <1>1, <1>2, <1>3 DEF HandlerFits
<1>5. StatementFits(class, [name |-> work[a].name, does |-> work[a].does], work[a].at)
  BY <1>2, <1>4 DEF StatementFits
<1>6. work[a].name = Deploying =>
                class = Deployment /\ work[a].does = deployProjectCached.does
  BY <1>2, <1>3 DEF HandlerFits
<1> QED BY <1>1, <1>5, <1>6

\* The statement UpdateAnyway.
LEMMA UpdateAnywayIs ==
    ASSUME NEW sets PROVE UpdateAnyway(sets).do = "update anyway" /\ UpdateAnyway(sets).sets = sets
BY DEF UpdateAnyway, Statement

\* The statements of deployProjectCached.
LEMMA DeployingIs ==
    LET does == deployProjectCached.does IN
    /\ Len(does) = 5
    /\ does[1].do = "insert"
    /\ does[2].do = "update anyway" /\ does[2].sets = Set({"status"})
    /\ does[3].do = "update anyway" /\ does[3].sets = Set({"revision"})
    /\ does[4].do = "activate"
    /\ does[5].do = "update anyway" /\ does[5].sets = Set({"status"})
<1> DEFINE does == deployProjectCached.does
<1>1. /\ Len(does) = 5
      /\ does[1] = Insert(SetSome({"project_id", "status"} \cup Source, {"user_id"}))
      /\ does[2] = UpdateAnyway(Set({"status"})) /\ does[3] = UpdateAnyway(Set({"revision"}))
      /\ does[4] = SetActive(Set({"active"})) /\ does[5] = UpdateAnyway(Set({"status"}))
  BY DEF deployProjectCached, Handler
<1> HIDE DEF does
<1>2. does[1].do = "insert" /\ does[4].do = "activate"
  BY <1>1 DEF Insert, SetActive, Statement
<1>3. /\ does[2].do = "update anyway" /\ does[2].sets = Set({"status"})
      /\ does[3].do = "update anyway" /\ does[3].sets = Set({"revision"})
      /\ does[5].do = "update anyway" /\ does[5].sets = Set({"status"})
  BY <1>1, UpdateAnywayIs
<1> QED BY <1>1, <1>2, <1>3 DEF does

\* Where a deployment is tells what it does.
LEMMA DeployingDoes ==
    ASSUME ClassFits, NEW a \in Actors, WorkOK(a), Running(a), work[a].name = Deploying
    PROVE /\ class = Deployment /\ Len(work[a].does) = 5 /\ work[a].at \in 1..5
          /\ Current(a).do \notin Reads
          /\ work[a].at = 1 <=> Current(a).do = "insert"
          /\ work[a].at = 4 <=> Current(a).do = "activate"
          /\ work[a].at \in {2, 3, 5} <=> Current(a).do = "update anyway"
          /\ work[a].at \in {2, 5} => Current(a).sets = Set({"status"})
          /\ work[a].at = 3 => Current(a).sets = Set({"revision"})
<1> DEFINE does == deployProjectCached.does
<1>1. class = Deployment /\ work[a].does = does /\ work[a].at \in 1..Len(does)
  BY RunningIs
<1>2. /\ Len(does) = 5
      /\ does[1].do = "insert"
      /\ does[2].do = "update anyway" /\ does[2].sets = Set({"status"})
      /\ does[3].do = "update anyway" /\ does[3].sets = Set({"revision"})
      /\ does[4].do = "activate"
      /\ does[5].do = "update anyway" /\ does[5].sets = Set({"status"})
  BY DeployingIs
<1>3. Current(a) = does[work[a].at]
  BY <1>1 DEF Current
<1> HIDE DEF does
<1>4. \/ work[a].at = 1 \/ work[a].at = 2 \/ work[a].at = 3 \/ work[a].at = 4
      \/ work[a].at = 5
  <2>1. work[a].at \in 1..5
    <3>1. Len(does) = 5
      BY <1>2
    <3> QED BY <1>1, <3>1
  <2> QED BY <2>1
<1>5. Len(work[a].does) = 5
  BY <1>1, <1>2
<1> QED BY <1>1, <1>2, <1>3, <1>4, <1>5 DEF Reads, Looks

\* The class and its columns do not change.
LEMMA SameClass ==
    /\ FilledOf = FilledIn(class) /\ FilledOf' = FilledIn(class')
    /\ class' = class => (IdIsGenerated' <=> IdIsGenerated)
<1>1. FilledOf = FilledIn(class) /\ FilledOf' = FilledIn(class')
  BY DEF FilledOf, FilledIn, Columns, Named
<1> QED BY <1>1 DEF IdIsGenerated

\* What stays as it is for rows and handlers that a step does not touch.
LEMMA RowsStay ==
    ASSUME RowsOK, UNCHANGED <<class, table, truth, issued, raced>>
    PROVE RowsOK'
BY SameClass DEF RowsOK, RowOK, IsRow, At, Lacks, IsLast, IsOf

\* An object stays up to date while the table does not change.
LEMMA UpToDateStays ==
    ASSUME NEW o, NEW id, UpToDate(o, id), UNCHANGED <<table, truth, raced>>
    PROVE UpToDate(o, id)'
BY DEF UpToDate, IsLast

\* An object stays one of the class.
LEMMA ObjectStays ==
    ASSUME NEW o, class' = class, ObjectOK(o)
    PROVE ObjectOK(o)'
BY DEF ObjectOK, IsOf

\* The others go on as before.
LEMMA OthersStay ==
    ASSUME NEW b \in Actors, WorkOK(b), work'[b] = work[b], class' = class,
           issued \in Nat, issued' \in Nat, issued <= issued', Shape,
           Running(b) /\ work[b].name = Deploying /\ work[b].at # 1 =>
              UpToDate(work[b].object, work[b].id)'
    PROVE WorkOK(b)'
<1> DEFINE w == work[b]
<1>1. /\ IsWork(w) /\ Len(w.does) \in Nat /\ w.id \in 0..MaxRows /\ ObjectOK(w.object)
      /\ w.at = 0 \/ Started(w)
  BY DEF WorkOK
<1>2. ObjectOK(w.object)'
  BY <1>1 DEF ObjectOK, IsOf
<1>3. CASE w.at = 0
  BY <1>1, <1>2, <1>3 DEF WorkOK, IsWork
<1>4. CASE w.at # 0
  <2>1. w.name = Deploying /\ w.at # 1 => w.id <= issued'
    <3>1. ASSUME w.name = Deploying, w.at # 1 PROVE w.id <= issued
      BY <1>1, <1>4, <3>1 DEF Started
    <3> QED BY <1>1, <3>1, BoundsAssumption
  <2>2. w.name = Deploying /\ w.at # 1 => UpToDate(work[b].object, work[b].id)'
    BY <1>4 DEF Running
  <2>3. Started(work[b])'
    BY <1>1, <1>4, <2>1, <2>2 DEF Started
  <2> QED BY <1>1, <1>2, <2>3 DEF WorkOK, IsWork
<1> QED BY <1>3, <1>4

\* Deployments exclude each other as long as none is started.
LEMMA OneStays ==
    ASSUME OneDeployment, \A b \in Actors : Deploys(b)' => Deploys(b)
    PROVE OneDeployment'
BY DEF OneDeployment

-----------------------------------------------------------------------------
(* Handlers that read *)

\* What the steps below need of Sound.
LEMMA SoundIs ==
    ASSUME Sound, NEW a \in Actors
    PROVE /\ Shape /\ RowsOK /\ OneDeployment /\ WorkOK(a) /\ IsWork(work[a])
          /\ work = [b \in Actors |-> work[b]]
          /\ issued \in Nat
BY BoundsAssumption DEF Sound, WorksOK, WorkOK, Shape

\* A new object is one that the constructor without a row makes.
LEMMA NewIs == ObjectOK(New(class)) /\ New(class).dirty = {}
BY DEF ObjectOK, New, IsOf, Null, NullValue

\* A step of one handler that leaves the table alone.
LEMMA OneWorks ==
    ASSUME Sound, KeepTable, NEW a \in Actors, work' = [b \in Actors |-> work'[b]],
           \A b \in Actors \ {a} : work'[b] = work[b], WorkOK(a)',
           Deploys(a)' => Deploys(a)
    PROVE Sound'
<1>1. Shape'
  BY DEF Sound, Shape, KeepTable
<1>2. RowsOK'
  BY RowsStay DEF Sound, KeepTable
<1>3. ASSUME NEW b \in Actors, b # a PROVE WorkOK(b)'
  <2>1. Running(b) /\ work[b].name = Deploying /\ work[b].at # 1 =>
              UpToDate(work[b].object, work[b].id)'
    <3>1. SUFFICES ASSUME Running(b), work[b].name = Deploying, work[b].at # 1
                   PROVE UpToDate(work[b].object, work[b].id)'
      OBVIOUS
    <3>2. UpToDate(work[b].object, work[b].id)
      BY <3>1, SoundIs DEF WorkOK, Started, Running
    <3>3. work'[b] = work[b]
      BY <1>3
    <3> QED BY <3>2, <3>3 DEF KeepTable, UpToDate, IsLast
  <2> QED BY <1>3, <2>1, SoundIs, OthersStay DEF KeepTable
<1>4. OneDeployment'
  <2>1. \A b \in Actors : Deploys(b)' => Deploys(b)
    BY DEF Deploys
  <2> QED BY <2>1, OneStays DEF Sound
<1> QED BY <1>1, <1>2, <1>3, <1>4 DEF Sound, WorksOK

\* A handler that ends is no longer looked at.
LEMMA EndIs ==
    ASSUME Sound, NEW a \in Actors, NEW o, ObjectOK(o)', NEW why, Ends(a, o, why)
    PROVE /\ work' = [b \in Actors |-> work'[b]]
          /\ \A b \in Actors \ {a} : work'[b] = work[b]
          /\ WorkOK(a)' /\ ~ Deploys(a)'
<1>1. /\ work' = [b \in Actors |-> work'[b]] /\ IsWork(work'[a])
      /\ \A b \in Actors \ {a} : work'[b] = work[b]
      /\ work'[a].name = work[a].name /\ work'[a].does = work[a].does
      /\ work'[a].at = 0 /\ work'[a].id = work[a].id /\ work'[a].object = o
  BY SoundIs, EndsIs
<1>2. WorkOK(a)
  BY SoundIs
<1> QED BY <1>1, <1>2 DEF WorkOK, Deploys

\* A handler that goes on after a statement other than the first of an insertion.
LEMMA GoIs ==
    ASSUME Sound, ClassFits, NEW a \in Actors, Running(a), NEW o, ObjectOK(o)', Goes(a, o),
           class' = class, issued' = issued, Current(a).do # "insert",
           Current(a).do \in Looks => o = work[a].object,
           work[a].name # Deploying /\ Current(a).do \in Reads => o.dirty = {},
           work[a].name = Deploying =>
              o.dirty \subseteq {"status", "revision", "active"} /\ UpToDate(o, work[a].id)'
    PROVE /\ work' = [b \in Actors |-> work'[b]]
          /\ \A b \in Actors \ {a} : work'[b] = work[b]
          /\ WorkOK(a)' /\ (Deploys(a)' => Deploys(a))
          /\ work'[a].object = o
<1>1. /\ work' = [b \in Actors |-> work'[b]] /\ IsWork(work'[a])
      /\ \A b \in Actors \ {a} : work'[b] = work[b]
      /\ work'[a].name = work[a].name /\ work'[a].does = work[a].does
      /\ work'[a].at = IF work[a].at = Len(work[a].does) THEN 0 ELSE work[a].at + 1
      /\ work'[a].n = work[a].n /\ work'[a].id = work[a].id
      /\ work'[a].object = o /\ work'[a].outcome = work[a].outcome
  BY SoundIs, GoesIs
<1>2. /\ WorkOK(a) /\ Started(work[a])
      /\ work[a].at \in 1..Len(work[a].does) /\ Len(work[a].does) \in Nat
      /\ StatementFits(class, [name |-> work[a].name, does |-> work[a].does], work[a].at)
  BY SoundIs, RunningIs
<1>3. Deploys(a)' => Deploys(a)
  BY <1>1, <1>2 DEF Deploys, Running
<1>4. CASE work'[a].at = 0
  BY <1>1, <1>2, <1>3, <1>4 DEF WorkOK
<1>5. CASE work'[a].at # 0
  <2>1. /\ work[a].at # Len(work[a].does) /\ work'[a].at = work[a].at + 1
        /\ work'[a].at \in 1..Len(work[a].does) /\ work'[a].at # 1
    BY <1>1, <1>2, <1>5
  <2>2. work[a].name # Deploying => Current(a).do \in Reads
    BY <1>2, <2>1 DEF StatementFits, Current
  <2>3. work[a].id \in RowIds
    <3>1. CASE work[a].at = 1
      BY <1>2, <3>1 DEF Started, Current
    <3>2. CASE work[a].at # 1
      BY <1>2, <3>2 DEF Started
    <3> QED BY <3>1, <3>2
  <2>4. (\A j \in 1..(work'[a].at - 1) : work[a].does[j].do \in Looks) => o = New(class)
    <3>1. SUFFICES ASSUME \A j \in 1..(work'[a].at - 1) : work[a].does[j].do \in Looks
                   PROVE o = New(class)
      OBVIOUS
    <3>2. work[a].at \in 1..(work'[a].at - 1)
          /\ \A j \in 1..(work[a].at - 1) : j \in 1..(work'[a].at - 1)
      BY <1>2, <2>1
    <3>3. Current(a).do \in Looks
      BY <3>1, <3>2 DEF Current
    <3>4. \A j \in 1..(work[a].at - 1) : work[a].does[j].do \in Looks
      BY <3>1, <3>2
    <3> QED BY <1>2, <3>3, <3>4 DEF Started
  <2>5. work[a].name = Deploying => work[a].id <= issued
    <3>1. ASSUME work[a].name = Deploying PROVE work[a].at # 1
      BY <1>2, <3>1, DeployingDoes
    <3> QED BY <1>2, <3>1 DEF Started
  <2>6. /\ \E h \in Handlers(class) : work[a].name = h.name /\ work[a].does = h.does
        /\ work[a].outcome = "ok" /\ work[a].n # 0
    BY <1>2 DEF Started
  <2>7. Started(work[a])'
    BY <1>1, <2>1, <2>2, <2>3, <2>4, <2>5, <2>6 DEF Started
  <2> QED BY <1>1, <1>2, <1>3, <2>7 DEF WorkOK
<1> QED BY <1>4, <1>5

\* Start: a new handler with an empty object, and no second deployment.
LEMMA StartSound ==
    ASSUME ClassFits, Sound, NEW a \in Actors, Start(a)
    PROVE Sound'
<1>1. PICK h \in Handlers(class), id \in RowIds \cup {0} :
         /\ id = 0 <=> (IdIsGenerated /\ h.does[1].do = "insert")
         /\ h.name \in InDeployment =>
              \A b \in Actors : Running(b) => work[b].name \notin InDeployment
         /\ work' = [work EXCEPT ![a] = [Idle EXCEPT !.name = h.name, !.does = h.does, !.at = 1,
                                                     !.n = started + 1, !.id = id]]
  BY DEF Start
<1>2. /\ ~Running(a) /\ started < MaxHandlers /\ started' = started + 1
      /\ UNCHANGED <<class, table, truth, issued, raced>>
  BY DEF Start
<1>3. /\ Shape /\ RowsOK /\ OneDeployment /\ work = [b \in Actors |-> work[b]]
      /\ issued \in Nat /\ started \in 0..MaxHandlers
  BY SoundIs DEF Shape
<1>4. HandlerFits(class, h)
  BY DEF ClassFits, Fits
<1>5. /\ work' = [b \in Actors |-> work'[b]]
      /\ \A b \in Actors \ {a} : work'[b] = work[b]
      /\ work'[a] = [name |-> h.name, does |-> h.does, at |-> 1, n |-> started + 1, id |-> id,
                     object |-> New(class), outcome |-> "ok"]
  <2>1. /\ work' = [b \in Actors |-> work'[b]]
        /\ \A b \in Actors \ {a} : work'[b] = work[b]
        /\ work'[a] = [Idle EXCEPT !.name = h.name, !.does = h.does, !.at = 1,
                                   !.n = started + 1, !.id = id]
    BY <1>1, <1>3
  <2> QED BY <2>1 DEF Idle
<1>6. started' \in 0..MaxHandlers /\ started + 1 # 0
  BY <1>2, <1>3, BoundsAssumption
<1>7. Shape'
  BY <1>2, <1>3, <1>5, <1>6 DEF Shape
<1>8. RowsOK'
  BY <1>2, <1>3, RowsStay
<1>9. WorkOK(a)'
  <2>1. ObjectOK(New(class))' /\ New(class).dirty = {} /\ New(class)' = New(class)
    <3>1. New(class)' = New(class)
      BY <1>2
    <3> QED BY <1>2, <3>1, NewIs, ObjectStays
  <2>2. Len(h.does) \in Nat \ {0}
    BY <1>4 DEF HandlerFits
  <2>3. id \in 0..MaxRows /\ (id # 0 => id \in RowIds)
    BY BoundsAssumption DEF RowIds
  <2>4. PICK w : w = work'[a]
    OBVIOUS
  <2>5. /\ w.name = h.name /\ w.does = h.does /\ w.at = 1 /\ w.n # 0 /\ w.id = id
        /\ w.object = New(class) /\ w.outcome = "ok"
    BY <1>5, <1>6, <2>4
  <2>6. Started(w)'
    BY <1>1, <1>2, <2>1, <2>2, <2>3, <2>5 DEF Started
  <2>7. Started(work[a])'
    BY <2>4, <2>6
  <2> QED BY <1>5, <2>1, <2>2, <2>3, <2>7 DEF WorkOK, IsWork
<1>10. ASSUME NEW b \in Actors, b # a PROVE WorkOK(b)'
  <2>1. WorkOK(b) /\ work'[b] = work[b]
    BY <1>5, <1>10, SoundIs
  <2>2. ASSUME Running(b), work[b].name = Deploying, work[b].at # 1
        PROVE UpToDate(work[b].object, work[b].id)'
    BY <1>2, <2>1, <2>2 DEF WorkOK, Started, Running, UpToDate, IsLast
  <2> QED BY <1>2, <1>3, <2>1, <2>2, OthersStay
<1>11. OneDeployment'
  BY <1>1, <1>2, <1>3, <1>5 DEF OneDeployment, Deploys, Running
<1> QED BY <1>7, <1>8, <1>9, <1>10, <1>11 DEF Sound, WorksOK

\* The object of a row, and what may follow it.
LEMMA ReadIs ==
    ASSUME ClassFits, Sound, NEW id \in RowIds, table[id] # NoRow, NEW o, class' = class,
           o = [values |-> [c \in ColumnsOf(class) |-> At(table[id], c)], dirty |-> {}]
    PROVE ObjectOK(o) /\ ObjectOK(o)' /\ o.dirty = {}
<1>1. RowOK(id)
  BY SoundIs DEF Sound, RowsOK
<1>2. ObjectOK(o) /\ o.dirty = {}
  BY <1>1 DEF RowOK, ObjectOK
<1> QED BY <1>2, ObjectStays

\* Reading takes a row as it is.
LEMMA FoundIs ==
    ASSUME ClassFits, Sound, NEW id \in RowIds, table[id] # NoRow, NEW o, class' = class,
           o = FromRow(class, table[id])
    PROVE ObjectOK(o)' /\ o.dirty = {}
<1>1. RowOK(id) /\ RowFits(class)
  BY DEF Sound, RowsOK, ClassFits, Fits
<1>2. o = [values |-> [c \in ColumnsOf(class) |-> At(table[id], c)], dirty |-> {}]
  BY <1>1, FromRowIs DEF RowOK
<1> QED BY <1>2, ReadIs

\* Ending and going on, with an object that nothing has been set in.
LEMMA EndsSound ==
    ASSUME Sound, KeepTable, NEW a \in Actors, NEW o, ObjectOK(o)', NEW why, Ends(a, o, why)
    PROVE Sound'
BY EndIs, OneWorks

\* A handler goes on after a statement that reads.
LEMMA GoesSound ==
    ASSUME ClassFits, Sound, KeepTable, NEW a \in Actors, Running(a), NEW o, ObjectOK(o)',
           o.dirty = {}, Goes(a, o), Current(a).do \in Reads,
           Current(a).do \in Looks => o = work[a].object
    PROVE Sound'
<1>1. Current(a).do # "insert" /\ class' = class /\ issued' = issued
  BY DEF Reads, Looks, KeepTable
<1>2. work[a].name # Deploying
  BY SoundIs, DeployingDoes
<1> QED BY <1>1, <1>2, GoIs, OneWorks

\* An object without a row has nothing set.
LEMMA NothingIs ==
    ASSUME NEW o, o = New(class), class' = class
    PROVE ObjectOK(o)' /\ o.dirty = {}
BY NewIs, ObjectStays

\* findByPrimaryKey: the object of the row, or none.
LEMMA FindByPrimaryKeySound ==
    ASSUME ClassFits, Sound, NEW a \in Actors, findByPrimaryKey(a)
    PROVE Sound'
<1>1. PICK o, new : o = FromRow(class, table[work[a].id]) /\ new = New(class)
  OBVIOUS
<1>2. /\ Running(a) /\ Current(a).do = "read" /\ KeepTable /\ class' = class
      /\ \/ Ends(a, new, "not found")
         \/ Found(work[a].id) /\ (Ends(a, o, "ok") \/ Goes(a, o))
  BY <1>1 DEF findByPrimaryKey, Doing, KeepTable
<1>3. work[a].id \in RowIds
  BY <1>2, SoundIs, RunningIs DEF Started, Current
<1>4. ASSUME Found(work[a].id) PROVE ObjectOK(o)' /\ o.dirty = {}
  BY <1>1, <1>2, <1>3, <1>4, FoundIs DEF Found
<1>5. Current(a).do \in Reads /\ Current(a).do \notin Looks
  BY <1>2 DEF Reads, Looks
<1> QED BY <1>1, <1>2, <1>4, <1>5, NothingIs, EndsSound, GoesSound

\* findByQuery: the object of the first columns of the result.
LEMMA FindByQuerySound ==
    ASSUME ClassFits, Sound, NEW a \in Actors, findByQuery(a)
    PROVE Sound'
<1> DEFINE row == table[work[a].id]
           more == [i \in DOMAIN Current(a).more |-> <<Current(a).more[i]>>]
<1>1. PICK o, new : o = FromRow(class, row \o more) /\ new = New(class)
  OBVIOUS
<1>2. /\ Running(a) /\ Current(a).do = "query" /\ KeepTable /\ class' = class
      /\ \/ row # NoRow /\ Goes(a, o)
         \/ Ends(a, new, "not found")
  BY <1>1 DEF findByQuery, Doing, KeepTable
<1>3. /\ work[a].id \in RowIds
      /\ StatementFits(class, [name |-> work[a].name, does |-> work[a].does], work[a].at)
  BY <1>2, SoundIs, RunningIs DEF Started, Current
<1>4. Len(Current(a).more) \in Nat /\ DOMAIN Current(a).more = 1..Len(Current(a).more)
  BY <1>2, <1>3 DEF StatementFits, Current
<1>5. more = [i \in 1..Len(Current(a).more) |-> more[i]]
  BY <1>4
<1>6. ASSUME row # NoRow PROVE ObjectOK(o)' /\ o.dirty = {}
  <2>1. RowOK(work[a].id) /\ RowFits(class)
    BY <1>3, <1>6 DEF Sound, RowsOK, ClassFits, Fits
  <2>2. FromRow(class, row \o more) =
           [values |-> [c \in ColumnsOf(class) |-> At(row, c)], dirty |-> {}]
    <3> HIDE DEF more
    <3> QED BY <1>4, <1>5, <2>1, FromMoreIs DEF RowOK
  <2> QED BY <1>1, <1>2, <1>3, <1>6, <2>2, ReadIs
<1>7. Current(a).do \in Reads /\ Current(a).do \notin Looks
  BY <1>2 DEF Reads, Looks
<1> HIDE DEF row, more
<1> QED BY <1>1, <1>2, <1>6, <1>7, NothingIs, EndsSound, GoesSound

\* Exists: the object stays as it is.
LEMMA ExistsSound ==
    ASSUME ClassFits, Sound, NEW a \in Actors, Exists(a)
    PROVE Sound'
<1>1. PICK o : o = work[a].object
  OBVIOUS
<1>2. /\ Running(a) /\ Current(a).do \in Looks /\ KeepTable /\ class' = class
      /\ Goes(a, o) \/ Ends(a, o, "not found")
  BY <1>1 DEF Exists, Doing, Looks, KeepTable
<1>3. Current(a).do \in Reads
  BY <1>2 DEF Reads
<1>4. WorkOK(a) /\ Started(work[a])
  BY <1>2, SoundIs, RunningIs
<1>5. ObjectOK(o)'
  BY <1>1, <1>2, <1>4, ObjectStays DEF WorkOK
<1>6. o.dirty = {}
  <2>1. work[a].name # Deploying
    BY <1>2, <1>3, <1>4, DeployingDoes
  <2> QED BY <1>1, <1>4, <2>1 DEF Started
<1> QED BY <1>1, <1>2, <1>3, <1>5, <1>6, EndsSound, GoesSound

-----------------------------------------------------------------------------
(* Steps outside of handlers *)

\* Nothing is added to what a deployment has set.
LEMMA DeployProjectFailsSound ==
    ASSUME ClassFits, Sound, NEW a \in Actors, deployProjectFails(a)
    PROVE Sound'
<1>1. /\ Running(a) /\ work[a].name = Deploying /\ work[a].at \in {3, 4} /\ KeepTable
      /\ work' = [work EXCEPT ![a].at = Len(work[a].does)]
      /\ UNCHANGED <<class, table, truth, issued, raced>>
  BY DEF deployProjectFails, Deploying, KeepTable
<1>2. /\ WorkOK(a) /\ Started(work[a]) /\ IsWork(work[a]) /\ work = [b \in Actors |-> work[b]]
      /\ Len(work[a].does) = 5
  BY <1>1, SoundIs, RunningIs, DeployingDoes
<1>3. /\ work' = [b \in Actors |-> work'[b]]
      /\ \A b \in Actors \ {a} : work'[b] = work[b]
      /\ work'[a] = [work[a] EXCEPT !.at = 5]
  BY <1>1, <1>2
<1>4. PICK v, w : v = work[a] /\ w = work'[a]
  OBVIOUS
<1>5. /\ w.name = v.name /\ w.does = v.does /\ w.at = 5 /\ w.n = v.n /\ w.id = v.id
      /\ w.object = v.object /\ w.outcome = v.outcome /\ IsWork(w)
  BY <1>2, <1>3, <1>4 DEF IsWork
<1>6. Started(v) /\ v.at \in {3, 4} /\ v.name = Deploying /\ Len(v.does) = 5 /\ v.at # 1
  BY <1>1, <1>2, <1>4
<1>7. v.does[1].do \notin Looks
  <2>1. v.does[1].do = "insert"
    BY <1>1, <1>2, <1>4, RunningIs, DeployingIs
  <2> QED BY <2>1 DEF Looks
<1>8. UpToDate(v.object, v.id)'
  BY <1>1, <1>6, UpToDateStays DEF Started
<1>9. Started(w)'
  <2>1. w.at \in 1..Len(w.does) /\ 1 \in 1..(w.at - 1)
    BY <1>5, <1>6
  <2>2. w.does[1].do \notin Looks
    BY <1>5, <1>7
  <2>3. UpToDate(w.object, w.id)'
    BY <1>5, <1>8
  <2> QED BY <1>1, <1>5, <1>6, <2>1, <2>2, <2>3 DEF Started
<1>10. ObjectOK(v.object)'
  BY <1>1, <1>2, <1>4, ObjectStays DEF WorkOK
<1>11. WorkOK(a)'
  <2>1. Started(work[a])'
    BY <1>4, <1>9
  <2>2. ObjectOK(work[a].object)'
    <3>1. PICK o : o = v.object
      OBVIOUS
    <3>2. work'[a].object = o
      BY <1>4, <1>5, <3>1
    <3>3. ObjectOK(o)'
      BY <1>10, <3>1
    <3> QED BY <3>2, <3>3
  <2> QED BY <1>2, <1>4, <1>5, <1>6, <2>1, <2>2 DEF WorkOK
<1>12. Deploys(a)' => Deploys(a)
  BY <1>4, <1>5, <1>6 DEF Deploys
<1> QED BY <1>1, <1>3, <1>11, <1>12, OneWorks

\* A row that is gone is no longer looked at.
LEMMA DeleteSound ==
    ASSUME ClassFits, Sound, NEW id \in RowIds, deleteByPrimaryKey(id)
    PROVE Sound'
<1>1. /\ table' = [table EXCEPT ![id] = NoRow] /\ truth' = [truth EXCEPT ![id] = NoRow]
      /\ UNCHANGED <<class, issued, raced, started, work>>
  BY DEF deleteByPrimaryKey
<1>2. /\ Shape /\ RowsOK /\ OneDeployment /\ WorksOK
  BY DEF Sound
<1>3. /\ table' = [i \in RowIds |-> table'[i]] /\ truth' = [i \in RowIds |-> truth'[i]]
      /\ table'[id] = NoRow
      /\ \A i \in RowIds \ {id} : table'[i] = table[i] /\ truth'[i] = truth[i]
  BY <1>1, <1>2 DEF Shape
<1>4. Shape'
  BY <1>1, <1>2, <1>3 DEF Shape
<1>5. RowsOK'
  <2> SUFFICES ASSUME NEW i \in RowIds, table'[i] # NoRow PROVE RowOK(i)'
    BY DEF RowsOK
  <2>1. i # id /\ table'[i] = table[i] /\ truth'[i] = truth[i] /\ RowOK(i)
    BY <1>2, <1>3 DEF RowsOK
  <2> QED BY <1>1, <2>1, SameClass DEF RowOK, IsRow, At, Lacks, IsLast, IsOf
<1>6. ASSUME NEW b \in Actors PROVE WorkOK(b)'
  <2>1. WorkOK(b) /\ work'[b] = work[b] /\ class' = class /\ issued' = issued /\ issued \in Nat
    BY <1>1, <1>2, BoundsAssumption DEF WorksOK, Shape
  <2>2. ASSUME Running(b), work[b].name = Deploying, work[b].at # 1
        PROVE UpToDate(work[b].object, work[b].id)'
    <3>1. PICK o, i : o = work[b].object /\ i = work[b].id
      OBVIOUS
    <3>2. UpToDate(o, i) /\ i \in RowIds
      BY <2>1, <2>2, <3>1 DEF WorkOK, Started, Running
    <3>3. UpToDate(o, i)'
      BY <1>1, <1>3, <3>2 DEF UpToDate, IsLast
    <3> QED BY <2>1, <3>1, <3>3
  <2> QED BY <1>2, <2>1, <2>2, OthersStay
<1>7. OneDeployment'
  <2>1. \A b \in Actors : Deploys(b)' => Deploys(b)
    BY <1>1 DEF Deploys
  <2> QED BY <1>2, <2>1, OneStays
<1> QED BY <1>4, <1>5, <1>6, <1>7 DEF Sound, WorksOK

\* The idle handlers of a new process have an empty object.
LEMMA IdleOK ==
    ASSUME NEW a \in Actors, work'[a] = Idle, class' = class
    PROVE WorkOK(a)' /\ ~ Deploys(a)'
<1>1. PICK o : o = New(class)
  OBVIOUS
<1>2. ObjectOK(o)'
  BY <1>1, NothingIs
<1>3. /\ IsWork(work'[a]) /\ work'[a].does = <<>> /\ work'[a].id = 0 /\ work'[a].at = 0
      /\ work'[a].object = o
  BY <1>1 DEF Idle, IsWork
<1>4. Len(work'[a].does) \in Nat /\ work'[a].id \in 0..MaxRows
  BY <1>3, BoundsAssumption
<1> QED BY <1>2, <1>3, <1>4 DEF WorkOK, Deploys

\* Restart: the table stays, and no handler runs.
LEMMA RestartSound ==
    ASSUME ClassFits, Sound, Restart
    PROVE Sound'
<1>1. work' = [a \in Actors |-> Idle] /\ KeepTable /\ class' = class
  BY DEF Restart, KeepTable
<1>2. Shape'
  BY <1>1 DEF Sound, Shape, KeepTable
<1>3. RowsOK'
  BY <1>1, RowsStay DEF Sound, KeepTable
<1>4. \A a \in Actors : WorkOK(a)' /\ ~ Deploys(a)'
  BY <1>1, IdleOK
<1> QED BY <1>2, <1>3, <1>4 DEF Sound, WorksOK, OneDeployment

-----------------------------------------------------------------------------
(* Values that are set and written back *)

\* What is set, or filled in, is a value of its column.
LEMMA ValueIs ==
    ASSUME NEW a, NEW id, NEW c
    PROVE /\ Value(a, id, c) # Null /\ IsOf(Value(a, id, c), c)
          /\ Filling(id, c) # Null /\ IsOf(Filling(id, c), c)
          /\ IsOf(Null, c)
<1>1. Filling(id, c) # Null /\ Filling(id, c)[1] = c
  BY DEF Filling, Null
<1>2. <<c, work[a].name, work[a].at, work[a].n>> # Null
      /\ <<c, work[a].name, work[a].at, work[a].n>>[1] = c
  BY DEF Null
<1> QED BY <1>1, <1>2 DEF Value, IsOf, Null, NullValue

\* An object after a handler has set some columns, to values of theirs.
Valued(value, s) == \A c \in s.set : value[c] # Null /\ IsOf(value[c], c)
Assigned(o, old, s, value) == o = Assign(old, s.set, s.null, value)
\* Setters add to what has been set.
LEMMA DirtyIs ==
    ASSUME NEW old, NEW s, NEW value, NEW o, Assigned(o, old, s, value)
    PROVE o.dirty = old.dirty \cup s.set \cup s.null
BY DEF Assign, Assigned

\* Setters give the columns their values, or null, and leave the others.
LEMMA SetIs ==
    ASSUME NEW old, ObjectOK(old), NEW s, s.set \cup s.null \subseteq ColumnsOf(class),
           s.set \cap s.null = {}, NEW value, Valued(value, s), NEW o, Assigned(o, old, s, value)
    PROVE /\ ObjectOK(o)
          /\ \A c \in s.set : o.values[c] = value[c]
          /\ \A c \in s.null : o.values[c] = Null
          /\ \A c \in ColumnsOf(class) \ (s.set \cup s.null) : o.values[c] = old.values[c]
<1>0. PICK set, null : set = s.set /\ null = s.null
  OBVIOUS
<1>1. /\ o.dirty = old.dirty \cup set \cup null
      /\ o.values = [c \in ColumnsOf(class) |->
                       IF c \in null THEN Null
                       ELSE IF c \in set THEN value[c]
                       ELSE old.values[c]]
  BY <1>0 DEF Assign, Assigned, ObjectOK
<1>2. /\ \A c \in set : o.values[c] = value[c]
      /\ \A c \in null : o.values[c] = Null
      /\ \A c \in ColumnsOf(class) \ (set \cup null) : o.values[c] = old.values[c]
  BY <1>0, <1>1
<1>3. \A c \in ColumnsOf(class) : IsOf(o.values[c], c)
  BY <1>0, <1>2 DEF ObjectOK, IsOf, Null, NullValue, Valued
<1>4. o.dirty \subseteq ColumnsOf(class) /\ DOMAIN o.values = ColumnsOf(class)
  BY <1>0, <1>1 DEF ObjectOK
<1> QED BY <1>0, <1>2, <1>3, <1>4 DEF ObjectOK

\* A row is sound that has the last values of its columns.
LEMMA RowIs ==
    ASSUME class' = class, NEW id, NEW row, table'[id] = row, IsRow(row), ~ Lacks(row),
           \A c \in ColumnsOf(class) : IsOf(At(row, c), c), IdIsGenerated => id <= issued',
           \A c \in ColumnsOf(class) :
              At(row, c) = truth'[id][c] \/ (c = "status" /\ id \in raced')
    PROVE RowOK(id)'
BY SameClass DEF RowOK, IsRow, At, Lacks, IsLast, IsOf

\* A handler at a statement that changes rows.
Updating(a) == Current(a).do = "update" \/ Current(a).do = "update anyway"
Changing(a) == Updating(a) \/ Current(a).do = "updateBy" \/ Current(a).do = "activate"

\* While a row of the table is changed, nobody else deploys.
LEMMA NoOther ==
    ASSUME ClassFits, Sound, NEW a \in Actors, Running(a),
           Changing(a),
           NEW b \in Actors, b # a, Running(b)
    PROVE work[b].name # Deploying
<1> SUFFICES ASSUME work[b].name = Deploying PROVE FALSE
  OBVIOUS
<1>1. class = Deployment
  BY SoundIs, RunningIs
<1>2. CASE work[a].name = Deploying
  BY <1>2, SoundIs DEF OneDeployment, Deploys, Running, InDeployment, Deploying
<1>3. CASE work[a].name # Deploying
  <2>1. StatementFits(class, [name |-> work[a].name, does |-> work[a].does], work[a].at)
    BY SoundIs, RunningIs
  <2>2. Current(a).do \in Reads \cup {"insert", "updateBy status"}
    BY <1>1, <1>3, <2>1 DEF StatementFits, Current
  <2> QED BY <2>2 DEF Reads, Looks, Changing, Updating
<1> QED BY <1>2, <1>3

\* A deployment that writes its row back has set one of two columns in it.
LEMMA DeployingSets ==
    ASSUME ClassFits, NEW a \in Actors, WorkOK(a), Running(a), work[a].name = Deploying,
           Updating(a), NEW s \in Current(a).sets
    PROVE /\ class = Deployment /\ work[a].at # 1
          /\ s = To({"status"}, {}) \/ s = To({"revision"}, {})
<1>1. PICK k, do : k = work[a].at /\ do = Current(a).do
  OBVIOUS
<1>2. /\ class = Deployment /\ k \in 1..5 /\ do \notin Reads
      /\ k = 1 <=> do = "insert"
      /\ k = 4 <=> do = "activate"
      /\ k \in {2, 5} => Current(a).sets = Set({"status"})
      /\ k = 3 => Current(a).sets = Set({"revision"})
  BY <1>1, DeployingDoes
<1>3. k # 1 /\ k # 4
  BY <1>1, <1>2 DEF Updating
<1>4. k = 2 \/ k = 3 \/ k = 5
  <2>1. k \in 1..5
    BY <1>2
  <2> QED BY <1>3, <2>1
<1>5. Current(a).sets = Set({"status"}) \/ Current(a).sets = Set({"revision"})
  BY <1>2, <1>4
<1> QED BY <1>1, <1>2, <1>3, <1>5 DEF Set

Sends(C, o, sent) == sent = UpdateOf(C, o)
\* An UPDATE, column by column.
LEMMA UpdateAt ==
    ASSUME NEW C, StatementsFit(C), NEW o, NEW u, Sends(C, o, u)
    PROVE \A c : (c \in DOMAIN u <=> (c \in Range(C.updateColumns) /\ c \in o.dirty))
                   /\ (c \in DOMAIN u => u[c] = o.values[c])
<1>1. Distinct(C.updateColumns) /\ C.updateArgs = C.updateColumns
  BY DEF StatementsFit
<1>2. Bound(o, C.updateColumns, C.updateColumns, Range(C.updateColumns) \cap o.dirty) =
         [c \in Range(C.updateColumns) \cap o.dirty |-> o.values[c]]
  BY <1>1, BoundIs
<1> QED BY <1>1, <1>2 DEF UpdateOf, Sends

\* What an UPDATE of an object sends, if all that has been set is among its columns.
LEMMA SentIs ==
    ASSUME StatementsFit(class), NEW o, o.dirty \subseteq Range(class.updateColumns),
           NEW sent, Sends(class, o, sent)
    PROVE \A c : (c \in DOMAIN sent <=> c \in o.dirty) /\ (c \in o.dirty => sent[c] = o.values[c])
<1>1. \A c : (c \in DOMAIN sent <=> (c \in Range(class.updateColumns) /\ c \in o.dirty))
                /\ (c \in DOMAIN sent => sent[c] = o.values[c])
  BY UpdateAt
<1> QED BY <1>1

\* What it makes of a row.
Changes(row, old, sent) == row = ChangedRow(Columns, old, sent)
\* The row that an UPDATE makes.
LEMMA ChangesIs ==
    ASSUME RowFits(class), NEW old, NEW sent, NEW row, Changes(row, old, sent)
    PROVE /\ IsRow(row)
          /\ \A c \in ColumnsOf(class) :
                At(row, c) = IF c \in DOMAIN sent THEN sent[c] ELSE At(old, c)
BY ChangedRowIs DEF Changes

\* The object that is written back, and the row with its values.
Updated(a, id, s, old, value, o, sent, row) ==
    /\ id \in RowIds /\ ObjectOK(o) /\ s.set \cap s.null = {}
    /\ s.set \cup s.null \subseteq o.dirty
    /\ DOMAIN sent = {} => o.dirty = {}
    /\ IsRow(row)
    /\ \A c \in ColumnsOf(class) :
          At(row, c) = IF c \in o.dirty THEN o.values[c] ELSE At(table[id], c)
    /\ \A c \in s.set : o.values[c] = value[c]
    /\ \A c \in s.null : o.values[c] = Null
    /\ \A c \in o.dirty \ (s.set \cup s.null) :
          o.values[c] # Null /\ (table[id] # NoRow => IsLast(id, o.values[c], c))
    /\ o.dirty = {} => work[a].name = "update"
    /\ table[id] # NoRow /\ Missing(Columns, row) =>
          class = Project /\ o.values["modid"] = Null
    /\ work[a].name = Deploying =>
          /\ class = Deployment /\ o.dirty \subseteq {"status", "revision", "active"}
          /\ s.null = {} /\ o.dirty # {}
    /\ work[a].name # Deploying => old.dirty = {}
\* What is known of an update.
LEMMA UpdatedIs ==
    ASSUME ClassFits, Sound, NEW a \in Actors, Running(a),
           Updating(a), NEW s \in Current(a).sets,
           NEW id, id = work[a].id, NEW old, old = work[a].object,
           NEW value, Valued(value, s), NEW o, Assigned(o, old, s, value),
           NEW sent, Sends(class, o, sent), NEW row, Changes(row, table[id], sent)
    PROVE Updated(a, id, s, old, value, o, sent, row)
<1>1. /\ WorkOK(a) /\ Started(work[a]) /\ RowFits(class) /\ StatementsFit(class)
      /\ StatementFits(class, [name |-> work[a].name, does |-> work[a].does], work[a].at)
  BY SoundIs, RunningIs DEF ClassFits, Fits
<1>2. UpdateFits(class, work[a].name, s)
  BY <1>1 DEF StatementFits, Current, Updating
<1>3. ObjectOK(old)
  BY <1>1 DEF WorkOK
<1>4. /\ s.set \cup s.null \subseteq ColumnsOf(class) /\ s.set \cap s.null = {}
      /\ s.set \cup s.null \subseteq Range(class.updateColumns)
      /\ Range(class.updateColumns) \subseteq ColumnsOf(class)
  BY <1>1, <1>2 DEF UpdateFits, StatementsFit
<1>5. /\ ObjectOK(o) /\ o.dirty = old.dirty \cup s.set \cup s.null
      /\ \A c \in s.set : o.values[c] = value[c]
      /\ \A c \in s.null : o.values[c] = Null
      /\ \A c \in ColumnsOf(class) \ (s.set \cup s.null) : o.values[c] = old.values[c]
  BY <1>3, <1>4, DirtyIs, SetIs
<1>6. /\ work[a].name # Deploying => old.dirty = {}
      /\ work[a].name = Deploying =>
            /\ class = Deployment /\ work[a].at # 1
            /\ s = To({"status"}, {}) \/ s = To({"revision"}, {})
            /\ old.dirty \subseteq {"status", "revision", "active"} /\ UpToDate(old, id)
  <2>1. work[a].name # Deploying => old.dirty = {}
    BY <1>1 DEF Started
  <2>2. ASSUME work[a].name = Deploying
        PROVE /\ class = Deployment /\ work[a].at # 1
              /\ s = To({"status"}, {}) \/ s = To({"revision"}, {})
    BY <1>1, <2>2, DeployingSets
  <2>3. ASSUME work[a].name = Deploying
        PROVE old.dirty \subseteq {"status", "revision", "active"} /\ UpToDate(old, id)
    BY <1>1, <2>2, <2>3 DEF Started
  <2> QED BY <2>1, <2>2, <2>3
<1>7. old.dirty \subseteq Range(class.updateColumns)
  BY <1>6 DEF ClassFits, Fits
<1>8. old.dirty \cup s.set \cup s.null \subseteq Range(class.updateColumns)
  BY <1>4, <1>7
<1>10. \A c : (c \in DOMAIN sent <=> c \in o.dirty) /\ (c \in o.dirty => sent[c] = o.values[c])
  <2>1. o.dirty \subseteq Range(class.updateColumns)
    BY <1>5, <1>8
  <2> QED BY <1>1, <2>1, SentIs
<1>11. IsRow(row) /\ \A c \in ColumnsOf(class) :
                At(row, c) = IF c \in o.dirty THEN o.values[c] ELSE At(table[id], c)
  BY <1>1, <1>10, ChangesIs
<1>12. id \in RowIds
  BY <1>1 DEF Started, Current, Updating
<1>13. \A c \in o.dirty \ (s.set \cup s.null) :
                o.values[c] # Null /\ (table[id] # NoRow => IsLast(id, o.values[c], c))
  BY <1>3, <1>5, <1>6 DEF UpToDate, ObjectOK
<1>14. o.dirty = {} => work[a].name = "update"
  BY <1>2, <1>5 DEF UpdateFits
<1>15. ASSUME table[id] # NoRow, Missing(Columns, row)
       PROVE class = Project /\ o.values["modid"] = Null
  <2>1. PICK c \in ColumnsOf(class) \cap NeededIn(class) : At(row, c) = Null
    BY <1>1, <1>15, MissingIs DEF Lacks
  <2>2. At(table[id], c) # Null
    BY <1>12, <1>15, <2>1, SoundIs DEF RowsOK, RowOK, Lacks
  <2>3. c \in o.dirty /\ o.values[c] = Null
    BY <1>11, <2>1, <2>2
  <2>4. c \in s.set \cup s.null
    BY <1>13, <2>3
  <2>5. c \notin s.set
    BY <1>5, <2>3 DEF Valued
  <2>6. c \in s.null
    BY <2>4, <2>5
  <2> QED BY <1>2, <2>1, <2>3, <2>6 DEF UpdateFits, Modid
<1>16. work[a].name = Deploying =>
                /\ class = Deployment /\ o.dirty \subseteq {"status", "revision", "active"}
                /\ s.null = {} /\ o.dirty # {}
  <2> SUFFICES ASSUME work[a].name = Deploying
               PROVE /\ class = Deployment /\ o.dirty \subseteq {"status", "revision", "active"}
                     /\ s.null = {} /\ o.dirty # {}
    OBVIOUS
  <2>1. CASE s = To({"status"}, {})
    <3>1. s.set = {"status"} /\ s.null = {}
      BY <2>1 DEF To
    <3> QED BY <1>5, <1>6, <3>1
  <2>2. CASE s = To({"revision"}, {})
    <3>1. s.set = {"revision"} /\ s.null = {}
      BY <2>2 DEF To
    <3> QED BY <1>5, <1>6, <3>1
  <2> QED BY <1>6, <2>1, <2>2
<1>17. DOMAIN sent = {} => o.dirty = {}
  BY <1>10
<1>18. s.set \cup s.null \subseteq o.dirty
  BY <1>5
<1> QED BY <1>4, <1>5, <1>6, <1>11, <1>12, <1>13, <1>14, <1>15, <1>16, <1>17, <1>18 DEF Updated

\* A step of one handler that changes rows.
LEMMA OneWrites ==
    ASSUME Sound, NEW a \in Actors, UNCHANGED <<class, issued, started>>,
           raced' \subseteq RowIds, table' = [id \in RowIds |-> table'[id]],
           truth' = [id \in RowIds |-> truth'[id]], RowsOK',
           work' = [b \in Actors |-> work'[b]],
           \A b \in Actors \ {a} : work'[b] = work[b], WorkOK(a)', Deploys(a)' => Deploys(a),
           \A b \in Actors \ {a} : Running(b) /\ work[b].name = Deploying /\ work[b].at # 1 =>
              UpToDate(work[b].object, work[b].id)'
    PROVE Sound'
<1>1. Shape'
  BY DEF Sound, Shape
<1>2. ASSUME NEW b \in Actors, b # a PROVE WorkOK(b)'
  BY <1>2, SoundIs, OthersStay
<1>3. OneDeployment'
  <2>1. \A b \in Actors : Deploys(b)' => Deploys(b)
    BY DEF Deploys
  <2> QED BY <2>1, OneStays DEF Sound
<1> QED BY <1>1, <1>2, <1>3 DEF Sound, WorksOK

\* A row that is not touched.
LEMMA RowStays ==
    ASSUME class' = class, issued' = issued, raced \subseteq raced', NEW i, RowOK(i),
           table'[i] = table[i], truth'[i] = truth[i]
    PROVE RowOK(i)'
BY SameClass DEF RowOK, IsRow, At, Lacks, IsLast, IsOf

\* What a write to some rows does to the last values.
Wrote(a, ids, s) ==
    /\ table' = [i \in RowIds |-> table'[i]] /\ truth' = [i \in RowIds |-> truth'[i]]
    /\ \A i \in RowIds \ ids : table'[i] = table[i] /\ truth'[i] = truth[i]
    /\ \A i \in ids : \A c \in s.set : truth'[i][c] = Value(a, i, c)
    /\ \A i \in ids : \A c \in s.null : truth'[i][c] = Null
    /\ \A i \in ids : \A c \in ColumnsOf(class) \ (s.set \cup s.null) : truth'[i][c] = truth[i][c]
WrittenRows(a, ids, rows, s) == Write(a, ids, LAMBDA i : rows[i], s)
\* A write, row by row and column by column.
LEMMA WroteIs ==
    ASSUME NEW a, NEW ids, ids \subseteq RowIds, NEW rows, NEW s,
           s.set \cap s.null = {}, s.set \cup s.null \subseteq ColumnsOf(class),
           WrittenRows(a, ids, rows, s)
    PROVE Wrote(a, ids, s) /\ \A i \in ids : table'[i] = rows[i]
<1>1. /\ table' = [i \in RowIds |-> IF i \in ids THEN rows[i] ELSE table[i]]
      /\ truth' = [i \in RowIds |->
                   IF i \in ids
                   THEN [c \in ColumnsOf(class) |->
                           IF c \in s.set THEN Value(a, i, c)
                           ELSE IF c \in s.null THEN NullValue ELSE truth[i][c]]
                   ELSE truth[i]]
  BY DEF Write, WrittenRows
<1>2. \A i \in ids : truth'[i] = [c \in ColumnsOf(class) |->
                           IF c \in s.set THEN Value(a, i, c)
                           ELSE IF c \in s.null THEN NullValue ELSE truth[i][c]]
  BY <1>1
<1>3. /\ table' = [i \in RowIds |-> table'[i]] /\ truth' = [i \in RowIds |-> truth'[i]]
      /\ \A i \in ids : table'[i] = rows[i]
      /\ \A i \in RowIds \ ids : table'[i] = table[i] /\ truth'[i] = truth[i]
  BY <1>1
<1>4. /\ \A i \in ids : \A c \in s.set : truth'[i][c] = Value(a, i, c)
      /\ \A i \in ids : \A c \in s.null : truth'[i][c] = Null
      /\ \A i \in ids : \A c \in ColumnsOf(class) \ (s.set \cup s.null) : truth'[i][c] = truth[i][c]
  BY <1>2 DEF Null, NullValue
<1> QED BY <1>3, <1>4 DEF Wrote

\* The row that an update leaves has the last values.
Made(row, old, o) ==
    /\ IsRow(row)
    /\ \A c \in ColumnsOf(class) :
          At(row, c) = IF c \in o.dirty THEN o.values[c] ELSE At(old, c)
LastSet(a, id, s, o) ==
    /\ s.set \cap s.null = {} /\ s.set \cup s.null \subseteq o.dirty
    /\ \A c \in s.set : o.values[c] = Value(a, id, c)
    /\ \A c \in s.null : o.values[c] = Null
    /\ \A c \in o.dirty \ (s.set \cup s.null) :
          o.values[c] # Null /\ (table[id] # NoRow => IsLast(id, o.values[c], c))
\* A row that is written back from an object that is up to date stays a good one.
LEMMA UpdateKeepsRow ==
    ASSUME class' = class, issued' = issued, raced' = raced, NEW id \in RowIds, RowOK(id),
           table[id] # NoRow, NEW a, NEW s, NEW o, ObjectOK(o), LastSet(a, id, s, o),
           NEW row, Made(row, table[id], o), ~ Lacks(row), table'[id] = row,
           NEW ids, id \in ids, Wrote(a, ids, s)
    PROVE RowOK(id)'
<1>0. /\ \A c \in s.set : truth'[id][c] = Value(a, id, c)
      /\ \A c \in s.null : truth'[id][c] = Null
      /\ \A c \in ColumnsOf(class) \ (s.set \cup s.null) : truth'[id][c] = truth[id][c]
  BY DEF Wrote
<1>1. \A c \in ColumnsOf(class) : IsOf(At(row, c), c)
  BY DEF RowOK, ObjectOK, Made
<1>2. IdIsGenerated => id <= issued'
  BY DEF RowOK
<1>3. ASSUME NEW c \in ColumnsOf(class)
      PROVE At(row, c) = truth'[id][c] \/ (c = "status" /\ id \in raced')
  <2>1. CASE c \in s.set \cup s.null
    BY <1>0, <2>1 DEF LastSet, Made
  <2>2. CASE c \in o.dirty \ (s.set \cup s.null)
    BY <1>0, <2>2 DEF IsLast, LastSet, Made
  <2>3. CASE c \notin o.dirty
    BY <1>0, <2>3 DEF RowOK, IsLast, LastSet, Made
  <2> QED BY <2>1, <2>2, <2>3
<1> QED BY <1>1, <1>2, <1>3, RowIs DEF Made

-----------------------------------------------------------------------------
(* mapperUpdate *)

\* What Write does to one row.
Written(a, id, row, s) == Write(a, {id}, LAMBDA i : row, s)

\* What has been set in an object stays the last.
LEMMA SetStays ==
    ASSUME raced' = raced, NEW a, NEW id, table[id] # NoRow, NEW s, s.null = {},
           NEW o, ObjectOK(o), LastSet(a, id, s, o), NEW ids, id \in ids, Wrote(a, ids, s)
    PROVE UpToDate(o, id)'
<1> SUFFICES ASSUME NEW c \in o.dirty
             PROVE o.values[c] # Null
                   /\ (o.values[c] = truth'[id][c] \/ (c = "status" /\ id \in raced'))
  BY DEF UpToDate, IsLast
<1>1. CASE c \in s.set
  <2>1. o.values[c] = Value(a, id, c) /\ truth'[id][c] = Value(a, id, c)
    BY <1>1 DEF LastSet, Wrote
  <2> QED BY <2>1, ValueIs
<1>2. CASE c \notin s.set
  <2>1. c \in o.dirty \ (s.set \cup s.null) /\ c \in ColumnsOf(class)
    BY <1>2 DEF ObjectOK
  <2>2. truth'[id][c] = truth[id][c]
    BY <2>1 DEF Wrote
  <2> QED BY <2>1, <2>2 DEF IsLast, LastSet
<1> QED BY <1>1, <1>2

\* An update that changes the row.
LEMMA UpdateSound ==
    ASSUME ClassFits, Sound, NEW a \in Actors, Running(a), Updating(a), NEW s \in Current(a).sets,
           NEW id, id = work[a].id, NEW old, old = work[a].object,
           NEW value, Valued(value, s), \A c \in s.set : value[c] = Value(a, id, c),
           NEW o, Assigned(o, old, s, value),
           NEW sent, Sends(class, o, sent), NEW row, Changes(row, table[id], sent),
           table[id] # NoRow, ~ Missing(Columns, row),
           Written(a, id, row, s), Goes(a, o),
           UNCHANGED <<class, issued, raced, started>>
    PROVE Sound'
<1>1. /\ id \in RowIds /\ ObjectOK(o) /\ s.set \cap s.null = {}
      /\ s.set \cup s.null \subseteq o.dirty
      /\ IsRow(row)
      /\ \A c \in ColumnsOf(class) :
            At(row, c) = IF c \in o.dirty THEN o.values[c] ELSE At(table[id], c)
      /\ \A c \in s.set : o.values[c] = value[c]
      /\ \A c \in s.null : o.values[c] = Null
      /\ \A c \in o.dirty \ (s.set \cup s.null) :
            o.values[c] # Null /\ (table[id] # NoRow => IsLast(id, o.values[c], c))
      /\ work[a].name = Deploying =>
            /\ class = Deployment /\ o.dirty \subseteq {"status", "revision", "active"}
            /\ s.null = {} /\ o.dirty # {}
  <2>1. Updated(a, id, s, old, value, o, sent, row)
    BY UpdatedIs
  <2> QED BY <2>1 DEF Updated
<1>2. LastSet(a, id, s, o) /\ Made(row, table[id], o)
  BY <1>1 DEF LastSet, Made
<1>3. Wrote(a, {id}, s) /\ table'[id] = row
  <2>1. PICK rows : rows = [i \in {id} |-> row]
    OBVIOUS
  <2>2. WrittenRows(a, {id}, rows, s)
    <3>1. \A i \in {id} : rows[i] = row
      BY <2>1
    <3>2. /\ table' = [i \in RowIds |-> IF i \in {id} THEN row ELSE table[i]]
          /\ truth' = [i \in RowIds |->
                         IF i \in {id}
                         THEN [c \in ColumnsOf(class) |->
                                 IF c \in s.set THEN Value(a, i, c)
                                 ELSE IF c \in s.null THEN NullValue ELSE truth[i][c]]
                         ELSE truth[i]]
      BY DEF Written, Write
    <3>3. table' = [i \in RowIds |-> IF i \in {id} THEN rows[i] ELSE table[i]]
      BY <3>1, <3>2
    <3> QED BY <3>2, <3>3 DEF WrittenRows, Write
  <2>3. s.set \cup s.null \subseteq ColumnsOf(class)
    BY <1>1 DEF ObjectOK
  <2>4. Wrote(a, {id}, s) /\ \A i \in {id} : table'[i] = rows[i]
    <3>1. PICK ids : ids = {id}
      OBVIOUS
    <3>2. ids \subseteq RowIds /\ s.set \cap s.null = {} /\ WrittenRows(a, ids, rows, s)
      BY <1>1, <2>2, <3>1
    <3>3. Wrote(a, ids, s)
      BY <2>3, <3>2, WroteIs
    <3>4. \A i \in ids : table'[i] = rows[i]
      BY <2>3, <3>2, WroteIs
    <3> QED BY <3>1, <3>3, <3>4
  <2> QED BY <2>1, <2>4
<1>4. ~ Lacks(row)
  BY MissingIs DEF ClassFits, Fits
<1>5. RowsOK'
  <2>1. class' = class /\ issued' = issued /\ raced' = raced
    OBVIOUS
  <2>2. \A i \in RowIds : table[i] # NoRow => RowOK(i)
    BY DEF Sound, RowsOK
  <2>3. RowOK(id)'
    BY <1>1, <1>2, <1>3, <1>4, <2>1, <2>2, UpdateKeepsRow
  <2>4. ASSUME NEW i \in RowIds, i # id, table'[i] # NoRow PROVE RowOK(i)'
    BY <1>3, <2>1, <2>2, <2>4, RowStays DEF Wrote
  <2> QED BY <2>3, <2>4 DEF RowsOK
<1>6. ASSUME work[a].name = Deploying PROVE UpToDate(o, id)'
  BY <1>1, <1>2, <1>3, <1>6, SetStays
<1>7. ObjectOK(o)'
  BY <1>1, ObjectStays
<1>8. /\ work' = [b \in Actors |-> work'[b]]
      /\ \A b \in Actors \ {a} : work'[b] = work[b]
      /\ WorkOK(a)' /\ (Deploys(a)' => Deploys(a))
  <2>1. Current(a).do # "insert" /\ Current(a).do \notin Reads /\ Current(a).do \notin Looks
    BY DEF Updating, Reads, Looks
  <2>2. ASSUME work[a].name = Deploying PROVE UpToDate(o, work[a].id)'
    <3>1. work'[a].id = id
      BY SoundIs, GoesIs
    <3>2. UpToDate(o, id)'
      BY <1>6, <2>2
    <3> QED BY <3>1, <3>2
  <2> QED BY <1>1, <1>7, <2>1, <2>2, GoIs
<1>9. \A b \in Actors \ {a} : ~ (Running(b) /\ work[b].name = Deploying)
  BY NoOther DEF Changing
<1>10. raced' \subseteq RowIds
  BY DEF Sound, Shape
<1> QED BY <1>3, <1>5, <1>8, <1>9, <1>10, OneWrites DEF Wrote

\* An update that is refused, or has nothing to change.
LEMMA NoUpdateSound ==
    ASSUME ClassFits, Sound, NEW a \in Actors, Running(a), Updating(a), NEW s \in Current(a).sets,
           NEW id, id = work[a].id, NEW old, old = work[a].object,
           NEW value, Valued(value, s), NEW o, Assigned(o, old, s, value),
           NEW sent, Sends(class, o, sent), NEW row, Changes(row, table[id], sent),
           DOMAIN sent = {} \/ table[id] = NoRow \/ Missing(Columns, row),
           NEW why, Goes(a, o) \/ Ends(a, o, why),
           UNCHANGED <<class, table, truth, issued, raced, started>>
    PROVE Sound'
<1>1. /\ ObjectOK(o)
      /\ DOMAIN sent = {} => o.dirty = {}
      /\ \A c \in s.set : o.values[c] = value[c]
      /\ \A c \in o.dirty \ (s.set \cup s.null) :
            o.values[c] # Null /\ (table[id] # NoRow => IsLast(id, o.values[c], c))
      /\ table[id] # NoRow /\ Missing(Columns, row) =>
            class = Project /\ o.values["modid"] = Null
      /\ work[a].name = Deploying =>
            /\ class = Deployment /\ o.dirty \subseteq {"status", "revision", "active"}
            /\ s.null = {} /\ o.dirty # {}
  <2>1. Updated(a, id, s, old, value, o, sent, row)
    BY UpdatedIs
  <2> QED BY <2>1 DEF Updated
<1>2. ObjectOK(o)' /\ KeepTable
  BY <1>1, ObjectStays DEF KeepTable
<1>3. CASE Ends(a, o, why)
  BY <1>2, <1>3, EndsSound
<1>4. CASE Goes(a, o)
  <2>1. Current(a).do # "insert" /\ Current(a).do \notin Reads /\ Current(a).do \notin Looks
    BY DEF Updating, Reads, Looks
  <2>2. ASSUME work[a].name = Deploying PROVE UpToDate(o, work[a].id)'
    <3>1. table[id] = NoRow
      BY <1>1, <2>2 DEF ClassFits, Fits
    <3>2. \A c \in o.dirty : o.values[c] # Null
      BY <1>1, <2>2 DEF Valued
    <3>3. work'[a].id = id
      BY <1>4, SoundIs, GoesIs
    <3>4. UpToDate(o, id)'
      BY <3>1, <3>2 DEF UpToDate
    <3> QED BY <3>3, <3>4
  <2>3. WorkOK(a)' /\ (Deploys(a)' => Deploys(a)) /\ work' = [b \in Actors |-> work'[b]]
        /\ \A b \in Actors \ {a} : work'[b] = work[b]
    BY <1>1, <1>2, <1>4, <2>1, <2>2, GoIs
  <2> QED BY <1>2, <2>3, OneWorks
<1> QED BY <1>3, <1>4

\* What a handler sets is a value.
LEMMA ValuesAre ==
    ASSUME NEW a, NEW id, NEW s, NEW value, value = [c \in s.set |-> Value(a, id, c)]
    PROVE Valued(value, s) /\ \A c \in s.set : value[c] = Value(a, id, c)
<1>1. \A c \in s.set : value[c] = Value(a, id, c)
  OBVIOUS
<1>2. ASSUME NEW c \in s.set PROVE value[c] # Null /\ IsOf(value[c], c)
  <2>1. Value(a, id, c) # Null /\ IsOf(Value(a, id, c), c)
    BY ValueIs
  <2> QED BY <1>1, <2>1
<1> QED BY <1>1, <1>2 DEF Valued

\* What an update sets and sends, and what comes of it.
Setting(a, s, value, o, sent, row) ==
    /\ s \in Current(a).sets
    /\ Valued(value, s) /\ \A c \in s.set : value[c] = Value(a, work[a].id, c)
    /\ Assigned(o, work[a].object, s, value) /\ Sends(class, o, sent)
    /\ Changes(row, table[work[a].id], sent)
Refused(a, sent, row, why) ==
    \/ why = "empty" /\ DOMAIN sent = {}
    \/ why = "gone" /\ table[work[a].id] = NoRow
    \/ why = "missing" /\ table[work[a].id] # NoRow /\ Missing(Columns, row)
\* An update is written, or refused for one of three reasons.
LEMMA UpdateDoes ==
    ASSUME NEW a, mapperUpdate(a)
    PROVE \E s, value, o, sent, row, why :
            /\ Setting(a, s, value, o, sent, row)
            /\ \/ /\ Written(a, work[a].id, row, s) /\ Goes(a, o)
                  /\ table[work[a].id] # NoRow /\ ~ Missing(Columns, row)
               \/ /\ Refused(a, sent, row, why) /\ UNCHANGED <<table, truth>>
                  /\ Goes(a, o) \/ Ends(a, o, why)
<1>1. PICK s \in Current(a).sets :
         LET id == work[a].id
             o == Assign(work[a].object, s.set, s.null, [c \in s.set |-> Value(a, id, c)])
             sent == UpdateOf(class, o)
             row == ChangedRow(Columns, table[id], sent)
             why == IF DOMAIN sent = {} THEN "empty"
                    ELSE IF table[id] = NoRow THEN "gone"
                    ELSE IF Missing(Columns, row) THEN "missing" ELSE "ok"
         IN  IF why = "ok"
             THEN Write(a, {id}, LAMBDA i : row, s) /\ Goes(a, o)
             ELSE /\ IF Current(a).do = "update anyway" THEN Goes(a, o) ELSE Ends(a, o, why)
                  /\ UNCHANGED <<table, truth>>
  BY DEF mapperUpdate
<1>2. PICK value : value = [c \in s.set |-> Value(a, work[a].id, c)]
  OBVIOUS
<1>3. PICK o : o = Assign(work[a].object, s.set, s.null, value)
  OBVIOUS
<1>4. PICK sent : sent = UpdateOf(class, o)
  OBVIOUS
<1>5. PICK row : row = ChangedRow(Columns, table[work[a].id], sent)
  OBVIOUS
<1>6. Setting(a, s, value, o, sent, row)
  BY <1>2, <1>3, <1>4, <1>5, ValuesAre DEF Setting, Assigned, Sends, Changes
<1>7. PICK why : why = IF DOMAIN sent = {} THEN "empty"
                    ELSE IF table[work[a].id] = NoRow THEN "gone"
                    ELSE IF Missing(Columns, row) THEN "missing" ELSE "ok"
  OBVIOUS
<1>8. IF why = "ok"
      THEN Written(a, work[a].id, row, s) /\ Goes(a, o)
      ELSE /\ IF Current(a).do = "update anyway" THEN Goes(a, o) ELSE Ends(a, o, why)
           /\ UNCHANGED <<table, truth>>
  BY <1>1, <1>2, <1>3, <1>4, <1>5, <1>7 DEF Write, Written
<1>9. CASE why = "ok"
  <2>1. table[work[a].id] # NoRow /\ ~ Missing(Columns, row)
    BY <1>7, <1>9
  <2>2. Written(a, work[a].id, row, s) /\ Goes(a, o)
    BY <1>8, <1>9
  <2> QED BY <1>6, <2>1, <2>2
<1>10. CASE why # "ok"
  <2>1. Refused(a, sent, row, why)
    BY <1>7, <1>10 DEF Refused
  <2>2. (Goes(a, o) \/ Ends(a, o, why)) /\ UNCHANGED <<table, truth>>
    BY <1>8, <1>10
  <2> QED BY <1>6, <2>1, <2>2
<1> QED BY <1>9, <1>10

\* mapperUpdate: what was set before is up to date, or there is nothing of it.
LEMMA MapperUpdateSound ==
    ASSUME ClassFits, Sound, NEW a \in Actors, mapperUpdate(a)
    PROVE Sound'
<1>1. Running(a) /\ Updating(a) /\ UNCHANGED <<class, issued, raced, started>>
  BY DEF mapperUpdate, Doing, Updating
<1>2. PICK s, value, o, sent, row, why :
            /\ Setting(a, s, value, o, sent, row)
            /\ \/ /\ Written(a, work[a].id, row, s) /\ Goes(a, o)
                  /\ table[work[a].id] # NoRow /\ ~ Missing(Columns, row)
               \/ /\ Refused(a, sent, row, why) /\ UNCHANGED <<table, truth>>
                  /\ Goes(a, o) \/ Ends(a, o, why)
  BY UpdateDoes
<1>3. /\ s \in Current(a).sets
      /\ Valued(value, s) /\ \A c \in s.set : value[c] = Value(a, work[a].id, c)
      /\ Assigned(o, work[a].object, s, value) /\ Sends(class, o, sent)
      /\ Changes(row, table[work[a].id], sent)
  BY <1>2 DEF Setting
<1>4. CASE /\ Written(a, work[a].id, row, s) /\ Goes(a, o)
           /\ table[work[a].id] # NoRow /\ ~ Missing(Columns, row)
  BY <1>1, <1>3, <1>4, UpdateSound
<1>5. CASE /\ Refused(a, sent, row, why) /\ UNCHANGED <<table, truth>>
           /\ Goes(a, o) \/ Ends(a, o, why)
  <2>1. DOMAIN sent = {} \/ table[work[a].id] = NoRow \/ Missing(Columns, row)
    BY <1>5 DEF Refused
  <2> QED BY <1>1, <1>3, <1>5, <2>1, NoUpdateSound
<1> QED BY <1>2, <1>4, <1>5

-----------------------------------------------------------------------------
(* updateBy *)

\* What an update of some columns, without an object, makes of a row.
LEMMA WithIs ==
    ASSUME RowFits(class), NEW a, NEW i, NEW s, NEW row, row = With(a, i, s)
    PROVE /\ IsRow(row)
          /\ \A c \in ColumnsOf(class) : c \in s.set => At(row, c) = Value(a, i, c)
          /\ \A c \in ColumnsOf(class) : c \in s.null \ s.set => At(row, c) = Null
          /\ \A c \in ColumnsOf(class) : c \notin s.set \cup s.null => At(row, c) = At(table[i], c)
<1>1. PICK set, null, sent : /\ set = s.set /\ null = s.null
                             /\ sent = [c \in s.set \cup s.null |->
                                          IF c \in s.set THEN Value(a, i, c) ELSE NullValue]
  OBVIOUS
<1>2. row = ChangedRow(Columns, table[i], sent)
  BY <1>1 DEF With
<1>3. /\ IsRow(row)
      /\ \A c \in ColumnsOf(class) :
            At(row, c) = IF c \in DOMAIN sent THEN sent[c] ELSE At(table[i], c)
  BY <1>2, ChangesIs DEF Changes
<1>4. /\ \A c : c \in DOMAIN sent <=> (c \in set \/ c \in null)
      /\ \A c \in set : sent[c] = Value(a, i, c)
      /\ \A c \in null \ set : sent[c] = Null
  BY <1>1 DEF Null, NullValue
<1> QED BY <1>1, <1>3, <1>4

\* updateBy keeps a row a good one.
LEMMA WithKeepsRow ==
    ASSUME RowFits(class), class' = class, issued' = issued, raced \subseteq raced',
           NEW a, NEW i, RowOK(i), NEW s, s.set \cap s.null = {}, s.null \cap NeededIn(class) = {},
           table'[i] = With(a, i, s),
           \A c \in s.set : truth'[i][c] = Value(a, i, c),
           \A c \in s.null : truth'[i][c] = Null,
           \A c \in ColumnsOf(class) \ (s.set \cup s.null) : truth'[i][c] = truth[i][c]
    PROVE RowOK(i)'
<1>1. PICK row : row = With(a, i, s)
  OBVIOUS
<1>2. /\ IsRow(row)
      /\ \A c \in ColumnsOf(class) : c \in s.set => At(row, c) = Value(a, i, c)
      /\ \A c \in ColumnsOf(class) : c \in s.null \ s.set => At(row, c) = Null
      /\ \A c \in ColumnsOf(class) : c \notin s.set \cup s.null => At(row, c) = At(table[i], c)
  BY <1>1, WithIs
<1>3. \A c : Value(a, i, c) # Null /\ IsOf(Value(a, i, c), c) /\ IsOf(Null, c)
  BY ValueIs
<1>4. \A c \in ColumnsOf(class) : IsOf(At(row, c), c)
  <2> SUFFICES ASSUME NEW c \in ColumnsOf(class) PROVE IsOf(At(row, c), c)
    OBVIOUS
  <2>1. CASE c \in s.set
    BY <1>2, <1>3, <2>1
  <2>2. CASE c \in s.null \ s.set
    BY <1>2, <1>3, <2>2
  <2>3. CASE c \notin s.set \cup s.null
    BY <1>2, <2>3 DEF RowOK
  <2> QED BY <2>1, <2>2, <2>3
<1>5. ~ Lacks(row)
  <2> SUFFICES ASSUME NEW c \in ColumnsOf(class) \cap NeededIn(class) PROVE At(row, c) # Null
    BY DEF Lacks
  <2>1. CASE c \in s.set
    BY <1>2, <1>3, <2>1
  <2>2. CASE c \notin s.set \cup s.null
    BY <1>2, <2>2 DEF RowOK, Lacks
  <2> QED BY <2>1, <2>2
<1>6. ASSUME NEW c \in ColumnsOf(class)
      PROVE At(row, c) = truth'[i][c] \/ (c = "status" /\ i \in raced')
  <2>1. CASE c \in s.set
    BY <1>2, <2>1
  <2>2. CASE c \in s.null \ s.set
    BY <1>2, <2>2
  <2>3. CASE c \notin s.set \cup s.null
    BY <1>2, <2>3 DEF RowOK, IsLast
  <2> QED BY <2>1, <2>2, <2>3
<1>7. IdIsGenerated => i <= issued'
  BY DEF RowOK
<1> QED BY <1>1, <1>2, <1>4, <1>5, <1>6, <1>7, RowIs

\* Some rows are updated, without an object.
LEMMA ManyRowsOK ==
    ASSUME ClassFits, Sound, class' = class, issued' = issued, raced \subseteq raced',
           NEW a, NEW ids, \A i \in ids : i \in RowIds /\ table[i] # NoRow,
           NEW s, s.set \cap s.null = {}, s.null \cap NeededIn(class) = {},
           Wrote(a, ids, s), \A i \in ids : table'[i] = With(a, i, s)
    PROVE RowsOK'
<1>1. RowFits(class) /\ \A i \in RowIds : table[i] # NoRow => RowOK(i)
  BY DEF ClassFits, Fits, Sound, RowsOK
<1>2. ASSUME NEW i \in ids PROVE RowOK(i)'
  <2>1. RowOK(i) /\ table'[i] = With(a, i, s)
    BY <1>1
  <2>2. /\ \A c \in s.set : truth'[i][c] = Value(a, i, c)
        /\ \A c \in s.null : truth'[i][c] = Null
        /\ \A c \in ColumnsOf(class) \ (s.set \cup s.null) : truth'[i][c] = truth[i][c]
    BY DEF Wrote
  <2> QED BY <1>1, <2>1, <2>2, WithKeepsRow
<1>3. ASSUME NEW i \in RowIds \ ids, table'[i] # NoRow PROVE RowOK(i)'
  BY <1>1, <1>3, RowStays DEF Wrote
<1> QED BY <1>2, <1>3 DEF RowsOK

\* A number from one to five.
LEMMA OneOfFive == ASSUME NEW k \in 1..5 PROVE k = 1 \/ k = 2 \/ k = 3 \/ k = 4 \/ k = 5
OBVIOUS
\* The only choice of Set.
LEMMA SetOne == ASSUME NEW set, NEW s \in Set(set) PROVE s.set = set /\ s.null = {}
BY DEF Set, To

\* A handler that updates rows without an object is no deployment.
LEMMA UpdatingByIs ==
    ASSUME ClassFits, Sound, NEW a \in Actors, Running(a),
           Current(a).do = "updateBy" \/ Current(a).do = "updateBy status",
           NEW s \in Current(a).sets
    PROVE /\ work[a].name # Deploying /\ work[a].id \in RowIds
          /\ s.set \cup s.null \subseteq ColumnsOf(class)
          /\ s.set \cap s.null = {} /\ s.null \cap NeededIn(class) = {}
          /\ Current(a).do = "updateBy status" =>
                class = Deployment /\ s.set = {"status"} /\ s.null = {}
<1>1. /\ Started(work[a])
      /\ StatementFits(class, [name |-> work[a].name, does |-> work[a].does], work[a].at)
      /\ WorkOK(a)
  BY SoundIs, RunningIs
<1>2. work[a].id \in RowIds
  BY <1>1 DEF Started, Current
<1>3. work[a].name # Deploying
  <2>1. SUFFICES ASSUME work[a].name = Deploying PROVE FALSE
    OBVIOUS
  <2>2. work[a].at \in 1..5 /\ Current(a).do # "insert" /\ Current(a).do # "activate"
        /\ Current(a).do # "update anyway"
    BY <1>1, <2>1, DeployingDoes
  <2>3. work[a].at # 1 /\ work[a].at # 4 /\ work[a].at \notin {2, 3, 5}
    BY <1>1, <2>1, <2>2, DeployingDoes
  <2>4. PICK k : k = work[a].at
    OBVIOUS
  <2>5. k \in 1..5 /\ k # 1 /\ k # 4 /\ k # 2 /\ k # 3 /\ k # 5
    BY <2>2, <2>3, <2>4
  <2> QED BY <2>5, OneOfFive
<1>4. CASE Current(a).do = "updateBy"
  <2>1. UpdateByFits(class, s)
    BY <1>1, <1>4 DEF StatementFits, Current
  <2> QED BY <1>2, <1>3, <1>4, <2>1 DEF UpdateByFits
<1>5. CASE Current(a).do = "updateBy status"
  <2>1. class = Deployment /\ Current(a).sets = Set({"status"})
    BY <1>1, <1>5 DEF StatementFits, Current
  <2>2. s.set = {"status"} /\ s.null = {}
    <3>1. PICK set : set = {"status"}
      OBVIOUS
    <3>2. s \in Set(set)
      BY <2>1, <3>1
    <3> QED BY <3>1, <3>2, SetOne
  <2>3. "status" \in ColumnsOf(class)
    BY <2>1 DEF ClassFits, Fits, StatementsFit
  <2> QED BY <1>2, <1>3, <2>1, <2>2, <2>3
<1> QED BY <1>4, <1>5

\* What a deployment has set stays the last, except for its status, if a start-up fails it.
LEMMA FailedStays ==
    ASSUME Sound, NEW a, NEW ids, NEW s, s.set = {"status"}, s.null = {}, Wrote(a, ids, s),
           ids \subseteq RowIds, raced' = raced \cup {i \in ids : UnderWay(i)},
           \A i \in ids : table[i] # NoRow,
           NEW b \in Actors, Running(b), work[b].name = Deploying, work[b].at # 1
    PROVE UpToDate(work[b].object, work[b].id) /\
          \A o, i : o = work[b].object /\ i = work[b].id => UpToDate(o, i)'
<1>1. Started(work[b]) /\ ObjectOK(work[b].object)
  BY SoundIs DEF WorkOK, Running
<1>2. UpToDate(work[b].object, work[b].id) /\ work[b].id \in RowIds
  BY <1>1 DEF Started
<1>3. PICK o, i : o = work[b].object /\ i = work[b].id
  OBVIOUS
<1>4. i \in ids => i \in raced'
  BY <1>3 DEF UnderWay, Deploying
<1>5. ASSUME NEW c \in o.dirty
      PROVE o.values[c] # Null /\ (table'[i] # NoRow =>
               o.values[c] = truth'[i][c] \/ (c = "status" /\ i \in raced'))
  <2>1. o.values[c] # Null /\ (table[i] # NoRow => IsLast(i, o.values[c], c))
    BY <1>2, <1>3 DEF UpToDate
  <2>2. c \in ColumnsOf(class)
    BY <1>1, <1>3 DEF ObjectOK
  <2>3. CASE i \in ids
    <3>1. c # "status" => truth'[i][c] = truth[i][c]
      BY <2>2, <2>3 DEF Wrote
    <3> QED BY <1>4, <2>1, <2>3, <3>1 DEF IsLast
  <2>4. CASE i \notin ids
    <3>1. table'[i] = table[i] /\ truth'[i] = truth[i]
      BY <1>2, <1>3, <2>4 DEF Wrote
    <3> QED BY <2>1, <3>1 DEF IsLast
  <2> QED BY <2>3, <2>4
<1>6. UpToDate(o, i)'
  BY <1>5 DEF UpToDate, IsLast
<1> QED BY <1>2, <1>3, <1>6

\* updateBy: one column of some rows; those of a deployment under way have raced.
LEMMA UpdateBySound ==
    ASSUME ClassFits, Sound, NEW a \in Actors, updateBy(a)
    PROVE Sound'
<1>1. /\ Running(a) /\ UNCHANGED <<class, issued, started>> /\ Goes(a, work[a].object)
      /\ Current(a).do = "updateBy" \/ Current(a).do = "updateBy status"
  BY DEF updateBy, Doing
<1>2. PICK s \in Current(a).sets :
         LET there == {id \in RowIds : table[id] # NoRow}
             ids == IF Current(a).do = "updateBy" THEN there \cap {work[a].id}
                    ELSE {id \in there : InProgress(id)}
         IN  /\ Write(a, ids, LAMBDA id : With(a, id, s), s)
             /\ raced' = raced \cup {id \in ids : UnderWay(id)}
  BY DEF updateBy
<1>3. PICK ids : ids = IF Current(a).do = "updateBy"
                       THEN {id \in RowIds : table[id] # NoRow} \cap {work[a].id}
                       ELSE {id \in {i \in RowIds : table[i] # NoRow} : InProgress(id)}
  OBVIOUS
<1>4. ids \subseteq RowIds /\ \A i \in ids : i \in RowIds /\ table[i] # NoRow
  BY <1>3
<1>5. PICK rows : rows = [i \in ids |-> With(a, i, s)]
  OBVIOUS
<1>6. WrittenRows(a, ids, rows, s) /\ raced' = raced \cup {i \in ids : UnderWay(i)}
  BY <1>2, <1>3, <1>5 DEF WrittenRows, Write
<1>7. /\ work[a].name # Deploying
      /\ s.set \cup s.null \subseteq ColumnsOf(class)
      /\ s.set \cap s.null = {} /\ s.null \cap NeededIn(class) = {}
      /\ Current(a).do = "updateBy status" =>
            class = Deployment /\ s.set = {"status"} /\ s.null = {}
  BY <1>1, UpdatingByIs
<1>8. Wrote(a, ids, s) /\ \A i \in ids : table'[i] = With(a, i, s)
  <2>1. Wrote(a, ids, s) /\ \A i \in ids : table'[i] = rows[i]
    <3>1. WrittenRows(a, ids, rows, s) /\ ids \subseteq RowIds
      BY <1>4, <1>6
    <3>2. s.set \cap s.null = {} /\ s.set \cup s.null \subseteq ColumnsOf(class)
      BY <1>7
    <3> QED BY <3>1, <3>2, WroteIs
  <2> QED BY <1>5, <2>1
<1>9. class' = class /\ issued' = issued /\ raced \subseteq raced' /\ raced' \subseteq RowIds
  BY <1>1, <1>4, <1>6 DEF Sound, Shape
<1>10. RowsOK'
  BY <1>4, <1>7, <1>8, <1>9, ManyRowsOK
<1>11. PICK o : o = work[a].object
  OBVIOUS
<1>12. ObjectOK(o)'
  BY <1>9, <1>11, SoundIs, ObjectStays DEF WorkOK
<1>13. /\ work' = [b \in Actors |-> work'[b]]
       /\ \A b \in Actors \ {a} : work'[b] = work[b]
       /\ WorkOK(a)' /\ (Deploys(a)' => Deploys(a))
  <2>1. /\ Current(a).do # "insert" /\ Current(a).do \notin Reads /\ Current(a).do \notin Looks
    BY <1>1 DEF Reads, Looks
  <2> QED BY <1>1, <1>7, <1>9, <1>11, <1>12, <2>1, GoIs
<1>14. ASSUME NEW b \in Actors, b # a, Running(b), work[b].name = Deploying, work[b].at # 1
       PROVE UpToDate(work[b].object, work[b].id)'
  <2>1. Current(a).do # "updateBy"
    BY <1>1, <1>14, NoOther DEF Changing
  <2>2. PICK v, i : v = work[b].object /\ i = work[b].id
    OBVIOUS
  <2>3. UpToDate(v, i)'
    BY <1>1, <1>4, <1>6, <1>7, <1>8, <1>14, <2>1, <2>2, FailedStays
  <2>4. work'[b] = work[b]
    BY <1>13, <1>14
  <2> QED BY <2>2, <2>3, <2>4
<1> QED BY <1>1, <1>8, <1>9, <1>10, <1>13, <1>14, OneWrites DEF Wrote

-----------------------------------------------------------------------------
(* setActiveDeployment *)

\* The parts of To.
LEMMA ToIs == ASSUME NEW set, NEW null PROVE To(set, null).set = set /\ To(set, null).null = null
BY DEF To

\* The deployment that is made active.
Activates(s) == s.set = {"active"} /\ s.null = {}
\* What setActiveDeployment writes back.
LEMMA ActivatingIs ==
    ASSUME ClassFits, Sound, NEW a \in Actors, Running(a), Current(a).do = "activate",
           NEW id, id = work[a].id, NEW old, old = work[a].object,
           NEW s, Activates(s), NEW value, Valued(value, s), \A c \in s.set : value[c] = Value(a, id, c),
           NEW o, Assigned(o, old, s, value),
           NEW sent, Sends(class, o, sent), NEW row, Changes(row, table[id], sent)
    PROVE /\ work[a].name = Deploying /\ class = Deployment /\ id \in RowIds
          /\ ObjectOK(o) /\ o.dirty \subseteq {"status", "revision", "active"}
          /\ s.set \subseteq ColumnsOf(class)
          /\ LastSet(a, id, s, o) /\ Made(row, table[id], o)
          /\ \A c \in o.dirty : o.values[c] # Null
<1>1. /\ WorkOK(a) /\ Started(work[a]) /\ RowFits(class) /\ StatementsFit(class)
      /\ StatementFits(class, [name |-> work[a].name, does |-> work[a].does], work[a].at)
  BY SoundIs, RunningIs DEF ClassFits, Fits
<1>2. work[a].name = Deploying
  BY <1>1 DEF StatementFits, Current
<1>3. class = Deployment /\ work[a].at = 4
  BY <1>1, <1>2, DeployingDoes
<1>4. id \in RowIds /\ old.dirty \subseteq {"status", "revision", "active"} /\ UpToDate(old, id)
  <2>1. PICK w : w = work[a]
    OBVIOUS
  <2>2. Started(w) /\ w.at # 1 /\ w.name = Deploying
    BY <1>1, <1>2, <1>3, <2>1
  <2>3. w.id \in RowIds /\ w.object.dirty \subseteq {"status", "revision", "active"}
        /\ UpToDate(w.object, w.id)
    BY <2>2 DEF Started
  <2> QED BY <2>1, <2>3
<1>5. s.set = {"active"} /\ s.null = {}
  BY DEF Activates
<1>6. /\ "active" \in Range(class.updateColumns)
      /\ {"status", "revision", "active"} \subseteq Range(class.updateColumns)
      /\ Range(class.updateColumns) \subseteq ColumnsOf(class)
  BY <1>1, <1>3 DEF ClassFits, Fits, StatementsFit
<1>7. /\ s.set \cup s.null \subseteq ColumnsOf(class) /\ s.set \cap s.null = {}
      /\ s.set \subseteq ColumnsOf(class)
  BY <1>5, <1>6
<1>9. ObjectOK(old)
  BY <1>1 DEF WorkOK
<1>10. /\ ObjectOK(o) /\ o.dirty = old.dirty \cup s.set \cup s.null
       /\ \A c \in s.set : o.values[c] = value[c]
       /\ \A c \in s.null : o.values[c] = Null
       /\ \A c \in ColumnsOf(class) \ (s.set \cup s.null) : o.values[c] = old.values[c]
  BY <1>7, <1>9, DirtyIs, SetIs
<1>11. o.dirty \subseteq {"status", "revision", "active"}
  BY <1>4, <1>5, <1>10
<1>12. LastSet(a, id, s, o)
  <2>1. \A c \in o.dirty \ (s.set \cup s.null) :
            o.values[c] # Null /\ (table[id] # NoRow => IsLast(id, o.values[c], c))
    BY <1>4, <1>9, <1>10 DEF UpToDate, ObjectOK
  <2>2. \A c \in s.set : o.values[c] = Value(a, id, c)
    BY <1>10
  <2> QED BY <1>7, <1>10, <2>1, <2>2 DEF LastSet
<1>13. \A c : (c \in DOMAIN sent <=> c \in o.dirty) /\ (c \in o.dirty => sent[c] = o.values[c])
  <2>1. o.dirty \subseteq Range(class.updateColumns)
    BY <1>6, <1>11
  <2> QED BY <1>1, <2>1, SentIs
<1>14. Made(row, table[id], o)
  BY <1>1, <1>13, ChangesIs DEF Made
<1>15. \A c \in o.dirty : o.values[c] # Null
  BY <1>5, <1>10, <1>12 DEF LastSet, Valued
<1> QED BY <1>2, <1>3, <1>4, <1>5, <1>7, <1>10, <1>11, <1>12, <1>14, <1>15

\* setActiveDeployment: all rows in one transaction, and the object of one.
LEMMA SetActiveDeploymentSound ==
    ASSUME ClassFits, Sound, NEW a \in Actors, setActiveDeployment(a)
    PROVE Sound'
<1>1. Running(a) /\ Current(a).do = "activate" /\ UNCHANGED <<class, issued, raced, started>>
  BY DEF setActiveDeployment, Doing
<1>2. PICK id, old : id = work[a].id /\ old = work[a].object
  OBVIOUS
<1>3. PICK active : active = {"active"}
  OBVIOUS
<1>4. PICK s : s = To(active, {})
  OBVIOUS
<1>5. s.set = active /\ s.null = {}
  BY <1>4, ToIs
<1>6. PICK value : value = [c \in active |-> Value(a, id, c)]
  OBVIOUS
<1>7. PICK o : o = Assign(old, active, {}, value)
  OBVIOUS
<1>8. PICK sent : sent = UpdateOf(class, o)
  OBVIOUS
<1>9. PICK row : row = ChangedRow(Columns, table[id], sent)
  OBVIOUS
<1>10. PICK ids, rows : /\ ids = {i \in RowIds : table[i] # NoRow}
                        /\ rows = [i \in ids |-> IF i = id THEN row ELSE With(a, i, s)]
  OBVIOUS
<1>11. WrittenRows(a, ids, rows, s) /\ Goes(a, o)
  BY <1>2, <1>3, <1>4, <1>5, <1>6, <1>7, <1>8, <1>9, <1>10
     DEF setActiveDeployment, WrittenRows, Write
<1>12. Assigned(o, old, s, value) /\ Sends(class, o, sent) /\ Changes(row, table[id], sent)
  BY <1>5, <1>7, <1>8, <1>9 DEF Assigned, Sends, Changes
<1>21. Valued(value, s) /\ (\A c \in s.set : value[c] = Value(a, id, c)) /\ Activates(s)
  <2>1. value = [c \in s.set |-> Value(a, id, c)]
    BY <1>5, <1>6
  <2> QED BY <1>3, <1>5, <2>1, ValuesAre DEF Activates
<1>13. /\ work[a].name = Deploying /\ class = Deployment /\ id \in RowIds
       /\ ObjectOK(o) /\ o.dirty \subseteq {"status", "revision", "active"}
       /\ s.set \subseteq ColumnsOf(class)
       /\ LastSet(a, id, s, o) /\ Made(row, table[id], o)
       /\ \A c \in o.dirty : o.values[c] # Null
  <2>1. work[a].name = Deploying /\ class = Deployment /\ id \in RowIds
    BY <1>1, <1>2, <1>12, <1>21, ActivatingIs
  <2>2. o.dirty \subseteq {"status", "revision", "active"}
    BY <1>1, <1>2, <1>12, <1>21, ActivatingIs
  <2>3. LastSet(a, id, s, o) /\ Made(row, table[id], o)
    BY <1>1, <1>2, <1>12, <1>21, ActivatingIs
  <2>4. s.set \subseteq ColumnsOf(class)
    <3>1. /\ {"status", "revision", "active"} \subseteq Range(class.updateColumns)
          /\ Range(class.updateColumns) \subseteq ColumnsOf(class)
      BY <2>1 DEF ClassFits, Fits, StatementsFit
    <3> QED BY <1>3, <1>5, <3>1
  <2>5. ObjectOK(o)
    <3>1. ObjectOK(old)
      BY <1>2, SoundIs DEF WorkOK
    <3>2. s.set \cap s.null = {} /\ s.set \cup s.null \subseteq ColumnsOf(class)
      BY <1>5, <2>4
    <3> QED BY <1>12, <1>21, <3>1, <3>2, SetIs
  <2>6. \A c \in o.dirty : o.values[c] # Null
    <3>1. \A c \in s.set : Value(a, id, c) # Null
      BY ValueIs
    <3> QED BY <1>5, <2>3, <3>1 DEF LastSet
  <2> QED BY <2>1, <2>2, <2>3, <2>4, <2>5, <2>6
<1>14. Wrote(a, ids, s) /\ \A i \in ids : table'[i] = rows[i]
  <2>1. ids \subseteq RowIds
    BY <1>10
  <2>2. s.set \cap s.null = {} /\ s.set \cup s.null \subseteq ColumnsOf(class)
    BY <1>5, <1>13
  <2> QED BY <1>11, <2>1, <2>2, WroteIs
<1>15. class' = class /\ issued' = issued /\ raced' = raced
  BY <1>1
<1>16. RowsOK'
  <2>1. RowFits(class) /\ \A i \in RowIds : table[i] # NoRow => RowOK(i)
    BY DEF ClassFits, Fits, Sound, RowsOK
  <2>2. ASSUME id \in ids PROVE RowOK(id)'
    <3>1. table[id] # NoRow /\ RowOK(id)
      BY <1>10, <1>13, <2>1, <2>2
    <3>2. table'[id] = row
      BY <1>10, <1>14, <2>2
    <3>3. ~ Lacks(row)
      BY <1>13, <3>1 DEF Made, Lacks, RowOK
    <3> QED BY <1>13, <1>14, <1>15, <2>2, <3>1, <3>2, <3>3, UpdateKeepsRow
  <2>3. ASSUME NEW i \in ids, i # id PROVE RowOK(i)'
    <3>1. RowOK(i) /\ table'[i] = With(a, i, s)
      BY <1>10, <1>14, <2>1, <2>3
    <3>2. /\ \A c \in s.set : truth'[i][c] = Value(a, i, c)
          /\ \A c \in s.null : truth'[i][c] = Null
          /\ \A c \in ColumnsOf(class) \ (s.set \cup s.null) : truth'[i][c] = truth[i][c]
      BY <1>14 DEF Wrote
    <3>3. s.set \cap s.null = {} /\ s.null \cap NeededIn(class) = {} /\ raced \subseteq raced'
      BY <1>5, <1>15
    <3> QED BY <1>15, <2>1, <3>1, <3>2, <3>3, WithKeepsRow
  <2>4. ASSUME NEW i \in RowIds \ ids, table'[i] # NoRow PROVE RowOK(i)'
    BY <1>14, <1>15, <2>1, <2>4, RowStays DEF Wrote
  <2> QED BY <2>2, <2>3, <2>4 DEF RowsOK
<1>17. UpToDate(o, id)'
  <2>1. CASE id \in ids
    BY <1>5, <1>10, <1>13, <1>14, <1>15, <2>1, SetStays
  <2>2. CASE id \notin ids
    <3>1. table'[id] = NoRow
      BY <1>10, <1>13, <1>14, <2>2 DEF Wrote
    <3> QED BY <1>13, <3>1 DEF UpToDate
  <2> QED BY <2>1, <2>2
<1>18. /\ work' = [b \in Actors |-> work'[b]]
       /\ \A b \in Actors \ {a} : work'[b] = work[b]
       /\ WorkOK(a)' /\ (Deploys(a)' => Deploys(a))
  <2>1. Current(a).do # "insert" /\ Current(a).do \notin Reads /\ Current(a).do \notin Looks
    BY <1>1 DEF Reads, Looks
  <2>2. work'[a].id = id
    BY <1>2, <1>11, SoundIs, GoesIs
  <2>3. UpToDate(o, work[a].id)'
    BY <1>17, <2>2
  <2>4. ObjectOK(o)'
    BY <1>13, <1>15, ObjectStays
  <2> QED BY <1>1, <1>11, <1>13, <1>15, <2>1, <2>3, <2>4, GoIs
<1>19. \A b \in Actors \ {a} : ~ (Running(b) /\ work[b].name = Deploying)
  BY <1>1, NoOther DEF Changing
<1>20. raced' \subseteq RowIds
  BY <1>15 DEF Sound, Shape
<1> QED BY <1>1, <1>14, <1>16, <1>18, <1>19, <1>20, OneWrites DEF Wrote

-----------------------------------------------------------------------------
(* insert *)

\* What an INSERT sends.
Inserts(C, o, sent) == sent = InsertOf(C, o)
\* An INSERT, column by column.
LEMMA InsertAt ==
    ASSUME NEW C, StatementsFit(C), NEW o, o.dirty \subseteq ColumnsOf(C),
           NEW sent, Inserts(C, o, sent)
    PROVE /\ \A c : (c \in DOMAIN sent.values <=> (c \in o.dirty /\ c \notin C.inserting.always))
                    /\ (c \in DOMAIN sent.values => sent.values[c] = o.values[c])
          /\ sent.returns <=> C.inserting.always \cup (C.inserting.unlessSet \ o.dirty) # {}
<1>1. /\ sent.values = [c \in o.dirty \ C.inserting.always |-> o.values[c]]
      /\ sent.returns <=> C.inserting.always \cup (C.inserting.unlessSet \ o.dirty) # {}
  BY InsertIs DEF Inserts
<1>2. \A c : (c \in DOMAIN sent.values <=> (c \in o.dirty /\ c \notin C.inserting.always))
             /\ (c \in DOMAIN sent.values => sent.values[c] = o.values[c])
  BY <1>1
<1> QED BY <1>1, <1>2

\* The row that it makes.
Inserted(row, sent, id) ==
    row = NewRow(Columns, sent.values, [c \in ColumnsOf(class) |-> Filling(id, c)])
\* What is sent is in the row, except where the table fills in a value always.
LEMMA InsertedIs ==
    ASSUME RowFits(class), NEW sent, NEW id, NEW row, Inserted(row, sent, id)
    PROVE /\ IsRow(row)
          /\ \A c \in ColumnsOf(class) :
                c \notin TriggersOf /\ c \in DOMAIN sent.values => At(row, c) = sent.values[c]
          /\ \A c \in ColumnsOf(class) :
                c \in FilledOf /\ ~ (c \notin TriggersOf /\ c \in DOMAIN sent.values)
                => At(row, c) = Filling(id, c)
          /\ \A c \in ColumnsOf(class) :
                c \notin FilledOf /\ ~ (c \notin TriggersOf /\ c \in DOMAIN sent.values)
                => At(row, c) = Null
<1>1. PICK given, filling : /\ given = sent.values
                            /\ filling = [c \in ColumnsOf(class) |-> Filling(id, c)]
  OBVIOUS
<1>2. row = NewRow(Columns, given, filling)
  BY <1>1 DEF Inserted
<1>3. /\ IsRow(row)
      /\ \A c \in ColumnsOf(class) :
            At(row, c) = IF c \notin TriggersOf /\ c \in DOMAIN given THEN given[c]
                             ELSE IF c \in FilledOf THEN filling[c] ELSE Null
  BY <1>2, NewRowIs
<1>4. \A c \in ColumnsOf(class) : filling[c] = Filling(id, c)
  BY <1>1
<1> QED BY <1>1, <1>3, <1>4

\* What the table fills in always, it fills in.
LEMMA TriggersFill ==
    TriggersOf \subseteq FilledOf
<1>1. FilledOf = {Columns[j].name : j \in {j \in DOMAIN Columns : Columns[j].filled # "never"}}
  BY DEF FilledOf, Named
<1>2. TriggersOf = {Columns[j].name : j \in {j \in DOMAIN Columns : Columns[j].filled = "always"}}
  BY DEF TriggersOf, Named
<1>3. ASSUME NEW j \in DOMAIN Columns, Columns[j].filled = "always"
      PROVE Columns[j].filled # "never"
  BY <1>3
<1> QED BY <1>1, <1>2, <1>3

\* The object that is inserted is a new one.
LEMMA InsertingIs ==
    ASSUME ClassFits, Sound, NEW a \in Actors, Running(a), Current(a).do = "insert",
           NEW s \in Current(a).sets
    PROVE /\ work[a].object = New(class) /\ InsertFits(class, work[a].name, s)
          /\ RowFits(class) /\ StatementsFit(class)
          /\ work[a].name # Deploying => work[a].at = Len(work[a].does)
          /\ work[a].name = Deploying => class = Deployment /\ work[a].at = 1 /\ Len(work[a].does) = 5
          /\ WorkOK(a) /\ Started(work[a])
<1>1. /\ WorkOK(a) /\ Started(work[a]) /\ RowFits(class) /\ StatementsFit(class)
      /\ work[a].at \in 1..Len(work[a].does)
      /\ StatementFits(class, [name |-> work[a].name, does |-> work[a].does], work[a].at)
  BY SoundIs, RunningIs DEF ClassFits, Fits
<1>2. /\ \A j \in 1..(work[a].at - 1) : work[a].does[j].do \in Looks
      /\ InsertFits(class, work[a].name, s)
      /\ work[a].name # Deploying /\ work[a].at # Len(work[a].does) => Current(a).do \in Reads
  BY <1>1 DEF StatementFits, Current
<1>3. work[a].object = New(class)
  BY <1>1, <1>2 DEF Started
<1>4. Current(a).do \notin Reads
  BY DEF Reads, Looks
<1>5. work[a].name = Deploying => class = Deployment /\ work[a].at = 1 /\ Len(work[a].does) = 5
  BY <1>1, DeployingDoes
<1> QED BY <1>1, <1>2, <1>3, <1>4, <1>5

\* Its columns after the insertion.
Fresh(o, s, value) ==
    /\ ObjectOK(o) /\ o.dirty = s.set \cup s.null
    /\ \A c \in s.set : o.values[c] = value[c]
    /\ \A c \in ColumnsOf(class) \ s.set : o.values[c] = Null
\* An object that has been set in for the first time.
LEMMA FreshIs ==
    ASSUME NEW name, NEW s, InsertFits(class, name, s), NEW value, Valued(value, s),
           NEW old, old = New(class), NEW o, Assigned(o, old, s, value)
    PROVE Fresh(o, s, value)
<1>1. s.set \cup s.null \subseteq ColumnsOf(class) /\ s.set \cap s.null = {}
  BY DEF InsertFits
<1>2. ObjectOK(old) /\ old.dirty = {} /\ \A c \in ColumnsOf(class) : old.values[c] = Null
  BY NewIs DEF New
<1>3. o.dirty = old.dirty \cup s.set \cup s.null
  BY DirtyIs
<1>4. /\ ObjectOK(o)
      /\ \A c \in s.set : o.values[c] = value[c]
      /\ \A c \in s.null : o.values[c] = Null
      /\ \A c \in ColumnsOf(class) \ (s.set \cup s.null) : o.values[c] = old.values[c]
  BY <1>1, <1>2, SetIs
<1> QED BY <1>1, <1>2, <1>3, <1>4 DEF Fresh

\* The new row: what is given, and else what the table fills in.
Given(s) == s.set \ TriggersOf
\* A new row has what is given, and else what the table fills in.
LEMMA NewRowHas ==
    ASSUME RowFits(class), StatementsFit(class), NEW name, NEW s, InsertFits(class, name, s),
           NEW a, NEW id, NEW value, Valued(value, s), \A c \in s.set : value[c] = Value(a, id, c),
           NEW o, Fresh(o, s, value), NEW sent, Inserts(class, o, sent),
           NEW row, Inserted(row, sent, id)
    PROVE /\ IsRow(row)
          /\ \A c \in ColumnsOf(class) : c \in Given(s) => At(row, c) = Value(a, id, c)
          /\ \A c \in ColumnsOf(class) \ Given(s) : c \in FilledOf => At(row, c) = Filling(id, c)
          /\ \A c \in ColumnsOf(class) \ Given(s) : c \notin FilledOf => At(row, c) = Null
<1>1. /\ s.set \cap s.null = {} /\ s.set \cap class.inserting.always \subseteq KeysOf(class)
      /\ s.null \cap FilledOf = {}
      /\ class.inserting.always \subseteq FilledOf
  BY SameClass DEF InsertFits, StatementsFit
<1>2. /\ ObjectOK(o) /\ o.dirty = s.set \cup s.null
      /\ \A c \in s.set : o.values[c] = value[c]
      /\ \A c \in ColumnsOf(class) \ s.set : o.values[c] = Null
  BY DEF Fresh
<1>3. o.dirty \subseteq ColumnsOf(class)
  BY <1>2 DEF ObjectOK
<1>4. \A c : (c \in DOMAIN sent.values <=> (c \in o.dirty /\ c \notin class.inserting.always))
             /\ (c \in DOMAIN sent.values => sent.values[c] = o.values[c])
  BY <1>3, InsertAt
<1>5. /\ IsRow(row)
      /\ \A c \in ColumnsOf(class) :
            c \notin TriggersOf /\ c \in DOMAIN sent.values => At(row, c) = sent.values[c]
      /\ \A c \in ColumnsOf(class) :
            c \in FilledOf /\ ~ (c \notin TriggersOf /\ c \in DOMAIN sent.values)
            => At(row, c) = Filling(id, c)
      /\ \A c \in ColumnsOf(class) :
            c \notin FilledOf /\ ~ (c \notin TriggersOf /\ c \in DOMAIN sent.values)
            => At(row, c) = Null
  BY InsertedIs
<1>6. ASSUME NEW c \in ColumnsOf(class), c \in Given(s) PROVE At(row, c) = Value(a, id, c)
  <2>1. c \in s.set /\ c \notin TriggersOf
    BY <1>6 DEF Given
  <2>2. CASE c \notin class.inserting.always
    BY <1>2, <1>4, <1>5, <2>1, <2>2
  <2>3. CASE c \in class.inserting.always
    <3>1. c \in FilledOf /\ c \in KeysOf(class)
      BY <1>1, <2>1, <2>3
    <3>2. At(row, c) = Filling(id, c)
      BY <1>4, <1>5, <2>3, <3>1
    <3> QED BY <3>1, <3>2 DEF Value
  <2> QED BY <2>2, <2>3
<1>7. ASSUME NEW c \in ColumnsOf(class) \ Given(s), c \in FilledOf
      PROVE At(row, c) = Filling(id, c)
  <2>1. c \notin s.set \/ c \in TriggersOf
    BY DEF Given
  <2>2. c \notin s.null
    BY <1>1, <1>7
  <2> QED BY <1>2, <1>4, <1>5, <1>7, <2>1, <2>2
<1>8. ASSUME NEW c \in ColumnsOf(class) \ Given(s), c \notin FilledOf
      PROVE At(row, c) = Null
  <2>1. c \notin s.set
    BY <1>8, TriggersFill DEF Given
  <2> QED BY <1>2, <1>4, <1>5, <1>8, <2>1
<1> QED BY <1>5, <1>6, <1>7, <1>8

\* The only value that it can lack is the modid of a project.
LEMMA LackingIs ==
    ASSUME RowFits(class), StatementsFit(class), NEW name, NEW s, InsertFits(class, name, s),
           NEW a, NEW id, NEW value, Valued(value, s), \A c \in s.set : value[c] = Value(a, id, c),
           NEW o, Fresh(o, s, value), NEW sent, Inserts(class, o, sent),
           NEW row, Inserted(row, sent, id), Lacks(row)
    PROVE class = Project /\ o.values["modid"] = Null
<1>1. PICK c \in ColumnsOf(class) \cap NeededIn(class) : At(row, c) = Null
  BY DEF Lacks
<1>2. /\ c \in Given(s) => At(row, c) = Value(a, id, c)
      /\ c \notin Given(s) /\ c \in FilledOf => At(row, c) = Filling(id, c)
  BY NewRowHas
<1>3. Value(a, id, c) # Null /\ Filling(id, c) # Null
  BY ValueIs
<1>4. c \notin Given(s) /\ c \notin FilledOf
  BY <1>1, <1>2, <1>3
<1>5. c \notin s.set
  BY <1>4, TriggersFill DEF Given
<1>6. Modid(class, c)
  BY <1>1, <1>4, <1>5, SameClass DEF InsertFits
<1>7. o.values[c] = Null
  BY <1>1, <1>5 DEF Fresh
<1> QED BY <1>6, <1>7 DEF Modid

\* What is kept of the new row.
Kept(a, id, s) ==
    [c \in ColumnsOf(class) |->
        IF c \in s.set \ TriggersOf THEN Value(a, id, c)
        ELSE IF c \in FilledOf THEN Filling(id, c)
        ELSE NullValue]
\* A new row is a good one.
LEMMA NewRowOK ==
    ASSUME RowFits(class), StatementsFit(class), NEW name, NEW s, InsertFits(class, name, s),
           NEW a, NEW id, NEW value, Valued(value, s), \A c \in s.set : value[c] = Value(a, id, c),
           NEW o, Fresh(o, s, value), NEW sent, Inserts(class, o, sent),
           NEW row, Inserted(row, sent, id), ~ Lacks(row), class' = class,
           table'[id] = row, truth'[id] = Kept(a, id, s), IdIsGenerated => id <= issued'
    PROVE RowOK(id)' /\ \A c \in ColumnsOf(class) : IsOf(At(row, c), c)
<1>1. /\ IsRow(row)
      /\ \A c \in ColumnsOf(class) : c \in Given(s) => At(row, c) = Value(a, id, c)
      /\ \A c \in ColumnsOf(class) \ Given(s) : c \in FilledOf => At(row, c) = Filling(id, c)
      /\ \A c \in ColumnsOf(class) \ Given(s) : c \notin FilledOf => At(row, c) = Null
  BY NewRowHas
<1>2. ASSUME NEW c \in ColumnsOf(class) PROVE At(row, c) = truth'[id][c] /\ IsOf(At(row, c), c)
  <2>1. truth'[id][c] = IF c \in Given(s) THEN Value(a, id, c)
                        ELSE IF c \in FilledOf THEN Filling(id, c) ELSE Null
    BY DEF Kept, Null, NullValue, Given
  <2>2. IsOf(Value(a, id, c), c) /\ IsOf(Filling(id, c), c) /\ IsOf(Null, c)
    BY ValueIs
  <2>3. CASE c \in Given(s)
    BY <1>1, <2>1, <2>2, <2>3
  <2>4. CASE c \notin Given(s) /\ c \in FilledOf
    BY <1>1, <2>1, <2>2, <2>4
  <2>5. CASE c \notin Given(s) /\ c \notin FilledOf
    BY <1>1, <2>1, <2>2, <2>5
  <2> QED BY <2>3, <2>4, <2>5
<1> QED BY <1>1, <1>2, RowIs

\* Going on with the row that has been inserted.
GoesWith(a, id, o) ==
    work' = [work EXCEPT ![a] = Going([work[a] EXCEPT !.id = id, !.object = o])]
GoneWith(v, w, i, o) == v = Going([w EXCEPT !.id = i, !.object = o])
\* A handler that goes on with the id of its row and an object.
LEMMA GoingWithIs ==
    ASSUME NEW w, IsWork(w), NEW i, NEW o, NEW v, GoneWith(v, w, i, o)
    PROVE /\ IsWork(v) /\ v.name = w.name /\ v.does = w.does
          /\ v.at = IF w.at = Len(w.does) THEN 0 ELSE w.at + 1
          /\ v.n = w.n /\ v.id = i /\ v.object = o /\ v.outcome = w.outcome
<1>1. PICK u : u = [w EXCEPT !.id = i, !.object = o]
  OBVIOUS
<1>2. /\ IsWork(u) /\ u.name = w.name /\ u.does = w.does /\ u.at = w.at /\ u.n = w.n
      /\ u.id = i /\ u.object = o /\ u.outcome = w.outcome
  BY <1>1 DEF IsWork
<1>3. v = [u EXCEPT !.at = IF u.at = Len(u.does) THEN 0 ELSE u.at + 1]
  BY <1>1 DEF Going, GoneWith
<1>4. /\ IsWork(v) /\ v.name = u.name /\ v.does = u.does
      /\ v.at = IF u.at = Len(u.does) THEN 0 ELSE u.at + 1
      /\ v.n = u.n /\ v.id = u.id /\ v.object = u.object /\ v.outcome = u.outcome
  BY <1>2, <1>3 DEF IsWork
<1> QED BY <1>2, <1>4

\* Only this handler goes on with a row.
LEMMA GoesWithIs ==
    ASSUME NEW a \in Actors, work = [b \in Actors |-> work[b]], IsWork(work[a]), NEW i, NEW o,
           GoesWith(a, i, o)
    PROVE /\ work' = [b \in Actors |-> work'[b]] /\ IsWork(work'[a])
          /\ \A b \in Actors \ {a} : work'[b] = work[b]
          /\ work'[a].name = work[a].name /\ work'[a].does = work[a].does
          /\ work'[a].at = IF work[a].at = Len(work[a].does) THEN 0 ELSE work[a].at + 1
          /\ work'[a].n = work[a].n /\ work'[a].id = i
          /\ work'[a].object = o /\ work'[a].outcome = work[a].outcome
<1>1. work' = [work EXCEPT ![a] = Going([work[a] EXCEPT !.id = i, !.object = o])]
  BY DEF GoesWith
<1>2. /\ work' = [b \in Actors |-> work'[b]]
      /\ \A b \in Actors \ {a} : work'[b] = work[b]
      /\ work'[a] = Going([work[a] EXCEPT !.id = i, !.object = o])
  BY <1>1
<1>3. PICK v, w : v = work'[a] /\ w = work[a]
  OBVIOUS
<1>4. /\ IsWork(v) /\ v.name = w.name /\ v.does = w.does
      /\ v.at = IF w.at = Len(w.does) THEN 0 ELSE w.at + 1
      /\ v.n = w.n /\ v.id = i /\ v.object = o /\ v.outcome = w.outcome
  <2>1. IsWork(w) /\ v = Going([w EXCEPT !.id = i, !.object = o])
    BY <1>2, <1>3
  <2>2. GoneWith(v, w, i, o)
    BY <2>1 DEF GoneWith
  <2> QED BY <2>1, <2>2, GoingWithIs
<1> QED BY <1>2, <1>3, <1>4

\* What a handler inserts, step by step, and what comes of it.
Sending(a, s, id, value, o, sent, row) ==
    /\ Running(a) /\ Current(a).do = "insert" /\ s \in Current(a).sets
    /\ id \in RowIds /\ id = IF IdIsGenerated THEN issued + 1 ELSE work[a].id
    /\ Valued(value, s) /\ \A c \in s.set : value[c] = Value(a, id, c)
    /\ Assigned(o, work[a].object, s, value) /\ Inserts(class, o, sent) /\ Inserted(row, sent, id)
Stays == UNCHANGED <<class, table, truth, issued, raced, started>>
Arrives(a, s, id, o, sent, row) ==
    /\ ~ Missing(Columns, row) /\ table[id] = NoRow
    /\ table' = [table EXCEPT ![id] = row]
    /\ truth' = [truth EXCEPT ![id] = Kept(a, id, s)]
    /\ issued' = IF IdIsGenerated THEN id ELSE issued
    /\ \E obj : obj = (IF sent.returns THEN FromRow(class, row) ELSE o) /\ GoesWith(a, id, obj)
    /\ UNCHANGED <<class, raced, started>>
\* An insertion arrives, or is refused for one of two reasons.
LEMMA InsertDoes ==
    ASSUME NEW a, insert(a)
    PROVE \E s, id, value, o, sent, row :
            /\ Sending(a, s, id, value, o, sent, row)
            /\ \/ Missing(Columns, row) /\ Ends(a, o, "missing") /\ Stays
               \/ Ends(a, o, "exists") /\ Stays
               \/ Arrives(a, s, id, o, sent, row)
<1>1. Running(a) /\ Current(a).do = "insert"
  BY DEF insert, Doing
<1>2. PICK s \in Current(a).sets :
         LET id == IF IdIsGenerated THEN issued + 1 ELSE work[a].id
             o == Assign(work[a].object, s.set, s.null, [c \in s.set |-> Value(a, id, c)])
             sent == InsertOf(class, o)
             row == NewRow(Columns, sent.values,
                           [c \in ColumnsOf(class) |-> Filling(id, c)])
             given == s.set \ TriggersOf
         IN  /\ id \in RowIds
             /\ IF Missing(Columns, row)
                THEN Ends(a, o, "missing") /\ UNCHANGED <<table, truth, issued>>
                ELSE IF table[id] # NoRow
                THEN Ends(a, o, "exists") /\ UNCHANGED <<table, truth, issued>>
                ELSE /\ table' = [table EXCEPT ![id] = row]
                     /\ truth' = [truth EXCEPT ![id] =
                           [c \in ColumnsOf(class) |->
                              IF c \in given THEN Value(a, id, c)
                              ELSE IF c \in FilledOf THEN Filling(id, c)
                              ELSE NullValue]]
                     /\ issued' = IF IdIsGenerated THEN id ELSE issued
                     /\ work' = [work EXCEPT ![a] =
                           Going([@ EXCEPT !.id = id,
                                           !.object = IF sent.returns THEN FromRow(class, row)
                                                      ELSE o])]
  BY DEF insert
<1>3. PICK id : id = IF IdIsGenerated THEN issued + 1 ELSE work[a].id
  OBVIOUS
<1>4. UNCHANGED <<class, raced, started>>
  BY DEF insert
<1>5. PICK value : value = [c \in s.set |-> Value(a, id, c)]
  OBVIOUS
<1>6. PICK o : o = Assign(work[a].object, s.set, s.null, value)
  OBVIOUS
<1>7. PICK sent : sent = InsertOf(class, o)
  OBVIOUS
<1>8. PICK row : row = NewRow(Columns, sent.values, [c \in ColumnsOf(class) |-> Filling(id, c)])
  OBVIOUS
<1>9. PICK obj : obj = IF sent.returns THEN FromRow(class, row) ELSE o
  OBVIOUS
<1>10. /\ id \in RowIds
       /\ IF Missing(Columns, row)
          THEN Ends(a, o, "missing") /\ UNCHANGED <<table, truth, issued>>
          ELSE IF table[id] # NoRow
          THEN Ends(a, o, "exists") /\ UNCHANGED <<table, truth, issued>>
          ELSE /\ table' = [table EXCEPT ![id] = row]
               /\ truth' = [truth EXCEPT ![id] = Kept(a, id, s)]
               /\ issued' = IF IdIsGenerated THEN id ELSE issued
               /\ GoesWith(a, id, obj)
  BY <1>2, <1>3, <1>5, <1>6, <1>7, <1>8, <1>9 DEF Kept, GoesWith
<1>11. Sending(a, s, id, value, o, sent, row)
  BY <1>1, <1>3, <1>5, <1>6, <1>7, <1>8, <1>10, ValuesAre DEF Sending, Assigned, Inserts, Inserted
<1>12. \/ Missing(Columns, row) /\ Ends(a, o, "missing") /\ Stays
       \/ Ends(a, o, "exists") /\ Stays
       \/ Arrives(a, s, id, o, sent, row)
  <2>1. CASE Missing(Columns, row)
    BY <1>4, <1>10, <2>1 DEF Stays
  <2>2. CASE ~ Missing(Columns, row) /\ table[id] # NoRow
    BY <1>4, <1>10, <2>2 DEF Stays
  <2>3. CASE ~ Missing(Columns, row) /\ table[id] = NoRow
    BY <1>4, <1>9, <1>10, <2>3 DEF Arrives
  <2> QED BY <2>1, <2>2, <2>3
<1> QED BY <1>11, <1>12

\* What is known of an insertion.
LEMMA SendingIs ==
    ASSUME ClassFits, Sound, NEW a \in Actors, NEW s, NEW id, NEW value, NEW o, NEW sent, NEW row,
           Sending(a, s, id, value, o, sent, row)
    PROVE /\ RowFits(class) /\ StatementsFit(class) /\ InsertFits(class, work[a].name, s)
          /\ Fresh(o, s, value) /\ ObjectOK(o) /\ IsRow(row)
          /\ Missing(Columns, row) => class = Project /\ o.values["modid"] = Null
          /\ WorkOK(a) /\ Started(work[a]) /\ id \in RowIds
          /\ work[a].name # Deploying => work[a].at = Len(work[a].does)
          /\ work[a].name = Deploying =>
                class = Deployment /\ work[a].at = 1 /\ Len(work[a].does) = 5
<1>1. /\ Running(a) /\ Current(a).do = "insert" /\ s \in Current(a).sets
      /\ id \in RowIds
      /\ Valued(value, s) /\ \A c \in s.set : value[c] = Value(a, id, c)
      /\ Assigned(o, work[a].object, s, value) /\ Inserts(class, o, sent) /\ Inserted(row, sent, id)
  BY DEF Sending
<1>2. /\ work[a].object = New(class) /\ InsertFits(class, work[a].name, s)
      /\ RowFits(class) /\ StatementsFit(class)
      /\ work[a].name # Deploying => work[a].at = Len(work[a].does)
      /\ work[a].name = Deploying => class = Deployment /\ work[a].at = 1 /\ Len(work[a].does) = 5
      /\ WorkOK(a) /\ Started(work[a])
  BY <1>1, InsertingIs
<1>3. PICK old : old = work[a].object
  OBVIOUS
<1>4. Fresh(o, s, value)
  BY <1>1, <1>2, <1>3, FreshIs
<1>5. ObjectOK(o)
  BY <1>4 DEF Fresh
<1>6. IsRow(row)
  BY <1>1, <1>2, InsertedIs
<1>7. ASSUME Missing(Columns, row) PROVE class = Project /\ o.values["modid"] = Null
  <2>1. Lacks(row)
    BY <1>2, <1>7, MissingIs
  <2>2. PICK name : name = work[a].name
    OBVIOUS
  <2>3. RowFits(class) /\ StatementsFit(class) /\ InsertFits(class, name, s)
    BY <1>2, <2>2
  <2>4. /\ Valued(value, s) /\ \A c \in s.set : value[c] = Value(a, id, c)
        /\ Inserts(class, o, sent) /\ Inserted(row, sent, id)
    BY <1>1
  <2> QED BY <1>4, <2>1, <2>3, <2>4, LackingIs
<1> QED BY <1>1, <1>2, <1>4, <1>5, <1>6, <1>7

\* A row that nothing happens to while the table generates ids.
LEMMA RowGrows ==
    ASSUME class' = class, raced' = raced, NEW i \in RowIds, RowOK(i),
           issued \in Nat, issued' \in Nat, issued <= issued',
           table'[i] = table[i], truth'[i] = truth[i]
    PROVE RowOK(i)'
<1>1. IdIsGenerated => i <= issued'
  <2>1. i \in Nat
    BY BoundsAssumption DEF RowIds
  <2> QED BY <2>1 DEF RowOK
<1>2. /\ IsRow(table[i]) /\ ~ Lacks(table[i])
      /\ \A c \in ColumnsOf(class) : IsOf(At(table[i], c), c)
      /\ \A c \in ColumnsOf(class) :
            At(table[i], c) = truth[i][c] \/ (c = "status" /\ i \in raced)
  BY DEF RowOK, IsLast
<1>3. PICK row : row = table[i]
  OBVIOUS
<1> QED BY <1>1, <1>2, <1>3, RowIs

\* The new row is a good one, and the others are as before.
LEMMA ArrivedRows ==
    ASSUME ClassFits, Sound, NEW a \in Actors, NEW s, NEW id, NEW value, NEW o, NEW sent, NEW row,
           Sending(a, s, id, value, o, sent, row), Arrives(a, s, id, o, sent, row)
    PROVE /\ table' = [i \in RowIds |-> table'[i]] /\ truth' = [i \in RowIds |-> truth'[i]]
          /\ table'[id] = row
          /\ \A i \in RowIds \ {id} : table'[i] = table[i] /\ truth'[i] = truth[i]
          /\ issued' \in 0..MaxRows /\ issued <= issued' /\ (IdIsGenerated => id = issued + 1)
          /\ (IdIsGenerated => issued' = id)
          /\ RowsOK'
          /\ \A c \in ColumnsOf(class) : IsOf(At(row, c), c)
<1>1. /\ Shape /\ RowsOK /\ issued \in Nat
  BY SoundIs
<1>2. /\ RowFits(class) /\ StatementsFit(class) /\ InsertFits(class, work[a].name, s)
      /\ Fresh(o, s, value) /\ IsRow(row) /\ id \in RowIds
  BY SendingIs
<1>3. /\ id = IF IdIsGenerated THEN issued + 1 ELSE work[a].id
      /\ Valued(value, s) /\ \A c \in s.set : value[c] = Value(a, id, c)
      /\ Inserts(class, o, sent) /\ Inserted(row, sent, id)
  BY DEF Sending
<1>4. /\ ~ Missing(Columns, row)
      /\ table' = [table EXCEPT ![id] = row]
      /\ truth' = [truth EXCEPT ![id] = Kept(a, id, s)]
      /\ issued' = IF IdIsGenerated THEN id ELSE issued
      /\ class' = class /\ raced' = raced
  BY DEF Arrives
<1>5. table = [i \in RowIds |-> table[i]] /\ truth = [i \in RowIds |-> truth[i]]
      /\ issued \in 0..MaxRows
  BY <1>1 DEF Shape
<1>6. /\ table' = [i \in RowIds |-> table'[i]] /\ table'[id] = row
      /\ \A i \in RowIds \ {id} : table'[i] = table[i]
  BY <1>2, <1>4, <1>5
<1>7. /\ truth' = [i \in RowIds |-> truth'[i]] /\ truth'[id] = Kept(a, id, s)
      /\ \A i \in RowIds \ {id} : truth'[i] = truth[i]
  BY <1>2, <1>4, <1>5
<1>8. /\ issued' \in 0..MaxRows /\ issued <= issued' /\ (IdIsGenerated => id = issued + 1)
      /\ (IdIsGenerated => issued' = id /\ id <= issued')
  BY <1>2, <1>3, <1>4, <1>5, BoundsAssumption DEF RowIds
<1>9. ~ Lacks(row)
  BY <1>2, <1>4, MissingIs
<1>10. RowOK(id)' /\ \A c \in ColumnsOf(class) : IsOf(At(row, c), c)
  BY <1>2, <1>3, <1>4, <1>6, <1>7, <1>8, <1>9, NewRowOK
<1>11. ASSUME NEW i \in RowIds, i # id, table'[i] # NoRow PROVE RowOK(i)'
  <2>1. RowOK(i) /\ table'[i] = table[i] /\ truth'[i] = truth[i]
    BY <1>1, <1>6, <1>7, <1>11 DEF RowsOK
  <2>2. issued' \in Nat
    BY <1>8, BoundsAssumption
  <2> QED BY <1>1, <1>4, <1>8, <2>1, <2>2, RowGrows
<1>12. RowsOK'
  BY <1>10, <1>11 DEF RowsOK
<1> QED BY <1>6, <1>7, <1>8, <1>10, <1>12

\* The table returns the row to a deployment.
LEMMA DeploymentReturns ==
    ASSUME ClassFits, Sound, NEW a \in Actors, NEW s, NEW id, NEW value, NEW o, NEW sent, NEW row,
           Sending(a, s, id, value, o, sent, row), work[a].name # "addModel", FilledIn(class) # {}
    PROVE sent.returns
<1>1. /\ StatementsFit(class) /\ InsertFits(class, work[a].name, s) /\ Fresh(o, s, value)
  BY SendingIs
<1>2. o.dirty = s.set \cup s.null /\ o.dirty \subseteq ColumnsOf(class)
  BY <1>1 DEF Fresh, ObjectOK
<1>3. class.inserting.always \cup (class.inserting.unlessSet \ (s.set \cup s.null)) # {}
  BY <1>1 DEF InsertFits
<1>4. class.inserting.always \cup (class.inserting.unlessSet \ o.dirty) # {}
  BY <1>2, <1>3
<1>5. Inserts(class, o, sent)
  BY DEF Sending
<1> QED BY <1>1, <1>2, <1>4, <1>5, InsertAt

\* The object that the handler goes on with.
LEMMA ReturnedIs ==
    ASSUME ClassFits, Sound, NEW a \in Actors, NEW s, NEW id, NEW value, NEW o, NEW sent, NEW row,
           Sending(a, s, id, value, o, sent, row), \A c \in ColumnsOf(class) : IsOf(At(row, c), c),
           class' = class, NEW obj, obj = IF sent.returns THEN FromRow(class, row) ELSE o
    PROVE /\ ObjectOK(obj)'
          /\ sent.returns => /\ obj.dirty = {}
                             /\ \A c \in ColumnsOf(class) : obj.values[c] = At(row, c)
          /\ ~ sent.returns => obj = o
<1>1. RowFits(class) /\ IsRow(row) /\ ObjectOK(o)
  BY SendingIs
<1>2. CASE sent.returns
  <2>1. obj = [values |-> [c \in ColumnsOf(class) |-> At(row, c)], dirty |-> {}]
    BY <1>1, <1>2, FromRowIs
  <2>2. /\ obj.dirty = {} /\ DOMAIN obj.values = ColumnsOf(class)
        /\ \A c \in ColumnsOf(class) : obj.values[c] = At(row, c)
    BY <2>1
  <2>3. ObjectOK(obj)
    BY <2>2 DEF ObjectOK
  <2> QED BY <1>2, <2>2, <2>3, ObjectStays
<1>3. CASE ~ sent.returns
  BY <1>1, <1>3, ObjectStays
<1> QED BY <1>2, <1>3

\* It ends, or it is a deployment that goes on with its own row.
LEMMA ArrivedWork ==
    ASSUME ClassFits, Sound, NEW a \in Actors, NEW s, NEW id, NEW value, NEW o, NEW sent, NEW row,
           Sending(a, s, id, value, o, sent, row), Arrives(a, s, id, o, sent, row)
    PROVE /\ work' = [b \in Actors |-> work'[b]]
          /\ \A b \in Actors \ {a} : work'[b] = work[b]
          /\ WorkOK(a)' /\ (Deploys(a)' => Deploys(a))
<1>1. PICK obj : obj = (IF sent.returns THEN FromRow(class, row) ELSE o) /\ GoesWith(a, id, obj)
  BY DEF Arrives
<1>2. class' = class
  BY DEF Arrives
<1>3. /\ \A c \in ColumnsOf(class) : IsOf(At(row, c), c)
      /\ IdIsGenerated => issued' = id
  BY ArrivedRows
<1>4. /\ ObjectOK(obj)' /\ (sent.returns => obj.dirty = {})
  BY <1>1, <1>2, <1>3, ReturnedIs
<1>5. /\ WorkOK(a) /\ Started(work[a]) /\ id \in RowIds /\ Running(a)
      /\ work[a].name # Deploying => work[a].at = Len(work[a].does)
      /\ work[a].name = Deploying =>
            class = Deployment /\ work[a].at = 1 /\ Len(work[a].does) = 5
      /\ Current(a).do = "insert"
  BY SendingIs DEF Sending
<1>6. /\ work' = [b \in Actors |-> work'[b]] /\ IsWork(work'[a])
      /\ \A b \in Actors \ {a} : work'[b] = work[b]
      /\ work'[a].name = work[a].name /\ work'[a].does = work[a].does
      /\ work'[a].at = IF work[a].at = Len(work[a].does) THEN 0 ELSE work[a].at + 1
      /\ work'[a].n = work[a].n /\ work'[a].id = id
      /\ work'[a].object = obj /\ work'[a].outcome = work[a].outcome
  BY <1>1, SoundIs, GoesWithIs
<1>7. Deploys(a)' => Deploys(a)
  BY <1>5, <1>6 DEF Deploys, Running
<1>8. id \in 0..MaxRows /\ Len(work[a].does) \in Nat
  BY <1>5, BoundsAssumption DEF RowIds, WorkOK
<1>9. CASE work[a].name # Deploying
  BY <1>4, <1>5, <1>6, <1>7, <1>8, <1>9 DEF WorkOK
<1>10. CASE work[a].name = Deploying
  <2>1. obj.dirty = {}
    <3>1. FilledIn(class) # {} /\ work[a].name # "addModel"
      BY <1>5, <1>10 DEF ClassFits, Fits, Deploying
    <3> QED BY <1>4, <3>1, DeploymentReturns
  <2>2. id <= issued'
    <3>1. IdIsGenerated
      BY <1>5, <1>10, SameClass DEF ClassFits, Fits, IdIsGenerated, GeneratesId
    <3>2. id \in Nat
      BY <1>8, BoundsAssumption
    <3> QED BY <1>3, <3>1, <3>2
  <2>3. PICK v, w : v = work[a] /\ w = work'[a]
    OBVIOUS
  <2>4. /\ w.name = v.name /\ w.does = v.does /\ w.at = 2 /\ w.n = v.n /\ w.id = id
        /\ w.object = obj /\ w.outcome = v.outcome /\ Len(v.does) = 5
    <3>1. v.at = 1 /\ Len(v.does) = 5
      BY <1>5, <1>10, <2>3
    <3>2. /\ w.name = v.name /\ w.does = v.does /\ w.n = v.n /\ w.id = id
          /\ w.at = IF v.at = Len(v.does) THEN 0 ELSE v.at + 1
          /\ w.object = obj /\ w.outcome = v.outcome
      BY <1>6, <2>3
    <3> QED BY <3>1, <3>2
  <2>5. w.does[1].do \notin Looks
    <3>1. w.does[1].do = "insert"
      BY <1>5, <1>10, <2>3, <2>4 DEF Current
    <3> QED BY <3>1 DEF Looks
  <2>6. Started(v) /\ v.name = Deploying
    BY <1>5, <1>10, <2>3
  <2>7. UpToDate(w.object, w.id)'
    BY <2>1, <2>4 DEF UpToDate
  <2>8. Started(w)'
    <3>1. 1 \in 1..(w.at - 1) /\ w.at \in 1..Len(w.does)
      BY <2>4
    <3>2. w.object.dirty \subseteq {"status", "revision", "active"}
      BY <2>1, <2>4
    <3> QED BY <1>2, <1>5, <2>2, <2>4, <2>5, <2>6, <2>7, <3>1, <3>2 DEF Started
  <2>9. Started(work[a])'
    BY <2>3, <2>8
  <2>10. ObjectOK(work[a].object)'
    BY <1>4, <1>6
  <2> QED BY <1>6, <1>7, <1>8, <2>9, <2>10 DEF WorkOK
<1> QED BY <1>6, <1>7, <1>9, <1>10

-----------------------------------------------------------------------------
(* The invariant *)

\* A deployment that is under way has another row.
LEMMA ArrivesSound ==
    ASSUME ClassFits, Sound, NEW a \in Actors, NEW s, NEW id, NEW value, NEW o, NEW sent, NEW row,
           Sending(a, s, id, value, o, sent, row), Arrives(a, s, id, o, sent, row)
    PROVE Sound'
<1>1. /\ table' = [i \in RowIds |-> table'[i]] /\ truth' = [i \in RowIds |-> truth'[i]]
      /\ \A i \in RowIds \ {id} : table'[i] = table[i] /\ truth'[i] = truth[i]
      /\ issued' \in 0..MaxRows /\ issued <= issued' /\ (IdIsGenerated => id = issued + 1)
      /\ RowsOK'
  BY ArrivedRows
<1>2. /\ work' = [b \in Actors |-> work'[b]]
      /\ \A b \in Actors \ {a} : work'[b] = work[b]
      /\ WorkOK(a)' /\ (Deploys(a)' => Deploys(a))
  BY ArrivedWork
<1>3. UNCHANGED <<class, raced, started>>
  BY DEF Arrives
<1>4. Shape /\ issued \in Nat /\ issued' \in Nat /\ OneDeployment
  BY <1>1, SoundIs, BoundsAssumption
<1>5. Shape'
  BY <1>1, <1>2, <1>3, <1>4 DEF Shape
<1>6. ASSUME NEW b \in Actors, b # a PROVE WorkOK(b)'
  <2>1. WorkOK(b) /\ work'[b] = work[b]
    BY <1>2, <1>6, SoundIs
  <2>2. ASSUME Running(b), work[b].name = Deploying, work[b].at # 1
        PROVE UpToDate(work[b].object, work[b].id)'
    <3>1. class = Deployment
      BY <2>1, <2>2, RunningIs
    <3>2. IdIsGenerated
      BY <3>1, SameClass DEF ClassFits, Fits, IdIsGenerated, GeneratesId
    <3>3. Started(work[b])
      BY <2>1, <2>2 DEF WorkOK, Running
    <3>4. PICK u, i : u = work[b].object /\ i = work[b].id
      OBVIOUS
    <3>5. i \in RowIds /\ i <= issued /\ UpToDate(u, i)
      BY <2>2, <3>3, <3>4 DEF Started
    <3>6. i # id
      BY <1>1, <1>4, <3>2, <3>5, BoundsAssumption DEF RowIds
    <3>7. table'[i] = table[i] /\ truth'[i] = truth[i]
      BY <1>1, <3>5, <3>6
    <3>8. UpToDate(u, i)'
      BY <1>3, <3>5, <3>7 DEF UpToDate, IsLast
    <3> QED BY <2>1, <3>4, <3>8
  <2> QED BY <1>1, <1>3, <1>4, <2>1, <2>2, OthersStay
<1>7. OneDeployment'
  <2>1. \A b \in Actors : Deploys(b)' => Deploys(b)
    BY <1>2 DEF Deploys
  <2> QED BY <1>4, <2>1, OneStays
<1> QED BY <1>1, <1>2, <1>5, <1>6, <1>7 DEF Sound, WorksOK

\* insert: a row of its own, or none.
LEMMA InsertSound ==
    ASSUME ClassFits, Sound, NEW a \in Actors, insert(a)
    PROVE Sound'
<1>1. PICK s, id, value, o, sent, row :
            /\ Sending(a, s, id, value, o, sent, row)
            /\ \/ Missing(Columns, row) /\ Ends(a, o, "missing") /\ Stays
               \/ Ends(a, o, "exists") /\ Stays
               \/ Arrives(a, s, id, o, sent, row)
  BY InsertDoes
<1>2. ObjectOK(o)
  BY <1>1, SendingIs
<1>3. ASSUME Stays PROVE KeepTable /\ ObjectOK(o)'
  BY <1>2, <1>3, ObjectStays DEF Stays, KeepTable
<1> QED BY <1>1, <1>3, EndsSound, ArrivesSound

\* The first state, and any step.
LEMMA InitSound ==
    ASSUME Init
    PROVE Sound
<1>1. /\ class \in Models
      /\ table = [id \in RowIds |-> NoRow] /\ truth = [id \in RowIds |-> NoRow]
      /\ issued = 0 /\ raced = {} /\ started = 0 /\ work = [a \in Actors |-> Idle]
  BY DEF Init
<1>2. Shape
  BY <1>1, BoundsAssumption DEF Shape
<1>3. RowsOK
  BY <1>1 DEF RowsOK
<1>4. ASSUME NEW a \in Actors PROVE WorkOK(a) /\ ~ Deploys(a)
  <2>1. PICK o, w : o = New(class) /\ w = work[a]
    OBVIOUS
  <2>2. IsWork(w) /\ w.does = <<>> /\ w.id = 0 /\ w.at = 0 /\ w.object = o
    BY <1>1, <2>1 DEF Idle, IsWork
  <2>3. Len(w.does) \in Nat /\ w.id \in 0..MaxRows
    BY <2>2, BoundsAssumption
  <2>4. ObjectOK(o)
    BY <2>1, NewIs
  <2> QED BY <2>1, <2>2, <2>3, <2>4 DEF WorkOK, Deploys
<1> QED BY <1>2, <1>3, <1>4 DEF Sound, WorksOK, OneDeployment

\* Nothing changes when nothing happens.
LEMMA StutterSound ==
    ASSUME Sound, UNCHANGED vars
    PROVE Sound'
<1>1. UNCHANGED <<class, table, truth, issued, raced, started, work>> /\ KeepTable
  BY DEF vars, KeepTable
<1>2. Shape' /\ RowsOK' /\ Shape /\ OneDeployment /\ issued \in Nat
  BY <1>1, RowsStay, BoundsAssumption DEF Sound, Shape
<1>3. ASSUME NEW b \in Actors PROVE WorkOK(b)'
  <2>1. WorkOK(b) /\ work'[b] = work[b]
    BY <1>1 DEF Sound, WorksOK
  <2>2. Running(b) /\ work[b].name = Deploying /\ work[b].at # 1 =>
           UpToDate(work[b].object, work[b].id)'
    BY <1>1, <2>1 DEF WorkOK, Started, Running, UpToDate, IsLast
  <2>3. issued' \in Nat /\ issued <= issued'
    BY <1>1, <1>2
  <2> QED BY <1>1, <1>2, <2>1, <2>2, <2>3, OthersStay
<1>4. OneDeployment'
  <2>1. \A b \in Actors : Deploys(b)' => Deploys(b)
    BY <1>1 DEF Deploys
  <2> QED BY <1>2, <2>1, OneStays
<1> QED BY <1>2, <1>3, <1>4 DEF Sound, WorksOK

\* Every step keeps rows, objects and handlers sound.
LEMMA NextSound ==
    ASSUME ClassFits, Sound, [Next]_vars
    PROVE Sound'
<1>1. CASE UNCHANGED vars
  BY <1>1, StutterSound
<1>2. CASE \E id \in RowIds : deleteByPrimaryKey(id)
  BY <1>2, DeleteSound
<1>3. CASE Restart
  BY <1>3, RestartSound
<1>4. ASSUME NEW a \in Actors,
             \/ Start(a) \/ findByPrimaryKey(a) \/ findByQuery(a) \/ Exists(a) \/ insert(a)
             \/ mapperUpdate(a) \/ updateBy(a) \/ setActiveDeployment(a) \/ deployProjectFails(a)
      PROVE Sound'
  BY <1>4, StartSound, FindByPrimaryKeySound, FindByQuerySound, ExistsSound, InsertSound,
     MapperUpdateSound, UpdateBySound, SetActiveDeploymentSound, DeployProjectFailsSound
<1> QED BY <1>1, <1>2, <1>3, <1>4 DEF Next

-----------------------------------------------------------------------------
(* Why statements are refused *)

\* Why a statement was refused.
Excused(a) ==
    /\ work[a].outcome = "missing" =>
           class = Project /\ work[a].object.values["modid"] = Null
    /\ work[a].outcome = "empty" => work[a].name = "update"
GoodOutcome(why) == why # "missing" /\ why # "empty"

\* A handler that ends for another reason.
LEMMA EndExcused ==
    ASSUME Sound, NEW a \in Actors, NEW o, NEW why, Ends(a, o, why), GoodOutcome(why)
    PROVE Excused(a)' /\ \A b \in Actors \ {a} : work'[b] = work[b]
BY SoundIs, EndsIs DEF Excused, GoodOutcome
\* A handler that goes on has not been refused.
LEMMA GoExcused ==
    ASSUME Sound, NEW a \in Actors, Running(a), NEW o, Goes(a, o)
    PROVE Excused(a)' /\ \A b \in Actors \ {a} : work'[b] = work[b]
<1>1. work[a].outcome = "ok"
  BY SoundIs DEF WorkOK, Running, Started
<1>2. work'[a].outcome = "ok" /\ \A b \in Actors \ {a} : work'[b] = work[b]
  BY <1>1, SoundIs, GoesIs
<1> QED BY <1>2 DEF Excused

\* insert is refused for want of a modid, or because of the key.
LEMMA InsertExcused ==
    ASSUME ClassFits, Sound, NEW a \in Actors, insert(a)
    PROVE Excused(a)' /\ \A b \in Actors \ {a} : work'[b] = work[b]
<1>1. PICK s, id, value, o, sent, row :
            /\ Sending(a, s, id, value, o, sent, row)
            /\ \/ Missing(Columns, row) /\ Ends(a, o, "missing") /\ Stays
               \/ Ends(a, o, "exists") /\ Stays
               \/ Arrives(a, s, id, o, sent, row)
  BY InsertDoes
<1>2. CASE Missing(Columns, row) /\ Ends(a, o, "missing") /\ Stays
  <2>1. class = Project /\ o.values["modid"] = Null
    BY <1>1, <1>2, SendingIs
  <2>2. /\ work'[a].outcome = "missing" /\ work'[a].object = o
        /\ \A b \in Actors \ {a} : work'[b] = work[b]
    BY <1>2, SoundIs, EndsIs
  <2> QED BY <1>2, <2>1, <2>2 DEF Excused, Stays
<1>3. CASE Ends(a, o, "exists")
  BY <1>3, EndExcused DEF GoodOutcome
<1>4. CASE Arrives(a, s, id, o, sent, row)
  <2>1. Running(a) /\ work[a].outcome = "ok"
    BY <1>1, SoundIs DEF Sending, WorkOK, Running, Started
  <2>2. PICK obj : GoesWith(a, id, obj)
    BY <1>4 DEF Arrives
  <2>3. work'[a].outcome = work[a].outcome /\ \A b \in Actors \ {a} : work'[b] = work[b]
    BY <2>2, SoundIs, GoesWithIs
  <2> QED BY <2>1, <2>3 DEF Excused
<1> QED BY <1>1, <1>2, <1>3, <1>4

\* An update is refused for want of a modid, or because nothing is set.
LEMMA UpdateExcused ==
    ASSUME ClassFits, Sound, NEW a \in Actors, mapperUpdate(a)
    PROVE Excused(a)' /\ \A b \in Actors \ {a} : work'[b] = work[b]
<1>1. Running(a) /\ Updating(a) /\ class' = class
  BY DEF mapperUpdate, Doing, Updating
<1>2. PICK s, value, o, sent, row, why :
            /\ Setting(a, s, value, o, sent, row)
            /\ \/ /\ Written(a, work[a].id, row, s) /\ Goes(a, o)
                  /\ table[work[a].id] # NoRow /\ ~ Missing(Columns, row)
               \/ /\ Refused(a, sent, row, why) /\ UNCHANGED <<table, truth>>
                  /\ Goes(a, o) \/ Ends(a, o, why)
  BY UpdateDoes
<1>3. CASE Goes(a, o)
  BY <1>1, <1>3, GoExcused
<1>4. CASE Refused(a, sent, row, why) /\ Ends(a, o, why)
  <2>1. /\ DOMAIN sent = {} => work[a].name = "update"
        /\ table[work[a].id] # NoRow /\ Missing(Columns, row) =>
                class = Project /\ o.values["modid"] = Null
    <3>1. PICK id, old : id = work[a].id /\ old = work[a].object
      OBVIOUS
    <3>2. /\ s \in Current(a).sets /\ Valued(value, s)
          /\ Assigned(o, old, s, value) /\ Sends(class, o, sent)
          /\ Changes(row, table[id], sent)
      BY <1>2, <3>1 DEF Setting
    <3>3. Updated(a, id, s, old, value, o, sent, row)
      BY <1>1, <3>1, <3>2, UpdatedIs
    <3> QED BY <3>1, <3>3 DEF Updated
  <2>2. /\ work'[a].outcome = why /\ work'[a].object = o /\ work'[a].name = work[a].name
        /\ \A b \in Actors \ {a} : work'[b] = work[b]
    BY <1>4, SoundIs, EndsIs
  <2>3. CASE why = "empty" /\ DOMAIN sent = {}
    BY <2>1, <2>2, <2>3 DEF Excused
  <2>4. CASE why = "gone"
    BY <2>2, <2>4 DEF Excused
  <2>5. CASE why = "missing" /\ table[work[a].id] # NoRow /\ Missing(Columns, row)
    BY <1>1, <2>1, <2>2, <2>5 DEF Excused
  <2> QED BY <1>4, <2>3, <2>4, <2>5 DEF Refused
<1> QED BY <1>2, <1>3, <1>4

\* A handler that stops, or goes on without having been refused.
LEMMA ActorExcused ==
    ASSUME ClassFits, Sound, NEW a \in Actors,
           \/ Start(a) \/ findByPrimaryKey(a) \/ findByQuery(a) \/ Exists(a) \/ insert(a)
           \/ mapperUpdate(a) \/ updateBy(a) \/ setActiveDeployment(a) \/ deployProjectFails(a)
    PROVE Excused(a)' /\ \A b \in Actors \ {a} : work'[b] = work[b]
<1>0. IsWork(work[a]) /\ work = [b \in Actors |-> work[b]]
  BY SoundIs
<1>1. CASE Start(a)
  <2>1. PICK h, id : work' = [work EXCEPT ![a] =
               [Idle EXCEPT !.name = h.name, !.does = h.does, !.at = 1, !.n = started + 1, !.id = id]]
    BY <1>1 DEF Start
  <2>2. work'[a].outcome = "ok" /\ \A b \in Actors \ {a} : work'[b] = work[b]
    BY <1>0, <2>1 DEF Idle
  <2> QED BY <2>2 DEF Excused
<1>2. CASE findByPrimaryKey(a)
  <2>1. PICK o, why : Running(a) /\ GoodOutcome(why) /\ (Ends(a, o, why) \/ Goes(a, o))
    BY <1>2 DEF findByPrimaryKey, Doing, GoodOutcome
  <2> QED BY <2>1, EndExcused, GoExcused
<1>3. CASE findByQuery(a)
  <2>1. PICK o, why : Running(a) /\ GoodOutcome(why) /\ (Ends(a, o, why) \/ Goes(a, o))
    BY <1>3 DEF findByQuery, Doing, GoodOutcome
  <2> QED BY <2>1, EndExcused, GoExcused
<1>4. CASE Exists(a)
  <2>1. PICK o, why : Running(a) /\ GoodOutcome(why) /\ (Ends(a, o, why) \/ Goes(a, o))
    BY <1>4 DEF Exists, Doing, GoodOutcome
  <2> QED BY <2>1, EndExcused, GoExcused
<1>5. CASE updateBy(a)
  <2>1. Running(a) /\ Goes(a, work[a].object)
    BY <1>5 DEF updateBy, Doing
  <2> QED BY <2>1, GoExcused
<1>6. CASE setActiveDeployment(a)
  <2>1. PICK o : Running(a) /\ Goes(a, o)
    BY <1>6 DEF setActiveDeployment, Doing
  <2> QED BY <2>1, GoExcused
<1>7. CASE deployProjectFails(a)
  <2>1. work[a].outcome = "ok"
    BY <1>7, SoundIs DEF deployProjectFails, WorkOK, Running, Started
  <2>2. /\ work'[a] = [work[a] EXCEPT !.at = Len(work[a].does)]
        /\ \A b \in Actors \ {a} : work'[b] = work[b]
    BY <1>0, <1>7 DEF deployProjectFails
  <2>3. work'[a].outcome = "ok"
    BY <1>0, <2>1, <2>2 DEF IsWork
  <2> QED BY <2>2, <2>3 DEF Excused
<1> QED BY <1>1, <1>2, <1>3, <1>4, <1>5, <1>6, <1>7, InsertExcused, UpdateExcused

\* Every step keeps the reasons.
LEMMA NextExcused ==
    ASSUME ClassFits, Sound, RefusedForAReason, [Next]_vars
    PROVE RefusedForAReason'
<1>0. \A a \in Actors : Excused(a)
  BY DEF RefusedForAReason, Excused
<1>1. class' = class
  BY DEF Next, vars, Start, findByPrimaryKey, findByQuery, Exists, insert, mapperUpdate, updateBy,
         setActiveDeployment, deployProjectFails, deleteByPrimaryKey, Restart, KeepTable
<1>2. SUFFICES ASSUME NEW b \in Actors PROVE Excused(b)'
  BY DEF RefusedForAReason, Excused
<1>3. CASE work'[b] = work[b]
  BY <1>0, <1>1, <1>3 DEF Excused
<1>4. CASE Restart
  <2>1. work'[b].outcome = "ok"
    BY <1>4 DEF Restart, Idle
  <2> QED BY <2>1 DEF Excused
<1>5. CASE UNCHANGED vars \/ \E id \in RowIds : deleteByPrimaryKey(id)
  BY <1>3, <1>5 DEF vars, deleteByPrimaryKey
<1>6. ASSUME NEW a \in Actors,
             \/ Start(a) \/ findByPrimaryKey(a) \/ findByQuery(a) \/ Exists(a) \/ insert(a)
             \/ mapperUpdate(a) \/ updateBy(a) \/ setActiveDeployment(a) \/ deployProjectFails(a)
      PROVE Excused(b)'
  BY <1>3, <1>6, ActorExcused
<1> QED BY <1>4, <1>5, <1>6 DEF Next

-----------------------------------------------------------------------------
(* What the invariant shows *)

\* What the sound states show: types, rows as they were set, objects as they are shown.
LEMMA SoundShows ==
    ASSUME ClassFits, Sound
    PROVE TypeOK /\ StoredAsSet /\ ReadAsStored
<1>1. /\ RowFits(class) /\ Shape /\ RowsOK
      /\ Len(class.row) \in Nat /\ Len(class.metaData) = Len(class.row)
      /\ Range(class.json) = ColumnsOf(class)
  BY DEF ClassFits, Fits, RowFits, Distinct, Sound
<1>2. ASSUME NEW id \in RowIds, table[id] # NoRow
      PROVE /\ Len(table[id]) = Len(class.metaData)
            /\ \A c \in ColumnsOf(class) :
                  Stored(table[id], c) = truth[id][c] \/ (c = "status" /\ id \in raced)
  <2>1. RowOK(id)
    BY <1>1, <1>2 DEF RowsOK
  <2>2. Len(table[id]) = Len(class.row)
    BY <1>1, <2>1, SequenceIs DEF RowOK, IsRow
  <2>3. ASSUME NEW c \in ColumnsOf(class)
        PROVE Stored(table[id], c) = truth[id][c] \/ (c = "status" /\ id \in raced)
    <3>1. Stored(table[id], c) = At(table[id], c)
      BY <1>1, StoredIs
    <3>2. IsLast(id, At(table[id], c), c)
      BY <2>1 DEF RowOK
    <3> QED BY <3>1, <3>2 DEF IsLast
  <2> QED BY <1>1, <2>2, <2>3
<1>3. ASSUME NEW a \in Actors
      PROVE /\ work[a].at \in 0..Len(work[a].does) /\ work[a].id \in 0..MaxRows
            /\ DOMAIN work[a].object.values = ColumnsOf(class)
            /\ work[a].object.dirty \subseteq ColumnsOf(class)
            /\ LET shown == toJson(class, work[a].object)
               IN  \A c \in ColumnsOf(class) : c \in DOMAIN shown /\ IsOf(shown[c], c)
  <2>1. WorkOK(a)
    BY SoundIs
  <2>2. work[a].at \in 0..Len(work[a].does)
    <3>1. Len(work[a].does) \in Nat /\ (work[a].at = 0 \/ work[a].at \in 1..Len(work[a].does))
      BY <2>1 DEF WorkOK, Started
    <3> QED BY <3>1
  <2>3. /\ work[a].id \in 0..MaxRows /\ work[a].object.dirty \subseteq ColumnsOf(class)
        /\ DOMAIN work[a].object.values = ColumnsOf(class)
        /\ \A c \in ColumnsOf(class) : IsOf(work[a].object.values[c], c)
    BY <2>1 DEF WorkOK, ObjectOK
  <2>4. PICK shown : shown = toJson(class, work[a].object)
    OBVIOUS
  <2>5. DOMAIN shown = ColumnsOf(class)
        /\ \A c \in ColumnsOf(class) : shown[c] = work[a].object.values[c]
    BY <1>1, <2>4 DEF toJson
  <2>6. \A c \in ColumnsOf(class) : c \in DOMAIN shown /\ IsOf(shown[c], c)
    BY <2>3, <2>5
  <2> QED BY <2>2, <2>3, <2>4, <2>6
<1>4. /\ class \in Models /\ issued \in 0..MaxRows /\ raced \subseteq RowIds
      /\ started \in 0..MaxHandlers
  BY <1>1 DEF Shape
<1> QED BY <1>2, <1>3, <1>4 DEF TypeOK, StoredAsSet, ReadAsStored

\* What the object of a handler shows of its row.
ShowsRow(a) ==
    LET o == work'[a].object
        row == table'[work'[a].id]
    IN  /\ \A c \in ColumnsOf(class) : o.values[c] = Stored(row, c)
        /\ FilledOf # {} => o.dirty = {}
Succeeds(a) ==
    /\ Doing(a, "insert")
    /\ work[a].name # "addModel"
    /\ work'[a].n = work[a].n
    /\ work'[a] # work[a]
    /\ work'[a].outcome = "ok"

\* The row is returned, or the table has filled in nothing.
LEMMA ArrivedShows ==
    ASSUME ClassFits, Sound, NEW a \in Actors, NEW s, NEW id, NEW value, NEW o, NEW sent, NEW row,
           Sending(a, s, id, value, o, sent, row), Arrives(a, s, id, o, sent, row),
           work[a].name # "addModel"
    PROVE ShowsRow(a)
<1>1. PICK obj : obj = (IF sent.returns THEN FromRow(class, row) ELSE o) /\ GoesWith(a, id, obj)
  BY DEF Arrives
<1>2. /\ class' = class /\ table'[id] = row
      /\ \A c \in ColumnsOf(class) : IsOf(At(row, c), c)
  <2>1. class' = class
    BY DEF Arrives
  <2>2. table'[id] = row /\ \A c \in ColumnsOf(class) : IsOf(At(row, c), c)
    BY ArrivedRows
  <2> QED BY <2>1, <2>2
<1>3. work'[a].id = id /\ work'[a].object = obj
  BY <1>1, SoundIs, GoesWithIs
<1>4. /\ RowFits(class) /\ StatementsFit(class) /\ InsertFits(class, work[a].name, s)
      /\ Fresh(o, s, value)
  BY SendingIs
<1>5. \A c \in ColumnsOf(class) : Stored(row, c) = At(row, c)
  BY <1>4, StoredIs
<1>6. (\A c \in ColumnsOf(class) : obj.values[c] = At(row, c)) /\ (FilledOf # {} => obj.dirty = {})
  <2>1. CASE sent.returns
    BY <1>1, <1>2, <2>1, ReturnedIs
  <2>2. CASE ~ sent.returns
    <3>1. obj = o
      BY <1>1, <2>2
    <3>2. FilledOf = {}
      <4>1. FilledIn(class) = {}
        BY <2>2, DeploymentReturns
      <4> QED BY <4>1, SameClass
    <3>3. PICK name : name = work[a].name
      OBVIOUS
    <3>4. /\ InsertFits(class, name, s) /\ Valued(value, s)
          /\ \A c \in s.set : value[c] = Value(a, id, c)
          /\ Inserts(class, o, sent) /\ Inserted(row, sent, id)
      BY <1>4, <3>3 DEF Sending
    <3>5. /\ \A c \in ColumnsOf(class) : c \in Given(s) => At(row, c) = Value(a, id, c)
          /\ \A c \in ColumnsOf(class) \ Given(s) : c \notin FilledOf => At(row, c) = Null
      BY <1>4, <3>4, NewRowHas
    <3>6. TriggersOf = {}
      BY <3>2, TriggersFill
    <3>7. /\ \A c \in s.set : o.values[c] = value[c]
          /\ \A c \in ColumnsOf(class) \ s.set : o.values[c] = Null
      BY <1>4 DEF Fresh
    <3>8. ASSUME NEW c \in ColumnsOf(class) PROVE o.values[c] = At(row, c)
      <4>1. CASE c \in s.set
        BY <3>4, <3>5, <3>6, <3>7, <4>1 DEF Given
      <4>2. CASE c \notin s.set
        BY <3>2, <3>5, <3>7, <4>2 DEF Given
      <4> QED BY <4>1, <4>2
    <3> QED BY <3>1, <3>2, <3>8
  <2> QED BY <2>1, <2>2
<1>7. PICK w, r : w = work'[a].object /\ r = table'[work'[a].id]
  OBVIOUS
<1>8. w = obj /\ r = row
  BY <1>2, <1>3, <1>7
<1> QED BY <1>5, <1>6, <1>7, <1>8 DEF ShowsRow

\* What an insertion that succeeds shows.
LEMMA InsertShows ==
    ASSUME ClassFits, Sound, NEW a \in Actors, insert(a), Succeeds(a)
    PROVE ShowsRow(a)
<1>1. PICK s, id, value, o, sent, row :
            /\ Sending(a, s, id, value, o, sent, row)
            /\ \/ Missing(Columns, row) /\ Ends(a, o, "missing") /\ Stays
               \/ Ends(a, o, "exists") /\ Stays
               \/ Arrives(a, s, id, o, sent, row)
  BY InsertDoes
<1>2. ASSUME NEW why, Ends(a, o, why) PROVE why = "ok"
  <2>1. work'[a].outcome = why
    BY <1>2, SoundIs, EndsIs
  <2> QED BY <2>1 DEF Succeeds
<1>3. Arrives(a, s, id, o, sent, row)
  BY <1>1, <1>2
<1> QED BY <1>1, <1>3, ArrivedShows DEF Succeeds

\* Only an insertion makes an insertion succeed.
LEMMA NextShows ==
    ASSUME ClassFits, Sound, Next, NEW b \in Actors, Succeeds(b)
    PROVE ShowsRow(b)
<1>1. Running(b) /\ Current(b).do = "insert" /\ work'[b] # work[b] /\ work'[b].n = work[b].n
  BY DEF Succeeds, Doing
<1>2. WorkOK(b) /\ Started(work[b])
  BY <1>1, SoundIs, RunningIs
<1>3. CASE Restart
  <2>1. work'[b].n = 0
    BY <1>3 DEF Restart, Idle
  <2> QED BY <1>1, <1>2, <2>1 DEF Started
<1>4. CASE \E id \in RowIds : deleteByPrimaryKey(id)
  BY <1>1, <1>4 DEF deleteByPrimaryKey
<1>5. ASSUME NEW a \in Actors,
             \/ Start(a) \/ findByPrimaryKey(a) \/ findByQuery(a) \/ Exists(a) \/ insert(a)
             \/ mapperUpdate(a) \/ updateBy(a) \/ setActiveDeployment(a) \/ deployProjectFails(a)
      PROVE insert(b)
  <2>1. a = b
    BY <1>1, <1>5, ActorExcused
  <2>2. CASE Start(a)
    BY <1>1, <2>1, <2>2 DEF Start
  <2>3. CASE deployProjectFails(a)
    <3>1. work[b].name = Deploying /\ work[b].at # 1
      BY <2>1, <2>3 DEF deployProjectFails, Deploying
    <3> QED BY <1>1, <1>2, <3>1, DeployingDoes
  <2>4. CASE \/ findByPrimaryKey(a) \/ findByQuery(a) \/ Exists(a)
             \/ mapperUpdate(a) \/ updateBy(a) \/ setActiveDeployment(a)
    BY <1>1, <2>1, <2>4 DEF findByPrimaryKey, findByQuery, Exists, mapperUpdate, updateBy,
       setActiveDeployment, Doing
  <2> QED BY <1>5, <2>1, <2>2, <2>3, <2>4
<1> QED BY <1>3, <1>4, <1>5, InsertShows DEF Next

-----------------------------------------------------------------------------
(* The theorems *)

\* The class in question fits its table.
LEMMA SoundFits ==
    ASSUME Sound
    PROVE ClassFits
BY FitsAssumption DEF Sound, Shape, ClassFits

\* Each row has in each column the last value that was set there, and a value of that column;
\* an object that is still to be written back has nothing in it that others have set since.
THEOREM SoundHolds == Spec => []Sound
<1>1. Init => Sound
  BY InitSound
<1>2. Sound /\ [Next]_vars => Sound'
  BY NextSound, SoundFits
<1> QED BY <1>1, <1>2, PTL DEF Spec

\* Types, and rows of as many values as the class expects.
THEOREM TypeOKHolds == Spec => []TypeOK
<1>1. Sound => TypeOK
  BY SoundFits, SoundShows
<1> QED BY <1>1, SoundHolds, PTL

\* No write is lost, whichever handlers held an object of the row in the meantime
\* (but the status of a deployment that a start-up failed under its worker).
THEOREM StoredAsSetHolds == Spec => []StoredAsSet
<1>1. Sound => StoredAsSet
  BY SoundFits, SoundShows
<1> QED BY <1>1, SoundHolds, PTL

\* An object shows for each column a value of that column: the order of the columns in the
\* constructors is the order of the migrations (models/*.cc).
THEOREM ReadAsStoredHolds == Spec => []ReadAsStored
<1>1. Sound => ReadAsStored
  BY SoundFits, SoundShows
<1> QED BY <1>1, SoundHolds, PTL

\* A statement is refused for want of a project's modid, or an update that sets nothing.
THEOREM RefusedForAReasonHolds == Spec => []RefusedForAReason
<1>1. Init => RefusedForAReason
  BY DEF Init, Idle, RefusedForAReason
<1>2. Sound /\ RefusedForAReason /\ [Next]_vars => RefusedForAReason'
  BY SoundFits, NextExcused
<1> QED BY <1>1, <1>2, SoundHolds, PTL DEF Spec

\* The object that an insert gives back is the row that is stored, and nothing of it is
\* written again (Mapper::insert with needSelection).
THEOREM ReturnedIsStoredHolds == Spec => ReturnedIsStored
<1>1. Sound /\ Next => \A a \in Actors : Succeeds(a) => ShowsRow(a)
  BY SoundFits, NextShows
<1>2. Sound /\ [Next]_vars =>
        [\A a \in Actors :
         (/\ Doing(a, "insert")
          /\ work[a].name # "addModel"
          /\ work'[a].n = work[a].n
          /\ work'[a] # work[a]
          /\ work'[a].outcome = "ok")
         => LET o == work'[a].object
                row == table'[work'[a].id]
            IN  /\ \A c \in ColumnsOf(class) : o.values[c] = Stored(row, c)
                /\ FilledOf # {} => o.dirty = {}]_vars
  BY <1>1 DEF Succeeds, ShowsRow
<1> QED BY <1>2, SoundHolds, PTL DEF Spec, ReturnedIsStored
=============================================================================
