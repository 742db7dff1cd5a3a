--------------------------- MODULE Issues_proofs ---------------------------
(***************************************************************************)
(* An issue that clients report is recorded once per deployment.           *)
(*                                                                         *)
(* Nothing in the rows or in the order of the steps says so: a reporter    *)
(* looks in one query and inserts in another.  What keeps two of them      *)
(* apart is the entry of their common key, which belongs to one of them    *)
(* from before its look until after its insert (Owned); so what it did not *)
(* find is still not there when it inserts (Unrecorded).                   *)
(***************************************************************************)
EXTENDS Issues, TLAPS

\* From its look on, a reporter owns the entry of its key.
Owned ==
  \A r \in Reporters : pc[r] \in {"look", "insert", "complete"} =>
    table[key(r)] = r

\* Callers report in their own name.
Signed == \A c \in Callers : issue[c].by = c

\* No reporter has recorded the issue that another is about to insert.
Unrecorded ==
  \A r \in Reporters, i \in rows :
    pc[r] = "insert" /\ i.by \in Reporters =>
      \/ i.of # issue[r].of
      \/ i.place # issue[r].place
      \/ i.subject # issue[r].subject

Inv == TypeOK /\ Owned /\ Signed /\ Unrecorded /\ ReportedOnce

-----------------------------------------------------------------------------
\* The initial states are typed.
LEMMA InitTyped == Init => TypeOK
  BY BoundsAssumption
  DEF Init, TypeOK, Callers, Dep, NoDep, Place, Keys

\* A caller's key is a key of the table.
LEMMA KeyTyped == TypeOK => \A c \in Callers : key(c) \in Keys
  BY DEF TypeOK, key, Keys

\* Every step keeps the types.
LEMMA StepTyped == TypeOK /\ [Next]_vars => TypeOK'
<1> SUFFICES ASSUME TypeOK, [Next]_vars PROVE TypeOK'
  OBVIOUS
<1> USE DEF TypeOK
<1> USE BoundsAssumption DEF Callers
<1>k. \A c \in Callers : key(c) \in Keys
  BY KeyTyped
<1>1. CASE Begin
  BY <1>1 DEF Begin, Dep
<1>2. ASSUME NEW d \in Dep, Succeed(d) PROVE TypeOK'
  BY <1>2 DEF Succeed
<1>3. ASSUME NEW d \in Dep, Delete(d) PROVE TypeOK'
  BY <1>3 DEF Delete
<1>4. ASSUME NEW d \in Dep, NEW f \in Finders, Find(f, d) PROVE TypeOK'
  BY <1>4 DEF Find, Goto, deployments
<1>5. ASSUME NEW r \in Reporters, ReporterStep(r) PROVE TypeOK'
  <2>1. CASE ReadActive(r)
    BY <2>1 DEF ReadActive, Answer, Goto, deployments
  <2>2. CASE Start(r)
    BY <2>2, <1>k DEF Start, Goto, deployments
  <2>3. CASE Join(r)
    BY <2>3, <1>k DEF Join, Goto, deployments
  <2>4. CASE Wait(r)
    BY <2>4 DEF Wait, Answer, Goto, deployments
  <2>5. CASE Look(r)
    BY <2>5 DEF Look, Answer, Goto, deployments
  <2>6. CASE Insert(r)
    <3>1. rows' \in SUBSET Issue
      <4>1. issue[r].of \in Dep => issue[r] \in Issue
        BY DEF Issue
      <4>2. rows' = rows \/ (issue[r].of \in Dep /\ rows' = rows \cup {issue[r]})
        BY <2>6 DEF Insert, InsertRow, InsertFails
      <4> QED BY <4>1, <4>2
    <3> QED BY <2>6, <3>1 DEF Insert, Answer, Goto, deployments
  <2>7. CASE Complete(r)
    BY <2>7, <1>k DEF Complete, Goto, deployments
  <2> QED BY <1>5, <2>1, <2>2, <2>3, <2>4, <2>5, <2>6, <2>7 DEF ReporterStep
<1>6. ASSUME NEW f \in Finders, FinderStep(f) PROVE TypeOK'
  <2>1. CASE FinderLooks(f)
    BY <2>1 DEF FinderLooks, Goto, deployments
  <2>2. CASE FinderInserts(f)
    <3>1. rows' \in SUBSET Issue
      BY <2>2 DEF FinderInserts, InsertRow, InsertFails, Issue, deployments
    <3> QED BY <2>2, <3>1 DEF FinderInserts, Goto, deployments
  <2> QED BY <1>6, <2>1, <2>2 DEF FinderStep
<1>7. CASE UNCHANGED vars
  BY <1>7 DEF vars, deployments
<1> QED BY <1>1, <1>2, <1>3, <1>4, <1>5, <1>6, <1>7 DEF Next

\* Every variable keeps its type.
THEOREM TypeCorrect == Spec => []TypeOK
  BY InitTyped, StepTyped, PTL DEF Spec

-----------------------------------------------------------------------------
\* Nothing is reported at first.
LEMMA InitInv == Init => Inv
<1> SUFFICES ASSUME Init PROVE Inv
  OBVIOUS
<1>1. TypeOK
  BY InitTyped
<1>2. Owned /\ Unrecorded
  BY DEF Init, Owned, Unrecorded, Callers
<1>3. Signed
  BY DEF Init, Signed
<1>4. ReportedOnce
  BY DEF Init, ReportedOnce
<1> QED BY <1>1, <1>2, <1>3, <1>4 DEF Inv

\* No step changes what a caller reports, or where, or its name; and only
\* a caller that is "new" chooses the deployment.
LEMMA IssueFixed ==
  ASSUME TypeOK, [Next]_vars, NEW c \in Callers
  PROVE  /\ issue'[c].place = issue[c].place
         /\ issue'[c].subject = issue[c].subject
         /\ issue'[c].by = issue[c].by
         /\ pc[c] # "new" => issue'[c] = issue[c]
         /\ key(c)' = key(c)
<1>1. CASE UNCHANGED issue
  BY <1>1 DEF key
<1>2. ASSUME NEW r \in Reporters, ReadActive(r), ~UNCHANGED issue
      PROVE  /\ pc[r] = "new"
             /\ \E d \in Dep : issue' = [issue EXCEPT ![r].of = d]
  BY <1>2 DEF ReadActive, TypeOK
<1>3. ASSUME NEW f \in Finders, NEW d \in Dep, Find(f, d)
      PROVE  /\ pc[f] = "new"
             /\ issue' = [issue EXCEPT ![f].of = d]
  BY <1>3 DEF Find
<1>4. CASE ~UNCHANGED issue
  <2>1. \E b \in Callers : \E d \in Dep : pc[b] = "new" /\ issue' = [issue EXCEPT ![b].of = d]
    BY <1>2, <1>3, <1>4 DEF Next, vars, deployments, Begin, Succeed, Delete,
       ReporterStep, Start, Join, Wait, Look, Insert, Complete, FinderStep,
       FinderLooks, FinderInserts, Callers
  <2>2. PICK b \in Callers, d \in Dep : pc[b] = "new" /\ issue' = [issue EXCEPT ![b].of = d]
    BY <2>1
  <2>3. issue'[c] = IF c = b THEN [issue[c] EXCEPT !.of = d] ELSE issue[c]
    BY <2>2 DEF TypeOK
  <2>4. issue[c] \in [by : Callers, of : Dep \cup {NoDep},
                      place : Place, subject : Subjects]
    BY DEF TypeOK
  <2> QED BY <2>2, <2>3, <2>4 DEF key
<1> QED BY <1>1, <1>4

\* Owners keep their entries: only they put them there and take them away.
LEMMA OwnedStep == TypeOK /\ Owned /\ [Next]_vars => Owned'
<1> SUFFICES ASSUME TypeOK, Owned, [Next]_vars, NEW r \in Reporters,
                    pc'[r] \in {"look", "insert", "complete"}
             PROVE  table'[key(r)'] = r
  BY DEF Owned
<1> USE DEF Callers
<1>k. \A c \in Callers : key(c) \in Keys /\ key(c)' = key(c)
  BY KeyTyped, IssueFixed
<1>1. ASSUME NEW q \in Reporters, Start(q) PROVE table'[key(r)] = r
  BY <1>1, <1>k, BoundsAssumption DEF Start, Goto, Owned, TypeOK
<1>2. ASSUME NEW q \in Reporters, Complete(q) PROVE table'[key(r)] = r
  BY <1>2, <1>k, BoundsAssumption DEF Complete, Goto, Owned, TypeOK
<1>3. ASSUME UNCHANGED table, pc[r] \in {"look", "insert", "complete"}
      PROVE  table'[key(r)] = r
  BY <1>3 DEF Owned
<1>4. CASE \E q \in Reporters : ReadActive(q) \/ Join(q) \/ Wait(q)
  <2>1. PICK q \in Reporters : ReadActive(q) \/ Join(q) \/ Wait(q)
    BY <1>4
  <2>2. UNCHANGED table /\ (q = r => pc'[q] \in {"task", "wait", "end"})
    BY <2>1 DEF ReadActive, Join, Wait, Goto, TypeOK
  <2>3. q # r => pc'[r] = pc[r]
    BY <2>1 DEF ReadActive, Join, Wait, Goto, TypeOK
  <2> QED BY <1>k, <1>3, <2>2, <2>3
<1>5. CASE \E q \in Reporters : Look(q) \/ Insert(q)
  <2>1. PICK q \in Reporters : Look(q) \/ Insert(q)
    BY <1>5
  <2>2. UNCHANGED table /\ pc[q] \in {"look", "insert"}
    BY <2>1 DEF Look, Insert
  <2>3. q # r => pc'[r] = pc[r]
    BY <2>1 DEF Look, Insert, Goto, TypeOK
  <2> QED BY <1>k, <1>3, <2>2, <2>3
<1>6. CASE \E f \in Finders : FinderStep(f) \/ \E d \in Dep : Find(f, d)
  <2>1. PICK f \in Finders : FinderStep(f) \/ \E d \in Dep : Find(f, d)
    BY <1>6
  <2>2. UNCHANGED table /\ f # r
    BY <2>1, BoundsAssumption DEF FinderStep, FinderLooks, FinderInserts, Find
  <2>3. pc'[r] = pc[r]
    BY <2>1, <2>2 DEF FinderStep, FinderLooks, FinderInserts, Find, Goto, TypeOK
  <2> QED BY <1>k, <1>3, <2>2, <2>3
<1>7. CASE Begin \/ (\E d \in Dep : Succeed(d) \/ Delete(d)) \/ UNCHANGED vars
  BY <1>k, <1>3, <1>7 DEF Begin, Succeed, Delete, vars
<1> QED BY <1>k, <1>1, <1>2, <1>4, <1>5, <1>6, <1>7 DEF Next, ReporterStep

\* Callers keep their names.
LEMMA SignedStep == TypeOK /\ Signed /\ [Next]_vars => Signed'
  BY IssueFixed DEF Signed

-----------------------------------------------------------------------------
\* What a step adds to the rows is the issue of the caller that inserts.
LEMMA RowsStep ==
  ASSUME TypeOK, [Next]_vars, NEW i \in rows', i \notin rows
  PROVE  \E c \in Callers :
           /\ i = issue[c]
           /\ pc[c] = "insert"
           /\ pc' = [pc EXCEPT ![c] = IF c \in Reporters THEN "complete" ELSE "end"]
<1> USE DEF Callers
<1>1. ASSUME NEW r \in Reporters, Insert(r)
      PROVE i = issue[r] /\ pc[r] = "insert" /\ pc' = [pc EXCEPT ![r] = "complete"]
  BY <1>1 DEF Insert, InsertRow, InsertFails, Goto
<1>2. ASSUME NEW f \in Finders, FinderInserts(f)
      PROVE i = issue[f] /\ pc[f] = "insert" /\ pc' = [pc EXCEPT ![f] = "end"]
  BY <1>2 DEF FinderInserts, InsertRow, InsertFails, Goto
<1>3. \/ \E r \in Reporters : Insert(r)
      \/ \E f \in Finders : FinderInserts(f)
  BY DEF Next, vars, deployments, Begin, Succeed, Delete, Find, ReporterStep,
     ReadActive, Start, Join, Wait, Look, Complete, FinderStep, FinderLooks
<1> QED BY <1>1, <1>2, <1>3, BoundsAssumption

\* A reporter comes to its insert by a look that finds nothing.
LEMMA InsertStep ==
  ASSUME TypeOK, [Next]_vars, NEW r \in Reporters,
         pc'[r] = "insert", pc[r] # "insert"
  PROVE  getProjectIssue(r) = {} /\ UNCHANGED rows
<1> USE DEF Callers
<1>1. CASE Look(r)
  BY <1>1 DEF Look, Goto, TypeOK
<1>2. ASSUME NEW q \in Reporters, ReporterStep(q) PROVE q = r /\ Look(r)
  BY <1>2 DEF ReporterStep, ReadActive, Start, Join, Wait, Look, Insert, Complete,
     Goto, TypeOK
<1>3. ~(\E f \in Finders : FinderStep(f) \/ \E d \in Dep : Find(f, d))
  BY BoundsAssumption
  DEF FinderStep, FinderLooks, FinderInserts, Find, Goto, TypeOK
<1>4. ~(Begin \/ (\E d \in Dep : Succeed(d) \/ Delete(d)) \/ UNCHANGED vars)
  BY DEF Begin, Succeed, Delete, vars
<1> QED BY <1>1, <1>2, <1>3, <1>4 DEF Next

\* What a reporter did not find is not there before it has inserted it: rows
\* that come in between belong to other issues, whose entries others own.
LEMMA UnrecordedStep == Inv /\ [Next]_vars => Unrecorded'
<1> SUFFICES ASSUME Inv, [Next]_vars, NEW r \in Reporters, NEW i \in rows',
                    pc'[r] = "insert", i.by \in Reporters,
                    i.of = issue'[r].of, i.place = issue'[r].place,
                    i.subject = issue'[r].subject
             PROVE  FALSE
  BY DEF Unrecorded
<1> USE DEF Callers
<1>1. TypeOK /\ Owned /\ Signed /\ Unrecorded
  BY DEF Inv
<1>2. CASE pc[r] # "insert"
  <2>1. getProjectIssue(r) = {} /\ i \in rows
    BY <1>1, <1>2, InsertStep
  <2>2. issue'[r] = issue[r]
    <3>1. pc[r] # "new"
      BY <1>1, <1>2 DEF Next, vars, deployments, Begin, Succeed, Delete, Find,
         ReporterStep, ReadActive, Start, Join, Wait, Look, Insert, Complete,
         FinderStep, FinderLooks, FinderInserts, Goto, TypeOK
    <3> QED BY <1>1, <3>1, IssueFixed
  <2> QED BY <2>1, <2>2 DEF getProjectIssue
<1>3. CASE pc[r] = "insert"
  <2>1. issue'[r] = issue[r]
    BY <1>1, <1>3, IssueFixed
  <2>2. i \notin rows
    BY <1>1, <1>3, <2>1 DEF Unrecorded
  <2>3. PICK c \in Callers : /\ i = issue[c]
                             /\ pc[c] = "insert"
                             /\ pc'[c] # "insert"
    BY <1>1, <2>2, RowsStep DEF TypeOK
  <2>4. c \in Reporters /\ key(c) = key(r)
    BY <1>1, <2>1, <2>3 DEF Signed, key
  <2>5. c = r
    BY <1>1, <1>3, <2>3, <2>4 DEF Owned
  <2> QED BY <2>3, <2>5
<1> QED BY <1>2, <1>3

\* So the row that a reporter adds is the first of its kind.
LEMMA ReportedOnceStep == Inv /\ [Next]_vars => ReportedOnce'
<1> SUFFICES ASSUME Inv, [Next]_vars, NEW i \in rows', NEW j \in rows',
                    i.by \in Reporters, j.by \in Reporters,
                    i.of = j.of, i.place = j.place, i.subject = j.subject
             PROVE  i = j
  BY DEF ReportedOnce
<1>1. TypeOK /\ Signed /\ Unrecorded /\ ReportedOnce
  BY DEF Inv
<1>2. ASSUME NEW x \in rows', NEW y \in rows', x \in rows, y \notin rows,
             x.by \in Reporters, y.by \in Reporters,
             x.of = y.of, x.place = y.place, x.subject = y.subject
      PROVE  FALSE
  <2>1. PICK c \in Callers : y = issue[c] /\ pc[c] = "insert"
    BY <1>1, <1>2, RowsStep
  <2>2. c \in Reporters
    BY <1>1, <1>2, <2>1 DEF Signed
  <2> QED BY <1>1, <1>2, <2>1, <2>2 DEF Unrecorded
<1>3. CASE i \in rows /\ j \in rows
  BY <1>1, <1>3 DEF ReportedOnce
<1>4. CASE i \notin rows /\ j \notin rows
  <2>1. PICK b \in Callers : /\ i = issue[b]
                             /\ pc[b] = "insert"
                             /\ pc'[b] # "insert"
                             /\ \A c \in Callers \ {b} : pc'[c] = pc[c]
    BY <1>1, <1>4, RowsStep DEF TypeOK
  <2>2. PICK c \in Callers : /\ j = issue[c]
                             /\ pc[c] = "insert"
                             /\ pc'[c] # "insert"
    BY <1>1, <1>4, RowsStep DEF TypeOK
  <2> QED BY <2>1, <2>2
<1> QED BY <1>2, <1>3, <1>4

\* Whatever clients report, and however their reports overlap with each other
\* and with deployments, each issue is recorded once per deployment.
THEOREM ReportedOnceAlways == Spec => []ReportedOnce
<1>1. Inv /\ [Next]_vars => Inv'
  BY StepTyped, OwnedStep, SignedStep, UnrecordedStep, ReportedOnceStep DEF Inv
<1>2. Inv => ReportedOnce
  BY DEF Inv
<1> QED BY InitInv, <1>1, <1>2, PTL DEF Spec
=============================================================================
