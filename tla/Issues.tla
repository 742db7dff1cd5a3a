------------------------------- MODULE Issues -------------------------------
(***************************************************************************)
(* Issues of one project: rows that belong to a deployment.                *)
(*                                                                         *)
(* They come from two sides.  Clients report them, through addIssue and    *)
(* addProjectIssueExternal, for the deployment that is active; reports of  *)
(* the same issue share one computation (TaskTable says what can be relied *)
(* on: one owner per key, and joiners get the owner's value).  The service *)
(* itself records what it meets in the files of a deployment, through      *)
(* addProjectIssueInternal, which uses no such table.                      *)
(*                                                                         *)
(* An issue has a kind (level and type), a file or none, and a subject.    *)
(***************************************************************************)
EXTENDS Naturals

CONSTANTS
  Reporters,       \* requests to addIssue
  Finders,         \* calls of addProjectIssueInternal
  NoOne,           \* no entry in pendingTasks_
  Kinds,           \* levels and types
  Files,           \* paths ...
  NoFile,          \* ... or none
  Subjects,        \* what is wrong there
  MaxDeployments   \* bound: deployments

ASSUME BoundsAssumption ==
  /\ MaxDeployments \in Nat
  /\ NoOne \notin Reporters
  /\ Reporters \cap Finders = {}

Callers == Reporters \cup Finders
Dep == 1..MaxDeployments
NoDep == 0
Place == Kinds \X (Files \cup {NoFile})
Issue == [by : Callers, of : Dep, place : Place, subject : Subjects]
Keys == Place \X Subjects

VARIABLES
  lastDep,   \* the newest deployment
  deps,      \* deployments whose rows exist
  done,      \* deployments that succeeded
  rows,      \* project_issue
  table,     \* pendingTasks_: whose computation a key's entry stands for
  pc,        \* where each caller stands
  issue,     \* what it reports, and for which deployment
  joined,    \* whose answer it waits for
  answer     \* the reporter's answer, or "none"

deployments == <<lastDep, deps, done>>
vars == <<deployments, rows, table, pc, issue, joined, answer>>

TypeOK ==
  /\ lastDep \in 0..MaxDeployments
  /\ deps \in SUBSET Dep
  /\ done \in SUBSET Dep
  /\ rows \in SUBSET Issue
  /\ table \in [Keys -> Reporters \cup {NoOne}]
  /\ pc \in [Callers -> {"new", "task", "wait", "look", "insert", "complete",
                         "end"}]
  /\ issue \in [Callers -> [by : Callers, of : Dep \cup {NoDep},
                            place : Place, subject : Subjects]]
  /\ joined \in [Reporters -> Reporters \cup {NoOne}]
  /\ answer \in [Reporters -> {"none", "created", "conflict", "notFound"}]
  /\ \A r \in Reporters : pc[r] = "wait" => joined[r] \in Reporters

Init ==
  /\ lastDep = 0
  /\ deps = {}
  /\ done = {}
  /\ rows = {}
  /\ table = [k \in Keys |-> NoOne]
  /\ pc = [c \in Callers |-> "new"]
  /\ \E place \in [Callers -> Place], subject \in [Callers -> Subjects] :
       issue = [c \in Callers |-> [by |-> c, of |-> NoDep, place |-> place[c],
                                   subject |-> subject[c]]]
  /\ joined = [r \in Reporters |-> NoOne]
  /\ answer = [r \in Reporters |-> "none"]

-----------------------------------------------------------------------------
(* Deployments: see the module Deployments *)

Begin ==
  /\ lastDep < MaxDeployments
  /\ lastDep' = lastDep + 1
  /\ deps' = deps \cup {lastDep + 1}
  /\ UNCHANGED <<done, rows, table, pc, issue, joined, answer>>

Succeed(d) ==
  /\ d \in deps
  /\ done' = done \cup {d}
  /\ UNCHANGED <<lastDep, deps, rows, table, pc, issue, joined, answer>>

\* A deployment's row is deleted, and its issues with it.
Delete(d) ==
  /\ d \in deps
  /\ deps' = deps \ {d}
  /\ rows' = {i \in rows : i.of # d}
  /\ UNCHANGED <<lastDep, done, table, pc, issue, joined, answer>>

-----------------------------------------------------------------------------
(* Both kinds of callers *)

Goto(c, l) == pc' = [pc EXCEPT ![c] = l]

IsActive(d) == d \in deps \cap done /\ \A e \in deps \cap done : e <= d

\* An issue of the deployment and of the kind in the file, or in any file if
\* none is given; whatever its subject is.
getProjectIssue(c) ==
  {i \in rows : /\ i.of = issue[c].of
                /\ i.place[1] = issue[c].place[1]
                /\ issue[c].place[2] \in {i.place[2], NoFile}}

\* The insert is refused if the deployment is gone, or fails.
InsertRow(c) == issue[c].of \in deps /\ rows' = rows \cup {issue[c]}
InsertFails  == UNCHANGED rows

-----------------------------------------------------------------------------
(* Reports: addProjectIssueExternal *)

\* createProjectIssueKey: the deployment is not part of the key.
key(c) == <<issue[c].place, issue[c].subject>>

Answer(r, a) == answer' = [answer EXCEPT ![r] = a]

\* getActiveDeployment: none, not found.
ReadActive(r) ==
  /\ pc[r] = "new"
  /\ \/ /\ \A d \in deps : ~IsActive(d)
        /\ Answer(r, "notFound")
        /\ Goto(r, "end")
        /\ UNCHANGED issue
     \/ \E d \in deps :
          /\ IsActive(d)
          /\ issue' = [issue EXCEPT ![r].of = d]
          /\ Goto(r, "task")
          /\ UNCHANGED answer
  /\ UNCHANGED <<deployments, rows, table, joined>>

\* (Mutant: the key is not looked for.)
StartUnchecked(r) ==
  /\ pc[r] = "task"
  /\ table' = [table EXCEPT ![key(r)] = r]
  /\ Goto(r, "look")
  /\ UNCHANGED <<deployments, rows, issue, joined, answer>>

\* getOrStartTask: own the key ...
Start(r) ==
  /\ pc[r] = "task"
  /\ table[key(r)] = NoOne
  /\ table' = [table EXCEPT ![key(r)] = r]
  /\ Goto(r, "look")
  /\ UNCHANGED <<deployments, rows, issue, joined, answer>>

\* ... or wait for its owner.
Join(r) ==
  /\ pc[r] = "task"
  /\ table[key(r)] # NoOne
  /\ joined' = [joined EXCEPT ![r] = table[key(r)]]
  /\ Goto(r, "wait")
  /\ UNCHANGED <<deployments, rows, table, issue, answer>>

\* The promise has the owner's answer, which is the joiner's, too.
Wait(r) ==
  /\ pc[r] = "wait"
  /\ answer[joined[r]] # "none"
  /\ Answer(r, answer[joined[r]])
  /\ Goto(r, "end")
  /\ UNCHANGED <<deployments, rows, table, issue, joined>>

\* (Mutant: a conflict is answered without completing the task.)
LookAndLeave(r) ==
  /\ pc[r] = "look"
  /\ IF getProjectIssue(r) # {} THEN Goto(r, "end") ELSE Goto(r, "insert")
  /\ UNCHANGED <<deployments, rows, table, issue, joined, answer>>

\* An issue at the same place is a conflict, and completes the task.
Look(r) ==
  /\ pc[r] = "look"
  /\ IF getProjectIssue(r) # {}
     THEN Answer(r, "conflict") /\ Goto(r, "complete")
     ELSE UNCHANGED answer /\ Goto(r, "insert")
  /\ UNCHANGED <<deployments, rows, table, issue, joined>>

\* Failed inserts are answered like conflicts.
Insert(r) ==
  /\ pc[r] = "insert"
  /\ \/ InsertRow(r) /\ Answer(r, "created")
     \/ InsertFails /\ Answer(r, "conflict")
  /\ Goto(r, "complete")
  /\ UNCHANGED <<deployments, table, issue, joined>>

\* The end of completeTask: the entry is erased.
Complete(r) ==
  /\ pc[r] = "complete"
  /\ table' = [table EXCEPT ![key(r)] = NoOne]
  /\ Goto(r, "end")
  /\ UNCHANGED <<deployments, rows, issue, joined, answer>>

ReporterStep(r) ==
  \/ ReadActive(r) \/ Start(r) \/ Join(r) \/ Wait(r)
  \/ Look(r) \/ Insert(r) \/ Complete(r)

-----------------------------------------------------------------------------
(* The service's own issues: addProjectIssueInternal *)

\* Something is wrong with a file of deployment d, which is under way or read
\* by a request; the coroutine that records it is queued.
Find(f, d) ==
  /\ pc[f] = "new"
  /\ d \in deps
  /\ issue' = [issue EXCEPT ![f].of = d]
  /\ Goto(f, "look")
  /\ UNCHANGED <<deployments, rows, table, joined, answer>>

FinderLooks(f) ==
  /\ pc[f] = "look"
  /\ Goto(f, IF getProjectIssue(f) # {} THEN "end" ELSE "insert")
  /\ UNCHANGED <<deployments, rows, table, issue, joined, answer>>

FinderInserts(f) ==
  /\ pc[f] = "insert"
  /\ InsertRow(f) \/ InsertFails
  /\ Goto(f, "end")
  /\ UNCHANGED <<deployments, table, issue, joined, answer>>

FinderStep(f) == FinderLooks(f) \/ FinderInserts(f)

-----------------------------------------------------------------------------
Next ==
  \/ Begin
  \/ \E d \in Dep : Succeed(d) \/ Delete(d) \/ \E f \in Finders : Find(f, d)
  \/ \E r \in Reporters : ReporterStep(r)
  \/ \E f \in Finders : FinderStep(f)

Spec == Init /\ [][Next]_vars

\* Awaited queries return; nobody has to deploy or to delete.
FairSpec == Spec /\ \A r \in Reporters : WF_vars(ReporterStep(r))

-----------------------------------------------------------------------------
(* Properties *)

\* However many clients report an issue at the same time, it is recorded once
\* per deployment, although the table knows no such constraint and the key is
\* the same for all deployments.
ReportedOnce ==
  \A i, j \in rows :
    /\ i.by \in Reporters /\ j.by \in Reporters
    /\ i.of = j.of /\ i.place = j.place /\ i.subject = j.subject
    => i = j

\* Every report is answered: each path of an owner completes its task.
ReportsEnd == \A r \in Reporters : pc[r] # "end" ~> pc[r] = "end"

\* "Skip adding issue if it already exists": what the service finds at a place
\* is recorded once per deployment.
FoundOnce ==
  \A i, j \in rows :
    /\ i.by \in Finders /\ j.by \in Finders
    /\ i.of = j.of /\ i.place = j.place
    => i = j
=============================================================================
