---------------------------- MODULE Deployments ----------------------------
(***************************************************************************)
(* The deployments of one project.                                         *)
(*                                                                         *)
(* A deployment is a row of the deployment table and a directory below the *)
(* project's directory.  Three kinds of requests work on both, each of     *)
(* them a coroutine that another one may overtake at every co_await:       *)
(*   - workers, the calls of Storage::deployProject that enqueueDeploy     *)
(*     queues (single flight, keyed by "setup:<project>");                 *)
(*   - deletions, the calls of ProjectsController::deleteDeployment;       *)
(*   - the removal of the whole project.                                   *)
(* The process may crash between two steps; when it starts again,          *)
(* cleanupLoadingDeployments runs while requests are already served.       *)
(*                                                                         *)
(* Every statement below is keyed by the project, so one project stands    *)
(* for all: projects only meet in the start-up cleanup, which treats each  *)
(* row on its own.                                                         *)
(***************************************************************************)
EXTENDS Naturals, FiniteSets

CONSTANTS
  Workers,          \* coroutines that run Storage::deployProject
  Deletions,        \* coroutines that run deleteDeployment
  MaxDeployments,   \* bound: rows ever inserted
  MaxFaults,        \* bound: failed database statements and file operations
  MaxCrashes,       \* bound: crashes of the process
  MaxRemovals       \* bound: removals of the project

ASSUME BoundsAssumption ==
  /\ MaxDeployments \in Nat
  /\ MaxFaults \in Nat
  /\ MaxCrashes \in Nat
  /\ MaxRemovals \in Nat

\* Deployments are numbered in the order of created_at; 0 stands for none.
Dep == 1..MaxDeployments
NoDep == 0

RowStatus == {"absent", "created", "loading", "success", "error"}
InProgress == {"created", "loading"}

\* What the directory of a deployment holds: nothing at all, the root without
\* the version directory, a version directory with files missing, all files.
DirContent == {"none", "empty", "partial", "full"}

VARIABLES
  project,      \* the row of the project exists
  status,       \* status column of each deployment ("absent": no row)
  active,       \* active column of each deployment
  lastDep,      \* the newest row ever inserted
  dir,          \* directory of each deployment
  pending,      \* the entry "setup:<project>" of pendingTasks_: "none", its
                \* promise not set ("running"), its promise set ("set")
  pc,           \* where each worker stands
  dep,          \* the worker's own deployment
  seen,         \* the active deployment the worker read at its start
  act,          \* the worker's in-memory deployment has active = true
  delPc,        \* where each deletion stands
  delDep,       \* the deployment the deletion read
  delActive,    \* the active column the deletion read
  removing,     \* the project's row is deleted, its directory not yet
  startup,      \* progress of cleanupLoadingDeployments
  stale,        \* the rows it read and has not yet removed from disk
  raced,        \* history: a deployment started before the cleanup ended
  faults, crashes, removals  \* how many there were

db      == <<project, status, active, lastDep>>
frame   == <<dep, seen, act>>
delete  == <<delPc, delDep, delActive>>
work    == <<pending, pc, frame>>
rest    == <<removing, startup, stale, raced, crashes, removals>>
vars    == <<db, dir, work, delete, faults, rest>>

WorkerPc ==
  {"idle", "check", "start", "joined", "readActive", "insert", "mkdir",
   "loading", "prepare", "revision", "validate", "copy", "copying",
   "activate", "sweep", "discard", "recordOk", "recordError", "setValue",
   "erase"}

TypeOK ==
  /\ project \in BOOLEAN
  /\ status \in [Dep -> RowStatus]
  /\ active \in [Dep -> BOOLEAN]
  /\ lastDep \in 0..MaxDeployments
  /\ dir \in [Dep -> DirContent]
  /\ pending \in {"none", "running", "set"}
  /\ pc \in [Workers -> WorkerPc]
  /\ dep \in [Workers -> Dep \cup {NoDep}]
  /\ seen \in [Workers -> Dep \cup {NoDep}]
  /\ act \in [Workers -> BOOLEAN]
  /\ delPc \in [Deletions -> {"idle", "row", "files"}]
  /\ delDep \in [Deletions -> Dep \cup {NoDep}]
  /\ delActive \in [Deletions -> BOOLEAN]
  /\ removing \in BOOLEAN
  /\ startup \in {"done", "read", "clean"}
  /\ stale \in SUBSET Dep
  /\ raced \in BOOLEAN
  /\ faults \in 0..MaxFaults
  /\ crashes \in 0..MaxCrashes
  /\ removals \in 0..MaxRemovals

Init ==
  /\ project = TRUE
  /\ status = [d \in Dep |-> "absent"]
  /\ active = [d \in Dep |-> FALSE]
  /\ lastDep = 0
  /\ dir = [d \in Dep |-> "none"]
  /\ pending = "none"
  /\ pc = [w \in Workers |-> "idle"]
  /\ dep = [w \in Workers |-> NoDep]
  /\ seen = [w \in Workers |-> NoDep]
  /\ act = [w \in Workers |-> FALSE]
  /\ delPc = [r \in Deletions |-> "idle"]
  /\ delDep = [r \in Deletions |-> NoDep]
  /\ delActive = [r \in Deletions |-> FALSE]
  /\ removing = FALSE
  /\ startup = "done"
  /\ stale = {}
  /\ raced = FALSE
  /\ faults = 0
  /\ crashes = 0
  /\ removals = 0

-----------------------------------------------------------------------------
(* Queries *)

IsNewest(d, S) == d \in S /\ \A e \in S : e <= d

\* The newest of a set of deployments, or none.
Newest(S) == IF \E d \in S : IsNewest(d, S)
             THEN CHOOSE d \in S : IsNewest(d, S)
             ELSE NoDep

\* (Mutant: the status criterion is forgotten.)
NewestOfAnyStatus == Newest({d \in Dep : status[d] # "absent"})

\* The deployment that readers are sent to: by status and age, whatever the
\* active column says.
getActiveDeployment == Newest({d \in Dep : status[d] = "success"})

\* What findProject finds: the newest successful deployment, if its version
\* directory exists.
Served ==
  LET d == getActiveDeployment
  IN  IF d # NoDep /\ dir[d] \in {"partial", "full"} THEN d ELSE NoDep

\* UPDATE of one deployment with the columns that were set in memory: no row,
\* no effect; a second active row is refused by the single_active_deployment
\* index, and then nothing is written.
UpdateRow(d, newStatus, setActive) ==
  IF status[d] = "absent" \/ (setActive /\ \E e \in Dep \ {d} : active[e])
  THEN UNCHANGED <<status, active>>
  ELSE /\ status' = [status EXCEPT ![d] = newStatus]
       /\ active' = [active EXCEPT ![d] = @ \/ setActive]

\* One more failed statement or file operation.
Fault ==
  /\ faults < MaxFaults
  /\ faults' = faults + 1

-----------------------------------------------------------------------------
(* Workers: Storage::deployProject(project, user) *)

Goto(w, l) == pc' = [pc EXCEPT ![w] = l]

\* The coroutine of w ends: its frame is destroyed.
Return(w) ==
  /\ Goto(w, "idle")
  /\ dep' = [dep EXCEPT ![w] = NoDep]
  /\ seen' = [seen EXCEPT ![w] = NoDep]
  /\ act' = [act EXCEPT ![w] = FALSE]

\* enqueueDeploy, after create, updateSource or deployProject found the project.
\* (Bound: no more requests than rows are left for.)
Enqueue(w) ==
  /\ pc[w] = "idle"
  /\ project
  /\ lastDep + Cardinality({v \in Workers : pc[v] # "idle"}) < MaxDeployments
  /\ Goto(w, "check")
  /\ UNCHANGED <<db, dir, pending, frame, delete, faults, rest>>

\* A deployment under way refuses another one.
HasPendingTask(w) ==
  /\ pc[w] = "check"
  /\ Goto(w, IF pending = "none" THEN "start" ELSE "idle")
  /\ UNCHANGED <<db, dir, pending, frame, delete, faults, rest>>

\* (Mutant: the entry is not looked for again under the mutex.)
StartTaskUnchecked(w) ==
  /\ pc[w] = "start"
  /\ pending' = "running"
  /\ raced' = (raced \/ startup # "done")
  /\ Goto(w, "readActive")
  /\ UNCHANGED <<db, dir, frame, delete, faults, removing, startup, stale,
                 crashes, removals>>

\* getOrStartTask finds no entry and inserts one.
StartTask(w) ==
  /\ pc[w] = "start"
  /\ pending = "none"
  /\ pending' = "running"
  /\ raced' = (raced \/ startup # "done")
  /\ Goto(w, "readActive")
  /\ UNCHANGED <<db, dir, frame, delete, faults, removing, startup, stale,
                 crashes, removals>>

\* getOrStartTask finds an entry: wait for its future, unless it is set.
JoinTask(w) ==
  /\ pc[w] = "start"
  /\ pending # "none"
  /\ Goto(w, IF pending = "running" THEN "joined" ELSE "idle")
  /\ UNCHANGED <<db, dir, pending, frame, delete, faults, rest>>

\* A failed query counts as "no active deployment".
ReadActive(w) ==
  /\ pc[w] = "readActive"
  /\ \/ /\ seen' = [seen EXCEPT ![w] = getActiveDeployment]
        /\ UNCHANGED faults
     \/ /\ Fault
        /\ UNCHANGED seen
  /\ Goto(w, "insert")
  /\ UNCHANGED <<db, dir, pending, dep, act, delete, rest>>

InsertRow(w) ==
  /\ pc[w] = "insert"
  /\ project
  /\ lastDep < MaxDeployments
  /\ lastDep' = lastDep + 1
  /\ status' = [status EXCEPT ![lastDep + 1] = "created"]
  /\ dep' = [dep EXCEPT ![w] = lastDep + 1]
  /\ Goto(w, "mkdir")
  /\ UNCHANGED <<project, active, dir, pending, seen, act, delete, faults,
                 rest>>

\* The insert fails, for want of the project's row or otherwise: the coroutine
\* returns and leaves its entry in pendingTasks_.
InsertFails(w) ==
  /\ pc[w] = "insert"
  /\ \/ ~project /\ UNCHANGED faults
     \/ Fault
  /\ Return(w)
  /\ UNCHANGED <<db, dir, pending, delete, rest>>

MakeDirs(w) ==
  /\ pc[w] = "mkdir"
  /\ dir' = [dir EXCEPT ![dep[w]] = "empty"]
  /\ Goto(w, "loading")
  /\ UNCHANGED <<db, pending, frame, delete, faults, rest>>

\* A file operation outside the try blocks throws (the directories at the
\* start, the deployment's own or its clone at the end): the coroutine is left
\* by the exception and its entry stays in pendingTasks_.
FilesThrow(w) ==
  /\ pc[w] \in {"mkdir", "discard", "recordOk", "recordError"}
  /\ Fault
  /\ Return(w)
  /\ UNCHANGED <<db, dir, pending, delete, rest>>

\* deployProject(project, deployment, clonePath) sets LOADING; the result of
\* the update is not looked at.
MarkLoading(w) ==
  /\ pc[w] = "loading"
  /\ \/ UpdateRow(dep[w], "loading", act[w]) /\ UNCHANGED faults
     \/ Fault /\ UNCHANGED <<status, active>>
  /\ Goto(w, "prepare")
  /\ UNCHANGED <<project, lastDep, dir, pending, frame, delete, rest>>

\* Steps 1 to 3: clone, default version (it references the project's row) and
\* revision.
Prepare(w) ==
  /\ pc[w] = "prepare"
  /\ \/ project /\ Goto(w, "revision")
     \/ Goto(w, "discard")
  /\ UNCHANGED <<db, dir, pending, frame, delete, faults, rest>>

\* The update that stores the revision writes status LOADING again.
SaveRevision(w) ==
  /\ pc[w] = "revision"
  /\ \/ UpdateRow(dep[w], "loading", act[w]) /\ UNCHANGED faults
     \/ Fault /\ UNCHANGED <<status, active>>
  /\ Goto(w, "validate")
  /\ UNCHANGED <<project, lastDep, dir, pending, frame, delete, rest>>

\* Metadata, pages, ingestion and versions: accepted, or a reason to abort.
Validate(w) ==
  /\ pc[w] = "validate"
  /\ \/ Goto(w, "copy")
     \/ Goto(w, "discard")
  /\ UNCHANGED <<db, dir, pending, frame, delete, faults, rest>>

BeginCopy(w) ==
  /\ pc[w] = "copy"
  /\ dir' = [dir EXCEPT ![dep[w]] = "partial"]
  /\ Goto(w, "copying")
  /\ UNCHANGED <<db, pending, frame, delete, faults, rest>>

\* copyProjectFiles ends.  What was removed under it is not copied again, and
\* its error is ignored: the deployment goes on with the files it has.
EndCopy(w) ==
  /\ pc[w] = "copying"
  /\ \/ /\ dir[dep[w]] = "partial"
        /\ dir' = [dir EXCEPT ![dep[w]] = "full"]
        /\ UNCHANGED faults
     \/ /\ dir[dep[w]] # "partial"
        /\ \E left \in {"none", "partial"} :
             dir' = [dir EXCEPT ![dep[w]] = left]
        /\ UNCHANGED faults
     \/ Fault /\ UNCHANGED dir
  /\ Goto(w, "activate")
  /\ UNCHANGED <<db, pending, frame, delete, rest>>

\* (Mutant: the other rows are not deactivated.)
ActivateOnly(w) ==
  /\ pc[w] = "activate"
  /\ status[dep[w]] # "absent"
  /\ active' = [active EXCEPT ![dep[w]] = TRUE]
  /\ status' = [status EXCEPT ![dep[w]] = "loading"]
  /\ act' = [act EXCEPT ![w] = TRUE]
  /\ Goto(w, "sweep")
  /\ UNCHANGED <<project, lastDep, dir, pending, dep, seen, delete, faults,
                 rest>>

\* setActiveDeployment: one transaction deactivates the project's rows and
\* writes this one.
Activate(w) ==
  /\ pc[w] = "activate"
  /\ status[dep[w]] # "absent"
  /\ active' = [d \in Dep |-> d = dep[w]]
  /\ status' = [status EXCEPT ![dep[w]] = "loading"]
  /\ act' = [act EXCEPT ![w] = TRUE]
  /\ Goto(w, "sweep")
  /\ UNCHANGED <<project, lastDep, dir, pending, dep, seen, delete, faults,
                 rest>>

\* The row is gone: the update of no row is ignored, the deactivation commits.
ActivateNothing(w) ==
  /\ pc[w] = "activate"
  /\ status[dep[w]] = "absent"
  /\ active' = [d \in Dep |-> FALSE]
  /\ act' = [act EXCEPT ![w] = TRUE]
  /\ Goto(w, "sweep")
  /\ UNCHANGED <<project, status, lastDep, dir, pending, dep, seen, delete,
                 faults, rest>>

\* The transaction rolls back.  A failed deactivation throws and fails the
\* deployment; a failed update is not noticed, and active stays set in memory.
ActivateFails(w) ==
  /\ pc[w] = "activate"
  /\ Fault
  /\ \/ Goto(w, "discard") /\ UNCHANGED act
     \/ Goto(w, "sweep") /\ act' = [act EXCEPT ![w] = TRUE]
  /\ UNCHANGED <<db, dir, pending, dep, seen, delete, rest>>

\* (Mutants: the new directory is removed; nothing is removed.)
SweepOwn(w) ==
  /\ pc[w] = "sweep"
  /\ dir' = [dir EXCEPT ![dep[w]] = "none"]
  /\ Goto(w, "recordOk")
  /\ UNCHANGED <<db, pending, frame, delete, faults, rest>>

SweepNothing(w) ==
  /\ pc[w] = "sweep"
  /\ Goto(w, "recordOk")
  /\ UNCHANGED <<db, dir, pending, frame, delete, faults, rest>>

\* The deployment succeeded: remove the directory of the one that was active
\* at the start; a failure to do so is caught.
Sweep(w) ==
  /\ pc[w] = "sweep"
  /\ \/ /\ seen[w] # NoDep
        /\ dir' = [dir EXCEPT ![seen[w]] = "none"]
        /\ UNCHANGED faults
     \/ seen[w] = NoDep /\ UNCHANGED <<dir, faults>>
     \/ seen[w] # NoDep /\ Fault /\ UNCHANGED dir
  /\ Goto(w, "recordOk")
  /\ UNCHANGED <<db, pending, frame, delete, rest>>

\* (Mutant: a failed deployment returns early.)
DiscardAndReturn(w) ==
  /\ pc[w] = "discard"
  /\ dir' = [dir EXCEPT ![dep[w]] = "none"]
  /\ Return(w)
  /\ UNCHANGED <<db, pending, delete, faults, rest>>

\* The deployment failed: remove its own directory.
Discard(w) ==
  /\ pc[w] = "discard"
  /\ dir' = [dir EXCEPT ![dep[w]] = "none"]
  /\ Goto(w, "recordError")
  /\ UNCHANGED <<db, pending, frame, delete, faults, rest>>

\* The last update writes the outcome; its result is not looked at.
Record(w) ==
  /\ pc[w] \in {"recordOk", "recordError"}
  /\ \/ /\ UpdateRow(dep[w], IF pc[w] = "recordOk" THEN "success" ELSE "error",
                     act[w])
        /\ UNCHANGED faults
     \/ Fault /\ UNCHANGED <<status, active>>
  /\ Goto(w, "setValue")
  /\ UNCHANGED <<project, lastDep, dir, pending, frame, delete, rest>>

\* (Mutant: the promise is dropped without a value.)
SetNoValue(w) ==
  /\ pc[w] = "setValue"
  /\ pending' = "set"
  /\ Goto(w, "erase")
  /\ UNCHANGED <<db, dir, frame, delete, faults, rest>>

\* completeTask first resolves the future: whoever joined returns.
SetValue(w) ==
  /\ pc[w] = "setValue"
  /\ pending' = "set"
  /\ pc' = [v \in Workers |-> IF v = w THEN "erase"
                              ELSE IF pc[v] = "joined" THEN "idle"
                              ELSE pc[v]]
  /\ UNCHANGED <<db, dir, frame, delete, faults, rest>>

\* (Mutant: the entry is not erased.)
EraseNothing(w) ==
  /\ pc[w] = "erase"
  /\ Return(w)
  /\ UNCHANGED <<db, dir, pending, delete, faults, rest>>

\* completeTask then takes the mutex and erases the entry.
EraseTask(w) ==
  /\ pc[w] = "erase"
  /\ pending' = "none"
  /\ Return(w)
  /\ UNCHANGED <<db, dir, delete, faults, rest>>

WorkerStep(w) ==
  \/ HasPendingTask(w) \/ StartTask(w) \/ JoinTask(w) \/ ReadActive(w)
  \/ InsertRow(w) \/ InsertFails(w) \/ MakeDirs(w) \/ FilesThrow(w)
  \/ MarkLoading(w) \/ Prepare(w) \/ SaveRevision(w) \/ Validate(w)
  \/ BeginCopy(w) \/ EndCopy(w)
  \/ Activate(w) \/ ActivateNothing(w) \/ ActivateFails(w)
  \/ Sweep(w) \/ Discard(w) \/ Record(w) \/ SetValue(w) \/ EraseTask(w)

-----------------------------------------------------------------------------
(* Deletions: ProjectsController::deleteDeployment *)

\* The row is read and refused if it is LOADING; then the session's access to
\* the project is awaited.
DeleteRead(r) ==
  /\ delPc[r] = "idle"
  /\ \E d \in Dep :
       /\ status[d] \notin {"absent", "loading"}
       /\ delDep' = [delDep EXCEPT ![r] = d]
       /\ delActive' = [delActive EXCEPT ![r] = active[d]]
  /\ delPc' = [delPc EXCEPT ![r] = "row"]
  /\ UNCHANGED <<db, dir, work, faults, rest>>

EndDeletion(r) ==
  /\ delPc' = [delPc EXCEPT ![r] = "idle"]
  /\ delDep' = [delDep EXCEPT ![r] = NoDep]
  /\ delActive' = [delActive EXCEPT ![r] = FALSE]

\* DELETE by id; no row is no error.  Files are only removed for a deployment
\* that was read as active.  (Access is granted while the project is there;
\* once it is gone, so are the row and the files.)
DeleteRow(r) ==
  /\ delPc[r] = "row"
  /\ project
  /\ status' = [status EXCEPT ![delDep[r]] = "absent"]
  /\ active' = [active EXCEPT ![delDep[r]] = FALSE]
  /\ IF delActive[r]
     THEN /\ delPc' = [delPc EXCEPT ![r] = "files"]
          /\ UNCHANGED <<delDep, delActive>>
     ELSE EndDeletion(r)
  /\ UNCHANGED <<project, lastDep, dir, work, faults, rest>>

\* The project is gone, or the statement fails: the request is refused.
DeleteRefused(r) ==
  /\ delPc[r] = "row"
  /\ \/ ~project /\ UNCHANGED faults
     \/ Fault
  /\ EndDeletion(r)
  /\ UNCHANGED <<db, dir, work, rest>>

DeleteFiles(r) ==
  /\ delPc[r] = "files"
  /\ dir' = [dir EXCEPT ![delDep[r]] = "none"]
  /\ EndDeletion(r)
  /\ UNCHANGED <<db, work, faults, rest>>

DeletionStep(r) ==
  DeleteRow(r) \/ DeleteRefused(r) \/ DeleteFiles(r)

-----------------------------------------------------------------------------
(* The project: ProjectsController::remove and ::create *)

\* The rows of the project's deployments go with it (ON DELETE CASCADE).
RemoveProject ==
  /\ project /\ ~removing
  /\ removals < MaxRemovals
  /\ removals' = removals + 1
  /\ project' = FALSE
  /\ status' = [d \in Dep |-> "absent"]
  /\ active' = [d \in Dep |-> FALSE]
  /\ removing' = TRUE
  /\ UNCHANGED <<lastDep, dir, work, delete, faults, startup, stale, raced,
                 crashes>>

\* Storage::invalidateProject removes the directory of the project.
InvalidateProject ==
  /\ removing
  /\ dir' = [d \in Dep |-> "none"]
  /\ removing' = FALSE
  /\ UNCHANGED <<db, work, delete, faults, startup, stale, raced, crashes,
                 removals>>

\* The same id is registered again.
CreateProject ==
  /\ ~project
  /\ project' = TRUE
  /\ UNCHANGED <<status, active, lastDep, dir, work, delete, faults, rest>>

-----------------------------------------------------------------------------
(* The process: crash and cleanupLoadingDeployments *)

Crash ==
  /\ crashes < MaxCrashes
  /\ crashes' = crashes + 1
  /\ pending' = "none"
  /\ pc' = [w \in Workers |-> "idle"]
  /\ dep' = [w \in Workers |-> NoDep]
  /\ seen' = [w \in Workers |-> NoDep]
  /\ act' = [w \in Workers |-> FALSE]
  /\ delPc' = [r \in Deletions |-> "idle"]
  /\ delDep' = [r \in Deletions |-> NoDep]
  /\ delActive' = [r \in Deletions |-> FALSE]
  /\ removing' = FALSE
  /\ startup' = "read"
  /\ stale' = {}
  /\ UNCHANGED <<db, dir, faults, raced, removals>>

\* (Mutant: rows that are CREATED are not read.)
CleanupReadLoading ==
  /\ startup = "read"
  /\ stale' = {d \in Dep : status[d] = "loading"}
  /\ startup' = "clean"
  /\ UNCHANGED <<db, dir, work, delete, faults, removing, raced, crashes,
                 removals>>

\* getLoadingDeployments; a failed query is an empty list.
CleanupRead ==
  /\ startup = "read"
  /\ \/ /\ stale' = {d \in Dep : status[d] \in InProgress}
        /\ UNCHANGED faults
     \/ Fault /\ UNCHANGED stale
  /\ startup' = "clean"
  /\ UNCHANGED <<db, dir, work, delete, removing, raced, crashes, removals>>

CleanupFiles ==
  /\ startup = "clean"
  /\ \E d \in stale :
       /\ dir' = [dir EXCEPT ![d] = "none"]
       /\ stale' = stale \ {d}
  /\ UNCHANGED <<db, work, delete, faults, removing, startup, raced, crashes,
                 removals>>

\* A directory cannot be removed: the exception ends the start-up tasks.
CleanupThrows ==
  /\ startup = "clean"
  /\ stale # {}
  /\ Fault
  /\ startup' = "done"
  /\ stale' = {}
  /\ UNCHANGED <<db, dir, work, delete, removing, raced, crashes, removals>>

\* (Mutants: every row fails, no row fails.)
FailAll ==
  /\ startup = "clean"
  /\ stale = {}
  /\ status' = [d \in Dep |-> IF status[d] = "absent" THEN "absent"
                              ELSE "error"]
  /\ startup' = "done"
  /\ UNCHANGED <<project, active, lastDep, dir, work, delete, faults,
                 removing, stale, raced, crashes, removals>>

FailNone ==
  /\ startup = "clean"
  /\ stale = {}
  /\ startup' = "done"
  /\ UNCHANGED <<db, dir, work, delete, faults, removing, stale, raced,
                 crashes, removals>>

\* failLoadingDeployments: every row in progress by now, whoever inserted it.
FailLoading ==
  /\ startup = "clean"
  /\ stale = {}
  /\ \/ /\ status' = [d \in Dep |-> IF status[d] \in InProgress THEN "error"
                                    ELSE status[d]]
        /\ UNCHANGED faults
     \/ Fault /\ UNCHANGED status
  /\ startup' = "done"
  /\ UNCHANGED <<project, active, lastDep, dir, work, delete, removing, stale,
                 raced, crashes, removals>>

Cleanup == CleanupRead \/ CleanupFiles \/ CleanupThrows \/ FailLoading

-----------------------------------------------------------------------------
Next ==
  \/ \E w \in Workers : Enqueue(w) \/ WorkerStep(w)
  \/ \E r \in Deletions : DeleteRead(r) \/ DeletionStep(r)
  \/ RemoveProject \/ InvalidateProject \/ CreateProject
  \/ Crash \/ Cleanup

Spec == Init /\ [][Next]_vars

\* Every awaited statement, clone and file operation ends: a request that was
\* accepted, and the start-up cleanup, take their next step some day.  Nobody
\* has to send a request, to remove a project or to crash.
FairSpec ==
  /\ Spec
  /\ \A w \in Workers : WF_vars(WorkerStep(w))
  /\ \A r \in Deletions : WF_vars(DeletionStep(r))
  /\ WF_vars(InvalidateProject)
  /\ WF_vars(Cleanup)

-----------------------------------------------------------------------------
(* Properties *)

\* The worker holds the entry of pendingTasks_.
InTask(w) == pc[w] \notin {"idle", "check", "start", "joined"}

\* No request is between two of its steps.
Quiet ==
  /\ \A w \in Workers : ~InTask(w)
  /\ \A r \in Deletions : delPc[r] = "idle"
  /\ ~removing

\* Nothing but requests happened: no failed statement, no crash.
Undisturbed == faults = 0 /\ crashes = 0

\* Whatever fails, crashes or is removed, at most one worker deploys the
\* project at a time: neither the unlocked look-ups of getPendingTask and
\* hasPendingTask nor the erasure by key let a second one in.
SingleDeployer ==
  \A v, w \in Workers : InTask(v) /\ InTask(w) => v = w

\* While the project stays registered and no statement fails, the entry is in
\* the table exactly while a worker deploys: the project does not report
\* LOADING for ever and does not refuse every later deployment.
KeyHasOwner ==
  faults = 0 /\ removals = 0 =>
    (pending # "none" <=> \E w \in Workers : InTask(w))

\* As long as no statement failed, the last update of a deployment is never
\* refused by the single_active_deployment index, so that the outcome is
\* always recorded: crashes, deletions and the clean-up do not break that.
OutcomeFitsIndex ==
  faults = 0 =>
    \A w \in Workers : InTask(w) /\ act[w] =>
      \A e \in Dep : active[e] => e = dep[w]

\* Between requests the two notions of "active" agree: a row whose active
\* column is set is the newest successful one (the one readers get), and all
\* of its files are there.
ActiveIsServed ==
  Undisturbed /\ removals = 0 /\ Quiet =>
    \A d \in Dep : active[d] => d = Served /\ dir[d] = "full"

\* Readers never see a half-copied deployment, provided that after a crash no
\* deployment starts before the start-up cleanup is through.
ServedIsComplete ==
  faults = 0 /\ ~raced /\ removals = 0 /\ Served # NoDep
    => dir[Served] = "full"

\* A directory that no row and no request knows of would stay for ever.  There
\* is none while rows are neither deleted nor the project removed: every
\* failed, crashed or superseded deployment is cleared from the disk.
NoOrphanFiles ==
  /\ faults = 0 /\ removals = 0 /\ ~raced
  /\ Quiet /\ startup = "done"
  /\ \A d \in 1..lastDep : status[d] # "absent"
  => \A d \in Dep : dir[d] # "none" => d = Served

\* A recorded outcome is final: until the row is deleted it stays SUCCESS or
\* ERROR (unless a deployment overlaps the start-up cleanup).
OutcomeIsFinal ==
  [][\A d \in Dep : status[d] \in {"success", "error"} /\ ~raced =>
       status'[d] \in {status[d], "absent"}]_vars

\* "Prevent deletion of loading deployments": no step of a deletion takes
\* away a row that is LOADING.
LoadingIsKept ==
  [][\A d \in Dep : status[d] = "loading" /\ status'[d] = "absent" =>
       ~project']_vars

\* Readers move forward only, see Publication.  A deployment counts as gone
\* when it has no version directory and no worker is about to create one.
gone == {d \in 1..lastDep : /\ dir[d] \in {"none", "empty"}
                            /\ \A w \in Workers : dep[w] = d =>
                                 pc[w] \notin {"mkdir", "loading", "prepare",
                                    "revision", "validate", "copy"}}
Readers == INSTANCE Publication WITH served <- Served
ReadersMoveForward == Readers!Spec

\* Every accepted request is answered (while no statement fails and the
\* project is not removed).
RequestsEnd == \A w \in Workers : pc[w] # "idle" ~> pc[w] = "idle"

\* The project does not stay LOADING.
TaskEnds == pending # "none" ~> pending = "none"

\* A row does not stay in progress: its worker or, after a crash, the start-up
\* cleanup gives it an outcome.
RowsSettle == \A d \in Dep :
  status[d] \in InProgress ~> status[d] \notin InProgress

=============================================================================
