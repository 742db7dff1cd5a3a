------------------------ MODULE Deployments_proofs ------------------------
(***************************************************************************)
(* What holds of the deployments of a project for any number of requests,  *)
(* rows, failures, crashes and removals.                                   *)
(***************************************************************************)
EXTENDS Deployments, TLAPS

-----------------------------------------------------------------------------
(* Operators *)

\* The newest of some deployments is one of them, or none.
LEMMA NewestType ==
  ASSUME NEW S \in SUBSET Dep
  PROVE  Newest(S) \in Dep \cup {NoDep}
BY DEF Newest

\* What getActiveDeployment finds is a deployment or nothing.
LEMMA ActiveDeploymentType == getActiveDeployment \in Dep \cup {NoDep}
BY NewestType DEF getActiveDeployment

\* A failure stays within its bound.
LEMMA FaultType ==
  ASSUME TypeOK, Fault
  PROVE  faults' \in 0..MaxFaults
BY BoundsAssumption DEF Fault, TypeOK

\* An update of one row leaves a table of rows.
LEMMA UpdateRowType ==
  ASSUME TypeOK,
         NEW d, NEW s \in RowStatus, NEW a \in BOOLEAN,
         UpdateRow(d, s, a)
  PROVE  /\ status' \in [Dep -> RowStatus]
         /\ active' \in [Dep -> BOOLEAN]
BY DEF UpdateRow, TypeOK

-----------------------------------------------------------------------------
(* Types *)

\* TypeOK is inductive.
LEMMA TypeStep ==
  ASSUME TypeOK, [Next]_vars
  PROVE  TypeOK'
<1> USE BoundsAssumption
    DEF Dep, NoDep, TypeOK, RowStatus, InProgress, DirContent, WorkerPc,
        vars, db,
            frame, delete, work, rest
<1>1. ASSUME NEW w \in Workers, Enqueue(w) PROVE TypeOK'
  BY <1>1 DEF Enqueue, Goto
<1>2. ASSUME NEW w \in Workers, HasPendingTask(w) PROVE TypeOK'
  BY <1>2 DEF HasPendingTask, Goto
<1>3. ASSUME NEW w \in Workers, StartTask(w) PROVE TypeOK'
  BY <1>3 DEF StartTask, Goto
<1>4. ASSUME NEW w \in Workers, JoinTask(w) PROVE TypeOK'
  BY <1>4 DEF JoinTask, Goto
<1>5. ASSUME NEW w \in Workers, ReadActive(w) PROVE TypeOK'
  BY <1>5, FaultType, ActiveDeploymentType DEF ReadActive, Goto
<1>6. ASSUME NEW w \in Workers, InsertRow(w) PROVE TypeOK'
  BY <1>6 DEF InsertRow, Goto
<1>7. ASSUME NEW w \in Workers, InsertFails(w) PROVE TypeOK'
  BY <1>7 DEF InsertFails, Goto, Return, Fault
<1>8. ASSUME NEW w \in Workers, MakeDirs(w) PROVE TypeOK'
  BY <1>8 DEF MakeDirs, Goto
<1>9. ASSUME NEW w \in Workers, FilesThrow(w) PROVE TypeOK'
  BY <1>9 DEF FilesThrow, Goto, Return, Fault
<1>10. ASSUME NEW w \in Workers, MarkLoading(w) PROVE TypeOK'
  <2>1. CASE UpdateRow(dep[w], "loading", act[w]) /\ UNCHANGED faults
    <3>1. act[w] \in BOOLEAN
      OBVIOUS
    <3>2. /\ status' \in [Dep -> RowStatus]
          /\ active' \in [Dep -> BOOLEAN]
      BY <2>1, <3>1, UpdateRowType DEF UpdateRow
    <3> QED
      BY <1>10, <2>1, <3>2 DEF MarkLoading, Goto
  <2>2. CASE Fault /\ UNCHANGED <<status, active>>
    BY <1>10, <2>2, FaultType DEF MarkLoading, Goto
  <2> QED
    BY <1>10, <2>1, <2>2 DEF MarkLoading
<1>11. ASSUME NEW w \in Workers, Prepare(w) PROVE TypeOK'
  BY <1>11 DEF Prepare, Goto
<1>12. ASSUME NEW w \in Workers, SaveRevision(w) PROVE TypeOK'
  <2>1. CASE UpdateRow(dep[w], "loading", act[w]) /\ UNCHANGED faults
    <3>1. act[w] \in BOOLEAN
      OBVIOUS
    <3>2. /\ status' \in [Dep -> RowStatus]
          /\ active' \in [Dep -> BOOLEAN]
      BY <2>1, <3>1, UpdateRowType DEF UpdateRow
    <3> QED
      BY <1>12, <2>1, <3>2 DEF SaveRevision, Goto
  <2>2. CASE Fault /\ UNCHANGED <<status, active>>
    BY <1>12, <2>2, FaultType DEF SaveRevision, Goto
  <2> QED
    BY <1>12, <2>1, <2>2 DEF SaveRevision
<1>13. ASSUME NEW w \in Workers, Validate(w) PROVE TypeOK'
  BY <1>13 DEF Validate, Goto
<1>14. ASSUME NEW w \in Workers, BeginCopy(w) PROVE TypeOK'
  BY <1>14 DEF BeginCopy, Goto
<1>15. ASSUME NEW w \in Workers, EndCopy(w) PROVE TypeOK'
  <2>1. faults' \in 0..MaxFaults
    BY <1>15, FaultType DEF EndCopy
  <2>2. dir' \in [Dep -> DirContent]
    <3>1. CASE dir' = [dir EXCEPT ![dep[w]] = "full"]
      BY <3>1
    <3>2. ASSUME NEW left \in {"none", "partial"},
                 dir' = [dir EXCEPT ![dep[w]] = left]
          PROVE  dir' \in [Dep -> DirContent]
      BY <3>2
    <3>3. CASE UNCHANGED dir
      BY <3>3
    <3> QED
      BY <1>15, <3>1, <3>2, <3>3 DEF EndCopy
  <2> QED
    BY <1>15, <2>1, <2>2 DEF EndCopy, Goto
<1>16. ASSUME NEW w \in Workers, Activate(w) PROVE TypeOK'
  BY <1>16 DEF Activate, Goto
<1>17. ASSUME NEW w \in Workers, ActivateNothing(w) PROVE TypeOK'
  BY <1>17 DEF ActivateNothing, Goto
<1>18. ASSUME NEW w \in Workers, ActivateFails(w) PROVE TypeOK'
  <2>1. faults' \in 0..MaxFaults
    BY <1>18, FaultType DEF ActivateFails
  <2>2. /\ pc' \in [Workers -> WorkerPc]
        /\ act' \in [Workers -> BOOLEAN]
    BY <1>18 DEF ActivateFails, Goto
  <2> QED
    BY <1>18, <2>1, <2>2 DEF ActivateFails
<1>19. ASSUME NEW w \in Workers, Sweep(w) PROVE TypeOK'
  BY <1>19, FaultType DEF Sweep, Goto
<1>20. ASSUME NEW w \in Workers, Discard(w) PROVE TypeOK'
  BY <1>20 DEF Discard, Goto
<1>21. ASSUME NEW w \in Workers, Record(w) PROVE TypeOK'
  <2>1. CASE UpdateRow(dep[w], IF pc[w] = "recordOk" THEN "success" ELSE "error", act[w]) /\ UNCHANGED faults
    <3>1. act[w] \in BOOLEAN
      OBVIOUS
    <3>2. /\ status' \in [Dep -> RowStatus]
          /\ active' \in [Dep -> BOOLEAN]
      BY <2>1, <3>1, UpdateRowType DEF UpdateRow
    <3> QED
      BY <1>21, <2>1, <3>2 DEF Record, Goto
  <2>2. CASE Fault /\ UNCHANGED <<status, active>>
    BY <1>21, <2>2, FaultType DEF Record, Goto
  <2> QED
    BY <1>21, <2>1, <2>2 DEF Record
<1>22. ASSUME NEW w \in Workers, SetValue(w) PROVE TypeOK'
  BY <1>22 DEF SetValue
<1>23. ASSUME NEW w \in Workers, EraseTask(w) PROVE TypeOK'
  BY <1>23 DEF EraseTask, Goto, Return
<1>24. ASSUME NEW r \in Deletions, DeleteRead(r) PROVE TypeOK'
  BY <1>24 DEF DeleteRead
<1>25. ASSUME NEW r \in Deletions, DeleteRow(r) PROVE TypeOK'
  BY <1>25 DEF DeleteRow, EndDeletion
<1>26. ASSUME NEW r \in Deletions, DeleteRefused(r) PROVE TypeOK'
  BY <1>26 DEF DeleteRefused, EndDeletion, Fault
<1>27. ASSUME NEW r \in Deletions, DeleteFiles(r) PROVE TypeOK'
  BY <1>27 DEF DeleteFiles, EndDeletion
<1>28. CASE RemoveProject
  <2>1. removals' \in 0..MaxRemovals
    BY <1>28 DEF RemoveProject
  <2> QED
    BY <1>28, <2>1 DEF RemoveProject
<1>29. CASE InvalidateProject
  BY <1>29 DEF InvalidateProject
<1>30. CASE CreateProject
  BY <1>30 DEF CreateProject
<1>31. CASE Crash
  <2>1. crashes' \in 0..MaxCrashes
    BY <1>31 DEF Crash
  <2> QED
    BY <1>31, <2>1 DEF Crash
<1>32. CASE CleanupRead
  <2>1. faults' \in 0..MaxFaults
    BY <1>32, FaultType DEF CleanupRead
  <2>2. stale' \in SUBSET Dep
    BY <1>32 DEF CleanupRead
  <2> QED
    BY <1>32, <2>1, <2>2 DEF CleanupRead
<1>33. CASE CleanupFiles
  BY <1>33 DEF CleanupFiles
<1>34. CASE CleanupThrows
  BY <1>34, FaultType DEF CleanupThrows
<1>35. CASE FailLoading
  BY <1>35 DEF FailLoading, Fault
<1>36. CASE UNCHANGED vars
  BY <1>36
<1> QED
  BY <1>1, <1>2, <1>3, <1>4, <1>5, <1>6, <1>7, <1>8, <1>9, <1>10, <1>11,
     <1>12, <1>13, <1>14, <1>15, <1>16, <1>17, <1>18, <1>19, <1>20, <1>21,
     <1>22, <1>23, <1>24, <1>25, <1>26, <1>27, <1>28, <1>29, <1>30, <1>31,
     <1>32, <1>33, <1>34, <1>35, <1>36 DEF Next, WorkerStep, DeletionStep,
     Cleanup

\* The initial state has the types.
LEMMA TypeInit ==
  ASSUME Init
  PROVE  TypeOK
<1>1. /\ lastDep \in 0..MaxDeployments
      /\ faults \in 0..MaxFaults
      /\ crashes \in 0..MaxCrashes
      /\ removals \in 0..MaxRemovals
  BY BoundsAssumption DEF Init
<1>2. /\ status \in [Dep -> RowStatus]
      /\ active \in [Dep -> BOOLEAN]
      /\ dir \in [Dep -> DirContent]
  BY DEF Init, RowStatus, DirContent
<1>3. /\ pc \in [Workers -> WorkerPc]
      /\ dep \in [Workers -> Dep \cup {NoDep}]
      /\ seen \in [Workers -> Dep \cup {NoDep}]
      /\ act \in [Workers -> BOOLEAN]
  BY DEF Init, WorkerPc
<1>4. /\ delPc \in [Deletions -> {"idle", "row", "files"}]
      /\ delDep \in [Deletions -> Dep \cup {NoDep}]
      /\ delActive \in [Deletions -> BOOLEAN]
  BY DEF Init
<1>5. /\ project \in BOOLEAN
      /\ removing \in BOOLEAN
      /\ raced \in BOOLEAN
      /\ pending \in {"none", "running", "set"}
      /\ startup \in {"done", "read", "clean"}
      /\ stale \in SUBSET Dep
  BY DEF Init
<1> QED
  BY <1>1, <1>2, <1>3, <1>4, <1>5 DEF TypeOK

\* Every variable stays in its range, whatever the requests, failures and
\* crashes are.
THEOREM TypeCorrect == Spec => []TypeOK
<1>1. Init => TypeOK
  BY TypeInit
<1>2. TypeOK /\ [Next]_vars => TypeOK'
  BY TypeStep
<1> QED
  BY <1>1, <1>2, PTL DEF Spec

-----------------------------------------------------------------------------
(* One worker deploys at a time *)

\* Why no second worker gets in: whoever deploys holds the entry of
\* pendingTasks_, and an entry is only inserted where there is none.
DeployerHoldsKey == \A w \in Workers : InTask(w) => pending # "none"

OwnerInv == SingleDeployer /\ DeployerHoldsKey

\* OwnerInv is inductive.
LEMMA OwnerStep ==
  ASSUME TypeOK, OwnerInv, [Next]_vars
  PROVE  OwnerInv'
<1> USE DEF TypeOK, WorkerPc, OwnerInv, SingleDeployer, DeployerHoldsKey,
            InTask, vars, db,
            frame, delete, work, rest
<1>1. ASSUME NEW w \in Workers, Enqueue(w) PROVE OwnerInv'
  BY <1>1 DEF Enqueue, Goto
<1>2. ASSUME NEW w \in Workers, HasPendingTask(w) PROVE OwnerInv'
  BY <1>2 DEF HasPendingTask, Goto
<1>3. ASSUME NEW w \in Workers, StartTask(w) PROVE OwnerInv'
  BY <1>3 DEF StartTask, Goto
<1>4. ASSUME NEW w \in Workers, JoinTask(w) PROVE OwnerInv'
  BY <1>4 DEF JoinTask, Goto
<1>5. ASSUME NEW w \in Workers, ReadActive(w) PROVE OwnerInv'
  BY <1>5 DEF ReadActive, Goto, Fault
<1>6. ASSUME NEW w \in Workers, InsertRow(w) PROVE OwnerInv'
  BY <1>6 DEF InsertRow, Goto
<1>7. ASSUME NEW w \in Workers, InsertFails(w) PROVE OwnerInv'
  BY <1>7 DEF InsertFails, Goto, Return, Fault
<1>8. ASSUME NEW w \in Workers, MakeDirs(w) PROVE OwnerInv'
  BY <1>8 DEF MakeDirs, Goto
<1>9. ASSUME NEW w \in Workers, FilesThrow(w) PROVE OwnerInv'
  BY <1>9 DEF FilesThrow, Goto, Return, Fault
<1>10. ASSUME NEW w \in Workers, MarkLoading(w) PROVE OwnerInv'
  BY <1>10 DEF MarkLoading, Goto, Fault, UpdateRow
<1>11. ASSUME NEW w \in Workers, Prepare(w) PROVE OwnerInv'
  BY <1>11 DEF Prepare, Goto
<1>12. ASSUME NEW w \in Workers, SaveRevision(w) PROVE OwnerInv'
  BY <1>12 DEF SaveRevision, Goto, Fault, UpdateRow
<1>13. ASSUME NEW w \in Workers, Validate(w) PROVE OwnerInv'
  BY <1>13 DEF Validate, Goto
<1>14. ASSUME NEW w \in Workers, BeginCopy(w) PROVE OwnerInv'
  BY <1>14 DEF BeginCopy, Goto
<1>15. ASSUME NEW w \in Workers, EndCopy(w) PROVE OwnerInv'
  BY <1>15 DEF EndCopy, Goto, Fault
<1>16. ASSUME NEW w \in Workers, Activate(w) PROVE OwnerInv'
  BY <1>16 DEF Activate, Goto
<1>17. ASSUME NEW w \in Workers, ActivateNothing(w) PROVE OwnerInv'
  BY <1>17 DEF ActivateNothing, Goto
<1>18. ASSUME NEW w \in Workers, ActivateFails(w) PROVE OwnerInv'
  BY <1>18 DEF ActivateFails, Goto, Fault
<1>19. ASSUME NEW w \in Workers, Sweep(w) PROVE OwnerInv'
  BY <1>19 DEF Sweep, Goto, Fault
<1>20. ASSUME NEW w \in Workers, Discard(w) PROVE OwnerInv'
  BY <1>20 DEF Discard, Goto
<1>21. ASSUME NEW w \in Workers, Record(w) PROVE OwnerInv'
  BY <1>21 DEF Record, Goto, Fault, UpdateRow
<1>22. ASSUME NEW w \in Workers, SetValue(w) PROVE OwnerInv'
  BY <1>22 DEF SetValue
<1>23. ASSUME NEW w \in Workers, EraseTask(w) PROVE OwnerInv'
  BY <1>23 DEF EraseTask, Goto, Return
<1>24. ASSUME NEW r \in Deletions, DeleteRead(r) PROVE OwnerInv'
  BY <1>24 DEF DeleteRead
<1>25. ASSUME NEW r \in Deletions, DeleteRow(r) PROVE OwnerInv'
  BY <1>25 DEF DeleteRow, EndDeletion
<1>26. ASSUME NEW r \in Deletions, DeleteRefused(r) PROVE OwnerInv'
  BY <1>26 DEF DeleteRefused, EndDeletion, Fault
<1>27. ASSUME NEW r \in Deletions, DeleteFiles(r) PROVE OwnerInv'
  BY <1>27 DEF DeleteFiles, EndDeletion
<1>28. CASE RemoveProject
  BY <1>28 DEF RemoveProject
<1>29. CASE InvalidateProject
  BY <1>29 DEF InvalidateProject
<1>30. CASE CreateProject
  BY <1>30 DEF CreateProject
<1>31. CASE Crash
  BY <1>31 DEF Crash
<1>32. CASE CleanupRead
  BY <1>32 DEF CleanupRead, Fault
<1>33. CASE CleanupFiles
  BY <1>33 DEF CleanupFiles
<1>34. CASE CleanupThrows
  BY <1>34 DEF CleanupThrows, Fault
<1>35. CASE FailLoading
  BY <1>35 DEF FailLoading, Fault
<1>36. CASE UNCHANGED vars
  BY <1>36
<1> QED
  BY <1>1, <1>2, <1>3, <1>4, <1>5, <1>6, <1>7, <1>8, <1>9, <1>10, <1>11,
     <1>12, <1>13, <1>14, <1>15, <1>16, <1>17, <1>18, <1>19, <1>20, <1>21,
     <1>22, <1>23, <1>24, <1>25, <1>26, <1>27, <1>28, <1>29, <1>30, <1>31,
     <1>32, <1>33, <1>34, <1>35, <1>36 DEF Next, WorkerStep, DeletionStep,
     Cleanup

\* Whatever fails, crashes or is removed, at most one worker is between
\* getOrStartTask and completeTask for the project.
THEOREM OneDeployer == Spec => []SingleDeployer
<1>1. Init => OwnerInv
  BY DEF Init, OwnerInv, SingleDeployer, DeployerHoldsKey, InTask
<1>2. TypeOK /\ OwnerInv /\ [Next]_vars => OwnerInv'
  BY OwnerStep
<1>3. OwnerInv => SingleDeployer
  BY DEF OwnerInv
<1> QED
  BY <1>1, <1>2, <1>3, TypeCorrect, PTL DEF Spec

-----------------------------------------------------------------------------
(* The entry of pendingTasks_ has an owner *)

\* An insert only fails, and leaves its entry behind, for want of the project
\* or because a statement failed.
KeyInv == KeyHasOwner /\ (removals = 0 => project)

\* KeyInv is inductive, given OwnerInv.
LEMMA KeyStep ==
  ASSUME TypeOK, OwnerInv, KeyInv, [Next]_vars
  PROVE  KeyInv'
<1> USE DEF TypeOK, WorkerPc, OwnerInv, SingleDeployer, DeployerHoldsKey,
            KeyInv, KeyHasOwner, InTask, vars, db,
            frame, delete, work, rest
<1>1. ASSUME NEW w \in Workers, Enqueue(w) PROVE KeyInv'
  BY <1>1 DEF Enqueue, Goto
<1>2. ASSUME NEW w \in Workers, HasPendingTask(w) PROVE KeyInv'
  BY <1>2 DEF HasPendingTask, Goto
<1>3. ASSUME NEW w \in Workers, StartTask(w) PROVE KeyInv'
  BY <1>3 DEF StartTask, Goto
<1>4. ASSUME NEW w \in Workers, JoinTask(w) PROVE KeyInv'
  BY <1>4 DEF JoinTask, Goto
<1>5. ASSUME NEW w \in Workers, ReadActive(w) PROVE KeyInv'
  BY <1>5 DEF ReadActive, Goto, Fault
<1>6. ASSUME NEW w \in Workers, InsertRow(w) PROVE KeyInv'
  BY <1>6 DEF InsertRow, Goto
<1>7. ASSUME NEW w \in Workers, InsertFails(w) PROVE KeyInv'
  BY <1>7 DEF InsertFails, Goto, Return, Fault
<1>8. ASSUME NEW w \in Workers, MakeDirs(w) PROVE KeyInv'
  BY <1>8 DEF MakeDirs, Goto
<1>9. ASSUME NEW w \in Workers, FilesThrow(w) PROVE KeyInv'
  BY <1>9 DEF FilesThrow, Goto, Return, Fault
<1>10. ASSUME NEW w \in Workers, MarkLoading(w) PROVE KeyInv'
  BY <1>10 DEF MarkLoading, Goto, Fault, UpdateRow
<1>11. ASSUME NEW w \in Workers, Prepare(w) PROVE KeyInv'
  BY <1>11 DEF Prepare, Goto
<1>12. ASSUME NEW w \in Workers, SaveRevision(w) PROVE KeyInv'
  BY <1>12 DEF SaveRevision, Goto, Fault, UpdateRow
<1>13. ASSUME NEW w \in Workers, Validate(w) PROVE KeyInv'
  BY <1>13 DEF Validate, Goto
<1>14. ASSUME NEW w \in Workers, BeginCopy(w) PROVE KeyInv'
  BY <1>14 DEF BeginCopy, Goto
<1>15. ASSUME NEW w \in Workers, EndCopy(w) PROVE KeyInv'
  BY <1>15 DEF EndCopy, Goto, Fault
<1>16. ASSUME NEW w \in Workers, Activate(w) PROVE KeyInv'
  BY <1>16 DEF Activate, Goto
<1>17. ASSUME NEW w \in Workers, ActivateNothing(w) PROVE KeyInv'
  BY <1>17 DEF ActivateNothing, Goto
<1>18. ASSUME NEW w \in Workers, ActivateFails(w) PROVE KeyInv'
  BY <1>18 DEF ActivateFails, Goto, Fault
<1>19. ASSUME NEW w \in Workers, Sweep(w) PROVE KeyInv'
  BY <1>19 DEF Sweep, Goto, Fault
<1>20. ASSUME NEW w \in Workers, Discard(w) PROVE KeyInv'
  BY <1>20 DEF Discard, Goto
<1>21. ASSUME NEW w \in Workers, Record(w) PROVE KeyInv'
  BY <1>21 DEF Record, Goto, Fault, UpdateRow
<1>22. ASSUME NEW w \in Workers, SetValue(w) PROVE KeyInv'
  BY <1>22 DEF SetValue
<1>23. ASSUME NEW w \in Workers, EraseTask(w) PROVE KeyInv'
  BY <1>23 DEF EraseTask, Goto, Return
<1>24. ASSUME NEW r \in Deletions, DeleteRead(r) PROVE KeyInv'
  BY <1>24 DEF DeleteRead
<1>25. ASSUME NEW r \in Deletions, DeleteRow(r) PROVE KeyInv'
  BY <1>25 DEF DeleteRow, EndDeletion
<1>26. ASSUME NEW r \in Deletions, DeleteRefused(r) PROVE KeyInv'
  BY <1>26 DEF DeleteRefused, EndDeletion, Fault
<1>27. ASSUME NEW r \in Deletions, DeleteFiles(r) PROVE KeyInv'
  BY <1>27 DEF DeleteFiles, EndDeletion
<1>28. CASE RemoveProject
  BY <1>28 DEF RemoveProject
<1>29. CASE InvalidateProject
  BY <1>29 DEF InvalidateProject
<1>30. CASE CreateProject
  BY <1>30 DEF CreateProject
<1>31. CASE Crash
  BY <1>31 DEF Crash
<1>32. CASE CleanupRead
  BY <1>32 DEF CleanupRead, Fault
<1>33. CASE CleanupFiles
  BY <1>33 DEF CleanupFiles
<1>34. CASE CleanupThrows
  BY <1>34 DEF CleanupThrows, Fault
<1>35. CASE FailLoading
  BY <1>35 DEF FailLoading, Fault
<1>36. CASE UNCHANGED vars
  BY <1>36
<1> QED
  BY <1>1, <1>2, <1>3, <1>4, <1>5, <1>6, <1>7, <1>8, <1>9, <1>10, <1>11,
     <1>12, <1>13, <1>14, <1>15, <1>16, <1>17, <1>18, <1>19, <1>20, <1>21,
     <1>22, <1>23, <1>24, <1>25, <1>26, <1>27, <1>28, <1>29, <1>30, <1>31,
     <1>32, <1>33, <1>34, <1>35, <1>36 DEF Next, WorkerStep, DeletionStep,
     Cleanup

\* As long as no statement failed and the project was not removed, the entry
\* is there exactly while some worker deploys.
THEOREM KeyOwned == Spec => []KeyHasOwner
<1>1. Init => KeyInv
  BY DEF Init, KeyInv, KeyHasOwner, InTask
<1>2. TypeOK /\ OwnerInv /\ KeyInv /\ [Next]_vars => KeyInv'
  BY KeyStep
<1>3. Init => OwnerInv
  BY DEF Init, OwnerInv, SingleDeployer, DeployerHoldsKey, InTask
<1>4. TypeOK /\ OwnerInv /\ [Next]_vars => OwnerInv'
  BY OwnerStep
<1>5. KeyInv => KeyHasOwner
  BY DEF KeyInv
<1> QED
  BY <1>1, <1>2, <1>3, <1>4, <1>5, TypeCorrect, PTL DEF Spec

-----------------------------------------------------------------------------
(* The outcome of a deployment can always be recorded *)

\* A worker that activated its deployment has only the end of it ahead.
ActivatedIsLate ==
  \A w \in Workers :
    act[w] => pc[w] \in {"sweep", "recordOk", "setValue", "erase"}

OutcomeInv == ActivatedIsLate /\ OutcomeFitsIndex

\* OutcomeInv is inductive, given OwnerInv.
LEMMA OutcomeStep ==
  ASSUME TypeOK, OwnerInv, OutcomeInv, [Next]_vars
  PROVE  OutcomeInv'
<1> USE DEF TypeOK, WorkerPc, OwnerInv, SingleDeployer, DeployerHoldsKey,
            OutcomeInv, ActivatedIsLate, OutcomeFitsIndex, InTask, vars, db,
            frame, delete, work, rest
<1>1. ASSUME NEW w \in Workers, Enqueue(w) PROVE OutcomeInv'
  BY <1>1 DEF Enqueue, Goto
<1>2. ASSUME NEW w \in Workers, HasPendingTask(w) PROVE OutcomeInv'
  BY <1>2 DEF HasPendingTask, Goto
<1>3. ASSUME NEW w \in Workers, StartTask(w) PROVE OutcomeInv'
  BY <1>3 DEF StartTask, Goto
<1>4. ASSUME NEW w \in Workers, JoinTask(w) PROVE OutcomeInv'
  BY <1>4 DEF JoinTask, Goto
<1>5. ASSUME NEW w \in Workers, ReadActive(w) PROVE OutcomeInv'
  BY <1>5 DEF ReadActive, Goto, Fault
<1>6. ASSUME NEW w \in Workers, InsertRow(w) PROVE OutcomeInv'
  BY <1>6 DEF InsertRow, Goto
<1>7. ASSUME NEW w \in Workers, InsertFails(w) PROVE OutcomeInv'
  BY <1>7 DEF InsertFails, Goto, Return, Fault
<1>8. ASSUME NEW w \in Workers, MakeDirs(w) PROVE OutcomeInv'
  BY <1>8 DEF MakeDirs, Goto
<1>9. ASSUME NEW w \in Workers, FilesThrow(w) PROVE OutcomeInv'
  BY <1>9 DEF FilesThrow, Goto, Return, Fault
<1>10. ASSUME NEW w \in Workers, MarkLoading(w) PROVE OutcomeInv'
  BY <1>10 DEF MarkLoading, Goto, Fault, UpdateRow
<1>11. ASSUME NEW w \in Workers, Prepare(w) PROVE OutcomeInv'
  BY <1>11 DEF Prepare, Goto
<1>12. ASSUME NEW w \in Workers, SaveRevision(w) PROVE OutcomeInv'
  BY <1>12 DEF SaveRevision, Goto, Fault, UpdateRow
<1>13. ASSUME NEW w \in Workers, Validate(w) PROVE OutcomeInv'
  BY <1>13 DEF Validate, Goto
<1>14. ASSUME NEW w \in Workers, BeginCopy(w) PROVE OutcomeInv'
  BY <1>14 DEF BeginCopy, Goto
<1>15. ASSUME NEW w \in Workers, EndCopy(w) PROVE OutcomeInv'
  BY <1>15 DEF EndCopy, Goto, Fault
<1>16. ASSUME NEW w \in Workers, Activate(w) PROVE OutcomeInv'
  BY <1>16 DEF Activate, Goto
<1>17. ASSUME NEW w \in Workers, ActivateNothing(w) PROVE OutcomeInv'
  BY <1>17 DEF ActivateNothing, Goto
<1>18. ASSUME NEW w \in Workers, ActivateFails(w) PROVE OutcomeInv'
  BY <1>18 DEF ActivateFails, Goto, Fault
<1>19. ASSUME NEW w \in Workers, Sweep(w) PROVE OutcomeInv'
  BY <1>19 DEF Sweep, Goto, Fault
<1>20. ASSUME NEW w \in Workers, Discard(w) PROVE OutcomeInv'
  BY <1>20 DEF Discard, Goto
<1>21. ASSUME NEW w \in Workers, Record(w) PROVE OutcomeInv'
  BY <1>21 DEF Record, Goto, Fault, UpdateRow
<1>22. ASSUME NEW w \in Workers, SetValue(w) PROVE OutcomeInv'
  BY <1>22 DEF SetValue
<1>23. ASSUME NEW w \in Workers, EraseTask(w) PROVE OutcomeInv'
  BY <1>23 DEF EraseTask, Goto, Return
<1>24. ASSUME NEW r \in Deletions, DeleteRead(r) PROVE OutcomeInv'
  BY <1>24 DEF DeleteRead
<1>25. ASSUME NEW r \in Deletions, DeleteRow(r) PROVE OutcomeInv'
  BY <1>25 DEF DeleteRow, EndDeletion
<1>26. ASSUME NEW r \in Deletions, DeleteRefused(r) PROVE OutcomeInv'
  BY <1>26 DEF DeleteRefused, EndDeletion, Fault
<1>27. ASSUME NEW r \in Deletions, DeleteFiles(r) PROVE OutcomeInv'
  BY <1>27 DEF DeleteFiles, EndDeletion
<1>28. CASE RemoveProject
  BY <1>28 DEF RemoveProject
<1>29. CASE InvalidateProject
  BY <1>29 DEF InvalidateProject
<1>30. CASE CreateProject
  BY <1>30 DEF CreateProject
<1>31. CASE Crash
  BY <1>31 DEF Crash
<1>32. CASE CleanupRead
  BY <1>32 DEF CleanupRead, Fault
<1>33. CASE CleanupFiles
  BY <1>33 DEF CleanupFiles
<1>34. CASE CleanupThrows
  BY <1>34 DEF CleanupThrows, Fault
<1>35. CASE FailLoading
  BY <1>35 DEF FailLoading, Fault
<1>36. CASE UNCHANGED vars
  BY <1>36
<1> QED
  BY <1>1, <1>2, <1>3, <1>4, <1>5, <1>6, <1>7, <1>8, <1>9, <1>10, <1>11,
     <1>12, <1>13, <1>14, <1>15, <1>16, <1>17, <1>18, <1>19, <1>20, <1>21,
     <1>22, <1>23, <1>24, <1>25, <1>26, <1>27, <1>28, <1>29, <1>30, <1>31,
     <1>32, <1>33, <1>34, <1>35, <1>36 DEF Next, WorkerStep, DeletionStep,
     Cleanup

\* As long as no statement failed, the single_active_deployment index never
\* refuses the update that records a deployment's outcome.
THEOREM OutcomeRecorded == Spec => []OutcomeFitsIndex
<1>1. Init => OutcomeInv
  BY DEF Init, OutcomeInv, ActivatedIsLate, OutcomeFitsIndex, InTask
<1>2. TypeOK /\ OwnerInv /\ OutcomeInv /\ [Next]_vars => OutcomeInv'
  BY OutcomeStep
<1>3. Init => OwnerInv
  BY DEF Init, OwnerInv, SingleDeployer, DeployerHoldsKey, InTask
<1>4. TypeOK /\ OwnerInv /\ [Next]_vars => OwnerInv'
  BY OwnerStep
<1>5. OutcomeInv => OutcomeFitsIndex
  BY DEF OutcomeInv
<1> QED
  BY <1>1, <1>2, <1>3, <1>4, <1>5, TypeCorrect, PTL DEF Spec

-----------------------------------------------------------------------------
(* What a step may do *)

\* The worker has inserted its row; it has yet to record the outcome; it has
\* activated the deployment, or not yet.
Inserted == {"mkdir", "loading", "prepare", "revision", "validate", "copy",
             "copying", "activate", "sweep", "discard", "recordOk",
             "recordError", "setValue", "erase"}
Unrecorded == Inserted \ {"setValue", "erase"}
Late == {"sweep", "recordOk"}
Early == Unrecorded \ Late

\* The steps of one worker and of one deletion.
WorkerActs(w) == Enqueue(w) \/ WorkerStep(w)
DeletionActs(r) == DeleteRead(r) \/ DeletionStep(r)

\* Only the worker at hand moves; completeTask also lets those go that wait for it.
LEMMA OneMoves ==
  ASSUME TypeOK, NEW w \in Workers, WorkerActs(w), NEW v \in Workers, v # w
  PROVE  /\ pc'[v] = pc[v] \/ (pc[v] = "joined" /\ pc'[v] = "idle")
         /\ dep'[v] = dep[v] /\ seen'[v] = seen[v] /\ act'[v] = act[v]
BY DEF TypeOK, WorkerActs, WorkerStep, frame, Enqueue, HasPendingTask, StartTask,
  JoinTask, ReadActive, InsertRow, InsertFails, MakeDirs, FilesThrow, MarkLoading,
    Prepare, SaveRevision, Validate, BeginCopy, EndCopy, Activate, ActivateNothing,
      ActivateFails, Sweep, Discard, Record, SetValue, EraseTask, Goto, Return

\* What workers do does not concern deletions and the clean-up, and the other way around.
LEMMA WorkersFrame ==
  ASSUME NEW w \in Workers, WorkerActs(w)
  PROVE  UNCHANGED <<delete, project, removing, startup, stale, crashes, removals>>
BY DEF WorkerActs, WorkerStep, rest, db, vars, Enqueue, HasPendingTask, StartTask,
  JoinTask, ReadActive, InsertRow, InsertFails, MakeDirs, FilesThrow, MarkLoading,
    Prepare, SaveRevision, Validate, BeginCopy, EndCopy, Activate, ActivateNothing,
      ActivateFails, Sweep, Discard, Record, SetValue, EraseTask

LEMMA OthersFrame ==
  ASSUME [Next]_vars, ~ \E w \in Workers : WorkerActs(w)
  PROVE  \/ Crash
         \/ /\ UNCHANGED <<work, raced, lastDep>>
            /\ \/ \E r \in Deletions : DeletionActs(r)
               \/ RemoveProject \/ InvalidateProject \/ CreateProject \/ Cleanup
                  \/ UNCHANGED vars
BY DEF Next, WorkerActs, DeletionActs, DeletionStep, Cleanup, vars, db, rest, DeleteRead,
  DeleteRow, DeleteRefused, DeleteFiles, RemoveProject, InvalidateProject, CreateProject,
    CleanupRead, CleanupFiles, CleanupThrows, FailLoading

\* A worker that another step does not concern keeps its place and its frame.
LEMMA MovesOrStays ==
  ASSUME TypeOK, [Next]_vars, NEW v \in Workers
  PROVE  \/ WorkerActs(v)
         \/ pc'[v] = pc[v] /\ dep'[v] = dep[v] /\ seen'[v] = seen[v] /\ act'[v] = act[v]
         \/ pc'[v] = "idle" /\ (Crash \/ pc[v] = "joined")
<1>1. ASSUME NEW w \in Workers, WorkerActs(w), w # v
      PROVE  \/ pc'[v] = pc[v] /\ dep'[v] = dep[v] /\ seen'[v] = seen[v]
                /\ act'[v] = act[v]
             \/ pc'[v] = "idle" /\ pc[v] = "joined"
  BY <1>1, OneMoves
<1>2. Crash => pc'[v] = "idle"
  BY DEF Crash
<1> QED
  BY <1>1, <1>2, OthersFrame DEF work, frame

\* A deployment starts with an entry in the table of tasks.
LEMMA TaskStarts ==
  ASSUME TypeOK, NEW w \in Workers, WorkerActs(w), NEW v \in Workers, ~InTask(v),
         InTask(v)'
  PROVE  v = w /\ StartTask(w)
<1>1. v = w
  BY OneMoves DEF InTask
<1>2. StartTask(w)
  BY <1>1 DEF TypeOK, InTask, WorkerActs, WorkerStep, Enqueue, HasPendingTask, JoinTask,
    ReadActive, InsertRow, InsertFails, MakeDirs, FilesThrow, MarkLoading, Prepare,
      SaveRevision, Validate, BeginCopy, EndCopy, Activate, ActivateNothing,
        ActivateFails, Sweep, Discard, Record, SetValue, EraseTask, Goto, Return
<1> QED
  BY <1>1, <1>2

\* Rows are only added, one at a time.
LEMMA LastDepStep ==
  ASSUME TypeOK, [Next]_vars
  PROVE  lastDep' = lastDep \/ (lastDep' = lastDep + 1 /\ \E w \in Workers : InsertRow(w))
BY DEF Next, WorkerStep, DeletionStep, Cleanup, vars, db, Enqueue, HasPendingTask,
  StartTask, JoinTask, ReadActive, InsertRow, InsertFails, MakeDirs, FilesThrow,
    MarkLoading, Prepare, SaveRevision, Validate, BeginCopy, EndCopy, Activate,
      ActivateNothing, ActivateFails, Sweep, Discard, Record, SetValue, EraseTask,
        DeleteRead, DeleteRow, DeleteRefused, DeleteFiles, RemoveProject,
          InvalidateProject, CreateProject, Crash, CleanupRead, CleanupFiles,
            CleanupThrows, FailLoading

\* An update changes one row: the worker's own, if it is there.
LEMMA UpdateFrame ==
  ASSUME TypeOK, NEW w \in Workers, MarkLoading(w) \/ SaveRevision(w) \/ Record(w)
  PROVE  /\ \A e \in Dep : e # dep[w] => status'[e] = status[e] /\ active'[e] = active[e]
         /\ \A e \in Dep : status[e] = "absent" => status'[e] = "absent"
            /\ active'[e] = active[e]
         /\ \A e \in Dep : status[e] # "absent" => status'[e] # "absent"
         /\ \A e \in Dep : active[e] => active'[e]
         /\ ~act[w] => active' = active
<1>1. CASE UNCHANGED <<status, active>>
  BY <1>1
<1>2. ASSUME NEW s \in {"loading", "success", "error"}, UpdateRow(dep[w], s, act[w]),
             status' # status \/ active' # active
      PROVE  /\ \A e \in Dep : e # dep[w] => status'[e] = status[e]
                /\ active'[e] = active[e]
             /\ \A e \in Dep : status[e] = "absent" => status'[e] = "absent"
                /\ active'[e] = active[e]
             /\ \A e \in Dep : status[e] # "absent" => status'[e] # "absent"
             /\ \A e \in Dep : active[e] => active'[e]
             /\ ~act[w] => active' = active
  BY <1>2 DEF UpdateRow, TypeOK
<1>3. \/ UNCHANGED <<status, active>>
      \/ \E s \in {"loading", "success", "error"} : UpdateRow(dep[w], s, act[w])
  BY DEF MarkLoading, SaveRevision, Record
<1> QED
  BY <1>1, <1>2, <1>3

\* What may happen to the status of a row.
LEMMA StatusSteps ==
  ASSUME TypeOK, [Next]_vars, NEW d \in Dep
  PROVE  \/ status'[d] \in {status[d], "absent"}
         \/ d = lastDep + 1 /\ status'[d] = "created" /\ \E w \in Workers : InsertRow(w)
         \/ \E w \in Workers :
              /\ d = dep[w] /\ status[d] # "absent"
              /\ \/ status'[d] = "loading"
                    /\ pc[w] \in {"loading", "revision", "activate"}
                 \/ Record(w)
         \/ FailLoading /\ status[d] \in InProgress /\ status'[d] = "error"
<1> DEFINE Goal ==
      \/ status'[d] \in {status[d], "absent"}
      \/ d = lastDep + 1 /\ status'[d] = "created" /\ \E w \in Workers : InsertRow(w)
      \/ \E w \in Workers :
           /\ d = dep[w] /\ status[d] # "absent"
           /\ \/ status'[d] = "loading" /\ pc[w] \in {"loading", "revision", "activate"}
              \/ Record(w)
      \/ FailLoading /\ status[d] \in InProgress /\ status'[d] = "error"
<1> USE DEF TypeOK
<1>1. ASSUME NEW w \in Workers,
             Enqueue(w) \/ HasPendingTask(w) \/ StartTask(w) \/ JoinTask(w)
             \/ ReadActive(w) \/ InsertFails(w) \/ FilesThrow(w) \/ Prepare(w)
             \/ Validate(w) \/ ActivateFails(w) \/ SetValue(w) \/ EraseTask(w)
             \/ MakeDirs(w) \/ BeginCopy(w) \/ EndCopy(w) \/ Sweep(w) \/ Discard(w)
             \/ ActivateNothing(w)
      PROVE  status'[d] = status[d]
  BY <1>1 DEF db, Enqueue, HasPendingTask, StartTask, JoinTask, ReadActive, InsertFails,
    FilesThrow, Prepare, Validate, ActivateFails, SetValue, EraseTask, MakeDirs,
      BeginCopy, EndCopy, Sweep, Discard, ActivateNothing
<1>2. ASSUME NEW w \in Workers, InsertRow(w) PROVE Goal
  BY <1>2 DEF InsertRow
<1>3. ASSUME NEW w \in Workers, MarkLoading(w) \/ SaveRevision(w) PROVE Goal
  BY <1>3 DEF MarkLoading, SaveRevision, UpdateRow
<1>4. ASSUME NEW w \in Workers, Record(w) PROVE Goal
  BY <1>4, UpdateFrame
<1>5. ASSUME NEW w \in Workers, Activate(w) PROVE Goal
  BY <1>5 DEF Activate
<1>6. ASSUME NEW r \in Deletions, DeletionActs(r)
      PROVE  status'[d] \in {status[d], "absent"}
  BY <1>6 DEF db, DeletionActs, DeletionStep, DeleteRead, DeleteRow, DeleteRefused,
    DeleteFiles
<1>7. CASE RemoveProject \/ InvalidateProject \/ CreateProject \/ Crash \/ UNCHANGED vars
  BY <1>7 DEF RemoveProject, InvalidateProject, CreateProject, Crash, vars, db
<1>8. CASE Cleanup
  BY <1>8 DEF Cleanup, CleanupRead, CleanupFiles, CleanupThrows, FailLoading, InProgress,
    db
<1> QED
  BY <1>1, <1>2, <1>3, <1>4, <1>5, <1>6, <1>7, <1>8 DEF Next, WorkerStep, DeletionActs

\* An outcome is only written by the worker of the row, or by the clean-up.
LEMMA OutcomeSteps ==
  ASSUME TypeOK, [Next]_vars, NEW d \in Dep, status'[d] \in {"success", "error"}
  PROVE  \/ status'[d] = status[d]
         \/ \E w \in Workers : d = dep[w] /\ Record(w)
         \/ FailLoading
BY StatusSteps

\* A row that was deleted does not come back.
LEMMA AbsentStays ==
  ASSUME TypeOK, [Next]_vars, NEW d \in Dep, d <= lastDep, status[d] = "absent"
  PROVE  status'[d] = "absent"
<1>1. d # lastDep + 1
  BY DEF TypeOK, Dep
<1> QED
  BY <1>1, StatusSteps DEF InProgress

\* A row becomes active by its own worker only, and while it is there.
LEMMA ActiveSteps ==
  ASSUME TypeOK, ActivatedIsLate, [Next]_vars, NEW d \in Dep, active'[d], ~active[d]
  PROVE  \E w \in Workers :
           d = dep[w] /\ status[d] # "absent" /\ (Activate(w) \/ (Record(w) /\ act[w]))
<1> USE DEF TypeOK
<1>1. ASSUME NEW w \in Workers,
             Enqueue(w) \/ HasPendingTask(w) \/ StartTask(w) \/ JoinTask(w)
             \/ ReadActive(w) \/ InsertFails(w) \/ FilesThrow(w) \/ Prepare(w)
             \/ Validate(w) \/ ActivateFails(w) \/ SetValue(w) \/ EraseTask(w)
             \/ MakeDirs(w) \/ BeginCopy(w) \/ EndCopy(w) \/ Sweep(w) \/ Discard(w)
             \/ InsertRow(w)
      PROVE  active' = active
  BY <1>1 DEF db, Enqueue, HasPendingTask, StartTask, JoinTask, ReadActive, InsertFails,
    FilesThrow, Prepare, Validate, ActivateFails, SetValue, EraseTask, MakeDirs,
      BeginCopy, EndCopy, Sweep, Discard, InsertRow
<1>2. ASSUME NEW w \in Workers, MarkLoading(w) \/ SaveRevision(w) PROVE active' = active
  <2>1. ~act[w]
    BY <1>2 DEF MarkLoading, SaveRevision, ActivatedIsLate
  <2> QED
    BY <1>2, <2>1, UpdateFrame
<1>3. ASSUME NEW w \in Workers, Record(w)
      PROVE  d = dep[w] /\ status[d] # "absent" /\ act[w]
  BY <1>3, UpdateFrame
<1>4. ASSUME NEW w \in Workers, Activate(w) PROVE d = dep[w] /\ status[d] # "absent"
  BY <1>4 DEF Activate
<1>5. ASSUME NEW w \in Workers, ActivateNothing(w) PROVE FALSE
  BY <1>5 DEF ActivateNothing
<1>6. ASSUME NEW r \in Deletions, DeletionActs(r) PROVE FALSE
  BY <1>6 DEF db, DeletionActs, DeletionStep, DeleteRead, DeleteRow, DeleteRefused,
    DeleteFiles
<1>7. CASE RemoveProject \/ InvalidateProject \/ CreateProject \/ Crash \/ UNCHANGED vars
  BY <1>7 DEF RemoveProject, InvalidateProject, CreateProject, Crash, vars, db
<1>8. CASE Cleanup
  BY <1>8 DEF Cleanup, CleanupRead, CleanupFiles, CleanupThrows, FailLoading, db
<1> QED
  BY <1>1, <1>2, <1>3, <1>4, <1>5, <1>6, <1>7, <1>8 DEF Next, WorkerStep, DeletionActs

\* What may happen to the directory of a deployment.
LEMMA DirSteps ==
  ASSUME TypeOK, [Next]_vars, NEW d \in Dep
  PROVE  \/ dir'[d] = dir[d]
         \/ /\ dir'[d] = "none"
            /\ \/ \E w \in Workers : Sweep(w) /\ d = seen[w]
               \/ \E w \in Workers : Discard(w) /\ d = dep[w]
               \/ \E r \in Deletions : DeleteFiles(r) /\ d = delDep[r]
               \/ CleanupFiles /\ d \in stale
               \/ InvalidateProject
         \/ \E w \in Workers : d = dep[w] /\ (MakeDirs(w) \/ BeginCopy(w) \/ EndCopy(w))
<1> USE DEF TypeOK
<1>1. ASSUME NEW w \in Workers,
             Enqueue(w) \/ HasPendingTask(w) \/ StartTask(w) \/ JoinTask(w)
             \/ ReadActive(w) \/ InsertFails(w) \/ FilesThrow(w) \/ Prepare(w)
             \/ Validate(w) \/ ActivateFails(w) \/ SetValue(w) \/ EraseTask(w)
             \/ InsertRow(w) \/ MarkLoading(w) \/ SaveRevision(w) \/ Record(w)
             \/ Activate(w) \/ ActivateNothing(w)
      PROVE  dir' = dir
  BY <1>1 DEF Enqueue, HasPendingTask, StartTask, JoinTask, ReadActive, InsertFails,
    FilesThrow, Prepare, Validate, ActivateFails, SetValue, EraseTask, InsertRow,
      MarkLoading, SaveRevision, Record, Activate, ActivateNothing
<1>2. ASSUME NEW w \in Workers, MakeDirs(w) \/ BeginCopy(w) \/ EndCopy(w), d # dep[w]
      PROVE  dir'[d] = dir[d]
  BY <1>2 DEF MakeDirs, BeginCopy, EndCopy
<1>3. ASSUME NEW w \in Workers, Sweep(w)
      PROVE  dir'[d] = dir[d] \/ (dir'[d] = "none" /\ d = seen[w])
  BY <1>3 DEF Sweep
<1>4. ASSUME NEW w \in Workers, Discard(w)
      PROVE  dir'[d] = dir[d] \/ (dir'[d] = "none" /\ d = dep[w])
  BY <1>4 DEF Discard
<1>5. ASSUME NEW r \in Deletions, DeleteFiles(r)
      PROVE  dir'[d] = dir[d] \/ (dir'[d] = "none" /\ d = delDep[r])
  BY <1>5 DEF DeleteFiles
<1>6. ASSUME NEW r \in Deletions, DeleteRead(r) \/ DeleteRow(r) \/ DeleteRefused(r)
      PROVE  dir' = dir
  BY <1>6 DEF DeleteRead, DeleteRow, DeleteRefused
<1>7. CASE CleanupFiles
  BY <1>7 DEF CleanupFiles
<1>8. CASE InvalidateProject
  BY <1>8 DEF InvalidateProject
<1>9. CASE RemoveProject \/ CreateProject \/ Crash \/ CleanupRead \/ CleanupThrows
             \/ FailLoading \/ UNCHANGED vars
  BY <1>9 DEF RemoveProject, CreateProject, Crash, CleanupRead, CleanupThrows,
    FailLoading, vars
<1> QED
  BY <1>1, <1>2, <1>3, <1>4, <1>5, <1>6, <1>7, <1>8, <1>9 DEF Next, WorkerStep,
    DeletionStep, Cleanup

\* A deletion has read its row as active, or does so now.
LEMMA DeletionSteps ==
  ASSUME TypeOK, [Next]_vars, NEW r \in Deletions, delActive'[r]
  PROVE  DeleteRead(r) \/ (delDep'[r] = delDep[r] /\ delActive'[r] = delActive[r])
<1>1. ASSUME NEW w \in Workers, WorkerActs(w) PROVE UNCHANGED <<delDep, delActive>>
  BY <1>1, WorkersFrame DEF delete
<1>2. ASSUME NEW q \in Deletions, DeletionActs(q), q # r
      PROVE  delDep'[r] = delDep[r] /\ delActive'[r] = delActive[r]
  BY <1>2 DEF DeletionActs, DeletionStep, DeleteRead, DeleteRow, DeleteRefused,
    DeleteFiles, EndDeletion, TypeOK
<1>3. ~EndDeletion(r)
  BY DEF EndDeletion, TypeOK
<1>4. ASSUME DeletionStep(r) PROVE UNCHANGED <<delDep, delActive>>
  BY <1>3, <1>4 DEF DeletionStep, DeleteRow, DeleteRefused, DeleteFiles
<1>5. CASE RemoveProject \/ InvalidateProject \/ CreateProject \/ UNCHANGED vars
  BY <1>5 DEF RemoveProject, InvalidateProject, CreateProject, vars, delete
<1>6. ~Crash
  BY DEF Crash
<1>7. CASE Cleanup
  BY <1>7 DEF Cleanup, CleanupRead, CleanupFiles, CleanupThrows, FailLoading, delete
<1> QED
  BY <1>1, <1>2, <1>4, <1>5, <1>6, <1>7, OthersFrame DEF DeletionActs

\* Failures, crashes and removals are not taken back.
LEMMA HistoryGrows ==
  ASSUME TypeOK, TypeOK', [Next]_vars
  PROVE  /\ faults' = 0 => faults = 0
         /\ removals' = 0 => removals = 0
         /\ crashes' = 0 => crashes = 0 /\ ~Crash
         /\ raced => raced'
         /\ removals' = removals \/ RemoveProject
<1> USE BoundsAssumption DEF TypeOK, vars, rest
<1>6. Crash => crashes' # 0
  BY DEF Crash
<1>1. ASSUME NEW w \in Workers, WorkerActs(w)
      PROVE  /\ faults' = 0 => faults = 0
             /\ raced => raced'
             /\ UNCHANGED <<removals, crashes>>
  BY <1>1 DEF Fault, WorkerActs, WorkerStep, db, Enqueue, HasPendingTask, StartTask,
    JoinTask, ReadActive, InsertRow, InsertFails, MakeDirs, FilesThrow, MarkLoading,
      Prepare, SaveRevision, Validate, BeginCopy, EndCopy, Activate, ActivateNothing,
        ActivateFails, Sweep, Discard, Record, SetValue, EraseTask
<1>2. ASSUME NEW r \in Deletions, DeletionActs(r)
      PROVE  (faults' = 0 => faults = 0) /\ UNCHANGED rest
  BY <1>2 DEF Fault, DeletionActs, DeletionStep, DeleteRead, DeleteRow, DeleteRefused,
    DeleteFiles
<1>3. CASE InvalidateProject \/ CreateProject \/ UNCHANGED vars
  <2>1. UNCHANGED <<faults, removals, crashes, raced>>
    BY <1>3 DEF InvalidateProject, CreateProject
  <2> QED
    BY <2>1, <1>6
<1>7. CASE RemoveProject
  <2>1. UNCHANGED <<faults, crashes, raced>> /\ removals' = removals + 1
    BY <1>7 DEF RemoveProject
  <2>2. removals' # 0
    BY <2>1
  <2> QED
    BY <1>7, <2>1, <2>2, <1>6
<1>4. CASE Crash
  BY <1>4 DEF Crash
<1>5. CASE Cleanup
  <2>1. UNCHANGED <<removals, crashes, raced>>
    BY <1>5 DEF Cleanup, CleanupRead, CleanupFiles, CleanupThrows, FailLoading
  <2>2. faults' = 0 => faults = 0
    BY <1>5 DEF Fault, Cleanup, CleanupRead, CleanupFiles, CleanupThrows, FailLoading
  <2> QED
    BY <1>6, <2>1, <2>2
<1> QED
  BY <1>1, <1>2, <1>3, <1>4, <1>5, <1>6, <1>7, OthersFrame

-----------------------------------------------------------------------------
(* What was inserted *)

\* Rows and directories are only there for what was inserted.
Fresh ==
  \A d \in Dep : d > lastDep =>
    status[d] = "absent" /\ ~active[d] /\ dir[d] = "none"
\* What requests and the clean-up remember are rows that were inserted: a
\* worker's own is the newest, and newer than the one it read as active.
KnownToWorkers ==
  \A w \in Workers :
    /\ pc[w] \in Inserted => dep[w] = lastDep /\ seen[w] < lastDep
    /\ pc[w] \notin Inserted => dep[w] = NoDep
    /\ seen[w] <= lastDep
KnownToDeletions ==
  \A r \in Deletions :
    /\ delDep[r] <= lastDep
    /\ delPc[r] = "idle" => ~delActive[r]
    /\ delPc[r] # "idle" => delDep[r] # NoDep
KnownToCleanup == \A d \in stale : d <= lastDep
Known == KnownToWorkers /\ KnownToDeletions /\ KnownToCleanup

\* What is not inserted stays unused.
LEMMA FreshStep ==
  ASSUME TypeOK, TypeOK', ActivatedIsLate, Fresh, KnownToWorkers, [Next]_vars
  PROVE  Fresh'
<1> SUFFICES ASSUME NEW d \in Dep, d > lastDep'
             PROVE  status'[d] = "absent" /\ ~active'[d] /\ dir'[d] = "none"
  BY DEF Fresh
<1>1. d > lastDep /\ ~(d = lastDep + 1 /\ \E w \in Workers : InsertRow(w))
  <2>1. d > lastDep
    BY LastDepStep DEF TypeOK, Dep
  <2>2. (\E w \in Workers : InsertRow(w)) => lastDep' = lastDep + 1
    BY DEF InsertRow
  <2> QED
    BY <2>1, <2>2 DEF TypeOK, Dep
<1>2. status[d] = "absent" /\ ~active[d] /\ dir[d] = "none"
  BY <1>1 DEF Fresh
<1>3. status'[d] = "absent"
  BY <1>1, <1>2, StatusSteps DEF InProgress
<1>4. ~active'[d]
  BY <1>2, ActiveSteps
<1>5. dir'[d] = "none"
  <2>1. ASSUME NEW w \in Workers, MakeDirs(w) \/ BeginCopy(w) \/ EndCopy(w)
        PROVE  d # dep[w]
    <3>1. pc[w] \in Inserted
      BY <2>1 DEF MakeDirs, BeginCopy, EndCopy, Inserted
    <3> QED
      BY <1>1, <3>1 DEF KnownToWorkers, TypeOK, Dep
  <2> QED
    BY <1>2, <2>1, DirSteps
<1> QED
  BY <1>3, <1>4, <1>5

\* A worker gets the newest row, and reads an older one as active.
LEMMA KnownToWorkersStep ==
  ASSUME TypeOK, TypeOK', OwnerInv, Fresh, KnownToWorkers, [Next]_vars
  PROVE  KnownToWorkers'
<1> USE BoundsAssumption DEF TypeOK, KnownToWorkers, Dep, NoDep, vars, db, frame, delete,
      work, rest
<1>1. ASSUME NEW w \in Workers,
             Enqueue(w) \/ HasPendingTask(w) \/ StartTask(w) \/ JoinTask(w)
             \/ MakeDirs(w) \/ MarkLoading(w) \/ SaveRevision(w) \/ Prepare(w)
             \/ Validate(w)
      PROVE  KnownToWorkers'
  BY <1>1 DEF Enqueue, HasPendingTask, StartTask, JoinTask, MakeDirs, MarkLoading,
    SaveRevision, Prepare, Validate, Goto, Inserted
<1>2. ASSUME NEW w \in Workers, ReadActive(w) PROVE KnownToWorkers'
  <2>1. getActiveDeployment <= lastDep
    <3> DEFINE S == {d \in Dep : status[d] = "success"}
    <3>1. \A d \in S : d <= lastDep
      BY DEF Fresh
    <3>2. Newest(S) \in S \/ Newest(S) = NoDep
      BY DEF Newest, IsNewest
    <3> QED
      BY <3>1, <3>2 DEF getActiveDeployment
  <2> QED
    BY <1>2, <2>1, ActiveDeploymentType DEF ReadActive, Goto, Inserted
<1>3. ASSUME NEW w \in Workers, InsertRow(w) PROVE KnownToWorkers'
  <2>1. \A v \in Workers : v # w => pc[v] \notin Inserted
    BY <1>3 DEF InsertRow, OwnerInv, SingleDeployer, InTask, Inserted
  <2>2. /\ lastDep' = lastDep + 1
        /\ dep' = [dep EXCEPT ![w] = lastDep + 1]
        /\ pc' = [pc EXCEPT ![w] = "mkdir"]
        /\ seen' = seen
    BY <1>3 DEF InsertRow, Goto
  <2>3. \A v \in Workers : v # w => pc'[v] \notin Inserted /\ dep'[v] = NoDep
    BY <2>1, <2>2
  <2>4. pc'[w] \in Inserted /\ dep'[w] = lastDep'
    BY <2>2 DEF Inserted
  <2>5. ASSUME NEW v \in Workers PROVE seen'[v] < lastDep'
    <3>1. seen[v] \in Nat /\ lastDep \in Nat /\ seen[v] <= lastDep
      OBVIOUS
    <3> QED
      BY <2>2, <3>1
  <2> QED
    BY <2>3, <2>4, <2>5
<1>4. ASSUME NEW w \in Workers, InsertFails(w) \/ FilesThrow(w) \/ EraseTask(w)
      PROVE  KnownToWorkers'
  BY <1>4 DEF InsertFails, FilesThrow, EraseTask, Return, Goto, Inserted
<1>5. ASSUME NEW w \in Workers,
             BeginCopy(w) \/ EndCopy(w) \/ Activate(w) \/ ActivateNothing(w)
             \/ ActivateFails(w)
      PROVE  KnownToWorkers'
  BY <1>5 DEF BeginCopy, EndCopy, Activate, ActivateNothing, ActivateFails, Goto, Inserted
<1>6. ASSUME NEW w \in Workers, Sweep(w) \/ Discard(w) \/ Record(w) \/ SetValue(w)
      PROVE  KnownToWorkers'
  <2>1. UNCHANGED <<dep, seen, lastDep>>
    BY <1>6 DEF Sweep, Discard, Record, SetValue
  <2>2. \A v \in Workers : pc'[v] \in Inserted <=> pc[v] \in Inserted
    BY <1>6 DEF Sweep, Discard, Record, SetValue, Goto, Inserted
  <2> QED
    BY <2>1, <2>2
<1>7. ASSUME NEW r \in Deletions, DeletionActs(r) PROVE KnownToWorkers'
  BY <1>7 DEF DeletionActs, DeletionStep, DeleteRead, DeleteRow, DeleteRefused,
    DeleteFiles
<1>8. CASE RemoveProject \/ InvalidateProject \/ CreateProject \/ Crash \/ UNCHANGED vars
  BY <1>8 DEF RemoveProject, InvalidateProject, CreateProject, Crash, Inserted
<1>9. CASE Cleanup
  BY <1>9 DEF Cleanup, CleanupRead, CleanupFiles, CleanupThrows, FailLoading
<1> QED
  BY <1>1, <1>2, <1>3, <1>4, <1>5, <1>6, <1>7, <1>8, <1>9
  DEF Next, WorkerStep, DeletionActs

\* A deletion reads a row that is there.
LEMMA KnownToDeletionsStep ==
  ASSUME TypeOK, TypeOK', Fresh, KnownToDeletions, [Next]_vars
  PROVE  KnownToDeletions'
<1> USE BoundsAssumption DEF TypeOK, KnownToDeletions, Dep, NoDep, vars, db, frame,
      delete, work, rest
<1>1. ASSUME NEW w \in Workers, WorkerActs(w) PROVE KnownToDeletions'
  <2>1. UNCHANGED <<delPc, delDep, delActive>>
    BY <1>1, WorkersFrame
  <2>2. lastDep' >= lastDep
    BY LastDepStep
  <2> QED
    BY <2>1, <2>2
<1>2. ASSUME NEW r \in Deletions, DeletionActs(r) PROVE KnownToDeletions'
  <2>1. CASE DeleteRead(r)
    BY <2>1 DEF DeleteRead, Fresh
  <2>2. CASE DeletionStep(r)
    BY <2>2 DEF DeletionStep, DeleteRow, DeleteRefused, DeleteFiles, EndDeletion
  <2> QED
    BY <1>2, <2>1, <2>2 DEF DeletionActs
<1>3. CASE RemoveProject \/ InvalidateProject \/ CreateProject \/ Crash \/ UNCHANGED vars
  BY <1>3 DEF RemoveProject, InvalidateProject, CreateProject, Crash
<1>4. CASE Cleanup
  BY <1>4 DEF Cleanup, CleanupRead, CleanupFiles, CleanupThrows, FailLoading
<1> QED
  BY <1>1, <1>2, <1>3, <1>4, OthersFrame

\* So does the clean-up.
LEMMA KnownToCleanupStep ==
  ASSUME TypeOK, TypeOK', Fresh, KnownToCleanup, [Next]_vars
  PROVE  KnownToCleanup'
<1> USE BoundsAssumption DEF TypeOK, KnownToCleanup, Dep, NoDep, vars, db, frame, delete,
      work, rest
<1>1. CASE stale' \subseteq stale
  <2>2. lastDep' >= lastDep
    BY LastDepStep
  <2> QED
    BY <1>1, <2>2
<1>2. CASE CleanupRead
  BY <1>2 DEF CleanupRead, Fresh, InProgress
<1>3. stale' \subseteq stale \/ CleanupRead
  <2>1. ASSUME NEW w \in Workers, WorkerActs(w) PROVE stale' = stale
    BY <2>1, WorkersFrame
  <2>2. ASSUME NEW r \in Deletions, DeletionActs(r) PROVE stale' = stale
    BY <2>2 DEF DeletionActs, DeletionStep, DeleteRead, DeleteRow, DeleteRefused,
      DeleteFiles
  <2>3. CASE RemoveProject \/ InvalidateProject \/ CreateProject \/ Crash
               \/ UNCHANGED vars
    BY <2>3 DEF RemoveProject, InvalidateProject, CreateProject, Crash
  <2>4. CASE CleanupFiles \/ CleanupThrows \/ FailLoading
    BY <2>4 DEF CleanupFiles, CleanupThrows, FailLoading
  <2> QED
    BY <2>1, <2>2, <2>3, <2>4, OthersFrame DEF Cleanup
<1> QED
  BY <1>1, <1>2, <1>3

-----------------------------------------------------------------------------
(* Rows that are gone, and rows not yet active *)

\* No row is active that is not there, and the files that a deletion is about
\* to remove belong to a row that is gone.
DeletedStays ==
  /\ \A d \in Dep : active[d] => status[d] # "absent"
  /\ \A r \in Deletions :
       delPc[r] = "files" => delActive[r] /\ status[delDep[r]] = "absent"

\* An active row is only ever one that is there.
LEMMA ActiveRowsStep ==
  ASSUME TypeOK, TypeOK', Fresh, KnownToWorkers, [Next]_vars,
         \A d \in Dep : active[d] => status[d] # "absent"
  PROVE  \A d \in Dep : active'[d] => status'[d] # "absent"
<1> SUFFICES ASSUME NEW d \in Dep, active'[d] PROVE status'[d] # "absent"
  OBVIOUS
<1> USE BoundsAssumption DEF TypeOK, Dep, NoDep, vars, db, rest
<1>1. ASSUME NEW w \in Workers,
             Enqueue(w) \/ HasPendingTask(w) \/ StartTask(w) \/ JoinTask(w)
             \/ ReadActive(w) \/ InsertFails(w) \/ FilesThrow(w) \/ Prepare(w)
             \/ Validate(w) \/ ActivateFails(w) \/ SetValue(w) \/ EraseTask(w)
             \/ MakeDirs(w) \/ BeginCopy(w) \/ EndCopy(w) \/ Sweep(w) \/ Discard(w)
      PROVE  UNCHANGED <<status, active>>
  BY <1>1 DEF Enqueue, HasPendingTask, StartTask, JoinTask, ReadActive, InsertFails,
    FilesThrow, Prepare, Validate, ActivateFails, SetValue, EraseTask, MakeDirs,
      BeginCopy, EndCopy, Sweep, Discard
<1>2. ASSUME NEW w \in Workers, InsertRow(w) PROVE status'[d] # "absent"
  BY <1>2 DEF InsertRow
<1>4. ASSUME NEW w \in Workers, MarkLoading(w) \/ SaveRevision(w) \/ Record(w)
      PROVE  status'[d] # "absent"
  BY <1>4, UpdateFrame
<1>5. ASSUME NEW w \in Workers, Activate(w) \/ ActivateNothing(w)
      PROVE  status'[d] # "absent"
  BY <1>5 DEF Activate, ActivateNothing
<1>6. ASSUME NEW r \in Deletions, DeletionActs(r) PROVE status'[d] # "absent"
  BY <1>6 DEF DeletionActs, DeletionStep, DeleteRead, DeleteRow, DeleteRefused,
    DeleteFiles
<1>7. CASE RemoveProject \/ InvalidateProject \/ CreateProject \/ Crash \/ UNCHANGED vars
  BY <1>7 DEF RemoveProject, InvalidateProject, CreateProject, Crash
<1>8. CASE Cleanup
  BY <1>8 DEF Cleanup, CleanupRead, CleanupFiles, CleanupThrows, FailLoading, InProgress
<1> QED
  BY <1>1, <1>2, <1>4, <1>5, <1>6, <1>7, <1>8 DEF Next, WorkerStep, DeletionActs

\* DeletedStays is kept by every step.
LEMMA DeletedStaysStep ==
  ASSUME TypeOK, TypeOK', Fresh, KnownToWorkers, KnownToDeletions, DeletedStays,
         [Next]_vars
  PROVE  DeletedStays'
<1>1. \A d \in Dep : active'[d] => status'[d] # "absent"
  BY ActiveRowsStep DEF DeletedStays
<1>2. ASSUME NEW r \in Deletions, delPc'[r] = "files"
      PROVE  delActive'[r] /\ status'[delDep'[r]] = "absent"
  <2>1. CASE DeleteRow(r)
    BY <1>2, <2>1 DEF DeleteRow, EndDeletion, TypeOK, KnownToDeletions, Dep, NoDep
  <2>2. CASE delPc'[r] = delPc[r] /\ delDep'[r] = delDep[r]
               /\ delActive'[r] = delActive[r]
    <3>1. delDep[r] \in Dep /\ delDep[r] <= lastDep /\ status[delDep[r]] = "absent"
            /\ delActive[r]
      BY <1>2, <2>2 DEF DeletedStays, KnownToDeletions, TypeOK
    <3> QED
      BY <2>2, <3>1, AbsentStays
  <2>3. \/ DeleteRow(r)
        \/ delPc'[r] = delPc[r] /\ delDep'[r] = delDep[r] /\ delActive'[r] = delActive[r]
    <3>1. ASSUME NEW w \in Workers, WorkerActs(w)
          PROVE  UNCHANGED <<delPc, delDep, delActive>>
      BY <3>1, WorkersFrame DEF delete
    <3>2. ASSUME NEW q \in Deletions, DeletionActs(q), ~DeleteRow(r)
          PROVE  delPc'[r] = delPc[r] /\ delDep'[r] = delDep[r]
                   /\ delActive'[r] = delActive[r]
      BY <1>2, <3>2 DEF DeletionActs, DeletionStep, DeleteRead, DeleteRow, DeleteRefused,
        DeleteFiles, EndDeletion, TypeOK
    <3>3. CASE RemoveProject \/ InvalidateProject \/ CreateProject \/ UNCHANGED vars
      BY <3>3 DEF RemoveProject, InvalidateProject, CreateProject, vars, delete
    <3>4. CASE Crash
      BY <1>2, <3>4 DEF Crash
    <3>5. CASE Cleanup
      BY <3>5 DEF Cleanup, CleanupRead, CleanupFiles, CleanupThrows, FailLoading, delete
    <3> QED
      BY <3>1, <3>2, <3>3, <3>4, <3>5, OthersFrame
  <2> QED
    BY <2>1, <2>2, <2>3
<1> QED
  BY <1>1, <1>2 DEF DeletedStays

\* A deployment under way is not active before its activation, and no deletion
\* has read it as active.
NotActive(w) ==
  /\ ~active[dep[w]]
  /\ \A r \in Deletions : delActive[r] => delDep[r] # dep[w]
NotYetActive == \A w \in Workers : pc[w] \in Early => NotActive(w)

\* A new row is inactive, and stays so until its worker activates it.
LEMMA NotYetActiveStep ==
  ASSUME TypeOK, TypeOK', OwnerInv, ActivatedIsLate, Fresh, Known, NotYetActive,
         [Next]_vars
  PROVE  NotYetActive'
<1> SUFFICES ASSUME NEW v \in Workers, pc'[v] \in Early PROVE NotActive(v)'
  BY DEF NotYetActive
<1>0. Early \subseteq Inserted /\ "idle" \notin Inserted /\ "setValue" \notin Early
        /\ "erase" \notin Early /\ "sweep" \notin Early
  BY DEF Early, Unrecorded, Inserted, Late
<1>1. ASSUME NEW w \in Workers, WorkerActs(w) PROVE NotActive(v)'
  <2>0. UNCHANGED <<delPc, delDep, delActive>>
    BY <1>1, WorkersFrame DEF delete
  <2>1. CASE w # v
    <3>1. pc[v] \in Early /\ dep'[v] = dep[v] /\ InTask(v)
      BY <1>0, <1>1, <2>1, OneMoves DEF InTask, Inserted
    <3>2. ~InTask(w)
      BY <2>1, <3>1 DEF OwnerInv, SingleDeployer
    <3>3. pc[w] \in {"idle", "check", "start", "joined"}
      BY <3>2 DEF InTask
    <3>4. active' = active
      BY <1>1, <3>3 DEF WorkerActs, WorkerStep, db, Enqueue, HasPendingTask, StartTask,
        JoinTask, ReadActive, InsertRow, InsertFails, MakeDirs, FilesThrow, MarkLoading,
          Prepare, SaveRevision, Validate, BeginCopy, EndCopy, Activate, ActivateNothing,
            ActivateFails, Sweep, Discard, Record, SetValue, EraseTask
    <3> QED
      BY <2>0, <3>1, <3>4 DEF NotYetActive, NotActive
  <2>2. CASE InsertRow(v)
    <3>1. /\ dep'[v] = lastDep + 1
          /\ lastDep + 1 \in Dep
          /\ active' = active
      BY <2>2 DEF InsertRow, TypeOK, Dep
    <3>2. \A r \in Deletions : delDep[r] # lastDep + 1
      BY DEF Known, KnownToDeletions, TypeOK, Dep, NoDep
    <3>3. ~active[lastDep + 1]
      BY <3>1 DEF Fresh, TypeOK
    <3> QED
      BY <2>0, <3>1, <3>2, <3>3 DEF NotActive
  <2>3. CASE w = v /\ ~InsertRow(v)
    <3>1. pc[v] \in Early /\ dep'[v] = dep[v] /\ active' = active
      <4>1. CASE MarkLoading(v) \/ SaveRevision(v)
        <5>1. ~act[v]
          BY <4>1 DEF MarkLoading, SaveRevision, ActivatedIsLate
        <5> QED
          BY <4>1, <5>1, UpdateFrame DEF MarkLoading, SaveRevision, Early, Unrecorded,
            Inserted, Late, frame
      <4>2. ~ActivateNothing(v) /\ ~Activate(v) /\ ~Record(v) /\ ~SetValue(v)
              /\ ~EraseTask(v)
        BY <1>0 DEF Activate, ActivateNothing, Record, SetValue, EraseTask, Return, Goto,
          TypeOK
      <4>3. ~InsertFails(v) /\ ~FilesThrow(v) /\ ~Sweep(v)
        BY DEF InsertFails, FilesThrow, Return, Goto, TypeOK, Sweep, Early, Unrecorded,
          Inserted, Late
      <4>4. ~Enqueue(v) /\ ~HasPendingTask(v) /\ ~StartTask(v) /\ ~JoinTask(v)
              /\ ~ReadActive(v)
        BY DEF Enqueue, HasPendingTask, StartTask, JoinTask, ReadActive, Goto, TypeOK,
          Early, Unrecorded, Inserted, Late
      <4>5. CASE MakeDirs(v) \/ Prepare(v) \/ Validate(v) \/ BeginCopy(v)
                   \/ EndCopy(v) \/ ActivateFails(v) \/ Discard(v)
        BY <4>5 DEF MakeDirs, Prepare, Validate, BeginCopy, EndCopy, ActivateFails,
          Discard, Early, Unrecorded, Inserted, Late, frame, db
      <4> QED
        BY <1>1, <2>3, <4>1, <4>2, <4>3, <4>4, <4>5 DEF WorkerActs, WorkerStep
    <3> QED
      BY <2>0, <3>1 DEF NotYetActive, NotActive
  <2> QED
    BY <2>1, <2>2, <2>3
<1>2. CASE Crash
  BY <1>0, <1>2 DEF Crash
<1>3. CASE UNCHANGED <<work, raced, lastDep>> /\ ~Crash
             /\ ~ \E w \in Workers : WorkerActs(w)
  <2>0. NotActive(v) /\ dep'[v] = dep[v] /\ dep[v] \in Dep
    BY <1>0, <1>3 DEF work, frame, NotYetActive, Known, KnownToWorkers, TypeOK, Dep, NoDep
  <2>1. ASSUME NEW r \in Deletions, DeleteRead(r) PROVE NotActive(v)'
    BY <2>0, <2>1 DEF DeleteRead, NotActive, TypeOK, db
  <2>2. ASSUME NEW r \in Deletions, DeletionStep(r) PROVE NotActive(v)'
    BY <2>0, <2>2 DEF DeletionStep, DeleteRow, DeleteRefused, DeleteFiles, EndDeletion,
      NotActive, TypeOK, db
  <2>3. CASE RemoveProject \/ InvalidateProject \/ CreateProject \/ UNCHANGED vars
    BY <2>0, <2>3 DEF RemoveProject, InvalidateProject, CreateProject, NotActive, TypeOK,
      vars, db, delete
  <2>4. CASE Cleanup
    BY <2>0, <2>4 DEF Cleanup, CleanupRead, CleanupFiles, CleanupThrows, FailLoading,
      NotActive, TypeOK, db, delete
  <2> QED
    BY <1>3, <2>1, <2>2, <2>3, <2>4, OthersFrame DEF DeletionActs
<1> QED
  BY <1>1, <1>2, <1>3, OthersFrame

-----------------------------------------------------------------------------
(* The start-up clean-up and the outcomes *)

\* The start-up clean-up runs after a crash only, and unless a deployment
\* started meanwhile (raced), no worker is at work before it is through.
StartInv ==
  /\ crashes = 0 => startup = "done" /\ ~raced
  /\ startup # "clean" => stale = {}
  /\ startup # "done" /\ ~raced => \A w \in Workers : ~InTask(w)
  /\ removals = 0 => project /\ ~removing

\* StartInv is kept by every step.
LEMMA StartStep ==
  ASSUME TypeOK, TypeOK', StartInv, [Next]_vars
  PROVE  StartInv'
<1> USE DEF TypeOK
<1>1. ASSUME NEW w \in Workers, WorkerActs(w) PROVE StartInv'
  <2>1. UNCHANGED <<project, removing, startup, stale, crashes, removals>>
    BY <1>1, WorkersFrame
  <2>2. raced' = raced \/ (StartTask(w) /\ raced' = (raced \/ startup # "done"))
    BY <1>1 DEF rest, WorkerActs, WorkerStep, Enqueue, HasPendingTask, StartTask,
      JoinTask, ReadActive, InsertRow, InsertFails, MakeDirs, FilesThrow, MarkLoading,
        Prepare, SaveRevision, Validate, BeginCopy, EndCopy, Activate, ActivateNothing,
          ActivateFails, Sweep, Discard, Record, SetValue, EraseTask
  <2>3. crashes' = 0 => startup' = "done" /\ ~raced'
    BY <2>1, <2>2 DEF StartInv
  <2>4. ASSUME startup' # "done", ~raced', NEW v \in Workers PROVE ~InTask(v)'
    <3>1. ~InTask(v)
      BY <2>1, <2>2, <2>4 DEF StartInv
    <3>2. ~StartTask(w)
      BY <2>1, <2>4 DEF StartTask
    <3> QED
      BY <1>1, <3>1, <3>2, TaskStarts
  <2> QED
    BY <2>1, <2>3, <2>4 DEF StartInv
<1>2. CASE Crash
  <2>1. crashes' # 0
    BY <1>2 DEF Crash
  <2>2. startup' = "read" /\ stale' = {} /\ \A w \in Workers : ~InTask(w)'
    BY <1>2 DEF Crash, InTask
  <2>3. removals' = 0 => project' /\ ~removing'
    BY <1>2 DEF Crash, StartInv, db
  <2> QED
    BY <2>1, <2>2, <2>3 DEF StartInv
<1>3. CASE UNCHANGED work
  <2>0. \A w \in Workers : InTask(w)' <=> InTask(w)
    BY <1>3 DEF InTask, work
  <2>1. ASSUME NEW r \in Deletions, DeletionActs(r) PROVE StartInv'
    <3>1. UNCHANGED <<rest, project>>
      BY <2>1 DEF db, DeletionActs, DeletionStep, DeleteRead, DeleteRow, DeleteRefused,
        DeleteFiles
    <3> QED
      BY <2>0, <3>1 DEF StartInv, rest
  <2>2. CASE RemoveProject
    <3>1. removals' # 0
      BY <2>2 DEF RemoveProject
    <3> QED
      BY <2>0, <2>2, <3>1 DEF RemoveProject, StartInv
  <2>3. CASE InvalidateProject
    BY <2>0, <2>3 DEF InvalidateProject, StartInv, db
  <2>4. CASE CreateProject
    BY <2>0, <2>4 DEF CreateProject, StartInv, rest
  <2>5. CASE Cleanup
    <3>1. UNCHANGED <<project, removing, raced, crashes, removals>>
      BY <2>5 DEF Cleanup, CleanupRead, CleanupFiles, CleanupThrows, FailLoading, db
    <3>2. /\ startup # "done"
          /\ startup' # "clean" => stale' = {}
      BY <2>5 DEF Cleanup, CleanupRead, CleanupFiles, CleanupThrows, FailLoading
    <3> QED
      BY <2>0, <3>1, <3>2 DEF StartInv
  <2>6. CASE UNCHANGED vars
    BY <2>0, <2>6 DEF StartInv, vars, db, rest
  <2> QED
    BY <2>1, <2>2, <2>3, <2>4, <2>5, <2>6, <1>1, <1>2, OthersFrame
<1> QED
  BY <1>1, <1>2, <1>3, OthersFrame

\* As long as no deployment overlapped the clean-up, the row of a deployment
\* under way, and every row that the clean-up has read, has no outcome yet.
Unsettled ==
  ~raced =>
    /\ \A w \in Workers : pc[w] \in Unrecorded
       => status[dep[w]] \notin {"success", "error"}
    /\ \A d \in stale : status[d] \notin {"success", "error"}

\* Unsettled is kept by every step.
LEMMA UnsettledStep ==
  ASSUME TypeOK, TypeOK', OwnerInv, Fresh, Known, StartInv, Unsettled, [Next]_vars
  PROVE  Unsettled'
<1> SUFFICES ASSUME ~raced' PROVE Unsettled'
  BY DEF Unsettled
<1>0. ~raced
  BY HistoryGrows
<1>t. \A v \in Workers : pc[v] \in Unrecorded => InTask(v)
  BY DEF Unrecorded, Inserted, InTask
<1>1. ASSUME NEW v \in Workers, pc'[v] \in Unrecorded
      PROVE  status'[dep'[v]] \notin {"success", "error"}
  <2>1. CASE InsertRow(v)
    BY <2>1 DEF InsertRow, TypeOK, Dep
  <2>2. CASE pc[v] \in Unrecorded /\ dep'[v] = dep[v] /\ ~Record(v)
    <3>1. dep[v] \in Dep
      BY <2>2 DEF Known, KnownToWorkers, Unrecorded, TypeOK, Dep, NoDep
    <3>2. ~FailLoading
      BY <1>0, <1>t, <2>2 DEF StartInv, FailLoading
    <3>3. ASSUME NEW w \in Workers, Record(w) PROVE w = v
      BY <1>t, <2>2, <3>3 DEF OwnerInv, SingleDeployer, Record, InTask
    <3> QED
      BY <1>0, <2>2, <3>1, <3>2, <3>3, OutcomeSteps DEF Unsettled
  <2>3. InsertRow(v) \/ (pc[v] \in Unrecorded /\ dep'[v] = dep[v] /\ ~Record(v))
    <3>1. ASSUME NEW w \in Workers, WorkerActs(w), w # v
          PROVE  pc[v] \in Unrecorded /\ dep'[v] = dep[v] /\ ~Record(v)
      <4>1. pc'[v] # "idle"
        BY <1>1 DEF Unrecorded, Inserted
      <4>2. pc'[v] = pc[v]
        BY <3>1, <4>1, OneMoves
      <4>3. ~Record(v)
        BY <4>2 DEF Record, Goto, TypeOK
      <4> QED
        BY <1>1, <3>1, <4>2, <4>3, OneMoves
    <3>2. ASSUME WorkerActs(v)
          PROVE  InsertRow(v) \/ (pc[v] \in Unrecorded /\ dep'[v] = dep[v] /\ ~Record(v))
      BY <1>1, <3>2 DEF WorkerActs, WorkerStep, TypeOK, frame, Unrecorded, Inserted,
        Goto, Return, Enqueue, HasPendingTask, StartTask, JoinTask, ReadActive,
          InsertFails, MakeDirs, FilesThrow, MarkLoading, Prepare, SaveRevision,
            Validate, BeginCopy, EndCopy, Activate, ActivateNothing, ActivateFails,
              Sweep, Discard, Record, SetValue, EraseTask
    <3>3. CASE Crash
      BY <1>1, <3>3 DEF Crash, Unrecorded, Inserted
    <3>4. CASE UNCHANGED work
      <4>1. ~Record(v)
        BY <3>4 DEF work, Record, Goto, TypeOK
      <4> QED
        BY <1>1, <3>4, <4>1 DEF work, frame
    <3> QED
      BY <3>1, <3>2, <3>3, <3>4, OthersFrame
  <2> QED
    BY <2>1, <2>2, <2>3
<1>2. ASSUME NEW d \in stale' PROVE status'[d] \notin {"success", "error"}
  <2>1. CASE CleanupRead
    BY <1>2, <2>1 DEF CleanupRead, InProgress, StartInv, db
  <2>2. CASE d \in stale
    <3>1. startup = "clean"
      BY <2>2 DEF StartInv
    <3>2. \A w \in Workers : ~Record(w)
      BY <1>0, <3>1 DEF StartInv, Record, InTask
    <3>3. ~FailLoading
      BY <2>2 DEF FailLoading
    <3> QED
      BY <1>0, <2>2, <3>2, <3>3, OutcomeSteps DEF Unsettled, TypeOK
  <2>3. CleanupRead \/ d \in stale
    <3>1. ASSUME NEW w \in Workers, WorkerActs(w) PROVE stale' = stale
      BY <3>1, WorkersFrame
    <3>2. ASSUME NEW r \in Deletions, DeletionActs(r) PROVE stale' = stale
      BY <3>2 DEF DeletionActs, DeletionStep, DeleteRead, DeleteRow, DeleteRefused,
        DeleteFiles, rest
    <3>3. CASE RemoveProject \/ InvalidateProject \/ CreateProject \/ Crash
                 \/ UNCHANGED vars
      BY <1>2, <3>3 DEF RemoveProject, InvalidateProject, CreateProject, Crash, vars, rest
    <3>4. CASE CleanupFiles \/ CleanupThrows \/ FailLoading
      BY <1>2, <3>4 DEF CleanupFiles, CleanupThrows, FailLoading
    <3> QED
      BY <1>2, <3>1, <3>2, <3>3, <3>4, OthersFrame DEF Cleanup
  <2> QED
    BY <2>1, <2>2, <2>3
<1> QED
  BY <1>1, <1>2 DEF Unsettled

\* No step takes an outcome back.
LEMMA FinalStep ==
  ASSUME TypeOK, TypeOK', Fresh, Known, StartInv, Unsettled, [Next]_vars, ~raced, 
         NEW d \in Dep, status[d] \in {"success", "error"}
  PROVE  status'[d] \in {status[d], "absent"}
<1>1. d # lastDep + 1
  BY DEF Fresh, TypeOK, Dep
<1>2. ASSUME NEW w \in Workers, d = dep[w] 
      PROVE pc[w] \notin {"loading", "revision", "activate"} /\ ~Record(w)
  BY <1>2 DEF Unsettled, Record, Unrecorded, Inserted
<1>3. status[d] \notin InProgress
  BY DEF InProgress
<1> QED
  BY <1>1, <1>2, <1>3, StatusSteps

-----------------------------------------------------------------------------
(* Files, while it is calm *)

\* The invariants that hold whatever happens.
Basics ==
  /\ TypeOK /\ OwnerInv /\ OutcomeInv
  /\ Fresh /\ Known /\ DeletedStays /\ NotYetActive
  /\ StartInv /\ Unsettled

\* No statement failed, the project was not removed, and no deployment
\* overlapped the clean-up; crashes and deletions are part of the calm.
Calm == faults = 0 /\ removals = 0 /\ ~raced

\* Calm ends for ever.
LEMMA CalmStep ==
  ASSUME TypeOK, TypeOK', [Next]_vars, Calm'
  PROVE  /\ Calm
         /\ ~RemoveProject /\ UNCHANGED faults
<1>1. RemoveProject => removals' # 0
  BY BoundsAssumption DEF RemoveProject, TypeOK
<1> QED
  BY <1>1, HistoryGrows DEF Calm

\* Where no statement has failed, the last one has not.
LEMMA NoFault ==
  ASSUME TypeOK, faults' = 0
  PROVE  ~Fault
BY DEF Fault, TypeOK

\* What is known of a worker between the insertion of its row and its outcome.
LEMMA Deployer ==
  ASSUME Basics, NEW w \in Workers, pc[w] \in Unrecorded
  PROVE  /\ InTask(w)
         /\ dep[w] \in Dep /\ dep[w] = lastDep /\ seen[w] < dep[w] /\ seen[w] \in Nat
         /\ pc[w] \in Early \/ pc[w] \in Late
         /\ \A v \in Workers : InTask(v) => v = w
<1>1. InTask(w) /\ pc[w] \in Inserted
  BY DEF InTask, Unrecorded, Inserted
<1>2. dep[w] = lastDep /\ seen[w] < lastDep /\ seen[w] \in Nat /\ lastDep \in Nat
  BY <1>1 DEF Basics, Known, KnownToWorkers, TypeOK, Dep, NoDep
<1>3. dep[w] \in Dep
  BY <1>2 DEF Basics, TypeOK, NoDep
<1>4. pc[w] \in Early \/ pc[w] \in Late
  BY DEF Early
<1> QED
  BY <1>1, <1>2, <1>3, <1>4 DEF Basics, OwnerInv, SingleDeployer

\* A worker that has activated its deployment finds it LOADING or deleted, and
\* no deletion is about to take its files.
LateIsLoading ==
  Calm => \A w \in Workers : pc[w] \in Late =>
    /\ act[w]
    /\ status[dep[w]] \in {"absent", "loading"}
    /\ \A r \in Deletions : delActive[r] => delDep[r] # dep[w]

\* LateIsLoading is kept by every step.
LEMMA LateIsLoadingStep ==
  ASSUME Basics, TypeOK', LateIsLoading, [Next]_vars
  PROVE  LateIsLoading'
<1> SUFFICES ASSUME Calm', NEW v \in Workers, pc'[v] \in Late
             PROVE  /\ act'[v]
                    /\ status'[dep'[v]] \in {"absent", "loading"}
                    /\ \A r \in Deletions : delActive'[r] => delDep'[r] # dep'[v]
  BY DEF LateIsLoading
<1>0. TypeOK /\ Calm /\ ~Fault
  BY CalmStep, NoFault DEF Basics, Calm
<1>1. CASE WorkerActs(v)
  <2>0. UNCHANGED <<delDep, delActive>>
    BY <1>1, WorkersFrame DEF delete
  <2>1. Activate(v) \/ ActivateNothing(v) \/ Sweep(v)
    BY <1>0, <1>1 DEF WorkerActs, WorkerStep, TypeOK, Late, Goto, Return, Enqueue,
      HasPendingTask, StartTask, JoinTask, ReadActive, InsertRow, InsertFails, MakeDirs,
        FilesThrow, MarkLoading, Prepare, SaveRevision, Validate, BeginCopy, EndCopy,
          ActivateFails, Discard, Record, SetValue, EraseTask
  <2>2. CASE Activate(v) \/ ActivateNothing(v)
    <3>1. pc[v] \in Early /\ dep'[v] = dep[v] /\ act'[v]
      BY <1>0, <2>2 DEF Activate, ActivateNothing, TypeOK, Early, Unrecorded, Inserted,
        Late
    <3>2. dep[v] \in Dep
      BY <3>1, Deployer DEF Early
    <3>3. status'[dep[v]] \in {"absent", "loading"}
      BY <1>0, <2>2, <3>2 DEF Activate, ActivateNothing, TypeOK
    <3>4. NotActive(v)
      BY <3>1 DEF Basics, NotYetActive
    <3> QED
      BY <2>0, <3>1, <3>3, <3>4 DEF NotActive
  <2>3. CASE Sweep(v)
    <3>1. pc[v] \in Late /\ UNCHANGED <<dep, act, status>>
      BY <2>3 DEF Sweep, Late, db, frame
    <3> QED
      BY <1>0, <2>0, <3>1 DEF LateIsLoading
  <2> QED
    BY <2>1, <2>2, <2>3
<1>2. CASE ~WorkerActs(v)
  <2>1. pc[v] \in Late /\ dep'[v] = dep[v] /\ act'[v] = act[v]
    BY <1>0, <1>2, MovesOrStays DEF Late
  <2>2. pc[v] \in Unrecorded
    BY <2>1 DEF Late, Unrecorded, Inserted
  <2>3. dep[v] \in Dep /\ dep[v] = lastDep /\ InTask(v)
          /\ \A w \in Workers : InTask(w) => v = w
    BY <2>2, Deployer
  <2>4. status[dep[v]] \in {"absent", "loading"} /\ act[v]
        /\ \A r \in Deletions : delActive[r] => delDep[r] # dep[v]
    BY <1>0, <2>1 DEF LateIsLoading
  <2>5. status'[dep[v]] \in {"absent", "loading"}
    <3>1. dep[v] # lastDep + 1
      BY <1>0, <2>3 DEF TypeOK
    <3>2. \A w \in Workers : pc[w] \notin {"loading", "revision", "activate"}
      BY <2>1, <2>3 DEF InTask, Late
    <3>3. \A w \in Workers : ~Record(w)
      BY <1>2, <2>3 DEF InTask, Record, WorkerActs, WorkerStep
    <3>4. ~FailLoading
      BY <1>0, <2>3 DEF FailLoading, Basics, StartInv, Calm
    <3> QED
      BY <1>0, <2>3, <2>4, <3>1, <3>2, <3>3, <3>4, StatusSteps
  <2>6. ASSUME NEW r \in Deletions, delActive'[r] PROVE delDep'[r] # dep[v]
    <3>1. CASE DeleteRead(r)
      BY <1>0, <2>3, <2>4, <2>6, <3>1 DEF DeleteRead, TypeOK, Basics, DeletedStays
    <3>2. CASE delDep'[r] = delDep[r] /\ delActive'[r] = delActive[r]
      BY <2>4, <2>6, <3>2
    <3>3. DeleteRead(r) \/ (delDep'[r] = delDep[r] /\ delActive'[r] = delActive[r])
      BY <1>0, <2>6, DeletionSteps
    <3> QED
      BY <3>1, <3>2, <3>3
  <2> QED
    BY <2>1, <2>4, <2>5, <2>6
<1> QED
  BY <1>1, <1>2

\* Nobody but its worker touches the directory of a deployment under way.
LEMMA DirOfDeployer ==
  ASSUME Basics, TypeOK', LateIsLoading, [Next]_vars, Calm',
         NEW w \in Workers, pc[w] \in Unrecorded, ~WorkerActs(w)
  PROVE  dir'[dep[w]] = dir[dep[w]]
<1>0. TypeOK /\ Calm
  BY CalmStep DEF Basics
<1>1. dep[w] \in Dep /\ InTask(w) /\ \A v \in Workers : InTask(v) => v = w
  BY Deployer
<1>2. \A v \in Workers : ~Sweep(v) /\ ~Discard(v) /\ ~MakeDirs(v) /\ ~BeginCopy(v)
        /\ ~EndCopy(v)
  BY <1>1 DEF InTask, Sweep, Discard, MakeDirs, BeginCopy, EndCopy, WorkerActs, WorkerStep
<1>3. \A r \in Deletions : DeleteFiles(r) => delDep[r] # dep[w]
  <2>1. pc[w] \in Early \/ pc[w] \in Late
    BY Deployer
  <2>2. \A r \in Deletions : delActive[r] => delDep[r] # dep[w]
    BY <1>0, <2>1 DEF LateIsLoading, Basics, NotYetActive, NotActive
  <2> QED
    BY <2>2 DEF DeleteFiles, Basics, DeletedStays
<1>4. stale = {}
  BY <1>0, <1>1 DEF Basics, StartInv, Calm
<1>5. ~InvalidateProject
  BY <1>0 DEF Basics, StartInv, Calm, InvalidateProject
<1> QED
  BY <1>0, <1>1, <1>2, <1>3, <1>4, <1>5, DirSteps

\* What a worker has copied is there as long as it needs it, and a successful
\* deployment has all of its files or none.
Copied ==
  Calm =>
    /\ \A w \in Workers :
         /\ pc[w] = "copying" => dir[dep[w]] = "partial"
         /\ pc[w] \in {"activate", "sweep", "recordOk"} => dir[dep[w]] = "full"
         /\ pc[w] = "recordError" => dir[dep[w]] = "none"
    /\ \A d \in Dep : status[d] = "success" => dir[d] \in {"none", "full"}

\* A worker copies all files, and removes them if it fails.
LEMMA CopiedByWorker ==
  ASSUME Basics, TypeOK', LateIsLoading, Copied, [Next]_vars, Calm',
         NEW v \in Workers
  PROVE  /\ pc'[v] = "copying" => dir'[dep'[v]] = "partial"
         /\ pc'[v] \in {"activate", "sweep", "recordOk"} => dir'[dep'[v]] = "full"
         /\ pc'[v] = "recordError" => dir'[dep'[v]] = "none"
<1>0. TypeOK /\ Calm /\ ~Fault
  BY CalmStep, NoFault DEF Basics, Calm
<1>c. /\ pc[v] = "copying" => dir[dep[v]] = "partial"
      /\ pc[v] \in {"activate", "sweep", "recordOk"} => dir[dep[v]] = "full"
      /\ pc[v] = "recordError" => dir[dep[v]] = "none"
  BY <1>0 DEF Copied
<1> SUFFICES ASSUME pc'[v] \in {"copying", "activate", "sweep", "recordOk", "recordError"}
             PROVE  /\ pc'[v] = "copying" => dir'[dep'[v]] = "partial"
                    /\ pc'[v] \in {"activate", "sweep", "recordOk"}
                       => dir'[dep'[v]] = "full"
                    /\ pc'[v] = "recordError" => dir'[dep'[v]] = "none"
  OBVIOUS
<1>1. CASE WorkerActs(v)
  <2>1. BeginCopy(v) \/ EndCopy(v) \/ Activate(v) \/ ActivateNothing(v) \/ Sweep(v)
          \/ Discard(v)
    BY <1>0, <1>1 DEF WorkerActs, WorkerStep, TypeOK, Goto, Return, Enqueue,
      HasPendingTask, StartTask, JoinTask, ReadActive, InsertRow, InsertFails, MakeDirs,
        FilesThrow, MarkLoading, Prepare, SaveRevision, Validate, ActivateFails, Record,
          SetValue, EraseTask
  <2>2. pc[v] \in Unrecorded /\ dep' = dep
    BY <2>1 DEF BeginCopy, EndCopy, Activate, ActivateNothing, Sweep, Discard,
      Unrecorded, Inserted, frame
  <2>3. dep[v] \in Dep /\ seen[v] # dep[v]
    BY <2>2, Deployer DEF Dep
  <2>4. CASE BeginCopy(v)
    BY <1>0, <2>2, <2>3, <2>4 DEF BeginCopy, Goto, TypeOK
  <2>5. CASE EndCopy(v)
    BY <1>0, <1>c, <2>2, <2>3, <2>5 DEF EndCopy, Goto, TypeOK
  <2>6. CASE Activate(v) \/ ActivateNothing(v)
    BY <1>0, <1>c, <2>2, <2>3, <2>6 DEF Activate, ActivateNothing, Goto, TypeOK
  <2>7. CASE Sweep(v)
    BY <1>0, <1>c, <2>2, <2>3, <2>7 DEF Sweep, Goto, TypeOK
  <2>8. CASE Discard(v)
    BY <1>0, <1>c, <2>2, <2>3, <2>8 DEF Discard, Goto, TypeOK
  <2> QED
    BY <2>1, <2>4, <2>5, <2>6, <2>7, <2>8
<1>2. CASE ~WorkerActs(v)
  <2>1. pc'[v] = pc[v] /\ dep'[v] = dep[v]
    BY <1>0, <1>2, MovesOrStays
  <2>2. pc[v] \in Unrecorded
    BY <2>1 DEF Unrecorded, Inserted
  <2>3. dir'[dep[v]] = dir[dep[v]]
    BY <1>2, <2>2, DirOfDeployer
  <2> QED
    BY <1>c, <2>1, <2>3
<1> QED
  BY <1>1, <1>2

\* A directory comes into being by the worker of a deployment without outcome.
LEMMA DirOfSuccess ==
  ASSUME Basics, TypeOK', [Next]_vars, Calm', NEW d \in Dep, status[d] = "success"
  PROVE  dir'[d] \in {dir[d], "none"}
<1>0. TypeOK /\ Calm
  BY CalmStep DEF Basics
<1>1. ASSUME NEW w \in Workers, d = dep[w], MakeDirs(w) \/ BeginCopy(w) \/ EndCopy(w)
      PROVE  FALSE
  <2>1. pc[w] \in Unrecorded
    BY <1>1 DEF MakeDirs, BeginCopy, EndCopy, Unrecorded, Inserted
  <2> QED
    BY <1>0, <1>1, <2>1 DEF Basics, Unsettled, Calm
<1> QED
  BY <1>0, <1>1, DirSteps

\* A row that becomes SUCCESS is the one of a worker at its end.
LEMMA SuccessSteps ==
  ASSUME Basics, [Next]_vars, NEW d \in Dep, status'[d] = "success", status[d] # "success"
  PROVE  \E w \in Workers : d = dep[w] /\ Record(w) /\ pc[w] = "recordOk"
<1>0. TypeOK
  BY DEF Basics
<1>1. ~FailLoading
  BY <1>0 DEF FailLoading, TypeOK
<1>2. PICK w \in Workers : d = dep[w] /\ Record(w)
  BY <1>0, <1>1, OutcomeSteps
<1>3. pc[w] = "recordOk"
  BY <1>0, <1>2 DEF Record, UpdateRow, TypeOK
<1> QED
  BY <1>2, <1>3

\* Copied is kept by every step.
LEMMA CopiedStep ==
  ASSUME Basics, TypeOK', LateIsLoading, Copied, [Next]_vars
  PROVE  Copied'
<1> SUFFICES ASSUME Calm' PROVE Copied'
  BY DEF Copied
<1>0. TypeOK /\ Calm
  BY CalmStep DEF Basics
<1>1. ASSUME NEW d \in Dep, status'[d] = "success" PROVE dir'[d] \in {"none", "full"}
  <2>1. CASE status[d] = "success"
    BY <1>0, <2>1, DirOfSuccess DEF Copied
  <2>2. CASE status[d] # "success"
    <3>1. PICK w \in Workers : d = dep[w] /\ Record(w) /\ pc[w] = "recordOk"
      BY <1>1, <2>2, SuccessSteps
    <3> QED
      BY <1>0, <3>1 DEF Copied, Record
  <2> QED
    BY <2>1, <2>2
<1> QED
  BY <1>1, CopiedByWorker DEF Copied

\* Readers can be sent to the deployment.
Readable(d) == status[d] = "success" /\ dir[d] # "none"

\* While a worker deploys, only the deployment it read at its start can be
\* readable, and when it has swept none is; no success is newer than a readable one.
Swept ==
  Calm =>
    /\ \A w \in Workers :
         /\ pc[w] \in {"insert"} \cup Unrecorded => \A d \in Dep : Readable(d)
            => d = seen[w]
         /\ pc[w] = "recordOk" => \A d \in Dep : ~Readable(d)
    /\ \A d, e \in Dep : Readable(d) /\ status[e] = "success" => e <= d

\* Under the invariants readers get what is readable.
LEMMA ServedIs ==
  ASSUME TypeOK, Copied, Swept, Calm, NEW d \in Dep
  PROVE  /\ Readable(d) <=> Served = d
         /\ Readable(d) => getActiveDeployment = d
<1> DEFINE S == {e \in Dep : status[e] = "success"}
<1>1. ASSUME Readable(d) PROVE getActiveDeployment = d
  <2>1. d \in S /\ \A e \in S : e <= d
    BY <1>1 DEF Swept, Readable
  <2>2. \A e \in S : IsNewest(e, S) => e = d
    BY <2>1 DEF IsNewest, Dep
  <2>3. IsNewest(d, S)
    BY <2>1 DEF IsNewest
  <2>4. Newest(S) = d
    BY <2>1, <2>2, <2>3 DEF Newest
  <2> QED
    BY <2>4 DEF getActiveDeployment
<1>2. ASSUME Readable(d) PROVE Served = d
  <2>1. dir[d] = "full"
    BY <1>2 DEF Copied, Readable
  <2>2. d # NoDep
    BY DEF Dep, NoDep
  <2> QED
    BY <1>1, <1>2, <2>1, <2>2 DEF Served
<1>3. ASSUME Served = d PROVE Readable(d)
  <2>1. d # NoDep
    BY DEF Dep, NoDep
  <2>2. d = getActiveDeployment /\ dir[d] \in {"partial", "full"}
    BY <1>3, <2>1 DEF Served
  <2>3. d \in S
    <3> HIDE DEF S
    <3>1. Newest(S) = d
      BY <2>2 DEF getActiveDeployment, S
    <3> QED
      BY <2>1, <3>1 DEF Newest, IsNewest
  <2> QED
    BY <2>2, <2>3 DEF Readable
<1> QED
  BY <1>1, <1>2, <1>3

\* What becomes readable has just been recorded.
LEMMA ReadableSteps ==
  ASSUME Basics, TypeOK', [Next]_vars, Calm', NEW d \in Dep, Readable(d)'
  PROVE  Readable(d) \/ \E w \in Workers : d = dep[w] /\ Record(w) /\ pc[w] = "recordOk"
<1>1. CASE status[d] = "success"
  BY <1>1, DirOfSuccess DEF Readable
<1>2. CASE status[d] # "success"
  BY <1>2, SuccessSteps DEF Readable
<1> QED
  BY <1>1, <1>2

\* A worker reads the readable deployment and sweeps it.
LEMMA SweptByWorker ==
  ASSUME Basics, TypeOK', Copied, Swept, [Next]_vars, Calm',
         NEW v \in Workers, NEW d \in Dep, Readable(d)'
  PROVE  /\ pc'[v] \in {"insert"} \cup Unrecorded => d = seen'[v]
         /\ pc'[v] # "recordOk"
<1>0. TypeOK /\ Calm /\ ~Fault
  BY CalmStep, NoFault DEF Basics, Calm
<1> SUFFICES ASSUME pc'[v] \in {"insert"} \cup Unrecorded
             PROVE  d = seen'[v] /\ pc'[v] # "recordOk"
  BY DEF Unrecorded, Inserted
<1>1. CASE WorkerActs(v)
  <2>1. ~Record(v)
    BY <1>0 DEF Record, Goto, TypeOK, Unrecorded, Inserted
  <2>2. pc[v] \in {"readActive", "insert"} \cup Unrecorded
    BY <1>0, <1>1 DEF WorkerActs, WorkerStep, TypeOK, Goto, Return, Unrecorded, Inserted,
      Enqueue, HasPendingTask, StartTask, JoinTask, ReadActive, InsertRow, InsertFails,
        MakeDirs, FilesThrow, MarkLoading, Prepare, SaveRevision, Validate, BeginCopy,
          EndCopy, Activate, ActivateNothing, ActivateFails, Sweep, Discard, Record,
            SetValue, EraseTask
  <2>3. InTask(v)
    BY <2>2 DEF InTask, Unrecorded, Inserted
  <2>4. \A w \in Workers : Record(w) => w = v
    BY <2>3 DEF Basics, OwnerInv, SingleDeployer, Record, InTask
  <2>5. Readable(d)
    BY <2>1, <2>4, ReadableSteps
  <2>6. CASE ReadActive(v)
    <3>1. seen'[v] = getActiveDeployment /\ pc'[v] = "insert"
      BY <1>0, <2>6 DEF ReadActive, Goto, TypeOK
    <3> QED
      BY <1>0, <2>5, <3>1, ServedIs
  <2>7. CASE Sweep(v)
    <3>1. d = seen[v] /\ seen[v] \in Dep
      BY <1>0, <2>5, <2>7 DEF Swept, Sweep, Unrecorded, Inserted
    <3>2. dir'[d] = "none"
      BY <1>0, <2>7, <3>1 DEF Sweep, TypeOK, Dep, NoDep
    <3> QED
      BY <3>2 DEF Readable
  <2>8. CASE ~ReadActive(v) /\ ~Sweep(v)
    <3>1. pc[v] \in {"insert"} \cup Unrecorded /\ seen'[v] = seen[v]
            /\ pc'[v] # "recordOk"
      BY <1>0, <1>1, <2>8 DEF WorkerActs, WorkerStep, TypeOK, Goto, Return, Unrecorded,
        Inserted, frame, Enqueue, HasPendingTask, StartTask, JoinTask, InsertRow,
          InsertFails, MakeDirs, FilesThrow, MarkLoading, Prepare, SaveRevision,
            Validate, BeginCopy, EndCopy, Activate, ActivateNothing, ActivateFails,
              Discard, Record, SetValue, EraseTask
    <3> QED
      BY <1>0, <2>5, <3>1 DEF Swept
  <2> QED
    BY <2>6, <2>7, <2>8
<1>2. CASE ~WorkerActs(v)
  <2>1. pc'[v] = pc[v] /\ seen'[v] = seen[v]
    BY <1>0, <1>2, MovesOrStays DEF Unrecorded, Inserted
  <2>2. InTask(v)
    BY <2>1 DEF InTask, Unrecorded, Inserted
  <2>3. \A w \in Workers : ~Record(w)
    BY <1>2, <2>2 DEF Basics, OwnerInv, SingleDeployer, Record, InTask, WorkerActs,
      WorkerStep
  <2>4. Readable(d)
    BY <2>3, ReadableSteps
  <2> QED
    BY <1>0, <2>1, <2>4 DEF Swept
<1> QED
  BY <1>1, <1>2

\* Swept is kept by every step.
LEMMA SweptStep ==
  ASSUME Basics, TypeOK', Copied, Swept, [Next]_vars
  PROVE  Swept'
<1> SUFFICES ASSUME Calm' PROVE Swept'
  BY DEF Swept
<1>0. TypeOK /\ Calm
  BY CalmStep DEF Basics
<1>1. ASSUME NEW d \in Dep, NEW e \in Dep, Readable(d)', status'[e] = "success"
      PROVE  e <= d
  <2>1. CASE Readable(d)
    <3>1. \A w \in Workers : pc[w] # "recordOk"
      BY <1>0, <2>1 DEF Swept
    <3>2. status[e] = "success"
      BY <1>1, <3>1, SuccessSteps
    <3> QED
      BY <1>0, <2>1, <3>2 DEF Swept
  <2>2. CASE ~Readable(d)
    <3>1. PICK w \in Workers : d = dep[w] /\ Record(w) /\ pc[w] = "recordOk"
      BY <1>1, <2>2, ReadableSteps
    <3>2. d = lastDep
      BY <3>1, Deployer DEF Unrecorded, Inserted
    <3>3. CASE status[e] = "success"
      BY <1>0, <3>2, <3>3 DEF Basics, Fresh, TypeOK, Dep
    <3>4. CASE status[e] # "success"
      <4>1. PICK u \in Workers : e = dep[u] /\ Record(u) /\ pc[u] = "recordOk"
        BY <1>1, <3>4, SuccessSteps
      <4>2. u = w
        BY <3>1, <4>1 DEF Basics, OwnerInv, SingleDeployer, InTask
      <4> QED
        BY <3>1, <4>1, <4>2 DEF Dep
    <3> QED
      BY <3>3, <3>4
  <2> QED
    BY <2>1, <2>2
<1> QED
  BY <1>1, SweptByWorker DEF Swept

\* The update that records a success is not refused.
LEMMA SuccessIsRecorded ==
  ASSUME Basics, LateIsLoading, Calm, TypeOK', faults' = 0,
         NEW w \in Workers, Record(w), pc[w] = "recordOk"
  PROVE  status[dep[w]] # "absent" => status'[dep[w]] = "success"
<1>0. TypeOK /\ ~Fault
  BY NoFault DEF Basics
<1>1. act[w] /\ InTask(w)
  BY DEF LateIsLoading, Late, InTask
<1>2. \A e \in Dep : active[e] => e = dep[w]
  BY <1>1 DEF Basics, OutcomeInv, OutcomeFitsIndex, Calm
<1>3. dep[w] \in Dep
  BY Deployer DEF Unrecorded, Inserted
<1>4. UpdateRow(dep[w], "success", act[w])
  BY <1>0 DEF Record
<1> QED
  BY <1>0, <1>2, <1>3, <1>4 DEF UpdateRow, TypeOK

\* An active deployment has all of its files; readers get it, or its worker is
\* about to record its success.
Activated ==
  Calm /\ crashes = 0 =>
    \A d \in Dep : active[d] =>
      /\ dir[d] = "full"
      /\ \/ status[d] = "success"
         \/ \E w \in Workers : dep[w] = d /\ pc[w] \in Late

\* The files of an active deployment are not removed.
LEMMA ActiveKeepsFiles ==
  ASSUME Basics, TypeOK', LateIsLoading, Activated, [Next]_vars, Calm', crashes' = 0,
         NEW d \in Dep, active[d]
  PROVE  dir'[d] = "full"
<1>0. TypeOK /\ Calm /\ crashes = 0
  BY CalmStep, HistoryGrows DEF Basics
<1>1. ASSUME NEW w \in Workers, pc[w] \in Early PROVE d # dep[w]
  BY <1>1 DEF Basics, NotYetActive, NotActive
<1>2. ASSUME NEW w \in Workers, MakeDirs(w) \/ BeginCopy(w) \/ EndCopy(w) \/ Discard(w)
      PROVE  d # dep[w]
  BY <1>1, <1>2 DEF MakeDirs, BeginCopy, EndCopy, Discard, Early, Unrecorded, Inserted,
    Late
<1>3. ASSUME NEW w \in Workers, Sweep(w) PROVE d # seen[w]
  <2>1. act[w] /\ InTask(w)
    BY <1>0, <1>3 DEF LateIsLoading, Sweep, Late, InTask
  <2>2. d = dep[w]
    BY <1>0, <2>1 DEF Basics, OutcomeInv, OutcomeFitsIndex, Calm
  <2> QED
    BY <1>3, <2>2, Deployer DEF Sweep, Unrecorded, Inserted, Dep
<1>4. ASSUME NEW r \in Deletions, DeleteFiles(r) PROVE d # delDep[r]
  BY <1>4 DEF DeleteFiles, Basics, DeletedStays
<1>5. ~CleanupFiles /\ ~InvalidateProject
  BY <1>0 DEF Basics, StartInv, Calm, CleanupFiles, InvalidateProject
<1> QED
  BY <1>0, <1>2, <1>3, <1>4, <1>5, DirSteps DEF Activated

\* Activated is kept by every step.
LEMMA ActivatedStep ==
  ASSUME Basics, Basics', LateIsLoading, Copied, Activated, [Next]_vars
  PROVE  Activated'
<1>t. TypeOK'
  BY DEF Basics
<1> SUFFICES ASSUME Calm', crashes' = 0, NEW d \in Dep, active'[d]
             PROVE  /\ dir'[d] = "full"
                    /\ \/ status'[d] = "success"
                       \/ \E w \in Workers : dep'[w] = d /\ pc'[w] \in Late
  BY DEF Activated
<1>0. TypeOK /\ Calm /\ crashes = 0 /\ faults' = 0 /\ ~Fault /\ ~Crash
  BY <1>t, CalmStep, HistoryGrows, NoFault DEF Basics, Calm
<1>1. status'[d] # "absent"
  BY DEF Basics, DeletedStays
<1>2. ASSUME NEW w \in Workers, d = dep[w], Record(w), pc[w] = "recordOk"
      PROVE  status'[d] = "success"
  BY <1>t, <1>0, <1>1, <1>2, SuccessIsRecorded, AbsentStays, Deployer DEF Unrecorded,
    Inserted, Dep
<1>3. CASE active[d]
  <2>1. dir'[d] = "full"
    BY <1>t, <1>0, <1>3, ActiveKeepsFiles
  <2>2. CASE status[d] = "success"
    BY <1>t, <1>0, <1>1, <2>1, <2>2, FinalStep DEF Basics, Calm
  <2>3. ASSUME NEW w \in Workers, dep[w] = d, pc[w] \in Late
        PROVE  status'[d] = "success" \/ (dep'[w] = d /\ pc'[w] \in Late)
    <3>1. CASE ~WorkerActs(w)
      BY <1>0, <2>3, <3>1, MovesOrStays DEF Late
    <3>2. CASE WorkerActs(w)
      <4>1. Sweep(w) \/ (Record(w) /\ pc[w] = "recordOk")
        BY <1>0, <2>3, <3>2 DEF WorkerActs, WorkerStep, Late, Enqueue, HasPendingTask,
          StartTask, JoinTask, ReadActive, InsertRow, InsertFails, MakeDirs, FilesThrow,
            MarkLoading, Prepare, SaveRevision, Validate, BeginCopy, EndCopy, Activate,
              ActivateNothing, ActivateFails, Discard, Record, SetValue, EraseTask
      <4>2. CASE Sweep(w)
        BY <1>0, <2>3, <4>2 DEF Sweep, Goto, TypeOK, Late, frame
      <4> QED
        BY <1>2, <2>3, <4>1, <4>2
    <3> QED
      BY <3>1, <3>2
  <2> QED
    BY <1>0, <1>3, <2>1, <2>2, <2>3 DEF Activated
<1>4. CASE ~active[d]
  <2>1. PICK w \in Workers : d = dep[w] /\ status[d] # "absent" /\ (Activate(w)
          \/ (Record(w) /\ act[w]))
    BY <1>0, <1>4, ActiveSteps DEF Basics, OutcomeInv
  <2>2. CASE Activate(w)
    <3>1. dir[d] = "full" /\ dir' = dir /\ dep' = dep /\ pc'[w] = "sweep"
      BY <1>0, <2>1, <2>2 DEF Copied, Activate, Goto, TypeOK
    <3> QED
      BY <2>1, <3>1 DEF Late
  <2>3. CASE Record(w) /\ act[w]
    <3>1. pc[w] = "recordOk"
      BY <2>3 DEF Record, Basics, OutcomeInv, ActivatedIsLate
    <3>2. dir[d] = "full" /\ dir' = dir
      BY <1>0, <2>1, <2>3, <3>1 DEF Copied, Record
    <3> QED
      BY <1>2, <2>1, <2>3, <3>1, <3>2
  <2> QED
    BY <2>1, <2>2, <2>3
<1> QED
  BY <1>3, <1>4

\* As long as no row was deleted, a directory belongs to a successful
\* deployment, to a worker that still has to record an outcome, or to a row that
\* the clean-up is about to read or has read.
AllRows == \A d \in 1..lastDep : status[d] # "absent"
ClearedLater(d) == status[d] \in InProgress /\ (startup = "read" \/ d \in stale)
HasOwner(d) ==
  \/ status[d] = "success"
  \/ \E w \in Workers : dep[w] = d /\ pc[w] \in Unrecorded
  \/ ClearedLater(d)
Owned == Calm /\ AllRows => \A d \in Dep : dir[d] # "none" => HasOwner(d)

\* A worker hands the directory over to the row, or the crash to the clean-up.
LEMMA OwnedByWorker ==
  ASSUME Basics, Basics', LateIsLoading, Copied, [Next]_vars, Calm', AllRows, AllRows',
         NEW w \in Workers, pc[w] \in Unrecorded,
         NEW d \in Dep, d = dep[w], dir'[d] # "none"
  PROVE  HasOwner(d)'
<1>0. TypeOK /\ TypeOK' /\ Calm /\ faults' = 0 /\ ~Fault
  <2>1. TypeOK /\ TypeOK'
    BY DEF Basics
  <2>2. faults' = 0 /\ Calm
    BY <2>1, CalmStep DEF Calm
  <2> QED
    BY <2>1, <2>2, NoFault
<1>d. d = lastDep /\ status[d] # "absent"
  BY Deployer DEF AllRows, Dep
<1>1. CASE dep'[w] = dep[w] /\ pc'[w] \in Unrecorded
  BY <1>1 DEF HasOwner
<1>2. CASE Crash
  <2>1. status[d] \in InProgress
    <3>1. status[d] \notin {"success", "error"}
      BY <1>0 DEF Basics, Unsettled, Calm
    <3>2. status[d] \in RowStatus
      BY <1>0 DEF TypeOK
    <3> QED
      BY <1>d, <3>1, <3>2 DEF RowStatus, InProgress
  <2>2. status' = status /\ startup' = "read"
    BY <1>2, <1>d DEF Crash, db
  <2> QED
    BY <2>1, <2>2 DEF HasOwner, ClearedLater
<1>3. CASE Record(w)
  <2>1. CASE pc[w] = "recordOk"
    BY <1>0, <1>3, <1>d, <2>1, SuccessIsRecorded DEF HasOwner
  <2>2. CASE pc[w] = "recordError"
    BY <1>0, <1>3, <1>d, <2>2 DEF Copied, Record
  <2> QED
    BY <1>3, <2>1, <2>2 DEF Record
<1>4. CASE WorkerActs(w) /\ ~Record(w)
  <2>1. dep'[w] = dep[w] /\ pc'[w] \in Unrecorded
    BY <1>0, <1>4 DEF WorkerActs, WorkerStep, TypeOK, Goto, Return, Unrecorded, Inserted,
      frame, Enqueue, HasPendingTask, StartTask, JoinTask, ReadActive, InsertRow,
        InsertFails, MakeDirs, FilesThrow, MarkLoading, Prepare, SaveRevision, Validate,
          BeginCopy, EndCopy, Activate, ActivateNothing, ActivateFails, Sweep, Discard,
            SetValue, EraseTask
  <2> QED
    BY <1>1, <2>1
<1>5. CASE ~WorkerActs(w) /\ ~Crash
  BY <1>0, <1>1, <1>5, MovesOrStays DEF Unrecorded, Inserted
<1> QED
  BY <1>2, <1>3, <1>4, <1>5

\* The clean-up lets go of a row only with its directory.
LEMMA OwnedByCleanup ==
  ASSUME Basics, Basics', [Next]_vars, Calm', AllRows',
         NEW d \in Dep, dir'[d] # "none", ClearedLater(d)
  PROVE  ClearedLater(d)'
<1>0. TypeOK /\ TypeOK' /\ Calm /\ ~Fault /\ ~RemoveProject
  <2>1. TypeOK /\ TypeOK'
    BY DEF Basics
  <2>2. faults' = 0 /\ Calm /\ ~RemoveProject
    BY <2>1, CalmStep DEF Calm
  <2> QED
    BY <2>1, <2>2, NoFault
<1>1. startup # "done" /\ \A w \in Workers : ~InTask(w)
  BY <1>0 DEF ClearedLater, Basics, StartInv, Calm
<1>2. d <= lastDep /\ status'[d] # "absent"
  <2>1. d <= lastDep
    BY <1>0 DEF Basics, Fresh, ClearedLater, InProgress, TypeOK, Dep
  <2>2. lastDep' >= lastDep
    BY <1>0, LastDepStep DEF TypeOK
  <2> QED
    BY <1>0, <2>1, <2>2 DEF AllRows, TypeOK, Dep
<1>3. status'[d] = status[d]
  <2>1. \A w \in Workers : ~Record(w) /\ pc[w] \notin {"loading", "revision", "activate"}
    BY <1>1 DEF InTask, Record
  <2>2. ~FailLoading
    BY DEF ClearedLater, FailLoading
  <2> QED
    BY <1>0, <1>2, <2>1, <2>2, StatusSteps DEF TypeOK, Dep
<1>4. startup' = "read" \/ d \in stale'
  <2>1. ASSUME NEW w \in Workers, WorkerActs(w) PROVE UNCHANGED <<startup, stale>>
    BY <2>1, WorkersFrame
  <2>2. ASSUME NEW r \in Deletions, DeletionActs(r) PROVE UNCHANGED <<startup, stale>>
    BY <2>2 DEF DeletionActs, DeletionStep, DeleteRead, DeleteRow, DeleteRefused,
      DeleteFiles, rest
  <2>3. CASE RemoveProject \/ InvalidateProject \/ CreateProject \/ UNCHANGED vars
    BY <2>3 DEF RemoveProject, InvalidateProject, CreateProject, vars, rest, ClearedLater
  <2>4. CASE Crash
    BY <2>4 DEF Crash
  <2>5. CASE CleanupRead
    BY <1>0, <2>5 DEF CleanupRead, ClearedLater
  <2>6. CASE CleanupFiles
    BY <1>0, <2>6 DEF CleanupFiles, ClearedLater, TypeOK
  <2>7. ~CleanupThrows /\ ~FailLoading
    BY <1>0 DEF CleanupThrows, FailLoading, ClearedLater
  <2> QED
    BY <2>1, <2>2, <2>3, <2>4, <2>5, <2>6, <2>7, OthersFrame DEF Cleanup, ClearedLater
<1> QED
  BY <1>3, <1>4 DEF ClearedLater

\* Owned is kept by every step.
LEMMA OwnedStep ==
  ASSUME Basics, Basics', LateIsLoading, Copied, Owned, [Next]_vars
  PROVE  Owned'
<1> SUFFICES ASSUME Calm', AllRows', NEW d \in Dep, dir'[d] # "none"
             PROVE  HasOwner(d)'
  BY DEF Owned
<1>0. TypeOK /\ TypeOK' /\ Calm /\ ~Fault
  <2>1. TypeOK /\ TypeOK'
    BY DEF Basics
  <2>2. faults' = 0 /\ Calm
    BY <2>1, CalmStep DEF Calm
  <2> QED
    BY <2>1, <2>2, NoFault
<1>1. lastDep' >= lastDep
  BY <1>0, LastDepStep DEF TypeOK
<1>2. AllRows
  <2>1. ASSUME NEW e \in 1..lastDep PROVE status[e] # "absent"
    <3>1. e \in Dep /\ e <= lastDep /\ e \in 1..lastDep'
      BY <1>0, <1>1, BoundsAssumption DEF TypeOK, Dep
    <3>2. status'[e] # "absent"
      BY <3>1 DEF AllRows
    <3> QED
      BY <1>0, <3>1, <3>2, AbsentStays
  <2> QED
    BY <2>1 DEF AllRows
<1>3. CASE dir[d] # "none"
  <2>1. d <= lastDep
    BY <1>0, <1>3 DEF Basics, Fresh, TypeOK, Dep
  <2>2. CASE status[d] = "success"
    <3>1. status'[d] # "absent"
      BY <1>0, <1>1, <2>1 DEF AllRows, TypeOK, Dep
    <3>2. status'[d] = "success"
      BY <1>0, <2>2, <3>1, FinalStep DEF Basics, Calm
    <3> QED
      BY <3>2 DEF HasOwner
  <2>3. ASSUME NEW w \in Workers, dep[w] = d, pc[w] \in Unrecorded PROVE HasOwner(d)'
    BY <1>2, <2>3, OwnedByWorker
  <2>4. CASE ClearedLater(d)
    BY <2>4, OwnedByCleanup DEF HasOwner
  <2> QED
    BY <1>0, <1>2, <1>3, <2>2, <2>3, <2>4 DEF Owned, HasOwner
<1>4. CASE dir[d] = "none"
  <2>1. PICK w \in Workers : d = dep[w] /\ (MakeDirs(w) \/ BeginCopy(w) \/ EndCopy(w))
    BY <1>0, <1>4, DirSteps
  <2>2. dep'[w] = d /\ pc'[w] \in Unrecorded
    BY <1>0, <2>1 DEF MakeDirs, BeginCopy, EndCopy, Goto, TypeOK, frame, Unrecorded,
      Inserted
  <2> QED
    BY <2>2 DEF HasOwner
<1> QED
  BY <1>3, <1>4

-----------------------------------------------------------------------------
(* The theorems about rows and files *)

\* The invariants about rows and files, while it is calm.
FilesInv == LateIsLoading /\ Copied /\ Swept /\ Activated /\ Owned

\* The initial state has them.
LEMMA BasicsInit == Init => Basics
<1> SUFFICES ASSUME Init PROVE Basics
  OBVIOUS
<1> USE BoundsAssumption DEF Init
<1>1. TypeOK
  BY TypeInit
<1>2. OwnerInv /\ OutcomeInv
  BY DEF OwnerInv, SingleDeployer, DeployerHoldsKey, InTask, OutcomeInv, ActivatedIsLate,
    OutcomeFitsIndex
<1>3. Fresh /\ DeletedStays /\ NotYetActive
  BY DEF Fresh, DeletedStays, NotYetActive, Early, Unrecorded, Inserted
<1>4. Known
  BY DEF Known, KnownToWorkers, KnownToDeletions, KnownToCleanup, Inserted, NoDep
<1>5. StartInv /\ Unsettled
  BY DEF StartInv, Unsettled, Unrecorded, Inserted, InTask
<1> QED
  BY <1>1, <1>2, <1>3, <1>4, <1>5 DEF Basics

\* Together they are inductive.
LEMMA BasicsStep ==
  ASSUME Basics, [Next]_vars
  PROVE  Basics'
<1> USE DEF Basics
<1>1. TypeOK'
  BY TypeStep
<1>2. OwnerInv' /\ OutcomeInv'
  BY OwnerStep, OutcomeStep
<1>3. Fresh' /\ KnownToWorkers' /\ KnownToDeletions' /\ KnownToCleanup'
  BY <1>1, FreshStep, KnownToWorkersStep, KnownToDeletionsStep, KnownToCleanupStep
    DEF Known, OutcomeInv
<1>4. DeletedStays' /\ NotYetActive'
  BY <1>1, DeletedStaysStep, NotYetActiveStep DEF Known, OutcomeInv
<1>5. StartInv' /\ Unsettled'
  BY <1>1, StartStep, UnsettledStep
<1> QED
  BY <1>1, <1>2, <1>3, <1>4, <1>5 DEF Known

\* So they hold for ever.
LEMMA BasicsHold == Spec => []Basics
BY BasicsInit, BasicsStep, PTL DEF Spec

\* Nothing is deployed yet.
LEMMA FilesInit == Init => FilesInv
BY DEF Init, FilesInv, LateIsLoading, Copied, Swept, Activated, Owned, Late, Unrecorded,
  Inserted, Readable

\* FilesInv is inductive, given Basics.
LEMMA FilesStep ==
  ASSUME Basics, Basics', FilesInv, [Next]_vars
  PROVE  FilesInv'
<1>1. TypeOK'
  BY DEF Basics
<1> QED
  BY <1>1, LateIsLoadingStep, CopiedStep, SweptStep, ActivatedStep, OwnedStep DEF FilesInv

\* So it holds for ever.
LEMMA FilesHold == Spec => []FilesInv
BY BasicsHold, FilesInit, FilesStep, PTL DEF Spec

\* A recorded outcome is final: the status of a row that is SUCCESS or ERROR
\* changes no more, until the row is deleted, unless a deployment overlapped
\* the start-up clean-up; whatever fails, crashes or is removed.
THEOREM OutcomeStays == Spec => OutcomeIsFinal
<1>1. Basics /\ Basics' /\ [Next]_vars =>
        [\A d \in Dep : status[d] \in {"success", "error"} /\ ~raced =>
           status'[d] \in {status[d], "absent"}]_vars
  BY FinalStep DEF Basics
<1> QED
  BY <1>1, BasicsHold, PTL DEF Spec, OutcomeIsFinal

\* Readers are sent to a deployment or to none.
LEMMA ServedType == Served \in Dep \cup {NoDep}
BY ActiveDeploymentType DEF Served

\* While no statement fails, readers are never sent to a deployment that misses
\* files, whatever is deleted and wherever the process crashes.
THEOREM CompleteServed == Spec => []ServedIsComplete
<1>1. Basics /\ FilesInv => ServedIsComplete
  <2> SUFFICES ASSUME Basics, FilesInv, Calm, Served # NoDep PROVE dir[Served] = "full"
    BY DEF ServedIsComplete, Calm
  <2>1. Served \in Dep
    BY ServedType
  <2>2. Readable(Served)
    BY <2>1, ServedIs DEF Basics, FilesInv
  <2> QED
    BY <2>1, <2>2 DEF Readable, FilesInv, Copied
<1> QED
  BY <1>1, BasicsHold, FilesHold, PTL

\* Between requests, a row whose active column is set is the deployment that
\* readers get, with all of its files.
THEOREM ActiveServed == Spec => []ActiveIsServed
<1>1. Basics /\ FilesInv => ActiveIsServed
  <2> SUFFICES ASSUME Basics, FilesInv, Undisturbed, removals = 0, Quiet, NEW d \in Dep,
                      active[d]
               PROVE  d = Served /\ dir[d] = "full"
    BY DEF ActiveIsServed
  <2>1. Calm /\ crashes = 0
    BY DEF Calm, Undisturbed, Basics, StartInv
  <2>2. \A w \in Workers : pc[w] \notin Late
    BY DEF Quiet, InTask, Late
  <2>3. dir[d] = "full" /\ Readable(d)
    BY <2>1, <2>2 DEF FilesInv, Activated, Readable
  <2> QED
    BY <2>1, <2>3, ServedIs DEF Basics, FilesInv
<1> QED
  BY <1>1, BasicsHold, FilesHold, PTL

\* Between requests, every directory on the disk is the one that readers get:
\* failed, crashed and superseded deployments are cleared.
THEOREM NoOrphans == Spec => []NoOrphanFiles
<1>1. Basics /\ FilesInv => NoOrphanFiles
  <2> SUFFICES ASSUME Basics, FilesInv, Calm, Quiet, startup = "done", AllRows,
                      NEW d \in Dep, dir[d] # "none"
               PROVE  d = Served
    BY DEF NoOrphanFiles, Calm, AllRows
  <2>1. \A w \in Workers : pc[w] \notin Unrecorded
    BY DEF Quiet, InTask, Unrecorded, Inserted
  <2>2. ~ClearedLater(d)
    BY DEF ClearedLater, Basics, StartInv
  <2>3. Readable(d)
    BY <2>1, <2>2 DEF FilesInv, Owned, HasOwner, Readable
  <2> QED
    BY <2>3, ServedIs DEF Basics, FilesInv
<1> QED
  BY <1>1, BasicsHold, FilesHold, PTL

-----------------------------------------------------------------------------
(* Readers move forward *)

\* A worker that has yet to create the directory of its deployment.
Coming(w) == pc[w] \in {"mkdir", "loading", "prepare", "revision", "validate", "copy"}

\* It comes with the insertion of its row.
LEMMA ComingSteps ==
  ASSUME TypeOK, [Next]_vars, NEW w \in Workers, Coming(w)'
  PROVE  (Coming(w) /\ dep'[w] = dep[w]) \/ (InsertRow(w) /\ dep'[w] = lastDep + 1)
<1>1. CASE WorkerActs(w)
  BY <1>1 DEF WorkerActs, WorkerStep, TypeOK, Goto, Return, Coming, frame, Enqueue,
    HasPendingTask, StartTask, JoinTask, ReadActive, InsertRow, InsertFails, MakeDirs,
      FilesThrow, MarkLoading, Prepare, SaveRevision, Validate, BeginCopy, EndCopy,
        Activate, ActivateNothing, ActivateFails, Sweep, Discard, Record, SetValue,
          EraseTask
<1>2. CASE ~WorkerActs(w)
  BY <1>2, MovesOrStays DEF Coming
<1> QED
  BY <1>1, <1>2

\* What was taken away does not come back.
LEMMA GoneStays ==
  ASSUME Basics, Basics', FilesInv, [Next]_vars, Calm', NEW d \in gone
  PROVE  d \in gone'
<1>0. TypeOK /\ TypeOK' /\ Calm
  <2>1. TypeOK /\ TypeOK'
    BY DEF Basics
  <2> QED
    BY <2>1, CalmStep
<1>1. d \in Dep /\ d \in 1..lastDep /\ d # lastDep + 1 /\ d \in 1..lastDep'
  <2>1. d \in 1..lastDep
    BY DEF gone
  <2>2. lastDep' >= lastDep
    BY <1>0, LastDepStep DEF TypeOK
  <2> QED
    BY <1>0, <2>1, <2>2, BoundsAssumption DEF TypeOK, Dep
<1>2. dir[d] \in {"none", "empty"} /\ \A w \in Workers : dep[w] = d => ~Coming(w)
  BY DEF gone, Coming
<1>3. ASSUME NEW w \in Workers, dep'[w] = d PROVE ~Coming(w)'
  BY <1>0, <1>1, <1>2, <1>3, ComingSteps
<1>4. dir'[d] \in {"none", "empty"}
  <2>1. ASSUME NEW w \in Workers, d = dep[w]
        PROVE  ~MakeDirs(w) /\ ~BeginCopy(w) /\ ~EndCopy(w)
    <3>1. ~MakeDirs(w) /\ ~BeginCopy(w)
      BY <1>2, <2>1 DEF MakeDirs, BeginCopy, Coming
    <3>2. ~EndCopy(w)
      BY <1>0, <1>2, <2>1 DEF EndCopy, FilesInv, Copied
    <3> QED
      BY <3>1, <3>2
  <2> QED
    BY <1>0, <1>1, <1>2, <2>1, DirSteps
<1> QED
  BY <1>1, <1>3, <1>4 DEF gone, Coming

\* A row that goes was deleted: nothing else changes for readers.
LEMMA DeletionKeepsGone ==
  ASSUME TypeOK, TypeOK', [Next]_vars, Calm', NEW d \in Dep, status[d] = "success",
         status'[d] = "absent"
  PROVE  gone' = gone
<1>1. ASSUME NEW w \in Workers, WorkerActs(w) PROVE FALSE
  <2>1. CASE MarkLoading(w) \/ SaveRevision(w) \/ Record(w)
    BY <2>1, UpdateFrame
  <2>2. CASE InsertRow(w) \/ Activate(w)
    BY <2>2 DEF InsertRow, Activate, TypeOK
  <2> QED
    BY <1>1, <2>1, <2>2 DEF WorkerActs, WorkerStep, db, Enqueue, HasPendingTask,
      StartTask, JoinTask, ReadActive, InsertFails, MakeDirs, FilesThrow, Prepare,
        Validate, BeginCopy, EndCopy, ActivateNothing, ActivateFails, Sweep, Discard,
          SetValue, EraseTask
<1>2. ~RemoveProject
  BY CalmStep
<1>3. CASE InvalidateProject \/ CreateProject \/ Crash \/ Cleanup \/ UNCHANGED vars
  BY <1>3 DEF InvalidateProject, CreateProject, Crash, Cleanup, CleanupRead,
    CleanupFiles, CleanupThrows, FailLoading, vars, db, InProgress, TypeOK
<1>4. ASSUME NEW r \in Deletions, DeletionActs(r)
      PROVE  UNCHANGED <<lastDep, dir, pc, dep>>
  BY <1>4 DEF DeletionActs, DeletionStep, DeleteRead, DeleteRow, DeleteRefused,
    DeleteFiles, db, work, frame
<1> QED
  BY <1>1, <1>2, <1>3, <1>4, OthersFrame DEF gone

\* At first readers find nothing.
LEMMA ReadersInit == Init => Readers!Init
<1> SUFFICES ASSUME Init PROVE Served = NoDep /\ gone = {}
  BY DEF Readers!Init
<1>1. getActiveDeployment = NoDep
  BY DEF Init, getActiveDeployment, Newest, IsNewest
<1>2. gone = {}
  BY DEF Init, gone
<1> QED
  BY <1>1, <1>2 DEF Served

\* Every step of the deployments is one that readers are promised, or none.
LEMMA ReadersStep ==
  ASSUME Basics, Basics', FilesInv, FilesInv', [Next]_vars, Calm'
  PROVE  [Readers!Next]_(Readers!vars)
<1>0. TypeOK /\ TypeOK' /\ Calm
  <2>1. TypeOK /\ TypeOK'
    BY DEF Basics
  <2> QED
    BY <2>1, CalmStep
<1>s. Served \in Dep \cup {NoDep} /\ Served' \in Dep \cup {NoDep} /\ NoDep \notin Dep
  <2>1. Served \in Dep \cup {NoDep}
    BY ServedType
  <2>2. Served' \in Dep \cup {NoDep}
    <3>1. (Served \in Dep \cup {NoDep})'
      BY ServedType, PTL
    <3> QED
      BY <3>1 DEF Dep, NoDep
  <2> QED
    BY <2>1, <2>2 DEF Dep, NoDep
<1>r. ASSUME NEW d \in Dep
      PROVE  (Readable(d) <=> Served = d) /\ (Readable(d)' <=> Served' = d)
  <2>1. Readable(d) <=> Served = d
    BY <1>0, ServedIs DEF FilesInv
  <2>2. (Readable(d) <=> Served = d)'
    BY <1>0, ServedIs, PTL DEF FilesInv
  <2> QED
    BY <2>1, <2>2
<1>g. gone \subseteq gone' /\ gone' \subseteq Dep
  <2>1. gone' \subseteq Dep
    BY <1>0, BoundsAssumption DEF gone, Dep, TypeOK
  <2> QED
    BY <1>0, <2>1, GoneStays
<1>1. CASE Served' = Served
  <2> DEFINE D == gone' \ gone
  <2>1. Served \notin D
    <3>1. ASSUME NEW d \in Dep, Served = d PROVE d \notin gone'
      <4>1. Readable(d)'
        BY <1>1, <1>r, <3>1
      <4>2. dir'[d] = "full"
        BY <4>1 DEF FilesInv, Copied, Readable
      <4> QED
        BY <4>2 DEF gone
    <3> QED
      BY <1>s, <1>g, <3>1
  <2>2. gone' = gone \cup D /\ D \in SUBSET Dep
    BY <1>g
  <2>3. Readers!Withdraw(D)
    BY <1>1, <2>1, <2>2 DEF Readers!Withdraw
  <2> QED
    BY <2>2, <2>3 DEF Readers!Next
<1>2. CASE Served' # Served /\ Served' \in Dep
  <2>1. PICK d \in Dep : d = Served'
    BY <1>2
  <2>2. Readable(d)' /\ ~Readable(d)
    BY <1>r, <1>2, <2>1
  <2>3. PICK w \in Workers : d = dep[w] /\ Record(w) /\ pc[w] = "recordOk"
    BY <1>0, <2>2, ReadableSteps
  <2>4. Served = NoDep
    <3>1. \A e \in Dep : ~Readable(e)
      BY <1>0, <2>3 DEF FilesInv, Swept
    <3> QED
      BY <1>s, <1>r, <3>1
  <2>5. d \notin gone
    <3>1. dir[d] = "full"
      BY <1>0, <2>3 DEF FilesInv, Copied
    <3> QED
      BY <3>1 DEF gone
  <2>6. gone' = gone
    <3>1. UNCHANGED <<lastDep, dir, dep>>
      BY <2>3 DEF Record, frame
    <3>2. \A v \in Workers : Coming(v)' <=> Coming(v)
      BY <1>0, <2>3 DEF Record, Goto, Coming, TypeOK
    <3> QED
      BY <3>1, <3>2 DEF gone, Coming
  <2>7. Readers!Publish(d)
    BY <1>2, <2>1, <2>4, <2>5, <2>6 DEF Readers!Publish, Dep, NoDep
  <2> QED
    BY <2>7 DEF Readers!Next
<1>3. CASE Served' # Served /\ Served' = NoDep
  <2>1. PICK d \in Dep : d = Served
    BY <1>s, <1>3
  <2>2. Readable(d) /\ ~Readable(d)'
    BY <1>r, <1>s, <1>3, <2>1
  <2>3. CASE dir'[d] = "none"
    <3> DEFINE D == gone' \ gone
    <3>1. d \notin gone
      BY <1>0, <2>2 DEF gone, FilesInv, Copied, Readable
    <3>2. d <= lastDep /\ d \in 1..lastDep'
      <4>1. d <= lastDep
        BY <1>0, <2>2 DEF Basics, Fresh, TypeOK, Dep, Readable
      <4>2. lastDep' >= lastDep
        BY <1>0, LastDepStep DEF TypeOK
      <4> QED
        BY <1>0, <4>1, <4>2, BoundsAssumption DEF TypeOK, Dep
    <3>3. ASSUME NEW w \in Workers, dep'[w] = d PROVE ~Coming(w)'
      <4>1. ~(Coming(w) /\ dep[w] = d)
        BY <1>0, <2>2 DEF Coming, Unrecorded, Inserted, Basics, Unsettled, Calm, Readable
      <4>2. d # lastDep + 1
        BY <1>0, <3>2 DEF TypeOK, Dep
      <4> QED
        BY <1>0, <3>3, <4>1, <4>2, ComingSteps
    <3>4. d \in gone'
      BY <2>3, <3>2, <3>3 DEF gone, Coming
    <3>5. gone' = gone \cup D /\ D \in SUBSET Dep /\ d \in D
      BY <1>g, <3>1, <3>4
    <3>6. Readers!Withdraw(D)
      BY <1>3, <2>1, <3>5 DEF Readers!Withdraw
    <3> QED
      BY <3>5, <3>6 DEF Readers!Next
  <2>4. CASE dir'[d] # "none"
    <3>1. status'[d] # "success"
      BY <2>2, <2>4 DEF Readable
    <3>2. status[d] = "success" /\ status'[d] = "absent"
      BY <1>0, <2>2, <3>1, FinalStep DEF Basics, Readable, Calm
    <3>3. gone' = gone
      BY <1>0, <3>2, DeletionKeepsGone
    <3>4. Readers!Unlist
      BY <1>3, <3>3 DEF Readers!Unlist
    <3> QED
      BY <3>4 DEF Readers!Next
  <2> QED
    BY <2>3, <2>4
<1> QED
  BY <1>1, <1>2, <1>3, <1>s

\* The deployments implement Publication, as long as no statement fails, the
\* project stays and no deployment overlaps the start-up clean-up: readers only
\* move to newer content, and what was taken away stays away.  Requests,
\* deletions and crashes may come in any order.
THEOREM ReadersForward == Spec /\ []Calm => ReadersMoveForward
<1>1. Basics /\ Basics' /\ FilesInv /\ FilesInv' /\ [Next]_vars /\ Calm'
        => [Readers!Next]_(Readers!vars)
  BY ReadersStep
<1> QED
  BY <1>1, ReadersInit, BasicsHold, FilesHold, PTL DEF Spec, ReadersMoveForward,
    Readers!Spec

\* In particular where nothing fails, crashes or is removed: there it is always
\* calm.
COROLLARY ReadersForwardUndisturbed ==
  ASSUME MaxFaults = 0, MaxRemovals = 0, MaxCrashes = 0
  PROVE  Spec => ReadersMoveForward
<1>1. Basics => Calm
  BY DEF Basics, TypeOK, StartInv, Calm
<1> QED
  BY <1>1, BasicsHold, ReadersForward, PTL

=============================================================================
