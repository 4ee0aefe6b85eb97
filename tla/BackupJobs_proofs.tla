-------------------------- MODULE BackupJobs_proofs --------------------------
(***************************************************************************)
(* Theorems about the job queue of BackupJobs, for every set of runs and   *)
(* every bound on the failures; for every set of API processes, except     *)
(* those that assume OneInstance, the deployment with one.                 *)
(***************************************************************************)
EXTENDS BackupJobs, TLAPS

-----------------------------------------------------------------------------
(* Lemmas about the operators of the model.                                *)

(* The phase and the percentage of every stage may stand in a row, and     *)
(* only a backup has an upload stage.                                      *)
LEMMA StageValues ==
    ASSUME NEW r \in Runs, NEW k \in 1..LastStage
    PROVE  /\ StageOf(r, k).phase \in Phases
           /\ StageOf(r, k).percent \in 1..99
           /\ StageOf(r, k).phase = "upload" => r \in BackupIds
<1>1. k \in 1..5
  BY DEF LastStage
<1>2. /\ BackupStages[k].phase \in BackupPhases
      /\ BackupStages[k].percent \in 1..99
  BY <1>1 DEF BackupStages, BackupPhases
<1>3. /\ RestoreStages[k].phase \in RestorePhases
      /\ RestoreStages[k].percent \in 1..99
  BY <1>1 DEF RestoreStages, RestorePhases
<1>4. BackupPhases \subseteq Phases /\ RestorePhases \subseteq Phases
  BY DEF Phases
<1>5. "upload" \notin RestorePhases
  BY DEF RestorePhases
<1> QED
  BY <1>2, <1>3, <1>4, <1>5 DEF StageOf

(* Every way of writing a row gives a row of the right type.               *)
LEMMA UpdatedValue ==
    ASSUME NEW row \in Row, NEW status \in Status, NEW phase \in Phases,
           NEW progress \in 0..100
    PROVE  Updated(row, status, phase, progress) \in Row
  BY DEF Row, Updated

LEMMA NoRowValue == NoRow \in Row /\ \A row \in Row : GoneRow(row) \in Row
<1>1. {"unborn", "gone"} \subseteq Status /\ "" \in Phases /\ 0 \in 0..100 /\ 0 \in Nat
  BY DEF Status, Phases
<1>2. ASSUME NEW row \in Row PROVE GoneRow(row) \in Row
  <2>1. row.progress \in 0..100
    BY DEF Row
  <2> QED
    BY <1>1, <2>1 DEF Row, GoneRow
<1>3. NoRow \in Row
  BY <1>1 DEF Row, NoRow
<1> QED
  BY <1>2, <1>3

LEMMA RowConstants ==
    /\ {"unborn", "gone", "pending", "running", "completed", "failed"} \subseteq Status
    /\ {"", "queued", "initializing", "completed", "failed"} \subseteq Phases
  BY DEF Status, Present, Terminal, Phases

LEMMA InsertedValues ==
    ASSUME clock \in Nat
    PROVE  /\ Inserted("pending", "queued", 0) \in Row
           /\ Inserted("completed", "completed", 100) \in Row
           /\ Inserted("failed", "failed", 1) \in Row
<1>1. ASSUME NEW status \in Status, NEW phase \in Phases, NEW progress \in 0..100
      PROVE  Inserted(status, phase, progress) \in Row
  BY DEF Row, Inserted
<1>2. {0, 1, 100} \subseteq 0..100
  OBVIOUS
<1> QED
  BY <1>1, <1>2, RowConstants

LEMMA RowValues ==
    ASSUME NEW row \in Row
    PROVE  /\ ClaimedRow(row) \in Row
           /\ FailedRow(row) \in Row
           /\ CompletedRow(row) \in Row
           /\ \A r \in Runs, k \in 1..LastStage : StageRow(row, StageOf(r, k)) \in Row
<1>1. row.status \in Status /\ row.progress \in 0..100
  BY DEF Row
<1>2. 1 \in 0..100 /\ 100 \in 0..100
  OBVIOUS
<1>3. ASSUME NEW r \in Runs, NEW k \in 1..LastStage
      PROVE  StageRow(row, StageOf(r, k)) \in Row
  <2>1. StageOf(r, k).phase \in Phases /\ StageOf(r, k).percent \in 0..100
    BY StageValues
  <2> QED
    BY <1>1, <2>1, UpdatedValue DEF StageRow
<1> QED
  BY <1>1, <1>2, <1>3, RowConstants, UpdatedValue
     DEF ClaimedRow, FailedRow, CompletedRow

-----------------------------------------------------------------------------
(* Type correctness.                                                       *)

LEMMA TypeInit == Init => TypeOK
<1> SUFFICES ASSUME Init PROVE TypeOK
  OBVIOUS
<1>1. RowsOK
  BY NoRowValue, RowConstants DEF Init, RowsOK
<1>2. WorkersOK
  BY DEF Init, WorkersOK, Locations, JobLocations, LastStage
<1>3. HistoryOK
  BY BoundsAssumption DEF Init, HistoryOK, Budget
<1> QED
  BY <1>1, <1>2, <1>3 DEF TypeOK

(* The moves of a worker that appear in many actions.                      *)
LEMMA LetGoType ==
    ASSUME TypeOK, NEW w \in Instances, NEW location \in Locations,
           location \notin JobLocations \cup {"commit_claim"},
           LetGo(w, location)
    PROVE  WorkersOK'
  BY DEF TypeOK, WorkersOK, LetGo, Goto, JobLocations, LastStage

LEMMA FinishType ==
    ASSUME TypeOK, NEW w \in Instances, Finish(w)
    PROVE  WorkersOK'
  BY LetGoType DEF Finish, Locations, JobLocations

LEMMA GotoType ==
    ASSUME TypeOK, NEW w \in Instances, NEW location \in Locations,
           location \notin {"progress", "work"} \/ stage[w] # 0,
           location \notin JobLocations \cup {"commit_claim"} \/ job[w] # NoRun,
           Goto(w, location), SameJob
    PROVE  WorkersOK'
  BY DEF TypeOK, WorkersOK, Goto, SameJob, JobLocations

LEMMA StageType ==
    ASSUME TypeOK, NEW w \in Instances, NEW k \in 1..LastStage,
           job[w] # NoRun, Goto(w, "progress"),
           stage' = [stage EXCEPT ![w] = k], UNCHANGED <<job, expired>>
    PROVE  WorkersOK'
  BY DEF TypeOK, WorkersOK, Goto, Locations, JobLocations, LastStage

LEMMA AbortType ==
    ASSUME TypeOK, NEW w \in Instances, job[w] # NoRun, Abort(w),
           budget' \in Budget
    PROVE  WorkersOK' /\ HistoryOK'
<1>1. WorkersOK'
  BY GotoType DEF Abort, Locations, JobLocations
<1>2. job[w] \in Runs
  BY DEF TypeOK, WorkersOK
<1> QED
  BY <1>1, <1>2 DEF Abort, TypeOK, HistoryOK

LEMMA AfterFailRunningJobsType ==
    ASSUME TypeOK, NEW w \in Instances, AfterFailRunningJobs(w)
    PROVE  WorkersOK'
<1>1. CASE job[w] = NoRun
  BY <1>1, GotoType DEF AfterFailRunningJobs, Locations, JobLocations
<1>2. CASE job[w] # NoRun
  BY <1>2, StageType DEF AfterFailRunningJobs, ImportStage, LastStage
<1> QED
  BY <1>1, <1>2

(* What a statement or an event does to the budget.                        *)
LEMMA BudgetType ==
    ASSUME TypeOK, NEW w \in Instances,
           \/ StatementRuns \/ StatementFails
           \/ JobStatementRuns(w) \/ JobStatementFails(w)
    PROVE  budget' \in Budget
<1>1. budget \in Budget /\ MaxFaults \in Nat
  BY BoundsAssumption DEF TypeOK, HistoryOK
<1>2. ASSUME budget.faults < MaxFaults,
             budget' = [budget EXCEPT !.faults = @ + 1]
      PROVE  budget' \in Budget
  BY <1>1, <1>2 DEF Budget
<1> QED
  BY <1>1, <1>2 DEF StatementRuns, StatementFails, JobStatementRuns, JobStatementFails

(* One lemma for each part of the worker.                                  *)
LEMMA StartTypes ==
    ASSUME TypeOK, NEW w \in Instances,
           StartInstance(w) \/ FailRunningBackups(w) \/ FailRunningRestores(w)
    PROVE  TypeOK'
<1> USE DEF TypeOK
<1>1. CASE StartInstance(w)
  <2>1. WorkersOK'
    BY <1>1, GotoType DEF StartInstance, Locations, JobLocations
  <2> QED
    BY <1>1, <2>1 DEF StartInstance, ghostVars, RowsOK, HistoryOK
<1>2. ASSUME NEW Table, FailRunning(Table), UNCHANGED <<tables, clock, dangling>>
      PROVE  RowsOK'
  BY <1>2, RowValues DEF FailRunning, RowsOK
<1>3. CASE FailRunningBackups(w)
  <2>1. WorkersOK'
    BY <1>3, GotoType, AfterFailRunningJobsType
       DEF FailRunningBackups, Locations, JobLocations
  <2>2. RowsOK'
    BY <1>2, <1>3 DEF FailRunningBackups, RowsOK
  <2>3. HistoryOK'
    BY <1>3, BudgetType DEF FailRunningBackups, HistoryOK, Running
  <2> QED
    BY <2>1, <2>2, <2>3
<1>4. CASE FailRunningRestores(w)
  <2>1. WorkersOK'
    BY <1>4, AfterFailRunningJobsType DEF FailRunningRestores
  <2>2. RowsOK'
    BY <1>2, <1>4 DEF FailRunningRestores, RowsOK
  <2>3. HistoryOK'
    BY <1>4, BudgetType DEF FailRunningRestores, HistoryOK, Running, Runs
  <2> QED
    BY <2>1, <2>2, <2>3
<1> QED
  BY <1>1, <1>3, <1>4

LEMMA SelectType ==
    ASSUME TypeOK, NEW w \in Instances, NEW Table \in SUBSET Runs,
           NEW whenNone \in {"claim_restore", "sleep"},
           SelectOldest(w, Table, whenNone)
    PROVE  TypeOK'
<1>1. WorkersOK'
  <2>1. CASE \E r \in Claimable(Table) : job' = [job EXCEPT ![w] = r]
    <3>1. PICK r \in Runs : job' = [job EXCEPT ![w] = r]
      BY <2>1 DEF Claimable
    <3> QED
      BY <3>1, IdsAssumption
         DEF SelectOldest, Goto, SameJob, TypeOK, WorkersOK, Locations, JobLocations
  <2>2. CASE SameJob /\ (Goto(w, whenNone) \/ Goto(w, "sleep"))
    BY <2>2, GotoType DEF Locations, JobLocations
  <2> QED
    BY <2>1, <2>2 DEF SelectOldest
<1>2. budget' \in Budget
  BY BudgetType DEF SelectOldest
<1> QED
  BY <1>1, <1>2 DEF TypeOK, SelectOldest, rowVars, ghostVars, RowsOK, HistoryOK

LEMMA ProcessOneTypes ==
    ASSUME TypeOK, NEW w \in Instances, ProcessOne(w)
    PROVE  TypeOK'
<1>1. CASE ClaimPendingBackupRun(w)
  BY <1>1, SelectType DEF ClaimPendingBackupRun, Runs
<1>2. CASE ClaimPendingRestoreRun(w)
  BY <1>2, SelectType DEF ClaimPendingRestoreRun, Runs
<1>3. CASE CommitClaim(w)
  <2>1. job[w] \in Runs /\ runs[job[w]] \in Row
    BY <1>3 DEF CommitClaim, TypeOK, WorkersOK, RowsOK
  <2>2. RowsOK'
    BY <1>3, <2>1, RowValues DEF CommitClaim, TypeOK, RowsOK
  <2>3. WorkersOK'
    BY <1>3, <2>1, IdsAssumption, GotoType, LetGoType
       DEF CommitClaim, Locations, JobLocations
  <2>4. HistoryOK'
    BY <1>3, <2>1, BudgetType DEF CommitClaim, TypeOK, HistoryOK
  <2> QED
    BY <2>2, <2>3, <2>4 DEF TypeOK
<1>4. CASE Tick(w)
  <2>1. WorkersOK'
    BY <1>4, GotoType DEF Tick, Locations, JobLocations
  <2> QED
    BY <1>4, <2>1 DEF Tick, rowVars, ghostVars, TypeOK, RowsOK, HistoryOK
<1> QED
  BY <1>1, <1>2, <1>3, <1>4 DEF ProcessOne

LEMMA StageTypes ==
    ASSUME TypeOK, NEW w \in Instances, ExecuteStage(w)
    PROVE  TypeOK'
<1> USE DEF TypeOK
<1>1. CASE OpenTarget(w)
  <2>1. job[w] # NoRun /\ RowsOK' /\ budget' \in Budget
    BY <1>1, BudgetType
       DEF OpenTarget, WorkersOK, RowsOK, HistoryOK, rowVars, JobLocations
  <2>2. CASE Abort(w)
    BY <2>1, <2>2, AbortType
  <2>3. CASE Goto(w, "progress") /\ stage' = [stage EXCEPT ![w] = 1]
             /\ UNCHANGED <<job, expired, ghostVars>>
    <3>1. 1 \in 1..LastStage
      BY DEF LastStage
    <3>2. WorkersOK'
      BY <2>1, <2>3, <3>1, StageType
    <3> QED
      BY <2>1, <2>3, <3>2 DEF ghostVars, HistoryOK
  <2> QED
    BY <1>1, <2>2, <2>3 DEF OpenTarget
<1>2. CASE UpdateProgress(w)
  <2>1. job[w] \in Runs /\ job[w] # NoRun /\ stage[w] \in 1..LastStage
    BY <1>2 DEF UpdateProgress, WorkersOK, JobLocations, LastStage
  <2>2. RowsOK'
    BY <1>2, <2>1, RowValues DEF UpdateProgress, RowsOK
  <2>3. budget' \in Budget
    BY <1>2, BudgetType DEF UpdateProgress
  <2>4. CASE Abort(w)
    BY <2>1, <2>2, <2>3, <2>4, AbortType
  <2>5. CASE Goto(w, "work") /\ SameJob /\ UNCHANGED ghostVars
    BY <2>1, <2>2, <2>3, <2>5, GotoType
       DEF ghostVars, HistoryOK, Locations, JobLocations
  <2> QED
    BY <1>2, <2>4, <2>5 DEF UpdateProgress
<1>3. CASE StageSucceeds(w)
  <2>1. job[w] \in Runs /\ job[w] # NoRun /\ stage[w] \in 1..LastStage
    BY <1>3 DEF StageSucceeds, WorkersOK, JobLocations, LastStage
  <2>2. WorkersOK'
    <3>1. CASE stage[w] < LastStage
      <4>1. stage[w] + 1 \in 1..LastStage
        BY <2>1, <3>1 DEF LastStage
      <4>2. stage' = [stage EXCEPT ![w] = stage[w] + 1]
        BY <1>3, <3>1 DEF StageSucceeds
      <4> QED
        BY <1>3, <2>1, <3>1, <4>1, <4>2, StageType DEF StageSucceeds
    <3>2. CASE ~(stage[w] < LastStage)
      BY <1>3, <2>1, <3>2, GotoType DEF StageSucceeds, SameJob, Locations, JobLocations
    <3> QED
      BY <3>1, <3>2
  <2>3. uploaded' \subseteq BackupIds
    BY <1>3, <2>1, StageValues DEF StageSucceeds, HistoryOK
  <2> QED
    BY <1>3, <2>2, <2>3 DEF StageSucceeds, rowVars, RowsOK, HistoryOK
<1>4. CASE StageFails(w)
  <2>1. job[w] # NoRun /\ RowsOK' /\ budget' \in Budget
    BY <1>4 DEF StageFails, WorkersOK, RowsOK, HistoryOK, rowVars, JobLocations
  <2> QED
    BY <1>4, <2>1, AbortType DEF StageFails
<1>5. CASE PgRestoreDrop(w)
  <2>1. WorkersOK'
    BY <1>5, GotoType DEF PgRestoreDrop, WorkersOK, Locations, JobLocations
  <2>2. RowsOK'
    BY <1>5, NoRowValue, RowConstants DEF PgRestoreDrop, RowsOK
  <2> QED
    BY <1>5, <2>1, <2>2 DEF PgRestoreDrop, ghostVars, HistoryOK
<1>6. CASE PgRestoreCreate(w)
  <2>1. job[w] # NoRun /\ budget' \in Budget
    BY <1>6 DEF PgRestoreCreate, WorkersOK, HistoryOK, JobLocations
  <2>2. RowsOK'
    BY <1>6 DEF PgRestoreCreate, RowsOK, InFlightRestores
  <2>3. CASE Abort(w)
    BY <2>1, <2>2, <2>3, AbortType
  <2>4. CASE Goto(w, "fail_backups") /\ SameJob /\ UNCHANGED ghostVars
    BY <2>1, <2>2, <2>4, GotoType DEF ghostVars, HistoryOK, Locations, JobLocations
  <2> QED
    BY <1>6, <2>3, <2>4 DEF PgRestoreCreate
<1> QED
  BY <1>1, <1>2, <1>3, <1>4, <1>5, <1>6 DEF ExecuteStage

(* The outcome: either the row is written and the worker lets go of the    *)
(* run, or it is not and the run joins `lost', or an insertion is next.    *)
LEMMA OutcomeTypes ==
    ASSUME TypeOK, NEW w \in Instances, FinishRun(w)
    PROVE  TypeOK'
<1> USE DEF TypeOK
<1>1. /\ job[w] \in Runs /\ job[w] # NoRun
      /\ runs[job[w]] \in Row
      /\ UNCHANGED <<tables, dangling, uploaded, failures>>
  BY DEF FinishRun, CompleteBackupRun, CompleteRestoreRun, InsertCompletedRestoreRun,
         FailBackupRun, FailRestoreRun, InsertFailedRestoreRun,
         WorkersOK, RowsOK, JobLocations
<1>2. budget' \in Budget
  BY BudgetType
     DEF FinishRun, CompleteBackupRun, CompleteRestoreRun, InsertCompletedRestoreRun,
         FailBackupRun, FailRestoreRun, InsertFailedRestoreRun, RefuseRun, HistoryOK
<1>3. CASE GiveUp(w)
  BY <1>1, <1>2, <1>3, FinishType DEF GiveUp, RowsOK, HistoryOK
<1>4. ASSUME NEW location \in {"insert_completed", "insert_failed"},
             Goto(w, location), SameJob, UNCHANGED <<runs, clock, lost>>
      PROVE  TypeOK'
  <2>1. WorkersOK'
    BY <1>1, <1>4, GotoType DEF Locations, JobLocations
  <2> QED
    BY <1>1, <1>2, <1>4, <2>1 DEF RowsOK, HistoryOK
<1>5. ASSUME NEW row \in Row, Finish(w), UNCHANGED lost,
             runs' = [runs EXCEPT ![job[w]] = row] \/ runs' = runs,
             clock' \in Nat
      PROVE  TypeOK'
  BY <1>1, <1>2, <1>5, FinishType DEF RowsOK, HistoryOK
<1>6. /\ CompletedRow(runs[job[w]]) \in Row /\ FailedRow(runs[job[w]]) \in Row
      /\ Inserted("completed", "completed", 100) \in Row
      /\ Inserted("failed", "failed", 1) \in Row
      /\ clock \in Nat /\ clock + 1 \in Nat
  <2>1. clock \in Nat /\ clock + 1 \in Nat
    BY DEF RowsOK
  <2> QED
    BY <1>1, <2>1, RowValues, InsertedValues
<1>7. CASE CompleteBackupRun(w)
  BY <1>3, <1>5, <1>6, <1>7 DEF CompleteBackupRun
<1>8. CASE FailBackupRun(w)
  BY <1>3, <1>5, <1>6, <1>8 DEF FailBackupRun
<1>9. CASE CompleteRestoreRun(w)
  BY <1>3, <1>4, <1>5, <1>6, <1>9 DEF CompleteRestoreRun
<1>10. CASE FailRestoreRun(w)
  BY <1>3, <1>4, <1>5, <1>6, <1>10 DEF FailRestoreRun
<1>11. CASE InsertCompletedRestoreRun(w)
  BY <1>3, <1>5, <1>6, <1>11 DEF InsertCompletedRestoreRun, InsertRun
<1>12. CASE InsertFailedRestoreRun(w)
  BY <1>3, <1>5, <1>6, <1>12 DEF InsertFailedRestoreRun, InsertRun
<1> QED
  BY <1>7, <1>8, <1>9, <1>10, <1>11, <1>12 DEF FinishRun

LEMMA EnvironmentTypes ==
    ASSUME TypeOK,
           \/ CreateBackupRun \/ CreateRestoreRun
           \/ \E w \in Instances : JobTimeout(w) \/ Panic(w) \/ Crash(w)
    PROVE  TypeOK'
<1> USE DEF TypeOK
<1>1. ASSUME NEW r \in Runs, Enqueue(r) PROVE TypeOK'
  <2>1. RowsOK'
    BY <1>1, InsertedValues DEF Enqueue, RowsOK
  <2> QED
    BY <1>1, <2>1
       DEF Enqueue, StatementRuns, workerVars, ghostVars, WorkersOK, HistoryOK
<1>2. CASE CreateBackupRun \/ CreateRestoreRun
  BY <1>1, <1>2 DEF CreateBackupRun, CreateRestoreRun, Runs
<1>3. ASSUME NEW w \in Instances, JobTimeout(w) PROVE TypeOK'
  <2>1. budget' \in Budget
    BY <1>3, BoundsAssumption DEF JobTimeout, HistoryOK, Budget
  <2> QED
    BY <1>3, <2>1 DEF JobTimeout, rowVars, ghostVars, RowsOK, WorkersOK, HistoryOK
<1>4. ASSUME NEW w \in Instances, Panic(w) PROVE TypeOK'
  <2>1. budget' \in Budget
    BY <1>4, BoundsAssumption DEF Panic, HistoryOK, Budget
  <2>2. WorkersOK'
    BY <1>4, GotoType DEF Panic, WorkersOK, Locations, JobLocations
  <2> QED
    BY <1>4, <2>1, <2>2 DEF Panic, rowVars, ghostVars, RowsOK, HistoryOK
<1>5. ASSUME NEW w \in Instances, Crash(w) PROVE TypeOK'
  <2>1. budget' \in Budget
    BY <1>5, BoundsAssumption DEF Crash, HistoryOK, Budget
  <2>2. WorkersOK'
    BY <1>5, LetGoType DEF Crash, Locations, JobLocations
  <2> QED
    BY <1>5, <2>1, <2>2 DEF Crash, rowVars, ghostVars, RowsOK, HistoryOK
<1> QED
  BY <1>2, <1>3, <1>4, <1>5

LEMMA TypeStep == TypeOK /\ [Next]_vars => TypeOK'
<1> SUFFICES ASSUME TypeOK, [Next]_vars PROVE TypeOK'
  OBVIOUS
<1>1. CASE UNCHANGED vars
  BY <1>1 DEF vars, rowVars, workerVars, ghostVars, TypeOK, RowsOK, WorkersOK, HistoryOK
<1>2. ASSUME NEW w \in Instances, WorkerStep(w) PROVE TypeOK'
  BY <1>2, StartTypes, ProcessOneTypes, StageTypes, OutcomeTypes DEF WorkerStep
<1> QED
  BY <1>1, <1>2, EnvironmentTypes DEF Next

(* Every reachable row is one the tables admit, and a worker holds a run   *)
(* exactly while it claims or executes one, whatever crashes, fails,       *)
(* expires or panics.                                                      *)
THEOREM TypeCorrect == Spec => []TypeOK
  BY TypeInit, TypeStep, PTL DEF Spec

-----------------------------------------------------------------------------
(* One executor.  The invariant that makes it inductive: the row of a      *)
(* claim that is not committed yet is still pending, and the row of a run  *)
(* in execution is no longer.                                              *)

ClaimInv ==
    /\ \A w \in Instances : pc[w] = "commit_claim" => runs[job[w]].status = "pending"
    /\ \A w \in Instances : Executing(w, job[w])
                              => runs[job[w]].status \notin {"unborn", "pending"}
    /\ SingleExecutor

LEMMA ClaimInit == Init => ClaimInv
  BY DEF Init, ClaimInv, SingleExecutor, Executing

(* The status of the rows that statements write.                           *)
LEMMA StatusOf ==
    ASSUME NEW row, NEW s
    PROVE  /\ FailedRow(row).status = "failed"
           /\ CompletedRow(row).status = "completed"
           /\ ClaimedRow(row).status = "running"
           /\ StageRow(row, s).status = row.status
           /\ Inserted("pending", "queued", 0).status = "pending"
           /\ Inserted("failed", "failed", 1).status = "failed"
           /\ Inserted("completed", "completed", 100).status = "completed"
  BY DEF FailedRow, CompletedRow, ClaimedRow, StageRow, Updated, Inserted

LEMMA GoneStatus == \A row : GoneRow(row).status = "gone"
  BY DEF GoneRow

(* Every step but the two of a claim keeps locked rows pending, makes no   *)
(* row pending that was there before, and takes no run in hand.            *)
Fresh == {"unborn", "pending"}

KeepsRow(r) ==
    /\ Locked(r) => runs'[r].status = runs[r].status
    /\ runs[r].status \notin Fresh => runs'[r].status \notin Fresh

KeepsWorker(v) ==
    /\ job'[v] \in {job[v], NoRun}
    /\ job'[v] = job[v] => (pc[v] = "commit_claim" <=> pc'[v] = "commit_claim")

LEMMA KeepsClaims ==
    ASSUME TypeOK, TypeOK', ClaimInv,
           \A r \in Runs : KeepsRow(r), \A v \in Instances : KeepsWorker(v)
    PROVE  ClaimInv'
<1>1. SingleExecutor'
  BY DEF ClaimInv, SingleExecutor, KeepsWorker
<1>2. ASSUME NEW v \in Instances, pc'[v] = "commit_claim"
      PROVE  runs'[job'[v]].status = "pending"
  <2>1. job'[v] # NoRun /\ job'[v] = job[v] /\ job[v] \in Runs
    BY <1>2 DEF TypeOK, WorkersOK, KeepsWorker
  <2>2. Locked(job[v]) /\ runs[job[v]].status = "pending"
    BY <1>2, <2>1 DEF Locked, Locking, KeepsWorker, ClaimInv
  <2> QED
    BY <2>1, <2>2 DEF KeepsRow
<1>3. ASSUME NEW v \in Instances, job'[v] # NoRun, pc'[v] # "commit_claim"
      PROVE  runs'[job'[v]].status \notin Fresh
  <2>1. job'[v] = job[v] /\ job[v] \in Runs
    BY <1>3 DEF TypeOK, WorkersOK, KeepsWorker
  <2>2. runs[job[v]].status \notin Fresh
    BY <1>3, <2>1 DEF KeepsWorker, ClaimInv, Executing, Fresh
  <2> QED
    BY <2>1, <2>2 DEF KeepsRow
<1> QED
  BY <1>1, <1>2, <1>3 DEF ClaimInv, Executing, Fresh

(* What one worker does leaves the others alone.                           *)
LEMMA GotoKeeps ==
    ASSUME TypeOK, NEW w \in Instances, NEW location, Goto(w, location),
           UNCHANGED job, location # "commit_claim", pc[w] # "commit_claim"
    PROVE  \A v \in Instances : KeepsWorker(v)
  BY DEF KeepsWorker, Goto, TypeOK, WorkersOK

LEMMA LetGoKeeps ==
    ASSUME TypeOK, NEW w \in Instances, NEW location, LetGo(w, location)
    PROVE  /\ job' = [job EXCEPT ![w] = NoRun]
           /\ \A v \in Instances : v # w => KeepsWorker(v)
           /\ job[w] # NoRun => KeepsWorker(w)
           /\ pc[w] # "commit_claim" /\ location # "commit_claim" => KeepsWorker(w)
  BY DEF KeepsWorker, LetGo, Goto, TypeOK, WorkersOK

LEMMA Holding ==
    ASSUME TypeOK, ClaimInv
    PROVE  /\ \A r \in Runs : Locked(r) => runs[r].status = "pending"
           /\ \A w \in Instances :
                 job[w] # NoRun /\ pc[w] # "commit_claim"
                 => /\ job[w] \in Runs /\ runs[job[w]].status \notin Fresh
                    /\ ~Locked(job[w])
  BY DEF ClaimInv, Locked, Locking, Executing, Fresh, TypeOK, WorkersOK

(* A worker writes the row of the run it executes.                         *)
LEMMA OwnRowKeeps ==
    ASSUME TypeOK, ClaimInv, NEW w \in Instances,
           job[w] # NoRun, pc[w] # "commit_claim", NEW row, row.status \notin Fresh,
           runs' = [runs EXCEPT ![job[w]] = row] \/ runs' = runs
    PROVE  \A r \in Runs : KeepsRow(r)
  BY Holding DEF KeepsRow, TypeOK, RowsOK

LEMMA UnchangedKeeps ==
    ASSUME UNCHANGED runs
    PROVE  \A r \in Runs : KeepsRow(r)
  BY DEF KeepsRow

LEMMA StartClaims ==
    ASSUME TypeOK, TypeOK', ClaimInv, NEW w \in Instances,
           StartInstance(w) \/ FailRunningBackups(w) \/ FailRunningRestores(w)
    PROVE  ClaimInv'
<1>1. ASSUME NEW Table, FailRunning(Table) PROVE \A r \in Runs : KeepsRow(r)
  BY <1>1, Holding, StatusOf DEF FailRunning, Running, KeepsRow, Fresh
<1>2. \A r \in Runs : KeepsRow(r)
  BY <1>1, UnchangedKeeps DEF StartInstance, FailRunningBackups, FailRunningRestores
<1>3. PICK location : Goto(w, location) /\ location # "commit_claim"
  BY DEF StartInstance, FailRunningBackups, FailRunningRestores, AfterFailRunningJobs
<1>4. UNCHANGED job /\ pc[w] # "commit_claim"
  BY DEF StartInstance, FailRunningBackups, FailRunningRestores, AfterFailRunningJobs,
         SameJob
<1> QED
  BY <1>2, <1>3, <1>4, GotoKeeps, KeepsClaims

LEMMA StageClaims ==
    ASSUME TypeOK, TypeOK', ClaimInv, NEW w \in Instances, ExecuteStage(w)
    PROVE  ClaimInv'
<1>1. pc[w] \in {"open", "progress", "work", "recreate"} /\ job[w] # NoRun
  BY DEF ExecuteStage, OpenTarget, UpdateProgress, StageSucceeds, StageFails,
         PgRestoreDrop, PgRestoreCreate, TypeOK, WorkersOK, JobLocations
<1>2. \A r \in Runs : KeepsRow(r)
  <2>1. CASE UpdateProgress(w)
    <3>1. runs[job[w]].status \notin Fresh
      BY <1>1, Holding
    <3> QED
      BY <1>1, <2>1, <3>1, OwnRowKeeps, UnchangedKeeps, StatusOf DEF UpdateProgress
  <2>2. CASE PgRestoreDrop(w)
    <3>1. \A r \in Runs : ~Locked(r)
      BY <2>2 DEF PgRestoreDrop, Locked, Locking
    <3> QED
      BY <2>2, <3>1, StatusOf, GoneStatus DEF PgRestoreDrop, KeepsRow, Fresh
  <2>3. CASE UNCHANGED runs
    BY <2>3, UnchangedKeeps
  <2> QED
    BY <2>1, <2>2, <2>3
       DEF ExecuteStage, OpenTarget, StageSucceeds, StageFails, PgRestoreCreate, rowVars
<1>3. UNCHANGED job /\ \E location : Goto(w, location) /\ location # "commit_claim"
  BY DEF ExecuteStage, OpenTarget, UpdateProgress, StageSucceeds, StageFails,
         PgRestoreDrop, PgRestoreCreate, Abort, SameJob
<1> QED
  BY <1>1, <1>2, <1>3, GotoKeeps, KeepsClaims

LEMMA OutcomeClaims ==
    ASSUME TypeOK, TypeOK', ClaimInv, NEW w \in Instances, FinishRun(w)
    PROVE  ClaimInv'
<1>1. pc[w] \in {"complete", "failing", "insert_completed", "insert_failed"}
      /\ job[w] # NoRun
  BY DEF FinishRun, CompleteBackupRun, CompleteRestoreRun, InsertCompletedRestoreRun,
         FailBackupRun, FailRestoreRun, InsertFailedRestoreRun,
         TypeOK, WorkersOK, JobLocations
<1>2. \E row : /\ row.status \notin Fresh
               /\ runs' = [runs EXCEPT ![job[w]] = row] \/ runs' = runs
  <2>1. /\ CompletedRow(runs[job[w]]).status \notin Fresh
        /\ FailedRow(runs[job[w]]).status \notin Fresh
        /\ Inserted("completed", "completed", 100).status \notin Fresh
        /\ Inserted("failed", "failed", 1).status \notin Fresh
    BY StatusOf DEF Fresh
  <2> QED
    BY <2>1
       DEF FinishRun, CompleteBackupRun, CompleteRestoreRun, InsertCompletedRestoreRun,
           FailBackupRun, FailRestoreRun, InsertFailedRestoreRun, InsertRun, GiveUp
<1>3. \/ Finish(w)
      \/ UNCHANGED job /\ \E location : Goto(w, location) /\ location # "commit_claim"
  BY DEF FinishRun, CompleteBackupRun, CompleteRestoreRun, InsertCompletedRestoreRun,
         FailBackupRun, FailRestoreRun, InsertFailedRestoreRun, InsertRun, GiveUp, SameJob
<1>4. \A v \in Instances : KeepsWorker(v)
  BY <1>1, <1>3, GotoKeeps, LetGoKeeps DEF Finish
<1> QED
  BY <1>1, <1>2, <1>4, OwnRowKeeps, KeepsClaims

(* SELECT ... FOR UPDATE SKIP LOCKED: the run taken is pending, so nobody  *)
(* executes it, and not locked, so nobody else is claiming it.             *)
LEMMA SelectClaims ==
    ASSUME TypeOK, TypeOK', ClaimInv, NEW w \in Instances, NEW Table \in SUBSET Runs,
           NEW whenNone \in {"claim_restore", "sleep"},
           pc[w] # "commit_claim", SelectOldest(w, Table, whenNone)
    PROVE  ClaimInv'
<1>1. UNCHANGED runs
  BY DEF SelectOldest, rowVars
<1>2. CASE Goto(w, "commit_claim")
           /\ \E r \in Claimable(Table) : job' = [job EXCEPT ![w] = r]
  <2>1. PICK r \in Claimable(Table) : job' = [job EXCEPT ![w] = r]
    BY <1>2
  <2>2. r \in Runs /\ r # NoRun /\ runs[r].status = "pending" /\ ~Locked(r)
    BY IdsAssumption DEF Claimable
  <2>3. \A v \in Instances : job[v] # r
    BY <2>2, Holding DEF Locked, Locking, Fresh
  <2>4. /\ \A v \in Instances : v # w => job'[v] = job[v] /\ pc'[v] = pc[v]
        /\ job'[w] = r /\ pc'[w] = "commit_claim"
    BY <1>2, <2>1 DEF Goto, TypeOK, WorkersOK
  <2> QED
    BY <1>1, <2>2, <2>3, <2>4 DEF ClaimInv, SingleExecutor, Executing
<1>3. CASE SameJob /\ (Goto(w, whenNone) \/ Goto(w, "sleep"))
  <2>1. \A v \in Instances : KeepsWorker(v)
    BY <1>3, GotoKeeps DEF SameJob
  <2> QED
    BY <1>1, <2>1, UnchangedKeeps, KeepsClaims
<1> QED
  BY <1>2, <1>3 DEF SelectOldest

LEMMA CommitClaims ==
    ASSUME TypeOK, TypeOK', ClaimInv, NEW w \in Instances, CommitClaim(w)
    PROVE  ClaimInv'
<1>1. pc[w] = "commit_claim" /\ job[w] \in Runs /\ job[w] # NoRun
  BY DEF CommitClaim, TypeOK, WorkersOK
<1>2. /\ \A v \in Instances : v # w => job'[v] = job[v] /\ pc'[v] = pc[v]
      /\ job'[w] \in {job[w], NoRun} /\ pc'[w] # "commit_claim"
  BY DEF CommitClaim, LetGo, Goto, SameJob, TypeOK, WorkersOK
<1>3. \A v \in Instances : v # w => job[v] # job[w]
  BY <1>1 DEF ClaimInv, SingleExecutor
<1>4. \A r \in Runs : r # job[w] => runs'[r] = runs[r]
  BY DEF CommitClaim, TypeOK, RowsOK
<1>5. job'[w] = job[w] => runs'[job[w]].status = "running"
  <2>1. job'[w] = job[w] => runs' = [runs EXCEPT ![job[w]] = ClaimedRow(runs[job[w]])]
    BY <1>1 DEF CommitClaim, LetGo, TypeOK, WorkersOK
  <2> QED
    BY <1>1, <2>1, StatusOf DEF TypeOK, RowsOK
<1> QED
  BY <1>1, <1>2, <1>3, <1>4, <1>5
     DEF ClaimInv, SingleExecutor, Executing, TypeOK, WorkersOK

LEMMA ProcessOneClaims ==
    ASSUME TypeOK, TypeOK', ClaimInv, NEW w \in Instances, ProcessOne(w)
    PROVE  ClaimInv'
<1>1. CASE ClaimPendingBackupRun(w)
  BY <1>1, SelectClaims DEF ClaimPendingBackupRun, Runs
<1>2. CASE ClaimPendingRestoreRun(w)
  BY <1>2, SelectClaims DEF ClaimPendingRestoreRun, Runs
<1>3. CASE CommitClaim(w)
  BY <1>3, CommitClaims
<1>4. CASE Tick(w)
  BY <1>4, GotoKeeps, UnchangedKeeps, KeepsClaims DEF Tick, rowVars, SameJob
<1> QED
  BY <1>1, <1>2, <1>3, <1>4 DEF ProcessOne

LEMMA EnvironmentClaims ==
    ASSUME TypeOK, TypeOK', ClaimInv,
           \/ CreateBackupRun \/ CreateRestoreRun
           \/ \E w \in Instances : JobTimeout(w) \/ Panic(w) \/ Crash(w)
    PROVE  ClaimInv'
<1>1. ASSUME NEW r \in Runs, Enqueue(r) PROVE ClaimInv'
  <2>1. \A q \in Runs : KeepsRow(q)
    BY <1>1, Holding, StatusOf DEF Enqueue, KeepsRow, Fresh, TypeOK, RowsOK
  <2>2. \A v \in Instances : KeepsWorker(v)
    BY <1>1 DEF Enqueue, workerVars, KeepsWorker
  <2> QED
    BY <2>1, <2>2, KeepsClaims
<1>2. CASE CreateBackupRun \/ CreateRestoreRun
  BY <1>1, <1>2 DEF CreateBackupRun, CreateRestoreRun, Runs
<1>3. ASSUME NEW w \in Instances, JobTimeout(w) PROVE ClaimInv'
  BY <1>3, UnchangedKeeps, KeepsClaims DEF JobTimeout, rowVars, KeepsWorker
<1>4. ASSUME NEW w \in Instances, Panic(w) PROVE ClaimInv'
  BY <1>4, GotoKeeps, UnchangedKeeps, KeepsClaims DEF Panic, rowVars, SameJob
<1>5. ASSUME NEW w \in Instances, Crash(w) PROVE ClaimInv'
  <2>1. KeepsWorker(w)
    BY <1>5, LetGoKeeps DEF Crash, TypeOK, WorkersOK
  <2> QED
    BY <1>5, <2>1, LetGoKeeps, UnchangedKeeps, KeepsClaims DEF Crash, rowVars
<1> QED
  BY <1>2, <1>3, <1>4, <1>5

LEMMA ClaimStep == TypeOK /\ TypeOK' /\ ClaimInv /\ [Next]_vars => ClaimInv'
<1> SUFFICES ASSUME TypeOK, TypeOK', ClaimInv, [Next]_vars PROVE ClaimInv'
  OBVIOUS
<1>1. CASE UNCHANGED vars
  BY <1>1, UnchangedKeeps, KeepsClaims DEF vars, rowVars, workerVars, KeepsWorker
<1>2. ASSUME NEW w \in Instances, WorkerStep(w) PROVE ClaimInv'
  BY <1>2, StartClaims, ProcessOneClaims, StageClaims, OutcomeClaims DEF WorkerStep
<1> QED
  BY <1>1, <1>2, EnvironmentClaims DEF Next

LEMMA ClaimAlways == Spec => []ClaimInv
  BY TypeCorrect, ClaimInit, ClaimStep, PTL DEF Spec

(* No run is ever in the hands of two workers, however many processes poll *)
(* the tables, crash, time out, or lose the answer to a commit.            *)
THEOREM OneExecutor == Spec => []SingleExecutor
<1>1. ClaimInv => SingleExecutor
  BY DEF ClaimInv
<1> QED
  BY <1>1, ClaimAlways, PTL

-----------------------------------------------------------------------------
(* Completed means uploaded.  The invariant adds where the fact comes      *)
(* from: a backup reaches `complete' through its upload, and only restores *)
(* insert a row anew.                                                      *)

ArchiveInv ==
    /\ \A w \in Instances :
          /\ pc[w] \in {"recreate", "insert_completed", "insert_failed"}
               => job[w] \in RestoreIds
          /\ pc[w] = "complete" /\ job[w] \in BackupIds => job[w] \in uploaded
    /\ CompletedHasArchive

LEMMA ArchiveInit == Init => ArchiveInv
<1> SUFFICES ASSUME Init PROVE ArchiveInv
  OBVIOUS
<1>1. \A r \in Runs : runs[r].status = "unborn"
  BY DEF Init, NoRow
<1>2. \A w \in Instances : pc[w] = "down"
  BY DEF Init
<1> QED
  BY <1>1, <1>2 DEF ArchiveInv, CompletedHasArchive, Runs

(* A step of w that uploads or completes nothing it should not.            *)
KeepsArchives(w) ==
    /\ uploaded \subseteq uploaded'
    /\ \A v \in Instances : v # w => job'[v] = job[v] /\ pc'[v] = pc[v]
    /\ pc'[w] \in {"recreate", "insert_completed", "insert_failed"}
         => job'[w] \in RestoreIds
    /\ pc'[w] = "complete" /\ job'[w] \in BackupIds => job'[w] \in uploaded'
    /\ \A r \in BackupIds : runs'[r].status = "completed"
         => runs[r].status = "completed" \/ r \in uploaded'

LEMMA KeepsArchivesStep ==
    ASSUME ArchiveInv, NEW w \in Instances, KeepsArchives(w)
    PROVE  ArchiveInv'
<1>1. ASSUME NEW v \in Instances
      PROVE  /\ pc'[v] \in {"recreate", "insert_completed", "insert_failed"}
                  => job'[v] \in RestoreIds
             /\ pc'[v] = "complete" /\ job'[v] \in BackupIds => job'[v] \in uploaded'
  BY DEF ArchiveInv, KeepsArchives
<1>2. CompletedHasArchive'
  BY DEF ArchiveInv, CompletedHasArchive, KeepsArchives
<1> QED
  BY <1>1, <1>2 DEF ArchiveInv

LEMMA QuietArchives ==
    ASSUME TypeOK, NEW w \in Instances, UNCHANGED <<runs, uploaded>>,
           NEW location \in Locations \ {"complete", "recreate", "insert_completed",
                                         "insert_failed"},
           (Goto(w, location) /\ UNCHANGED job) \/ LetGo(w, location)
    PROVE  KeepsArchives(w)
<1>1. /\ \A v \in Instances : v # w => job'[v] = job[v] /\ pc'[v] = pc[v]
      /\ pc'[w] = location
  BY DEF Goto, LetGo, TypeOK, WorkersOK
<1> QED
  BY <1>1 DEF KeepsArchives

LEMMA StartArchives ==
    ASSUME TypeOK, NEW w \in Instances,
           StartInstance(w) \/ FailRunningBackups(w) \/ FailRunningRestores(w)
    PROVE  KeepsArchives(w)
<1>1. UNCHANGED <<job, uploaded>>
  BY DEF StartInstance, FailRunningBackups, FailRunningRestores, AfterFailRunningJobs,
         SameJob, ghostVars
<1>2. /\ \A v \in Instances : v # w => pc'[v] = pc[v]
      /\ pc'[w] \in {"fail_backups", "fail_restores", "claim_backup", "progress"}
  BY DEF StartInstance, FailRunningBackups, FailRunningRestores, AfterFailRunningJobs,
         Goto, TypeOK, WorkersOK
<1>3. ASSUME NEW Table, FailRunning(Table), NEW r \in Runs,
             runs'[r].status = "completed"
      PROVE  runs[r].status = "completed"
  BY <1>3, StatusOf DEF FailRunning
<1>4. \A r \in Runs : runs'[r].status = "completed" => runs[r].status = "completed"
  BY <1>3 DEF StartInstance, FailRunningBackups, FailRunningRestores
<1> QED
  BY <1>1, <1>2, <1>4 DEF KeepsArchives, Runs

LEMMA ProcessOneArchives ==
    ASSUME TypeOK, NEW w \in Instances, ProcessOne(w)
    PROVE  KeepsArchives(w)
<1>1. /\ \A v \in Instances : v # w => job'[v] = job[v] /\ pc'[v] = pc[v]
      /\ pc'[w] \in {"claim_backup", "claim_restore", "commit_claim", "sleep", "open"}
  BY DEF ProcessOne, ClaimPendingBackupRun, ClaimPendingRestoreRun, SelectOldest,
         CommitClaim, Tick, LetGo, Goto, SameJob, TypeOK, WorkersOK
<1>2. UNCHANGED uploaded
  BY DEF ProcessOne, ClaimPendingBackupRun, ClaimPendingRestoreRun, SelectOldest,
         CommitClaim, Tick, ghostVars
<1>3. ASSUME NEW r \in Runs, runs'[r].status = "completed"
      PROVE  runs[r].status = "completed"
  <2>1. CASE UNCHANGED runs
    BY <1>3, <2>1
  <2>2. CASE runs' = [runs EXCEPT ![job[w]] = ClaimedRow(runs[job[w]])]
    BY <1>3, <2>2, StatusOf DEF TypeOK, RowsOK
  <2> QED
    BY <2>1, <2>2 DEF ProcessOne, ClaimPendingBackupRun, ClaimPendingRestoreRun,
                      SelectOldest, CommitClaim, Tick, rowVars
<1> QED
  BY <1>1, <1>2, <1>3 DEF KeepsArchives, Runs

LEMMA UploadIsLast ==
    ASSUME NEW r \in BackupIds
    PROVE  StageOf(r, LastStage).phase = "upload"
  BY DEF StageOf, LastStage, BackupStages

LEMMA StageArchives ==
    ASSUME TypeOK, ArchiveInv, NEW w \in Instances, ExecuteStage(w)
    PROVE  KeepsArchives(w)
<1>1. ASSUME Abort(w), UNCHANGED runs PROVE KeepsArchives(w)
  BY <1>1, QuietArchives DEF Abort, SameJob, Locations
<1>2. CASE OpenTarget(w)
  BY <1>1, <1>2, QuietArchives DEF OpenTarget, rowVars, ghostVars, Locations
<1>3. CASE UpdateProgress(w)
  <2>1. CASE Abort(w) /\ UNCHANGED runs
    BY <1>1, <2>1
  <2>2. CASE Goto(w, "work") /\ SameJob /\ UNCHANGED ghostVars
    <3>1. /\ \A v \in Instances : v # w => job'[v] = job[v] /\ pc'[v] = pc[v]
          /\ pc'[w] = "work" /\ UNCHANGED uploaded
      BY <2>2 DEF Goto, SameJob, ghostVars, TypeOK, WorkersOK
    <3>2. \A r \in Runs : runs'[r].status = runs[r].status
      <4>1. CASE runs' = runs
        BY <4>1
      <4>2. CASE \E s : runs' = [runs EXCEPT ![job[w]] = StageRow(runs[job[w]], s)]
        BY <4>2, StatusOf DEF TypeOK, RowsOK
      <4> QED
        BY <1>3, <4>1, <4>2 DEF UpdateProgress
    <3> QED
      BY <3>1, <3>2 DEF KeepsArchives, Runs
  <2> QED
    BY <1>3, <2>1, <2>2 DEF UpdateProgress
<1>4. CASE StageSucceeds(w)
  <2>1. /\ \A v \in Instances : v # w => job'[v] = job[v] /\ pc'[v] = pc[v]
        /\ job' = job /\ runs' = runs /\ uploaded \subseteq uploaded'
        /\ pc'[w] \in {"progress", "complete"}
    BY <1>4 DEF StageSucceeds, Goto, rowVars, TypeOK, WorkersOK
  <2>2. ASSUME pc'[w] = "complete", job[w] \in BackupIds
        PROVE  job[w] \in uploaded'
    <3>1. stage[w] = LastStage
      BY <1>4, <2>2 DEF StageSucceeds, Goto, TypeOK, WorkersOK, LastStage
    <3> QED
      BY <1>4, <2>2, <3>1, UploadIsLast DEF StageSucceeds
  <2> QED
    BY <2>1, <2>2 DEF KeepsArchives
<1>5. CASE StageFails(w)
  BY <1>1, <1>5 DEF StageFails, rowVars
<1>6. CASE PgRestoreDrop(w)
  <2>1. /\ \A v \in Instances : v # w => job'[v] = job[v] /\ pc'[v] = pc[v]
        /\ job' = job /\ job[w] \in RestoreIds /\ pc'[w] = "recreate"
        /\ UNCHANGED uploaded
    BY <1>6 DEF PgRestoreDrop, IsPgRestore, Goto, SameJob, ghostVars, TypeOK, WorkersOK
  <2>2. \A r \in Runs : runs'[r].status = "completed" => runs[r].status = "completed"
    BY <1>6, StatusOf, GoneStatus DEF PgRestoreDrop
  <2> QED
    BY <2>1, <2>2 DEF KeepsArchives, Runs
<1>7. CASE PgRestoreCreate(w)
  BY <1>1, <1>7, QuietArchives DEF PgRestoreCreate, SameJob, ghostVars, Locations
<1> QED
  BY <1>2, <1>3, <1>4, <1>5, <1>6, <1>7 DEF ExecuteStage

LEMMA OutcomeArchives ==
    ASSUME TypeOK, ArchiveInv, NEW w \in Instances, FinishRun(w)
    PROVE  KeepsArchives(w)
<1>1. UNCHANGED uploaded /\ job[w] \in Runs
  BY DEF FinishRun, CompleteBackupRun, CompleteRestoreRun, InsertCompletedRestoreRun,
         FailBackupRun, FailRestoreRun, InsertFailedRestoreRun,
         TypeOK, WorkersOK, JobLocations
<1>2. ASSUME \/ Finish(w)
             \/ SameJob /\ job[w] \in RestoreIds
                /\ (Goto(w, "insert_completed") \/ Goto(w, "insert_failed"))
      PROVE  /\ \A v \in Instances : v # w => job'[v] = job[v] /\ pc'[v] = pc[v]
             /\ pc'[w] \in {"claim_backup", "insert_completed", "insert_failed"}
             /\ pc'[w] # "claim_backup" => job'[w] \in RestoreIds
  BY <1>2 DEF Finish, LetGo, SameJob, Goto, TypeOK, WorkersOK
<1>3. ASSUME NEW row, row.status = "failed" \/ job[w] \notin BackupIds
                      \/ job[w] \in uploaded,
             runs' = runs \/ runs' = [runs EXCEPT ![job[w]] = row]
      PROVE  \A r \in BackupIds : runs'[r].status = "completed"
                => runs[r].status = "completed" \/ r \in uploaded
  BY <1>3 DEF TypeOK, RowsOK, Runs
<1>4. ASSUME \/ Finish(w)
             \/ SameJob /\ job[w] \in RestoreIds
                /\ (Goto(w, "insert_completed") \/ Goto(w, "insert_failed")),
             NEW row, row.status = "failed" \/ job[w] \notin BackupIds
                      \/ job[w] \in uploaded,
             runs' = runs \/ runs' = [runs EXCEPT ![job[w]] = row]
      PROVE  KeepsArchives(w)
  BY <1>1, <1>2, <1>3, <1>4 DEF KeepsArchives
<1>5. CASE CompleteBackupRun(w)
  <2>1. job[w] \in uploaded
    BY <1>5 DEF CompleteBackupRun, ArchiveInv
  <2> QED
    BY <1>4, <1>5, <2>1 DEF CompleteBackupRun, GiveUp
<1>6. CASE FailBackupRun(w)
  BY <1>4, <1>6, StatusOf DEF FailBackupRun, GiveUp
<1>7. job[w] \in RestoreIds => job[w] \notin BackupIds
  BY IdsAssumption
<1>8. CASE CompleteRestoreRun(w)
  BY <1>4, <1>7, <1>8 DEF CompleteRestoreRun, GiveUp
<1>9. CASE FailRestoreRun(w)
  BY <1>4, <1>7, <1>9 DEF FailRestoreRun, GiveUp
<1>10. CASE InsertCompletedRestoreRun(w) \/ InsertFailedRestoreRun(w)
  <2>1. job[w] \in RestoreIds
    BY <1>10 DEF InsertCompletedRestoreRun, InsertFailedRestoreRun, ArchiveInv
  <2>2. Finish(w)
    BY <1>10 DEF InsertCompletedRestoreRun, InsertFailedRestoreRun, InsertRun, GiveUp
  <2>3. \E row : runs' = runs \/ runs' = [runs EXCEPT ![job[w]] = row]
    BY <1>10 DEF InsertCompletedRestoreRun, InsertFailedRestoreRun, InsertRun, GiveUp
  <2> QED
    BY <1>4, <1>7, <2>1, <2>2, <2>3
<1> QED
  BY <1>5, <1>6, <1>8, <1>9, <1>10 DEF FinishRun

LEMMA ArchiveStep == TypeOK /\ ArchiveInv /\ [Next]_vars => ArchiveInv'
<1> SUFFICES ASSUME TypeOK, ArchiveInv, [Next]_vars PROVE ArchiveInv'
  OBVIOUS
<1>1. CASE UNCHANGED vars
  BY <1>1 DEF vars, rowVars, workerVars, ghostVars, ArchiveInv, CompletedHasArchive
<1>2. ASSUME NEW w \in Instances, WorkerStep(w) PROVE ArchiveInv'
  BY <1>2, StartArchives, ProcessOneArchives, StageArchives, OutcomeArchives,
     KeepsArchivesStep DEF WorkerStep
<1>3. ASSUME NEW r \in Runs, Enqueue(r) PROVE ArchiveInv'
  <2>1. UNCHANGED <<workerVars, uploaded>>
    BY <1>3 DEF Enqueue, ghostVars
  <2>2. \A q \in Runs : runs'[q].status = "completed" => runs[q].status = "completed"
    BY <1>3, StatusOf DEF Enqueue, TypeOK, RowsOK
  <2> QED
    BY <2>1, <2>2 DEF ArchiveInv, CompletedHasArchive, workerVars, Runs
<1>4. CASE CreateBackupRun \/ CreateRestoreRun
  BY <1>3, <1>4 DEF CreateBackupRun, CreateRestoreRun, Runs
<1>5. ASSUME NEW w \in Instances, JobTimeout(w) PROVE ArchiveInv'
  BY <1>5 DEF JobTimeout, rowVars, ghostVars, ArchiveInv, CompletedHasArchive
<1>6. ASSUME NEW w \in Instances, Panic(w) \/ Crash(w) PROVE ArchiveInv'
  BY <1>6, QuietArchives, KeepsArchivesStep
     DEF Panic, Crash, SameJob, rowVars, ghostVars, Locations
<1> QED
  BY <1>1, <1>2, <1>4, <1>5, <1>6 DEF Next

LEMMA ArchiveAlways == Spec => []ArchiveInv
  BY TypeCorrect, ArchiveInit, ArchiveStep, PTL DEF Spec

(* A backup run is recorded as completed only after its archive was        *)
(* uploaded in full: no interruption, restart, or restore of another       *)
(* process makes the table say so earlier.                                 *)
THEOREM CompletedIsUploaded == Spec => []CompletedHasArchive
<1>1. ArchiveInv => CompletedHasArchive
  BY DEF ArchiveInv
<1> QED
  BY <1>1, ArchiveAlways, PTL

-----------------------------------------------------------------------------
(* One process.  What the queue promises when one process works on it: the *)
(* worker holds a run that is running, or a restore that has wiped its own *)
(* row, and a running row that it does not hold is awaited or lost.        *)

OneInstance == \E w : Instances = {w}

Starting == {"fail_backups", "fail_restores"}

(* The worker has wiped the tables and still holds the restore.            *)
Wiped(w) == \/ pc[w] \in {"recreate", "insert_completed", "insert_failed"}
            \/ pc[w] \in Starting /\ job[w] # NoRun

WorkerInv(w) ==
    /\ pc[w] \in {"down", "claim_backup", "claim_restore", "sleep"} => job[w] = NoRun
    /\ Executing(w, job[w]) => runs[job[w]].status \in {"running", "gone"}
    /\ Wiped(w) => job[w] \in RestoreIds /\ runs[job[w]].status = "gone"
    /\ pc[w] \in {"recreate"} \cup Starting /\ job[w] # NoRun => Running(Runs) = {}

(* A running row that nobody executes missed a write, or is about to be    *)
(* failed by the worker that starts.                                       *)
Awaited(r) == \E w \in Instances : \/ pc[w] \in {"down", "fail_backups"}
                                   \/ pc[w] = "fail_restores" /\ r \in RestoreIds

OrphansInv ==
    \A r \in Runs : runs[r].status = "running" => Executed(r) \/ r \in lost \/ Awaited(r)

SoloInv == /\ PhaseMatchesStatus /\ OrphansInv
           /\ \A w \in Instances : WorkerInv(w)

(* What a step does to the rows, to the run that is executed and to `lost'.*)
Executes(w) == job[w] # NoRun /\ pc[w] # "commit_claim"

SameRun(w) == (Executes(w) <=> Executes(w)') /\ (Executes(w) => job'[w] = job[w])

Submitted(w) ==
    /\ SameRun(w)
    /\ \E r \in Runs : /\ runs[r].status = "unborn"
                       /\ runs' = [runs EXCEPT ![r] = Inserted("pending", "queued", 0)]

Quiet(w) == SameRun(w) /\ runs' = runs

Staged(w) ==
    /\ Executes(w) /\ SameRun(w) /\ runs[job[w]].status = "running"
    /\ \E k \in 1..LastStage :
          runs' = [runs EXCEPT ![job[w]] = StageRow(@, StageOf(job[w], k))]

Interrupted(w) ==
    /\ pc[w] \in Starting /\ SameRun(w)
    /\ FailRunning(IF pc[w] = "fail_backups" THEN BackupIds ELSE RestoreIds)

Claimed(w) ==
    /\ pc[w] = "commit_claim"
    /\ runs' = [runs EXCEPT ![job[w]] = ClaimedRow(@)]
    /\ IF Executes(w)' THEN job'[w] = job[w] ELSE job[w] \in lost'

Dropped(w) ==
    /\ pc[w] = "work" /\ SameRun(w) /\ job[w] \in RestoreIds
    /\ runs' = [r \in Runs |-> IF Exists(r) THEN GoneRow(runs[r]) ELSE runs[r]]

Recorded(w) ==
    /\ Executes(w) /\ ~Executes(w)'
    /\ \/ /\ runs[job[w]].status = "running"
          /\ \/ runs' = [runs EXCEPT ![job[w]] = CompletedRow(@)]
             \/ pc[w] = "failing" /\ runs' = [runs EXCEPT ![job[w]] = FailedRow(@)]
       \/ /\ runs[job[w]].status = "gone"
          /\ \/ runs' = [runs EXCEPT ![job[w]] = Inserted("completed", "completed", 100)]
             \/ runs' = [runs EXCEPT ![job[w]] = Inserted("failed", "failed", 1)]

Unrecorded(w) ==
    /\ Executes(w) /\ ~Executes(w)' /\ runs' = runs
    /\ runs[job[w]].status = "gone" \/ job[w] \in lost' \/ pc'[w] = "down"

Moves(w) == \/ Submitted(w) \/ Quiet(w) \/ Staged(w) \/ Interrupted(w) \/ Claimed(w)
            \/ Dropped(w) \/ Recorded(w) \/ Unrecorded(w)

(* A row that was awaited still is, or has been seen to.                   *)
Remembers(w) ==
    /\ lost \subseteq lost'
    /\ \A r \in Runs : Awaited(r) /\ runs'[r].status = "running" => Awaited(r)' \/ r \in lost'

Advances(w) == Moves(w) /\ Remembers(w) /\ WorkerInv(w)'

(* Facts about the only worker, in the form the steps need them.           *)
LEMMA SoloFacts ==
    ASSUME OneInstance, TypeOK, SoloInv, NEW w \in Instances
    PROVE  /\ \A v \in Instances : v = w
           /\ WorkerInv(w) /\ runs \in [Runs -> Row] /\ NoRun \notin Runs
           /\ \A r \in Runs : Awaited(r) <=> \/ pc[w] \in {"down", "fail_backups"}
                                             \/ pc[w] = "fail_restores" /\ r \in RestoreIds
           /\ \A r \in Runs : Awaited(r)' <=> \/ pc'[w] \in {"down", "fail_backups"}
                                              \/ pc'[w] = "fail_restores" /\ r \in RestoreIds
           /\ pc[w] \in JobLocations =>
                 /\ Executes(w) /\ job[w] \in Runs
                 /\ runs[job[w]].status \in {"running", "gone"}
           /\ job[w] \in Runs \cup {NoRun}
           /\ DOMAIN pc = Instances /\ DOMAIN job = Instances
<1>1. \A v \in Instances : v = w
  BY DEF OneInstance
<1>2. /\ WorkerInv(w) /\ runs \in [Runs -> Row] /\ NoRun \notin Runs
      /\ job[w] \in Runs \cup {NoRun} /\ DOMAIN pc = Instances /\ DOMAIN job = Instances
      /\ pc[w] \in JobLocations => job[w] # NoRun
  BY IdsAssumption DEF SoloInv, TypeOK, RowsOK, WorkersOK
<1>3. \A r \in Runs : Awaited(r) <=> \/ pc[w] \in {"down", "fail_backups"}
                                     \/ pc[w] = "fail_restores" /\ r \in RestoreIds
  BY <1>1 DEF Awaited
<1>4. \A r \in Runs : Awaited(r)' <=> \/ pc'[w] \in {"down", "fail_backups"}
                                      \/ pc'[w] = "fail_restores" /\ r \in RestoreIds
  BY <1>1 DEF Awaited
<1>5. pc[w] \in JobLocations =>
         /\ Executes(w) /\ job[w] \in Runs
         /\ runs[job[w]].status \in {"running", "gone"}
  BY <1>2 DEF JobLocations, Executes, WorkerInv, Executing
<1> QED
  BY <1>1, <1>2, <1>3, <1>4, <1>5

(* The worker that starts fails what was left running.                     *)
LEMMA StartAdvances ==
    ASSUME OneInstance, TypeOK, SoloInv, NEW w \in Instances,
           StartInstance(w) \/ FailRunningBackups(w) \/ FailRunningRestores(w)
    PROVE  Advances(w)
<1>1. WorkerInv(w) /\ DOMAIN pc = Instances /\ job' = job
  BY SoloFacts DEF StartInstance, FailRunningBackups, FailRunningRestores,
     AfterFailRunningJobs, SameJob
<1>2. CASE StartInstance(w)
  <2>1. pc[w] = "down" /\ pc'[w] = "fail_backups" /\ runs' = runs /\ lost' = lost
    BY <1>1, <1>2 DEF StartInstance, Goto, ghostVars
  <2>2. job[w] = NoRun
    BY <1>1, <2>1 DEF WorkerInv
  <2>3. Moves(w)
    BY <1>1, <2>1, <2>2 DEF Moves, Quiet, SameRun, Executes
  <2>4. WorkerInv(w)'
    BY <1>1, <2>1, <2>2 DEF WorkerInv, Wiped, Executing
  <2>5. Remembers(w)
    BY <2>1, SoloFacts DEF Remembers
  <2> QED
    BY <2>3, <2>4, <2>5 DEF Advances
<1>3. ASSUME FailRunningBackups(w) \/ FailRunningRestores(w)
      PROVE  Advances(w)
  <2>1. /\ pc[w] \in Starting /\ pc'[w] \in {"fail_restores", "claim_backup", "progress"}
        /\ pc'[w] = "claim_backup" => job[w] = NoRun
        /\ pc'[w] = "progress" => job[w] # NoRun
        /\ pc'[w] = "fail_restores" => pc[w] = "fail_backups"
        /\ \/ /\ runs' = runs
              /\ lost' = lost \cup Running(IF pc[w] = "fail_backups" THEN Runs ELSE RestoreIds)
           \/ /\ FailRunning(IF pc[w] = "fail_backups" THEN BackupIds ELSE RestoreIds)
              /\ lost' = lost
              /\ pc[w] = "fail_backups" => pc'[w] = "fail_restores"
    BY <1>1, <1>3 DEF FailRunningBackups, FailRunningRestores, AfterFailRunningJobs, Goto,
       Starting
  <2>2. Moves(w)
    BY <1>1, <2>1 DEF Moves, Quiet, Interrupted, SameRun, Executes, Starting
  <2>3. \A r \in Runs : /\ runs'[r].status \in {runs[r].status, "failed"}
                        /\ runs[r].status # "running" => runs'[r] = runs[r]
    <3>1. ASSUME NEW Table, FailRunning(Table), NEW r \in Runs
          PROVE  /\ runs'[r].status \in {runs[r].status, "failed"}
                 /\ runs[r].status # "running" => runs'[r] = runs[r]
      BY <3>1, StatusOf DEF FailRunning, Running
    <3> QED
      BY <2>1, <3>1
  <2>4. WorkerInv(w)'
    <3>1. job[w] # NoRun => /\ job[w] \in RestoreIds /\ runs[job[w]].status = "gone"
                            /\ Running(Runs) = {}
      BY <1>1, <2>1 DEF WorkerInv, Wiped, Starting
    <3>2. job[w] # NoRun => runs'[job[w]].status = "gone" /\ Running(Runs)' = {}
      BY <2>3, <3>1 DEF Running, Runs
    <3> QED
      BY <1>1, <2>1, <3>1, <3>2 DEF WorkerInv, Wiped, Starting, Executing
  <2>5. Remembers(w)
    <3> SUFFICES ASSUME NEW r \in Runs, Awaited(r), runs'[r].status = "running",
                        r \notin lost'
                 PROVE  Awaited(r)'
      BY <2>1 DEF Remembers
    <3>1. runs[r].status = "running"
      BY <2>3
    <3>2. FailRunning(IF pc[w] = "fail_backups" THEN BackupIds ELSE RestoreIds)
          /\ (pc[w] = "fail_backups" => pc'[w] = "fail_restores")
      BY <2>1, <3>1, SoloFacts DEF Running, Starting
    <3>3. pc[w] = "fail_backups" /\ r \in RestoreIds
      BY <2>1, <3>1, <3>2, SoloFacts, StatusOf DEF FailRunning, Running, Starting, Runs
    <3> QED
      BY <3>2, <3>3, SoloFacts
  <2> QED
    BY <2>2, <2>4, <2>5 DEF Advances
<1> QED
  BY <1>2, <1>3

(* A claim takes a pending run in hand, or loses it with the answer.       *)
LEMMA ProcessOneAdvances ==
    ASSUME OneInstance, TypeOK, ClaimInv, SoloInv, NEW w \in Instances, ProcessOne(w)
    PROVE  Advances(w)
<1>1. WorkerInv(w) /\ DOMAIN pc = Instances /\ DOMAIN job = Instances
  BY SoloFacts
<1>2. CASE \E Table \in {BackupIds, RestoreIds}, whenNone \in {"claim_restore", "sleep"} :
              SelectOldest(w, Table, whenNone) /\ pc[w] \in {"claim_backup", "claim_restore"}
  <2>1. /\ runs' = runs /\ lost' = lost /\ job[w] = NoRun
        /\ pc[w] \in {"claim_backup", "claim_restore"}
        /\ \/ pc'[w] = "commit_claim"
           \/ pc'[w] \in {"claim_restore", "sleep"} /\ job' = job
    BY <1>1, <1>2 DEF SelectOldest, Goto, SameJob, rowVars, ghostVars, WorkerInv
  <2>2. Moves(w)
    BY <2>1 DEF Moves, Quiet, SameRun, Executes
  <2>3. WorkerInv(w)'
    BY <2>1 DEF WorkerInv, Wiped, Executing, Starting
  <2>4. Remembers(w)
    BY <2>1, SoloFacts DEF Remembers
  <2> QED
    BY <2>2, <2>3, <2>4 DEF Advances
<1>3. CASE CommitClaim(w)
  <2>1. job[w] \in Runs /\ runs[job[w]].status = "pending" /\ pc[w] = "commit_claim"
    BY <1>3, SoloFacts DEF CommitClaim, ClaimInv, TypeOK, WorkersOK
  <2>2. /\ \/ /\ runs' = [runs EXCEPT ![job[w]] = ClaimedRow(@)] /\ lost' = lost
              /\ pc'[w] = "open" /\ job' = job
           \/ /\ runs' = runs /\ lost' = lost
              /\ pc'[w] = "sleep" /\ job'[w] = NoRun
           \/ /\ runs' = [runs EXCEPT ![job[w]] = ClaimedRow(@)] /\ lost' = lost \cup {job[w]}
              /\ pc'[w] = "sleep" /\ job'[w] = NoRun
    BY <1>1, <1>3 DEF CommitClaim, Goto, SameJob, LetGo
  <2>3. Moves(w) /\ WorkerInv(w)'
    <3>1. CASE runs' = runs /\ pc'[w] = "sleep" /\ job'[w] = NoRun
      BY <2>1, <3>1 DEF Moves, Quiet, SameRun, Executes, WorkerInv, Wiped, Executing, Starting
    <3>2. CASE /\ runs' = [runs EXCEPT ![job[w]] = ClaimedRow(@)]
               /\ pc'[w] = "sleep" /\ job'[w] = NoRun /\ job[w] \in lost'
      BY <2>1, <3>2 DEF Moves, Claimed, Executes, WorkerInv, Wiped, Executing, Starting
    <3>3. CASE /\ runs' = [runs EXCEPT ![job[w]] = ClaimedRow(@)]
               /\ pc'[w] = "open" /\ job' = job
      <4>1. runs'[job[w]].status = "running"
        BY <2>1, <3>3, SoloFacts, StatusOf
      <4>2. Moves(w)
        BY <2>1, <3>3, SoloFacts DEF Moves, Claimed, Executes
      <4>3. WorkerInv(w)'
        BY <3>3, <4>1 DEF WorkerInv, Wiped, Executing, Starting
      <4> QED
        BY <4>2, <4>3
    <3> QED
      BY <2>2, <3>1, <3>2, <3>3
  <2>4. Remembers(w)
    BY <2>1, <2>2, SoloFacts DEF Remembers
  <2> QED
    BY <2>3, <2>4 DEF Advances
<1>4. CASE Tick(w)
  <2>1. /\ runs' = runs /\ lost' = lost /\ job' = job /\ job[w] = NoRun
        /\ pc[w] = "sleep" /\ pc'[w] = "claim_backup"
    BY <1>1, <1>4 DEF Tick, Goto, SameJob, rowVars, ghostVars, WorkerInv
  <2>2. Moves(w) /\ WorkerInv(w)'
    BY <2>1 DEF Moves, Quiet, SameRun, Executes, WorkerInv, Wiped, Executing, Starting
  <2>3. Remembers(w)
    BY <2>1, SoloFacts DEF Remembers
  <2> QED
    BY <2>2, <2>3 DEF Advances
<1> QED
  BY <1>2, <1>3, <1>4 DEF ProcessOne, ClaimPendingBackupRun, ClaimPendingRestoreRun

(* A step of a worker that executes a run and goes on with it, or comes    *)
(* from the wiped tables to the recreated ones.                            *)
LEMMA GoesOnAdvances ==
    ASSUME OneInstance, TypeOK, SoloInv, NEW w \in Instances,
           pc[w] \in JobLocations, job'[w] = job[w], lost \subseteq lost', runs' = runs,
           \/ pc'[w] \in {"open", "progress", "work", "complete", "failing"}
           \/ pc'[w] = pc[w]
           \/ pc[w] = "recreate" /\ pc'[w] = "fail_backups"
           \/ /\ pc[w] \in {"complete", "failing"} /\ ~Exists(job[w]) /\ job[w] \in RestoreIds
              /\ pc'[w] \in {"insert_completed", "insert_failed"}
    PROVE  Advances(w)
<1>1. /\ WorkerInv(w) /\ Executes(w) /\ job[w] \in Runs
      /\ runs[job[w]].status \in {"running", "gone"}
  BY SoloFacts
<1>2. Moves(w)
  BY <1>1 DEF Moves, Quiet, SameRun, Executes, JobLocations
<1>3. WorkerInv(w)'
  BY <1>1 DEF WorkerInv, Wiped, Executing, Starting, Running, Executes, JobLocations, Exists,
     Present
<1>4. Remembers(w)
  BY SoloFacts DEF Remembers, JobLocations
<1> QED
  BY <1>2, <1>3, <1>4 DEF Advances

LEMMA StageAdvances ==
    ASSUME OneInstance, TypeOK, SoloInv, NEW w \in Instances, ExecuteStage(w)
    PROVE  Advances(w)
<1>1. DOMAIN pc = Instances /\ pc[w] \in JobLocations /\ job' = job /\ lost' = lost
  BY SoloFacts DEF ExecuteStage, OpenTarget, UpdateProgress, StageSucceeds, StageFails,
     PgRestoreDrop, PgRestoreCreate, Abort, SameJob, ghostVars, JobLocations
<1>2. /\ WorkerInv(w) /\ Executes(w) /\ job[w] \in Runs
      /\ runs[job[w]].status \in {"running", "gone"}
  BY <1>1, SoloFacts
<1>3. CASE OpenTarget(w) \/ StageSucceeds(w) \/ StageFails(w) \/ PgRestoreCreate(w)
  <2>1. /\ runs' = runs
        /\ \/ pc'[w] \in {"open", "progress", "work", "complete", "failing"}
           \/ pc[w] = "recreate" /\ pc'[w] = "fail_backups"
    BY <1>1, <1>3 DEF OpenTarget, StageSucceeds, StageFails, PgRestoreCreate, Abort, Goto,
       rowVars
  <2> QED
    BY <1>1, <2>1, GoesOnAdvances
<1>4. CASE UpdateProgress(w)
  <2>1. pc'[w] \in {"work", "failing"} /\ stage[w] \in 1..LastStage /\ pc[w] = "progress"
    BY <1>1, <1>4 DEF UpdateProgress, Abort, Goto, TypeOK, WorkersOK, LastStage
  <2>2. CASE runs' = runs
    BY <1>1, <2>1, <2>2, GoesOnAdvances
  <2>3. CASE runs' # runs
    <3>1. /\ Exists(job[w])
          /\ runs' = [runs EXCEPT ![job[w]] = StageRow(@, StageOf(job[w], stage[w]))]
      BY <1>4, <2>3 DEF UpdateProgress
    <3>2. runs[job[w]].status = "running"
      BY <1>2, <3>1 DEF Exists, Present, Terminal
    <3>3. Moves(w)
      BY <1>1, <1>2, <2>1, <3>1, <3>2 DEF Moves, Staged, SameRun, Executes
    <3>4. runs'[job[w]].status = "running"
      BY <1>2, <3>1, <3>2, SoloFacts, StatusOf
    <3>5. WorkerInv(w)'
      BY <1>1, <1>2, <2>1, <3>4 DEF WorkerInv, Wiped, Executing, Starting
    <3>6. Remembers(w)
      BY <1>1, <2>1, SoloFacts DEF Remembers
    <3> QED
      BY <3>3, <3>5, <3>6 DEF Advances
  <2> QED
    BY <2>2, <2>3
<1>5. CASE PgRestoreDrop(w)
  <2>1. /\ pc[w] = "work" /\ pc'[w] = "recreate" /\ job[w] \in RestoreIds
        /\ runs' = [r \in Runs |-> IF Exists(r) THEN GoneRow(runs[r]) ELSE runs[r]]
    BY <1>1, <1>5 DEF PgRestoreDrop, IsPgRestore, Goto
  <2>2. Moves(w)
    BY <1>1, <1>2, <2>1 DEF Moves, Dropped, SameRun, Executes
  <2>3. \A r \in Runs : runs'[r].status # "running"
    BY <2>1, StatusOf, GoneStatus DEF Exists, Present
  <2>4. runs'[job[w]].status = "gone"
    BY <1>2, <2>1, StatusOf, GoneStatus DEF Exists, Present
  <2>5. WorkerInv(w)'
    BY <1>1, <1>2, <2>1, <2>3, <2>4 DEF WorkerInv, Wiped, Executing, Starting, Running
  <2>6. Remembers(w)
    BY <1>1, <2>1, SoloFacts DEF Remembers
  <2> QED
    BY <2>2, <2>5, <2>6 DEF Advances
<1> QED
  BY <1>3, <1>4, <1>5 DEF ExecuteStage

(* A worker that lets go of its run leaves no running row that is not lost.*)
LEMMA LetsGoAdvances ==
    ASSUME OneInstance, TypeOK, SoloInv, NEW w \in Instances,
           pc[w] \in JobLocations, job'[w] = NoRun, pc'[w] = "claim_backup",
           lost \subseteq lost', Recorded(w) \/ Unrecorded(w)
    PROVE  Advances(w)
<1>1. WorkerInv(w)'
  BY DEF WorkerInv, Wiped, Executing, Starting
<1>2. Remembers(w)
  BY SoloFacts DEF Remembers, JobLocations
<1> QED
  BY <1>1, <1>2 DEF Advances, Moves

LEMMA FinishAdvances ==
    ASSUME OneInstance, TypeOK, SoloInv, NEW w \in Instances, FinishRun(w)
    PROVE  Advances(w)
<1>1. /\ pc[w] \in {"complete", "failing", "insert_completed", "insert_failed"}
      /\ DOMAIN pc = Instances /\ DOMAIN job = Instances
  BY SoloFacts DEF FinishRun, CompleteBackupRun, CompleteRestoreRun,
     InsertCompletedRestoreRun, FailBackupRun, FailRestoreRun, InsertFailedRestoreRun
<1>2. /\ pc[w] \in JobLocations /\ Executes(w) /\ job[w] \in Runs
      /\ runs[job[w]].status \in {"running", "gone"} /\ WorkerInv(w)
      /\ Exists(job[w]) <=> runs[job[w]].status = "running"
  BY <1>1, SoloFacts DEF JobLocations, Exists, Present, Terminal
<1>3. \/ GiveUp(w)
      \/ /\ Finish(w) /\ lost' = lost
         /\ \/ ~Exists(job[w]) /\ runs' = runs
            \/ Exists(job[w]) /\ runs' = [runs EXCEPT ![job[w]] = CompletedRow(@)]
            \/ /\ Exists(job[w]) /\ pc[w] = "failing"
               /\ runs' = [runs EXCEPT ![job[w]] = FailedRow(@)]
            \/ /\ pc[w] = "insert_completed"
               /\ runs' = [runs EXCEPT ![job[w]] = Inserted("completed", "completed", 100)]
            \/ /\ pc[w] = "insert_failed"
               /\ runs' = [runs EXCEPT ![job[w]] = Inserted("failed", "failed", 1)]
      \/ /\ pc[w] \in {"complete", "failing"} /\ ~Exists(job[w]) /\ job[w] \in RestoreIds
         /\ \E location \in {"insert_completed", "insert_failed"} : Goto(w, location)
         /\ job' = job /\ runs' = runs /\ lost' = lost
  <2>1. CASE CompleteBackupRun(w) \/ FailBackupRun(w)
    BY <2>1 DEF CompleteBackupRun, FailBackupRun
  <2>2. CASE CompleteRestoreRun(w) \/ FailRestoreRun(w)
    BY <2>2 DEF CompleteRestoreRun, FailRestoreRun, SameJob
  <2>3. CASE InsertCompletedRestoreRun(w) \/ InsertFailedRestoreRun(w)
    BY <2>3 DEF InsertCompletedRestoreRun, InsertFailedRestoreRun, InsertRun
  <2> QED
    BY <2>1, <2>2, <2>3 DEF FinishRun
<1>4. Finish(w) => pc'[w] = "claim_backup" /\ job'[w] = NoRun
  BY <1>1 DEF Finish, LetGo, Goto
<1>5. CASE GiveUp(w)
  <2>1. Unrecorded(w) /\ lost \subseteq lost'
    BY <1>2, <1>4, <1>5 DEF GiveUp, Unrecorded, Executes
  <2> QED
    BY <1>2, <1>4, <1>5, <2>1, LetsGoAdvances DEF GiveUp
<1>6. CASE /\ pc[w] \in {"complete", "failing"} /\ ~Exists(job[w]) /\ job[w] \in RestoreIds
           /\ \E location \in {"insert_completed", "insert_failed"} : Goto(w, location)
           /\ job' = job /\ runs' = runs /\ lost' = lost
  BY <1>1, <1>2, <1>6, GoesOnAdvances DEF Goto
<1>7. CASE Finish(w) /\ lost' = lost /\ ~Exists(job[w]) /\ runs' = runs
  <2>1. Unrecorded(w)
    BY <1>2, <1>4, <1>7 DEF Unrecorded, Executes
  <2> QED
    BY <1>2, <1>4, <1>7, <2>1, LetsGoAdvances
<1>8. CASE /\ Finish(w) /\ lost' = lost
           /\ \/ Exists(job[w]) /\ runs' = [runs EXCEPT ![job[w]] = CompletedRow(@)]
              \/ /\ Exists(job[w]) /\ pc[w] = "failing"
                 /\ runs' = [runs EXCEPT ![job[w]] = FailedRow(@)]
              \/ /\ pc[w] = "insert_completed"
                 /\ runs' = [runs EXCEPT ![job[w]] = Inserted("completed", "completed", 100)]
              \/ /\ pc[w] = "insert_failed"
                 /\ runs' = [runs EXCEPT ![job[w]] = Inserted("failed", "failed", 1)]
  <2>1. pc[w] \in {"insert_completed", "insert_failed"} => runs[job[w]].status = "gone"
    BY <1>2 DEF WorkerInv, Wiped
  <2>2. Executes(w) /\ ~Executes(w)'
    BY <1>2, <1>4, <1>8 DEF Executes
  <2>3. Recorded(w)
    BY <1>2, <1>8, <2>1, <2>2 DEF Recorded
  <2> QED
    BY <1>2, <1>4, <1>8, <2>3, LetsGoAdvances
<1> QED
  BY <1>3, <1>5, <1>6, <1>7, <1>8

LEMMA EnvironmentAdvances ==
    ASSUME OneInstance, TypeOK, SoloInv, NEW w \in Instances,
           \/ CreateBackupRun \/ CreateRestoreRun
           \/ JobTimeout(w) \/ Panic(w) \/ Crash(w)
    PROVE  Advances(w)
<1>1. WorkerInv(w) /\ DOMAIN pc = Instances /\ DOMAIN job = Instances
  BY SoloFacts
<1>2. CASE CreateBackupRun \/ CreateRestoreRun
  <2>1. PICK r \in Runs : Enqueue(r)
    BY <1>2 DEF CreateBackupRun, CreateRestoreRun, Runs
  <2>2. /\ pc' = pc /\ job' = job /\ lost' = lost /\ runs[r].status = "unborn"
        /\ runs' = [runs EXCEPT ![r] = Inserted("pending", "queued", 0)]
    BY <2>1 DEF Enqueue, workerVars, ghostVars
  <2>3. Moves(w)
    BY <2>2 DEF Moves, Submitted, SameRun, Executes
  <2>4. /\ \A q \in Runs : runs[q].status # "unborn" => runs'[q] = runs[q]
        /\ runs'[r].status = "pending"
    BY <2>2, SoloFacts, StatusOf
  <2>5. \A q \in Runs : runs'[q].status = "running" => runs[q].status = "running"
    BY <2>2, <2>4, SoloFacts
  <2>6. job[w] \in Runs \cup {NoRun} /\ NoRun \notin Runs /\ RestoreIds \subseteq Runs
    BY SoloFacts DEF Runs
  <2>7. WorkerInv(w)'
    BY <1>1, <2>2, <2>4, <2>5, <2>6 DEF WorkerInv, Wiped, Executing, Starting, Running
  <2>8. Remembers(w)
    BY <2>2, SoloFacts DEF Remembers
  <2> QED
    BY <2>3, <2>7, <2>8 DEF Advances
<1>3. CASE JobTimeout(w)
  <2>1. pc' = pc /\ job' = job /\ runs' = runs /\ lost' = lost
    BY <1>3 DEF JobTimeout, rowVars, ghostVars
  <2>2. Moves(w) /\ WorkerInv(w)'
    BY <1>1, <2>1 DEF Moves, Quiet, SameRun, Executes, WorkerInv, Wiped, Executing, Running
  <2>3. Remembers(w)
    BY <2>1, SoloFacts DEF Remembers
  <2> QED
    BY <2>2, <2>3 DEF Advances
<1>4. CASE Panic(w)
  BY <1>1, <1>4, GoesOnAdvances DEF Panic, Goto, SameJob, rowVars, ghostVars, JobLocations
<1>5. CASE Crash(w)
  <2>1. pc'[w] = "down" /\ job'[w] = NoRun /\ runs' = runs /\ lost' = lost
    BY <1>1, <1>5 DEF Crash, LetGo, Goto, rowVars, ghostVars
  <2>2. Moves(w)
    BY <2>1 DEF Moves, Quiet, Unrecorded, SameRun, Executes
  <2>3. WorkerInv(w)' /\ Remembers(w)
    BY <2>1, SoloFacts DEF WorkerInv, Wiped, Executing, Starting, Remembers
  <2> QED
    BY <2>2, <2>3 DEF Advances
<1> QED
  BY <1>2, <1>3, <1>4, <1>5

(* Every step of the queue is one of the moves.                            *)
LEMMA NextAdvances ==
    ASSUME OneInstance, TypeOK, ClaimInv, SoloInv, NEW w \in Instances, Next
    PROVE  Advances(w)
BY SoloFacts, StartAdvances, ProcessOneAdvances, StageAdvances, FinishAdvances,
   EnvironmentAdvances DEF Next, WorkerStep

(* Status, phase and percentage of every row a statement writes agree.     *)
Tells(row) ==
    row.status \in Present =>
        /\ row.status = "pending" <=> row.phase = "queued"
        /\ row.status = "failed" <=> row.phase = "failed"
        /\ row.status = "completed" <=> row.phase = "completed"
        /\ row.status = "completed" <=> row.progress = 100

LEMMA RowsTell ==
    /\ Tells(Inserted("pending", "queued", 0)) /\ \A row : Tells(GoneRow(row))
    /\ Tells(Inserted("completed", "completed", 100)) /\ Tells(Inserted("failed", "failed", 1))
    /\ \A row \in Row :
          /\ Tells(ClaimedRow(row)) /\ Tells(CompletedRow(row))
          /\ row.status = "running" /\ Tells(row) =>
                /\ Tells(FailedRow(row))
                /\ \A r \in Runs, k \in 1..LastStage : Tells(StageRow(row, StageOf(r, k)))
<1>1. \A r \in Runs, k \in 1..LastStage :
         /\ StageOf(r, k).phase \notin {"queued", "failed", "completed"}
         /\ StageOf(r, k).percent # 100
  <2>1. ASSUME NEW r \in Runs, NEW k \in 1..LastStage
        PROVE  /\ StageOf(r, k).phase \notin {"queued", "failed", "completed"}
               /\ StageOf(r, k).percent # 100
    <3>1. k \in 1..5
      BY DEF LastStage
    <3> QED
      BY <3>1 DEF StageOf, BackupStages, RestoreStages
  <2> QED
    BY <2>1
<1>2. /\ Tells(Inserted("pending", "queued", 0)) /\ \A row : Tells(GoneRow(row))
      /\ Tells(Inserted("completed", "completed", 100))
      /\ Tells(Inserted("failed", "failed", 1))
  BY DEF Tells, Inserted, GoneRow, Present, Terminal
<1>3. ASSUME NEW row \in Row
      PROVE  /\ Tells(ClaimedRow(row)) /\ Tells(CompletedRow(row))
             /\ row.status = "running" /\ Tells(row) =>
                   /\ Tells(FailedRow(row))
                   /\ \A r \in Runs, k \in 1..LastStage : Tells(StageRow(row, StageOf(r, k)))
  BY <1>1 DEF Tells, ClaimedRow, CompletedRow, FailedRow, StageRow, Updated, Present
<1> QED
  BY <1>2, <1>3

LEMMA PhasesAre ==
    /\ PhaseMatchesStatus <=> \A r \in Runs : Tells(runs[r])
    /\ PhaseMatchesStatus' <=> \A r \in Runs : Tells(runs'[r])
BY DEF PhaseMatchesStatus, Exists, Tells

(* What a move does to each row.                                           *)
Rewritten(w, r) ==
    \/ runs'[r] = runs[r]
    \/ runs[r].status = "unborn" /\ runs'[r] = Inserted("pending", "queued", 0)
    \/ runs[r].status = "pending" /\ runs'[r] = ClaimedRow(runs[r])
    \/ /\ runs[r].status = "running"
       /\ \/ \E k \in 1..LastStage : runs'[r] = StageRow(runs[r], StageOf(r, k))
          \/ runs'[r] = FailedRow(runs[r]) /\ (pc[w] \in Starting \/ pc[w] = "failing")
          \/ runs'[r] = CompletedRow(runs[r])
    \/ pc[w] = "work" /\ runs'[r] = GoneRow(runs[r])
    \/ /\ runs[r].status = "gone"
       /\ runs'[r] \in {Inserted("completed", "completed", 100), Inserted("failed", "failed", 1)}

LEMMA RowsAreRewritten ==
    ASSUME OneInstance, TypeOK, ClaimInv, SoloInv, NEW w \in Instances, Moves(w),
           NEW r \in Runs
    PROVE  Rewritten(w, r)
<1>1. runs \in [Runs -> Row] /\ (pc[w] = "commit_claim" => runs[job[w]].status = "pending")
  BY SoloFacts DEF ClaimInv
<1>2. CASE Submitted(w) \/ Quiet(w)
  BY <1>1, <1>2 DEF Submitted, Quiet, Rewritten
<1>3. CASE Staged(w)
  BY <1>1, <1>3 DEF Staged, Rewritten
<1>4. CASE Interrupted(w)
  BY <1>1, <1>4 DEF Interrupted, FailRunning, Running, Rewritten
<1>5. CASE Claimed(w)
  BY <1>1, <1>5 DEF Claimed, Rewritten
<1>6. CASE Dropped(w)
  BY <1>1, <1>6 DEF Dropped, Rewritten
<1>7. CASE Recorded(w)
  BY <1>1, <1>7 DEF Recorded, Rewritten
<1>8. CASE Unrecorded(w)
  BY <1>8 DEF Unrecorded, Rewritten
<1> QED
  BY <1>2, <1>3, <1>4, <1>5, <1>6, <1>7, <1>8 DEF Moves

(* The invariant of one process is inductive.                              *)
LEMMA SoloStep ==
    ASSUME OneInstance, TypeOK, ClaimInv, SoloInv, NEW w \in Instances, Advances(w)
    PROVE  SoloInv'
<1>1. \A v \in Instances : WorkerInv(v)'
  BY SoloFacts DEF Advances
<1>2. PhaseMatchesStatus'
  <2>1. ASSUME NEW r \in Runs
        PROVE  Tells(runs'[r])
    <3>1. Tells(runs[r]) /\ runs[r] \in Row /\ Rewritten(w, r)
      BY PhasesAre, SoloFacts, RowsAreRewritten DEF SoloInv, Advances
    <3> QED
      BY <3>1, RowsTell DEF Rewritten
  <2> QED
    BY <2>1, PhasesAre
<1>3. OrphansInv'
  <2> SUFFICES ASSUME NEW r \in Runs, runs'[r].status = "running", r \notin lost',
                      ~Awaited(r)'
               PROVE  Executed(r)'
    BY DEF OrphansInv
  <2>1. r \notin lost /\ ~Awaited(r) /\ Moves(w) /\ job[w] \in Runs \cup {NoRun}
    BY SoloFacts DEF Advances, Remembers
  <2>2. Executes(w)' /\ job'[w] = r => Executed(r)'
    BY DEF Executes, Executed, Executing
  <2>3. Rewritten(w, r) /\ runs \in [Runs -> Row]
    BY <2>1, SoloFacts, RowsAreRewritten
  <2>4. CASE Claimed(w)
    <3>1. r = job[w] \/ runs'[r] = runs[r]
      BY <2>3, <2>4 DEF Claimed
    <3>2. CASE r = job[w]
      BY <2>2, <2>4, <3>2 DEF Claimed
    <3>3. CASE runs'[r] = runs[r]
      <4>1. Executed(r)
        BY <2>1, <3>3 DEF SoloInv, OrphansInv
      <4> QED
        BY <2>4, <4>1, SoloFacts DEF Claimed, Executed, Executing
    <3> QED
      BY <3>1, <3>2, <3>3
  <2>5. CASE ~Claimed(w)
    <3>1. runs[r].status = "running"
      <4>1. runs[r].status # "pending" \/ runs'[r] = runs[r]
        BY <2>1, <2>3, <2>5, StatusOf, GoneStatus
        DEF Moves, Submitted, Quiet, Staged, Interrupted, FailRunning, Running, Dropped,
            Recorded, Unrecorded, Exists
      <4> QED
        BY <2>3, <4>1, StatusOf, GoneStatus DEF Rewritten
    <3>2. Executed(r)
      BY <2>1, <3>1 DEF SoloInv, OrphansInv
    <3>3. Executes(w) /\ job[w] = r
      BY <3>2, SoloFacts DEF Executed, Executing, Executes
    <3>4. CASE SameRun(w)
      BY <2>2, <3>3, <3>4 DEF SameRun
    <3>5. CASE Recorded(w)
      BY <2>3, <3>1, <3>3, <3>5, StatusOf DEF Recorded
    <3>6. CASE Unrecorded(w)
      BY <2>1, <3>1, <3>3, <3>6, SoloFacts DEF Unrecorded
    <3> QED
      BY <2>1, <2>5, <3>4, <3>5, <3>6 DEF Moves, Submitted, Quiet, Staged, Interrupted, Dropped
  <2> QED
    BY <2>4, <2>5
<1> QED
  BY <1>1, <1>2, <1>3 DEF SoloInv

LEMMA SoloInit == OneInstance /\ Init => SoloInv
<1> SUFFICES ASSUME OneInstance, Init PROVE SoloInv
  OBVIOUS
<1>1. \A r \in Runs : runs[r].status = "unborn"
  BY StatusOf DEF Init, NoRow
<1>2. \A w \in Instances : pc[w] = "down" /\ job[w] = NoRun
  BY DEF Init
<1> QED
  BY <1>1, <1>2 DEF SoloInv, PhaseMatchesStatus, Exists, Present, Terminal, OrphansInv,
     WorkerInv, Wiped, Executing, Starting

LEMMA SoloNext == OneInstance /\ TypeOK /\ ClaimInv /\ SoloInv /\ [Next]_vars => SoloInv'
<1> SUFFICES ASSUME OneInstance, TypeOK, ClaimInv, SoloInv, [Next]_vars PROVE SoloInv'
  OBVIOUS
<1>1. CASE Next
  <2>1. PICK w \in Instances : TRUE
    BY DEF OneInstance
  <2> QED
    BY <1>1, <2>1, NextAdvances, SoloStep
<1>2. CASE UNCHANGED vars
  BY <1>2 DEF vars, rowVars, workerVars, ghostVars, SoloInv, PhaseMatchesStatus, Exists,
     OrphansInv, Executed, Executing, Awaited, WorkerInv, Wiped, Running
<1> QED
  BY <1>1, <1>2

LEMMA SoloAlways == ASSUME OneInstance PROVE Spec => []SoloInv
<1>1. OneInstance
  OBVIOUS
<1>2. Init => SoloInv
  BY <1>1, SoloInit
<1>3. TypeOK /\ ClaimInv /\ SoloInv /\ [Next]_vars => SoloInv'
  BY <1>1, SoloNext
<1> QED
  BY <1>2, <1>3, TypeCorrect, ClaimAlways, PTL DEF Spec

(* With one process a row always tells one story.                          *)
THEOREM SoloPhases == ASSUME OneInstance PROVE Spec => []PhaseMatchesStatus
<1>1. SoloInv => PhaseMatchesStatus
  BY DEF SoloInv
<1> QED
  BY <1>1, SoloAlways, PTL

(* With one process, a running row that nobody executes once the worker is *)
(* past its start is one whose write failed: crashes alone leave none.     *)
THEOREM SoloOrphans == ASSUME OneInstance PROVE Spec => []OrphansAreLost
<1>1. SoloInv => OrphansAreLost
  BY DEF SoloInv, OrphansInv, OrphansAreLost, Awaited
<1> QED
  BY <1>1, SoloAlways, PTL

(* With one process, a row tells one story, and it is the worker's.        *)
THEOREM SoloRows == ASSUME OneInstance PROVE Spec => []RowsAreTrue
<1>1. PhaseMatchesStatus /\ OrphansAreLost => RowsAreTrue
  BY DEF RowsAreTrue
<1> QED
  BY <1>1, SoloPhases, SoloOrphans, PTL

(* With one process, a settled row is never written again.                 *)
THEOREM SoloSettled == ASSUME OneInstance PROVE Spec => TerminalIsFinal
<1> DEFINE Final == \A r \in Runs : runs[r].status \in Terminal
                                      => runs'[r] = runs[r] \/ runs'[r].status = "gone"
<1>1. ASSUME TypeOK, ClaimInv, SoloInv, [Next]_vars
      PROVE  [Final]_vars
  <2> SUFFICES ASSUME Next, NEW r \in Runs, runs[r].status \in Terminal
               PROVE  runs'[r] = runs[r] \/ runs'[r].status = "gone"
    BY <1>1
  <2>1. PICK w \in Instances : TRUE
    BY DEF OneInstance
  <2>2. Rewritten(w, r)
    BY <1>1, <2>1, NextAdvances, RowsAreRewritten DEF Advances
  <2> QED
    BY <2>2, StatusOf, GoneStatus DEF Rewritten, Terminal
<1> QED
  BY <1>1, TypeCorrect, ClaimAlways, SoloAlways, PTL DEF Spec, TerminalIsFinal

(* With one process, a run is only interrupted when nobody executes it.    *)
THEOREM SoloInterrupts == ASSUME OneInstance PROVE Spec => InterruptedIsDead
<1> DEFINE Dead == \A r \in Runs : runs[r].status = "running" /\ runs'[r].status = "failed"
                      => \A w \in Instances : Executing(w, r) => pc[w] = "failing"
<1>1. ASSUME TypeOK, ClaimInv, SoloInv, [Next]_vars
      PROVE  [Dead]_vars
  <2> SUFFICES ASSUME Next, NEW r \in Runs, runs[r].status = "running",
                      runs'[r].status = "failed", NEW w \in Instances, Executing(w, r)
               PROVE  pc[w] = "failing"
    BY <1>1
  <2>1. Rewritten(w, r) /\ WorkerInv(w)
    BY <1>1, NextAdvances, RowsAreRewritten, SoloFacts DEF Advances
  <2>2. pc[w] \in Starting \cup {"failing"}
    BY <2>1, StatusOf, GoneStatus DEF Rewritten
  <2>3. pc[w] \notin Starting
    BY <2>1 DEF WorkerInv, Wiped, Executing
  <2> QED
    BY <2>2, <2>3
<1> QED
  BY <1>1, TypeCorrect, ClaimAlways, SoloAlways, PTL
  DEF Spec, InterruptedIsDead, Executing

(* The state that a reader of the tables sees.                             *)
Shown == [r \in Runs |-> IF runs[r].status = "gone" /\ Executed(r)
                          THEN "running" ELSE runs[r].status]

LEMMA LifecycleRuns == Lifecycle!Runs = Runs
BY DEF Lifecycle!Runs, Runs

(* The steps of the lifecycle, told of what the tables show.               *)
LEMMA OneRunMoves ==
    ASSUME NEW r \in Runs,
           \/ Shown[r] = "unborn"  /\ Shown' = [Shown EXCEPT ![r] = "pending"]
           \/ Shown[r] = "pending" /\ Shown' = [Shown EXCEPT ![r] = "running"]
           \/ Shown[r] = "running" /\ Shown' = [Shown EXCEPT ![r] = "completed"]
           \/ Shown[r] = "running" /\ Shown' = [Shown EXCEPT ![r] = "gone"]
    PROVE  Lifecycle!Next
BY LifecycleRuns DEF Lifecycle!Next, Lifecycle!Submit, Lifecycle!Claim, Lifecycle!Complete,
   Lifecycle!Forget, Lifecycle!Move, Shown

LEMMA RunsFail ==
    ASSUME NEW S \in SUBSET Runs, S # {}, \A r \in S : Shown[r] = "running",
           Shown' = [r \in Runs |-> IF r \in S THEN "failed" ELSE Shown[r]]
    PROVE  Lifecycle!Next
BY LifecycleRuns DEF Lifecycle!Next, Lifecycle!Fail, Shown

LEMMA RunsAreReplaced ==
    ASSUME NEW r \in RestoreIds, Shown[r] = "running",
           Shown' = [q \in Runs |-> IF q = r \/ Shown[q] = "unborn" THEN Shown[q] ELSE "gone"]
    PROVE  Lifecycle!Next
BY LifecycleRuns DEF Lifecycle!Next, Lifecycle!Replace, Shown

(* Whom the only worker executes.                                          *)
LEMMA ExecutedIs ==
    ASSUME OneInstance, TypeOK, NEW w \in Instances, NEW r \in Runs
    PROVE  /\ Executed(r) <=> Executes(w) /\ job[w] = r
           /\ Executed(r)' <=> Executes(w)' /\ job'[w] = r
<1>1. (\A v \in Instances : v = w) /\ NoRun # r
  BY IdsAssumption DEF OneInstance
<1> QED
  BY <1>1 DEF Executed, Executing, Executes

(* Every move is a step of the lifecycle, or no step at all.               *)
LEMMA MovesAreLifecycle ==
    ASSUME OneInstance, TypeOK, ClaimInv, SoloInv, NEW w \in Instances, Advances(w)
    PROVE  Lifecycle!Next \/ Shown' = Shown
<1> DEFINE h == job[w]
<1>1. /\ runs \in [Runs -> Row] /\ WorkerInv(w) /\ Moves(w)
      /\ pc[w] = "commit_claim" => h \in Runs /\ runs[h].status = "pending"
      /\ Executes(w) => h \in Runs /\ runs[h].status \in {"running", "gone"} /\ Shown[h] = "running"
  <2>1. runs \in [Runs -> Row] /\ WorkerInv(w) /\ Moves(w)
    BY SoloFacts DEF Advances
  <2>2. pc[w] = "commit_claim" => h \in Runs /\ runs[h].status = "pending"
    BY SoloFacts DEF ClaimInv, TypeOK, WorkersOK
  <2>3. Executes(w) => h \in Runs /\ runs[h].status \in {"running", "gone"}
    BY <2>1, SoloFacts DEF Executes, WorkerInv, Executing
  <2>4. Executes(w) => Shown[h] = "running"
    BY <2>3, ExecutedIs DEF Shown
  <2> QED
    BY <2>1, <2>2, <2>3, <2>4
<1>2. \A r \in Runs : /\ Shown[r] = IF runs[r].status = "gone" /\ Executes(w) /\ h = r
                                    THEN "running" ELSE runs[r].status
                      /\ Shown'[r] = IF runs'[r].status = "gone" /\ Executes(w)' /\ job'[w] = r
                                     THEN "running" ELSE runs'[r].status
  BY ExecutedIs DEF Shown
<1>3. Shown = [r \in Runs |-> Shown[r]] /\ Shown' = [r \in Runs |-> Shown'[r]]
  BY DEF Shown
<1> HIDE DEF Shown
<1>4. CASE Submitted(w)
  <2>1. PICK r \in Runs : /\ runs[r].status = "unborn" /\ SameRun(w)
                          /\ runs' = [runs EXCEPT ![r] = Inserted("pending", "queued", 0)]
    BY <1>4 DEF Submitted
  <2>2. Shown[r] = "unborn" /\ Shown'[r] = "pending"
    BY <1>1, <1>2, <2>1, StatusOf
  <2>3. \A q \in Runs \ {r} : Shown'[q] = Shown[q]
    BY <1>1, <1>2, <2>1 DEF SameRun
  <2> QED
    BY <1>3, <2>2, <2>3, OneRunMoves
<1>5. CASE Quiet(w)
  BY <1>2, <1>3, <1>5 DEF Quiet, SameRun
<1>6. CASE Staged(w)
  <2>1. PICK k \in 1..LastStage : runs' = [runs EXCEPT ![h] = StageRow(@, StageOf(h, k))]
    BY <1>6 DEF Staged
  <2>2. \A r \in Runs : runs'[r].status = runs[r].status
    BY <1>1, <2>1, StatusOf
  <2>3. \A r \in Runs : Shown'[r] = Shown[r]
    BY <1>2, <1>6, <2>2 DEF Staged, SameRun
  <2> QED
    BY <1>3, <2>3
<1>7. CASE Interrupted(w)
  <2>1. PICK Table \in {BackupIds, RestoreIds} : FailRunning(Table) /\ SameRun(w)
    BY <1>7 DEF Interrupted
  <2>2. \A r \in Runs : Shown'[r] = IF r \in Running(Table) THEN "failed" ELSE Shown[r]
    <3>1. \A r \in Runs : runs'[r].status = IF r \in Running(Table) THEN "failed"
                                                                    ELSE runs[r].status
      BY <2>1, StatusOf DEF FailRunning
    <3>2. \A r \in Running(Table) : runs[r].status = "running"
      BY DEF Running
    <3> QED
      BY <1>2, <2>1, <3>1, <3>2 DEF SameRun
  <2>3. Running(Table) \in SUBSET Runs /\ \A r \in Running(Table) : Shown[r] = "running"
    BY <1>2, <2>1 DEF Running, Runs
  <2>4. CASE Running(Table) = {}
    BY <1>3, <2>2, <2>4
  <2>5. CASE Running(Table) # {}
    BY <1>3, <2>2, <2>3, <2>5, RunsFail
  <2> QED
    BY <2>4, <2>5
<1>8. CASE Claimed(w)
  <2>1. /\ h \in Runs /\ runs[h].status = "pending" /\ ~Executes(w)
        /\ runs' = [runs EXCEPT ![h] = ClaimedRow(@)]
        /\ Executes(w)' => job'[w] = h
    BY <1>1, <1>8 DEF Claimed, Executes
  <2>2. Shown[h] = "pending" /\ Shown'[h] = "running"
    <3>1. runs'[h].status = "running"
      BY <1>1, <2>1, StatusOf
    <3> QED
      BY <1>2, <2>1, <3>1
  <2>3. \A r \in Runs \ {h} : Shown'[r] = Shown[r]
    BY <1>1, <1>2, <2>1
  <2> QED
    BY <1>3, <2>1, <2>2, <2>3, OneRunMoves
<1>9. CASE Dropped(w)
  <2>1. /\ Executes(w) /\ Executes(w)' /\ job'[w] = h /\ h \in RestoreIds /\ h \in Runs
        /\ runs' = [r \in Runs |-> IF Exists(r) THEN GoneRow(runs[r]) ELSE runs[r]]
    <3>1. Executes(w)
      BY <1>9, SoloFacts DEF Dropped, JobLocations
    <3> QED
      BY <1>1, <1>9, <3>1 DEF Dropped, SameRun
  <2>2. \A r \in Runs : runs'[r].status = IF runs[r].status = "unborn" THEN "unborn" ELSE "gone"
    BY <1>1, <2>1, StatusOf, GoneStatus DEF Exists, Present, Terminal, Row, Status
  <2>3. runs[h].status # "unborn" /\ Shown[h] = "running"
    BY <1>1, <2>1
  <2>4. \A r \in Runs : Shown'[r] = IF r = h \/ Shown[r] = "unborn" THEN Shown[r] ELSE "gone"
    BY <1>2, <2>1, <2>2, <2>3
  <2> QED
    BY <1>3, <2>1, <2>3, <2>4, RunsAreReplaced
<1>10. CASE Recorded(w)
  <2>1. Executes(w) /\ ~Executes(w)' /\ h \in Runs /\ Shown[h] = "running"
    BY <1>1, <1>10 DEF Recorded
  <2>2. PICK row : row.status \in Terminal /\ runs' = [runs EXCEPT ![h] = row]
    BY <1>1, <1>10, StatusOf DEF Recorded, Terminal
  <2>3. \A r \in Runs : Shown'[r] = IF r = h THEN row.status ELSE Shown[r]
    BY <1>1, <1>2, <2>1, <2>2 DEF Terminal
  <2>4. CASE row.status = "completed"
    BY <1>3, <2>1, <2>3, <2>4, OneRunMoves
  <2>5. CASE row.status = "failed"
    <3>1. {h} \in SUBSET Runs /\ {h} # {} /\ \A r \in {h} : Shown[r] = "running"
      BY <2>1
    <3>2. Shown' = [r \in Runs |-> IF r \in {h} THEN "failed" ELSE Shown[r]]
      BY <1>3, <2>3, <2>5
    <3> QED
      BY <3>1, <3>2, RunsFail
  <2> QED
    BY <2>2, <2>4, <2>5 DEF Terminal
<1>11. CASE Unrecorded(w)
  <2>1. Executes(w) /\ ~Executes(w)' /\ h \in Runs /\ Shown[h] = "running" /\ runs' = runs
    BY <1>1, <1>11 DEF Unrecorded
  <2>2. \A r \in Runs \ {h} : Shown'[r] = Shown[r]
    BY <1>2, <2>1
  <2>3. CASE runs[h].status = "running"
    BY <1>2, <1>3, <2>1, <2>2, <2>3
  <2>4. CASE runs[h].status = "gone"
    <3>1. Shown'[h] = "gone"
      BY <1>2, <2>1, <2>4
    <3> QED
      BY <1>3, <2>1, <2>2, <3>1, OneRunMoves
  <2> QED
    BY <1>1, <2>1, <2>3, <2>4
<1> QED
  BY <1>1, <1>4, <1>5, <1>6, <1>7, <1>8, <1>9, <1>10, <1>11 DEF Moves

(* With one process the two tables, through crashes, lost statements,      *)
(* timeouts and panics, implement the lifecycle: a run is claimed once and *)
(* settles once, and only a restore forgets it.                            *)
THEOREM SoloImplementsLifecycle == ASSUME OneInstance PROVE Spec => ImplementsLifecycle
<1>1. Init => Lifecycle!Init
  <2> SUFFICES ASSUME Init PROVE Lifecycle!Init
    OBVIOUS
  <2>1. \A r \in Runs : runs[r].status = "unborn"
    BY StatusOf DEF Init, NoRow
  <2> QED
    BY <2>1, LifecycleRuns DEF Lifecycle!Init
<1>2. ASSUME TypeOK, ClaimInv, SoloInv, [Next]_vars
      PROVE  [Lifecycle!Next]_Shown
  <2>1. CASE Next
    <3>1. PICK w \in Instances : TRUE
      BY DEF OneInstance
    <3> QED
      BY <1>2, <2>1, <3>1, NextAdvances, MovesAreLifecycle
  <2>2. CASE UNCHANGED vars
    BY <2>2 DEF vars, rowVars, workerVars, Shown, Executed, Executing
  <2> QED
    BY <1>2, <2>1, <2>2
<1> QED
  BY <1>1, <1>2, TypeCorrect, ClaimAlways, SoloAlways, PTL
  DEF Spec, ImplementsLifecycle, Lifecycle!Spec, Shown

-----------------------------------------------------------------------------
(* Any number of processes again: how a restore ends, and percentages.     *)

(* A worker that lets go of a restore has recorded its end, or failed to.  *)
THEOREM RestoresAreRecorded == Spec => RestoreIsRecorded
<1> DEFINE Ends(w) == job[w] \in RestoreIds /\ pc[w] # "commit_claim"
                        /\ job'[w] = NoRun /\ pc'[w] # "down"
                      => \/ runs'[job[w]].status \in Terminal
                         \/ job[w] \in lost'
<1>1. ASSUME TypeOK, [Next]_vars
      PROVE  [\A w \in Instances : Ends(w)]_vars
  <2> SUFFICES ASSUME Next, NEW w \in Instances, job[w] \in RestoreIds,
                      pc[w] # "commit_claim", job'[w] = NoRun, pc'[w] # "down"
               PROVE  runs'[job[w]].status \in Terminal \/ job[w] \in lost'
    BY <1>1
  <2>1. /\ job[w] # NoRun /\ job[w] \in Runs /\ runs \in [Runs -> Row]
        /\ DOMAIN job = Instances /\ DOMAIN pc = Instances /\ job[w] \notin BackupIds
        /\ pc[w] \notin {"claim_backup", "claim_restore"} \/ job'[w] # job[w]
    BY <1>1, IdsAssumption DEF TypeOK, RowsOK, WorkersOK, Runs
  <2>2. job' # job
    BY <2>1
  <2>3. PICK v \in Instances : WorkerStep(v) \/ Crash(v)
    BY <2>2 DEF Next, CreateBackupRun, CreateRestoreRun, Enqueue, workerVars, JobTimeout,
       Panic, SameJob
  <2>4. v = w /\ FinishRun(w)
    <3>1. CASE Crash(v)
      BY <2>1, <3>1 DEF Crash, LetGo, Goto
    <3>2. CASE ProcessOne(v)
      <4>1. \/ \E r \in Runs : job' = [job EXCEPT ![v] = r]
            \/ pc[v] = "commit_claim" /\ job' = [job EXCEPT ![v] = NoRun]
        BY <2>2, <3>2 DEF ProcessOne, ClaimPendingBackupRun, ClaimPendingRestoreRun,
           SelectOldest, CommitClaim, LetGo, Tick, SameJob, Claimable, Runs
      <4> QED
        BY <2>1, <4>1, IdsAssumption
    <3>3. CASE \/ StartInstance(v) \/ FailRunningBackups(v) \/ FailRunningRestores(v)
               \/ ExecuteStage(v)
      BY <2>2, <3>3 DEF StartInstance, FailRunningBackups, FailRunningRestores,
         AfterFailRunningJobs, ExecuteStage, OpenTarget, UpdateProgress, StageSucceeds,
         StageFails, PgRestoreDrop, PgRestoreCreate, Abort, SameJob
    <3>4. CASE FinishRun(v)
      <4>1. Finish(v)
        BY <2>2, <3>4 DEF FinishRun, CompleteBackupRun, CompleteRestoreRun,
           InsertCompletedRestoreRun, FailBackupRun, FailRestoreRun, InsertFailedRestoreRun,
           GiveUp, InsertRun, SameJob
      <4> QED
        BY <2>1, <3>4, <4>1 DEF Finish, LetGo
    <3> QED
      BY <2>3, <3>1, <3>2, <3>3, <3>4 DEF WorkerStep
  <2>5. \/ job[w] \in lost'
        \/ \E row : runs' = [runs EXCEPT ![job[w]] = row] /\ row.status \in Terminal
    <3>1. CASE CompleteRestoreRun(w)
      <4>1. \/ job[w] \in lost'
            \/ runs' = [runs EXCEPT ![job[w]] = CompletedRow(runs[job[w]])]
        BY <2>2, <3>1 DEF CompleteRestoreRun, GiveUp, SameJob
      <4>2. CompletedRow(runs[job[w]]).status \in Terminal
        BY StatusOf DEF Terminal
      <4> QED
        BY <4>1, <4>2
    <3>2. CASE FailRestoreRun(w)
      <4>1. \/ job[w] \in lost'
            \/ runs' = [runs EXCEPT ![job[w]] = FailedRow(runs[job[w]])]
        BY <2>2, <3>2 DEF FailRestoreRun, GiveUp, SameJob
      <4>2. FailedRow(runs[job[w]]).status \in Terminal
        BY StatusOf DEF Terminal
      <4> QED
        BY <4>1, <4>2
    <3>3. CASE InsertCompletedRestoreRun(w) \/ InsertFailedRestoreRun(w)
      BY <3>3, StatusOf DEF InsertCompletedRestoreRun, InsertFailedRestoreRun, InsertRun,
         GiveUp, Terminal
    <3> QED
      BY <2>1, <2>4, <3>1, <3>2, <3>3 DEF FinishRun, CompleteBackupRun, FailBackupRun
  <2> QED
    BY <2>1, <2>5
<1> QED
  BY <1>1, TypeCorrect, PTL DEF Spec, RestoreIsRecorded

-----------------------------------------------------------------------------
(* What a worker writes, row by row.                                       *)
Outlives(r) ==
    \/ runs'[r] = runs[r]
    \/ runs[r].status = "running" /\ runs'[r] = FailedRow(runs[r])
    \/ runs'[r] = GoneRow(runs[r])

Writes(v) ==
    LET r == job[v]
    IN  \/ pc[v] = "commit_claim" /\ runs'[r] = ClaimedRow(runs[r])
        \/ /\ pc[v] = "progress" /\ pc'[v] = "work" /\ Exists(r)
           /\ runs'[r] = StageRow(runs[r], StageOf(r, stage[v]))
        \/ pc[v] = "complete" /\ runs'[r] = CompletedRow(runs[r])
        \/ pc[v] = "failing" /\ runs'[r] = FailedRow(runs[r])
        \/ /\ pc[v] \in {"insert_completed", "insert_failed"}
           /\ runs'[r] \in {Inserted("completed", "completed", 100),
                            Inserted("failed", "failed", 1)}

LEMMA WorkerWrites ==
    ASSUME TypeOK, NEW v \in Instances,
           WorkerStep(v) \/ JobTimeout(v) \/ Panic(v) \/ Crash(v), NEW r \in Runs
    PROVE  Outlives(r) \/ (r = job[v] /\ Writes(v))
<1>1. runs \in [Runs -> Row] /\ DOMAIN pc = Instances
  BY DEF TypeOK, RowsOK, WorkersOK
<1>2. CASE runs' = runs
  BY <1>2 DEF Outlives
<1>3. CASE FailRunningBackups(v) \/ FailRunningRestores(v)
  BY <1>1, <1>3 DEF FailRunningBackups, FailRunningRestores, FailRunning, Running, Outlives
<1>4. CASE CommitClaim(v)
  BY <1>1, <1>4 DEF CommitClaim, Outlives, Writes
<1>5. CASE UpdateProgress(v)
  BY <1>1, <1>5 DEF UpdateProgress, Outlives, Writes, Goto
<1>6. CASE PgRestoreDrop(v)
  BY <1>1, <1>6 DEF PgRestoreDrop, Outlives
<1>7. CASE CompleteBackupRun(v) \/ CompleteRestoreRun(v)
  BY <1>1, <1>7 DEF CompleteBackupRun, CompleteRestoreRun, GiveUp, Outlives, Writes
<1>8. CASE FailBackupRun(v) \/ FailRestoreRun(v)
  BY <1>1, <1>8 DEF FailBackupRun, FailRestoreRun, GiveUp, Outlives, Writes
<1>9. CASE InsertCompletedRestoreRun(v) \/ InsertFailedRestoreRun(v)
  BY <1>1, <1>9 DEF InsertCompletedRestoreRun, InsertFailedRestoreRun, InsertRun, GiveUp,
     Outlives, Writes
<1>10. CASE \/ StartInstance(v) \/ ClaimPendingBackupRun(v) \/ ClaimPendingRestoreRun(v)
            \/ Tick(v) \/ OpenTarget(v) \/ StageSucceeds(v) \/ StageFails(v)
            \/ PgRestoreCreate(v) \/ JobTimeout(v) \/ Panic(v) \/ Crash(v)
  BY <1>2, <1>10 DEF StartInstance, ClaimPendingBackupRun, ClaimPendingRestoreRun,
     SelectOldest, Tick, OpenTarget, StageSucceeds, StageFails, PgRestoreCreate,
     JobTimeout, Panic, Crash, rowVars
<1> QED
  BY <1>3, <1>4, <1>5, <1>6, <1>7, <1>8, <1>9, <1>10
  DEF WorkerStep, ProcessOne, ExecuteStage, FinishRun

(* The percentage of a row is behind the stage of its worker, a row that   *)
(* no worker has touched is at 0, and one about to be inserted was wiped.  *)
AtStage(w) == \/ pc[w] \in {"progress", "work", "recreate"}
              \/ pc[w] \in Starting /\ job[w] # NoRun

Behind(w) ==
    LET row == runs[job[w]]
    IN  /\ pc[w] = "down" => job[w] = NoRun
        /\ pc[w] = "open" => row.progress <= 1
        /\ AtStage(w) => /\ stage[w] \in 1..LastStage
                         /\ row.progress <= StageOf(job[w], stage[w]).percent
        /\ pc[w] \in {"insert_completed", "insert_failed"}
              => row.status = "gone" /\ job[w] \in RestoreIds

ProgressInv ==
    /\ \A r \in Runs : runs[r].status \in Fresh => runs[r].progress = 0
    /\ \A w \in Instances : Behind(w)

LEMMA PercentsRise ==
    ASSUME NEW r \in Runs, NEW k \in 1..LastStage, NEW l \in 1..LastStage, k <= l
    PROVE  /\ StageOf(r, k).percent \in 1..99 /\ StageOf(r, l).percent \in 1..99
           /\ StageOf(r, k).percent <= StageOf(r, l).percent
<1>1. k \in {1, 2, 3, 4, 5} /\ l \in {1, 2, 3, 4, 5}
  BY DEF LastStage
<1> QED
  BY <1>1 DEF StageOf, BackupStages, RestoreStages

LEMMA ProgressOf ==
    ASSUME NEW row \in Row
    PROVE  /\ row.progress \in 0..100
           /\ FailedRow(row).progress = row.progress
           /\ CompletedRow(row).progress = 100
           /\ ClaimedRow(row).progress = 1
           /\ GoneRow(row).progress = row.progress
           /\ Inserted("pending", "queued", 0).progress = 0
           /\ Inserted("completed", "completed", 100).progress = 100
           /\ Inserted("failed", "failed", 1).progress = 1
           /\ \A s : StageRow(row, s).progress = s.percent
  BY DEF FailedRow, CompletedRow, ClaimedRow, StageRow, Updated, GoneRow, Inserted,
     Row

(* A row that its worker leaves alone, or that another one writes, keeps   *)
(* its percentage, and does not come back once it is wiped.                *)
LEMMA OutlivesKeeps ==
    ASSUME runs \in [Runs -> Row], NEW r \in Runs, Outlives(r)
    PROVE  /\ runs[r].progress \in 0..100 /\ runs'[r].progress \in 0..100
           /\ runs'[r].progress = runs[r].progress
           /\ runs[r].status = "gone" => runs'[r].status = "gone"
<1>1. runs[r] \in Row
  OBVIOUS
<1>2. runs[r].progress \in 0..100
  BY <1>1, ProgressOf
<1>3. CASE runs[r].status = "running" /\ runs'[r] = FailedRow(runs[r])
  BY <1>1, <1>2, <1>3, ProgressOf
<1>4. CASE runs'[r] = GoneRow(runs[r])
  BY <1>1, <1>2, <1>4, ProgressOf, StatusOf, GoneStatus
<1> QED
  BY <1>2, <1>3, <1>4 DEF Outlives

(* The only step that shows less of a run than was shown before.           *)
ShowsLess(r) ==
    /\ r \in RestoreIds /\ runs[r].status = "gone"
    /\ runs'[r].status = "failed" /\ runs'[r].progress = 1

(* No other step takes the percentage of a run back.                       *)
LEMMA ProgressKept ==
    ASSUME TypeOK, ClaimInv, ProgressInv, Next, NEW r \in Runs
    PROVE  runs'[r].progress >= runs[r].progress \/ ShowsLess(r)
<1>1. runs \in [Runs -> Row] /\ runs[r] \in Row /\ runs[r].progress \in 0..100
  BY ProgressOf DEF TypeOK, RowsOK
<1>2. CASE \E q \in Runs : Enqueue(q)
  <2>1. PICK q \in Runs : /\ runs[q].status = "unborn"
                          /\ runs' = [runs EXCEPT ![q] = Inserted("pending", "queued", 0)]
    BY <1>2 DEF Enqueue
  <2>2. CASE r = q
    BY <1>1, <2>1, <2>2, ProgressOf DEF ProgressInv, Fresh
  <2>3. CASE r # q
    BY <1>1, <2>1, <2>3
  <2> QED
    BY <2>2, <2>3
<1>3. ASSUME NEW v \in Instances, WorkerStep(v) \/ JobTimeout(v) \/ Panic(v) \/ Crash(v)
      PROVE  runs'[r].progress >= runs[r].progress \/ ShowsLess(r)
  <2>1. CASE Outlives(r)
    BY <1>1, <2>1, OutlivesKeeps
  <2>2. CASE r = job[v] /\ Writes(v)
    <3>1. CASE pc[v] = "commit_claim" /\ runs'[r] = ClaimedRow(runs[r])
      <4>1. runs[r].progress = 0
        BY <2>2, <3>1 DEF ClaimInv, ProgressInv, Fresh
      <4>2. runs'[r].progress = 1
        BY <1>1, <3>1, ProgressOf
      <4> QED
        BY <4>1, <4>2
    <3>2. CASE /\ pc[v] = "progress"
               /\ runs'[r] = StageRow(runs[r], StageOf(r, stage[v]))
      <4>1. stage[v] \in 1..LastStage /\ runs[r].progress <= StageOf(r, stage[v]).percent
        BY <2>2, <3>2 DEF ProgressInv, Behind, AtStage
      <4>2. runs'[r].progress = StageOf(r, stage[v]).percent
        BY <1>1, <3>2, ProgressOf
      <4>3. StageOf(r, stage[v]).percent \in 1..99
        BY <4>1, StageValues
      <4> QED
        BY <1>1, <4>1, <4>2, <4>3
    <3>3. CASE runs'[r] = CompletedRow(runs[r]) \/ runs'[r] = FailedRow(runs[r])
      <4>1. runs'[r].progress \in {100, runs[r].progress}
        BY <1>1, <3>3, ProgressOf
      <4> QED
        BY <1>1, <4>1
    <3>4. CASE runs'[r] = Inserted("completed", "completed", 100)
      BY <1>1, <3>4, ProgressOf
    <3>5. CASE /\ pc[v] \in {"insert_completed", "insert_failed"}
               /\ runs'[r] = Inserted("failed", "failed", 1)
      <4>1. runs[r].status = "gone" /\ r \in RestoreIds
        BY <2>2, <3>5 DEF ProgressInv, Behind
      <4>2. runs'[r].status = "failed" /\ runs'[r].progress = 1
        BY <1>1, <3>5, ProgressOf, StatusOf
      <4> QED
        BY <4>1, <4>2 DEF ShowsLess
    <3> QED
      BY <2>2, <3>1, <3>2, <3>3, <3>4, <3>5 DEF Writes
  <2> QED
    BY <1>3, <2>1, <2>2, WorkerWrites
<1> QED
  BY <1>2, <1>3 DEF Next, CreateBackupRun, CreateRestoreRun, Runs

(* A worker that does not move stays behind.                               *)
LEMMA OthersStayBehind ==
    ASSUME TypeOK, ProgressInv, NEW w \in Instances,
           pc'[w] = pc[w], job'[w] = job[w], stage'[w] = stage[w],
           job[w] # NoRun /\ pc[w] # "commit_claim" => Outlives(job[w])
    PROVE  Behind(w)'
<1>1. /\ Behind(w) /\ runs \in [Runs -> Row] /\ job[w] \in Runs \cup {NoRun}
      /\ pc[w] \in JobLocations => job[w] # NoRun
  BY DEF ProgressInv, TypeOK, RowsOK, WorkersOK
<1>2. CASE job[w] = NoRun \/ pc[w] = "commit_claim"
  BY <1>1, <1>2 DEF Behind, AtStage, JobLocations, Starting
<1>3. CASE job[w] # NoRun /\ pc[w] # "commit_claim"
  <2>1. /\ runs[job[w]].progress \in 0..100 /\ runs'[job[w]].progress \in 0..100
        /\ runs'[job[w]].progress <= runs[job[w]].progress
        /\ runs[job[w]].status = "gone" => runs'[job[w]].status = "gone"
    BY <1>1, <1>3, OutlivesKeeps
  <2>3. pc[w] = "open" => runs'[job[w]].progress <= 1
    BY <1>1, <2>1 DEF Behind
  <2>4. AtStage(w) => /\ stage[w] \in 1..LastStage
                      /\ runs'[job[w]].progress <= StageOf(job[w], stage[w]).percent
    <3> SUFFICES ASSUME AtStage(w)
                 PROVE  /\ stage[w] \in 1..LastStage
                        /\ runs'[job[w]].progress <= StageOf(job[w], stage[w]).percent
      OBVIOUS
    <3>1. /\ stage[w] \in 1..LastStage
          /\ runs[job[w]].progress <= StageOf(job[w], stage[w]).percent
      BY <1>1 DEF Behind
    <3>2. StageOf(job[w], stage[w]).percent \in 1..99
      BY <1>1, <1>3, <3>1, StageValues
    <3>3. \A a, b \in 0..100, c \in 1..99 : a <= b /\ b <= c => a <= c
      OBVIOUS
    <3> QED
      BY <2>1, <3>1, <3>2, <3>3
  <2>5. AtStage(w)' <=> AtStage(w)
    BY DEF AtStage
  <2>6. job[w] = job'[w] /\ stage[w] = stage'[w] /\ pc[w] = pc'[w]
    OBVIOUS
  <2>7. pc[w] # "down"
    BY <1>1, <1>3 DEF Behind
  <2>8. pc[w] \in {"insert_completed", "insert_failed"}
          => runs'[job[w]].status = "gone" /\ job[w] \in RestoreIds
    BY <1>1, <2>1 DEF Behind
  <2> QED
    BY <2>3, <2>4, <2>5, <2>6, <2>7, <2>8 DEF Behind, StageOf
<1> QED
  BY <1>2, <1>3

(* The worker that moves stays behind as well.                             *)
LEMMA NothingToShow ==
    ASSUME NEW v \in Instances,
           \/ pc'[v] \in {"failing", "complete", "claim_backup", "claim_restore",
                          "sleep", "commit_claim"}
           \/ pc'[v] \in Starting \cup {"down"} /\ job'[v] = NoRun
    PROVE  Behind(v)'
  BY DEF Behind, AtStage, Starting

LEMMA StagesShow ==
    ASSUME NEW v \in Instances, job'[v] = job[v], job[v] \in Runs,
           pc'[v] \in {"progress", "work", "recreate"} \cup Starting,
           NEW k \in 1..LastStage, stage'[v] \in 1..LastStage, k <= stage'[v],
           runs'[job[v]].progress \in 0..100,
           runs'[job[v]].progress <= StageOf(job[v], k).percent
    PROVE  Behind(v)'
<1>1. /\ StageOf(job[v], k).percent \in 1..99
      /\ StageOf(job[v], stage'[v]).percent \in 1..99
      /\ StageOf(job[v], k).percent <= StageOf(job[v], stage'[v]).percent
  BY PercentsRise
<1>2. \A a \in 0..100, b, c \in 1..99 : a <= b /\ b <= c => a <= c
  OBVIOUS
<1>3. runs'[job[v]].progress <= StageOf(job[v], stage'[v]).percent
  BY <1>1, <1>2
<1>4. StageOf(job[v], stage[v])' = StageOf(job[v], stage'[v])
  BY DEF StageOf
<1> QED
  BY <1>3, <1>4 DEF Behind, AtStage, Starting, StageOf

(* What the mover shows before its step.                                   *)
LEMMA Mover ==
    ASSUME TypeOK, ProgressInv, NEW v \in Instances
    PROVE  /\ Behind(v) /\ runs \in [Runs -> Row] /\ job[v] \in Runs \cup {NoRun}
           /\ pc[v] \in JobLocations => job[v] \in Runs
           /\ DOMAIN pc = Instances /\ DOMAIN job = Instances /\ DOMAIN stage = Instances
           /\ job[v] \in Runs => runs[job[v]].progress \in 0..100
  BY ProgressOf DEF ProgressInv, TypeOK, RowsOK, WorkersOK, JobLocations

LEMMA StartStaysBehind ==
    ASSUME TypeOK, ProgressInv, NEW v \in Instances,
           StartInstance(v) \/ FailRunningBackups(v) \/ FailRunningRestores(v)
    PROVE  Behind(v)'
<1>1. CASE StartInstance(v)
  <2>1. pc'[v] = "fail_backups" /\ job'[v] = NoRun
    BY <1>1, Mover DEF StartInstance, Goto, SameJob, Behind
  <2> QED
    BY <2>1, NothingToShow DEF Starting
<1>2. ASSUME FailRunningBackups(v) \/ FailRunningRestores(v)
      PROVE  Behind(v)'
  <2>1. /\ pc[v] \in Starting /\ job' = job
        /\ \/ pc'[v] = "fail_restores" /\ stage' = stage
           \/ pc'[v] = "claim_backup" /\ job[v] = NoRun
           \/ /\ pc'[v] = "progress" /\ job[v] # NoRun
              /\ stage'[v] = 5
    BY <1>2, Mover DEF FailRunningBackups, FailRunningRestores, AfterFailRunningJobs,
       Goto, SameJob, Starting, ImportStage
  <2>2. \A r \in Runs : Outlives(r)
    BY <1>2, Mover DEF FailRunningBackups, FailRunningRestores, FailRunning, Running,
       Outlives
  <2>3. CASE job[v] = NoRun
    BY <2>1, <2>3, NothingToShow DEF Starting
  <2>4. CASE job[v] # NoRun
    <3>1. job[v] \in Runs /\ AtStage(v) /\ stage[v] \in 1..LastStage
      BY <2>1, <2>4, Mover DEF AtStage, Behind
    <3>2. /\ runs[job[v]].progress <= StageOf(job[v], stage[v]).percent
          /\ StageOf(job[v], stage[v]).percent \in 1..99
      BY <3>1, Mover, StageValues DEF Behind
    <3>3. /\ runs[job[v]].progress \in 0..100 /\ runs'[job[v]].progress \in 0..100
          /\ runs'[job[v]].progress <= runs[job[v]].progress
      BY <2>2, <3>1, Mover, OutlivesKeeps
    <3>4. \A a, b \in 0..100, c \in 1..99 : a <= b /\ b <= c => a <= c
      OBVIOUS
    <3>5. runs'[job[v]].progress <= StageOf(job[v], stage[v]).percent
      BY <3>2, <3>3, <3>4
    <3>6. /\ stage'[v] \in 1..LastStage /\ stage[v] <= stage'[v]
          /\ pc'[v] \in {"progress"} \cup Starting
      BY <2>1, <2>4, <3>1 DEF LastStage, Starting
    <3> QED
      BY <2>1, <3>1, <3>3, <3>5, <3>6, StagesShow
  <2> QED
    BY <2>3, <2>4
<1> QED
  BY <1>1, <1>2

LEMMA ProcessOneStaysBehind ==
    ASSUME TypeOK, ClaimInv, ProgressInv, NEW v \in Instances, ProcessOne(v)
    PROVE  Behind(v)'
<1>1. CASE CommitClaim(v)
  <2>1. CASE pc'[v] = "sleep"
    BY <2>1, NothingToShow
  <2>2. CASE pc'[v] # "sleep"
    <3>1. /\ job[v] \in Runs /\ job'[v] = job[v] /\ pc'[v] = "open"
          /\ runs'[job[v]] = ClaimedRow(runs[job[v]])
      BY <1>1, <2>2, Mover DEF CommitClaim, LetGo, Goto, SameJob, TypeOK, WorkersOK
    <3>2. runs'[job[v]].progress = 1
      BY <3>1, Mover, ProgressOf
    <3> QED
      BY <3>1, <3>2 DEF Behind, AtStage, Starting
  <2> QED
    BY <2>1, <2>2
<1>2. CASE ClaimPendingBackupRun(v) \/ ClaimPendingRestoreRun(v) \/ Tick(v)
  <2>1. pc'[v] \in {"commit_claim", "claim_restore", "sleep", "claim_backup"}
    BY <1>2, Mover DEF ClaimPendingBackupRun, ClaimPendingRestoreRun, SelectOldest, Tick,
       Goto
  <2> QED
    BY <2>1, NothingToShow
<1> QED
  BY <1>1, <1>2 DEF ProcessOne

LEMMA StageStaysBehind ==
    ASSUME TypeOK, ProgressInv, NEW v \in Instances, ExecuteStage(v)
    PROVE  Behind(v)'
<1>1. pc[v] \in JobLocations /\ job[v] \in Runs /\ job' = job
  BY Mover DEF ExecuteStage, OpenTarget, UpdateProgress, StageSucceeds, StageFails,
     PgRestoreDrop, PgRestoreCreate, JobLocations, SameJob, Abort
<1>2. CASE pc'[v] = "failing"
  BY <1>2, NothingToShow
<1>3. ASSUME pc'[v] # "failing" PROVE Behind(v)'
  <2>1. CASE OpenTarget(v)
    <3>1. pc'[v] = "progress" /\ stage'[v] = 1 /\ runs' = runs /\ pc[v] = "open"
      BY <1>3, <2>1, Mover DEF OpenTarget, Abort, Goto, rowVars
    <3>2. StageOf(job[v], 1).percent \in 1..99 /\ 1 \in 1..LastStage /\ 1 <= 1
      BY <1>1, StageValues DEF LastStage
    <3>3. runs[job[v]].progress \in 0..100 /\ runs[job[v]].progress <= 1
      BY <1>1, <3>1, Mover DEF Behind
    <3>4. \A a \in 0..100, c \in 1..99 : a <= 1 => a <= c
      OBVIOUS
    <3>5. runs'[job[v]].progress <= StageOf(job[v], 1).percent
      BY <3>1, <3>2, <3>3, <3>4
    <3> QED
      BY <1>1, <3>1, <3>2, <3>3, <3>5, StagesShow
  <2>2. ASSUME AtStage(v) PROVE Behind(v)'
    <3>1. /\ stage[v] \in 1..LastStage /\ stage[v] <= stage[v]
          /\ runs[job[v]].progress \in 0..100
          /\ runs[job[v]].progress <= StageOf(job[v], stage[v]).percent
      BY <1>1, <2>2, Mover DEF Behind, LastStage
    <3>2. CASE UpdateProgress(v)
      <4>1. pc'[v] = "work" /\ stage' = stage
        BY <1>3, <3>2, Mover DEF UpdateProgress, Abort, Goto, SameJob
      <4>2. \/ runs' = runs
            \/ runs'[job[v]] = StageRow(runs[job[v]], StageOf(job[v], stage[v]))
        BY <1>1, <3>2, Mover DEF UpdateProgress
      <4>3. CASE runs' = runs
        BY <1>1, <3>1, <4>1, <4>3, StagesShow
      <4>4. CASE runs'[job[v]] = StageRow(runs[job[v]], StageOf(job[v], stage[v]))
        <5>1. runs'[job[v]].progress = StageOf(job[v], stage[v]).percent
          BY <1>1, <4>4, Mover, ProgressOf
        <5>2. StageOf(job[v], stage[v]).percent \in 1..99
          BY <1>1, <3>1, StageValues
        <5>3. \A a \in 1..99 : a \in 0..100 /\ a <= a
          OBVIOUS
        <5> QED
          BY <1>1, <3>1, <4>1, <5>1, <5>2, <5>3, StagesShow
      <4> QED
        BY <4>2, <4>3, <4>4
    <3>3. CASE StageSucceeds(v)
      <4>1. CASE pc'[v] = "complete"
        BY <4>1, NothingToShow
      <4>2. CASE pc'[v] # "complete"
        <5>1. pc'[v] = "progress" /\ stage'[v] = stage[v] + 1 /\ stage[v] < LastStage
          BY <3>3, <4>2, Mover DEF StageSucceeds, Goto
        <5>2. stage'[v] \in 1..LastStage /\ stage[v] <= stage'[v] /\ runs' = runs
          BY <3>1, <3>3, <5>1 DEF LastStage, StageSucceeds, rowVars
        <5> QED
          BY <1>1, <3>1, <5>1, <5>2, StagesShow
      <4> QED
        BY <4>1, <4>2
    <3>4. CASE PgRestoreDrop(v)
      <4>1. pc'[v] = "recreate" /\ stage' = stage /\ Outlives(job[v])
        BY <1>1, <3>4, Mover DEF PgRestoreDrop, Goto, SameJob, Outlives
      <4>2. /\ runs'[job[v]].progress \in 0..100
            /\ runs'[job[v]].progress <= runs[job[v]].progress
        BY <1>1, <4>1, Mover, OutlivesKeeps
      <4>3. StageOf(job[v], stage[v]).percent \in 1..99
        BY <1>1, <3>1, StageValues
      <4>4. \A a, b \in 0..100, c \in 1..99 : a <= b /\ b <= c => a <= c
        OBVIOUS
      <4>5. runs'[job[v]].progress <= StageOf(job[v], stage[v]).percent
        BY <3>1, <4>2, <4>3, <4>4
      <4> QED
        BY <1>1, <3>1, <4>1, <4>2, <4>5, StagesShow
    <3>5. CASE PgRestoreCreate(v)
      <4>1. pc'[v] = "fail_backups" /\ stage' = stage /\ runs' = runs
        BY <1>3, <3>5, Mover DEF PgRestoreCreate, Abort, Goto, SameJob
      <4> QED
        BY <1>1, <3>1, <4>1, StagesShow DEF Starting
    <3>6. ~StageFails(v)
      BY <1>3, Mover DEF StageFails, Abort, Goto
    <3>7. ~OpenTarget(v)
      BY <2>2 DEF OpenTarget, AtStage, Starting
    <3> QED
      BY <3>2, <3>3, <3>4, <3>5, <3>6, <3>7 DEF ExecuteStage
  <2>3. OpenTarget(v) \/ AtStage(v)
    BY DEF ExecuteStage, UpdateProgress, StageSucceeds, StageFails, PgRestoreDrop,
       PgRestoreCreate, AtStage
  <2> QED
    BY <2>1, <2>2, <2>3
<1> QED
  BY <1>2, <1>3

LEMMA FinishStaysBehind ==
    ASSUME TypeOK, ClaimInv, ProgressInv, NEW v \in Instances, FinishRun(v)
    PROVE  Behind(v)'
<1>1. pc[v] \in JobLocations /\ job[v] \in Runs
  BY Mover DEF FinishRun, CompleteBackupRun, CompleteRestoreRun, FailBackupRun,
     FailRestoreRun, InsertCompletedRestoreRun, InsertFailedRestoreRun, JobLocations
<1>2. CASE pc'[v] = "claim_backup"
  BY <1>2, NothingToShow
<1>3. CASE pc'[v] # "claim_backup"
  <2>1. /\ pc'[v] \in {"insert_completed", "insert_failed"}
        /\ job' = job /\ runs' = runs /\ ~Exists(job[v]) /\ job[v] \in RestoreIds
        /\ pc[v] # "commit_claim"
    BY <1>1, <1>3, Mover DEF FinishRun, CompleteBackupRun, CompleteRestoreRun,
       FailBackupRun, FailRestoreRun, InsertCompletedRestoreRun,
       InsertFailedRestoreRun, InsertRun, GiveUp, Finish, LetGo, Goto, SameJob
  <2>2. runs[job[v]] \in Row /\ runs[job[v]].status # "unborn"
    BY <1>1, <2>1, Mover, IdsAssumption, Holding DEF Fresh
  <2>3. runs[job[v]].status = "gone"
    BY <2>1, <2>2 DEF Exists, Row, Status
  <2> QED
    BY <2>1, <2>3 DEF Behind, AtStage, Starting
<1> QED
  BY <1>2, <1>3

LEMMA EnvironmentStaysBehind ==
    ASSUME TypeOK, ProgressInv, NEW v \in Instances, JobTimeout(v) \/ Panic(v) \/ Crash(v)
    PROVE  Behind(v)'
<1>1. CASE JobTimeout(v)
  BY <1>1, Mover DEF JobTimeout, rowVars, Behind, AtStage, StageOf
<1>2. CASE Panic(v)
  <2>1. pc'[v] = "failing"
    BY <1>2, Mover DEF Panic, Goto
  <2> QED
    BY <2>1, NothingToShow
<1>3. CASE Crash(v)
  <2>1. pc'[v] = "down" /\ job'[v] = NoRun
    BY <1>3, Mover DEF Crash, LetGo, Goto
  <2> QED
    BY <2>1, NothingToShow
<1> QED
  BY <1>1, <1>2, <1>3

(* A worker moves itself only.                                             *)
LEMMA MovesItself ==
    ASSUME TypeOK, NEW v \in Instances, NEW w \in Instances, w # v,
           WorkerStep(v) \/ JobTimeout(v) \/ Panic(v) \/ Crash(v)
    PROVE  pc'[w] = pc[w] /\ job'[w] = job[w] /\ stage'[w] = stage[w]
<1> USE DEF TypeOK, WorkersOK, Goto, SameJob, LetGo, Finish, Abort
<1>1. CASE StartInstance(v) \/ FailRunningBackups(v) \/ FailRunningRestores(v)
  BY <1>1 DEF StartInstance, FailRunningBackups, FailRunningRestores,
     AfterFailRunningJobs
<1>2. CASE ProcessOne(v)
  BY <1>2 DEF ProcessOne, ClaimPendingBackupRun, ClaimPendingRestoreRun, SelectOldest,
     CommitClaim, Tick
<1>3. CASE ExecuteStage(v)
  BY <1>3 DEF ExecuteStage, OpenTarget, UpdateProgress, StageSucceeds, StageFails,
     PgRestoreDrop, PgRestoreCreate
<1>4. CASE FinishRun(v)
  BY <1>4 DEF FinishRun, CompleteBackupRun, CompleteRestoreRun, FailBackupRun,
     FailRestoreRun, InsertCompletedRestoreRun, InsertFailedRestoreRun, InsertRun, GiveUp
<1>5. CASE JobTimeout(v) \/ Panic(v) \/ Crash(v)
  BY <1>5 DEF JobTimeout, Panic, Crash
<1> QED
  BY <1>1, <1>2, <1>3, <1>4, <1>5 DEF WorkerStep

LEMMA ProgressInit == Init => ProgressInv
<1> SUFFICES ASSUME Init PROVE ProgressInv
  OBVIOUS
<1>1. ASSUME NEW r \in Runs PROVE runs[r].progress = 0
  BY DEF Init, NoRow
<1>2. ASSUME NEW w \in Instances PROVE Behind(w)
  BY DEF Init, Behind, AtStage, Starting
<1> QED
  BY <1>1, <1>2 DEF ProgressInv

LEMMA EnqueueStaysBehind ==
    ASSUME TypeOK, ClaimInv, ProgressInv, NEW q \in Runs, Enqueue(q)
    PROVE  ProgressInv'
<1>1. /\ runs \in [Runs -> Row] /\ runs[q].status = "unborn"
      /\ runs' = [runs EXCEPT ![q] = Inserted("pending", "queued", 0)]
      /\ pc' = pc /\ job' = job /\ stage' = stage
  BY DEF Enqueue, TypeOK, RowsOK, workerVars
<1>2. \A r \in Runs : runs'[r].status \in Fresh => runs'[r].progress = 0
  BY <1>1 DEF ProgressInv, Inserted
<1>3. ASSUME NEW w \in Instances PROVE Behind(w)'
  <2>1. ASSUME job[w] # NoRun, pc[w] # "commit_claim" PROVE Outlives(job[w])
    <3>1. job[w] \in Runs /\ runs[job[w]].status # "unborn"
      BY <2>1, Holding DEF Fresh
    <3> QED
      BY <1>1, <3>1 DEF Outlives
  <2> QED
    BY <1>1, <2>1, OthersStayBehind
<1> QED
  BY <1>2, <1>3 DEF ProgressInv

LEMMA ProgressStep == TypeOK /\ ClaimInv /\ ProgressInv /\ [Next]_vars => ProgressInv'
<1> SUFFICES ASSUME TypeOK, ClaimInv, ProgressInv, [Next]_vars PROVE ProgressInv'
  OBVIOUS
<1>1. CASE UNCHANGED vars
  BY <1>1 DEF vars, rowVars, workerVars, ProgressInv, Behind, AtStage, StageOf
<1>2. CASE \E q \in Runs : Enqueue(q)
  BY <1>2, EnqueueStaysBehind
<1>3. ASSUME NEW v \in Instances, WorkerStep(v) \/ JobTimeout(v) \/ Panic(v) \/ Crash(v)
      PROVE  ProgressInv'
  <2>1. \A r \in Runs : Outlives(r) \/ (r = job[v] /\ Writes(v))
    BY <1>3, WorkerWrites
  <2>2. ASSUME NEW r \in Runs, runs'[r].status \in Fresh
        PROVE  runs'[r].progress = 0
    <3>1. CASE Outlives(r)
      <4>1. runs'[r] = runs[r]
        BY <2>2, <3>1, StatusOf, GoneStatus DEF Outlives, Fresh
      <4> QED
        BY <2>2, <4>1 DEF ProgressInv
    <3>2. CASE r = job[v] /\ Writes(v)
      <4>1. job[v] # NoRun /\ (pc[v] # "commit_claim" => runs[r].status \notin Fresh)
        BY <3>2, IdsAssumption, Holding DEF Fresh
      <4>2. runs'[r].status = "running" \/ runs'[r].status \in Terminal
            \/ (pc[v] = "progress" /\ runs'[r].status = runs[r].status)
        BY <3>2, StatusOf DEF Writes, Terminal
      <4> QED
        BY <2>2, <4>1, <4>2 DEF Terminal, Fresh
    <3> QED
      BY <2>1, <3>1, <3>2
  <2>3. ASSUME NEW w \in Instances PROVE Behind(w)'
    <3>1. CASE w = v
      BY <1>3, <3>1, StartStaysBehind, ProcessOneStaysBehind, StageStaysBehind,
         FinishStaysBehind, EnvironmentStaysBehind DEF WorkerStep
    <3>2. CASE w # v
      <4>1. ASSUME job[w] # NoRun PROVE Outlives(job[w])
        <5>1. job[w] # job[v] /\ job[w] \in Runs
          BY <3>2, <4>1, Mover DEF ClaimInv, SingleExecutor
        <5> QED
          BY <2>1, <5>1
      <4> QED
        BY <1>3, <3>2, <4>1, MovesItself, OthersStayBehind
    <3> QED
      BY <3>1, <3>2
  <2> QED
    BY <2>2, <2>3 DEF ProgressInv
<1> QED
  BY <1>1, <1>2, <1>3 DEF Next, CreateBackupRun, CreateRestoreRun, Runs

(* The percentage shown for a run never goes back, for any number of       *)
(* processes: not when a worker goes on with a run that another process    *)
(* has failed, and not over the time in which a restore has wiped the row. *)
(* Only a wiped restore that fails shows less: it is inserted at 1.        *)
THEOREM PercentagesRise == Spec => ProgressMonotone
<1>1. TypeOK /\ ClaimInv /\ ProgressInv /\ [Next]_vars
      => [\A r \in Runs :
             \/ runs'[r].progress >= runs[r].progress
             \/ /\ r \in RestoreIds /\ runs[r].status = "gone"
                /\ runs'[r].status = "failed" /\ runs'[r].progress = 1]_vars
  BY ProgressKept DEF ShowsLess
<1> QED
  BY <1>1, TypeCorrect, ClaimAlways, ProgressInit, ProgressStep, PTL
  DEF Spec, ProgressMonotone
=============================================================================
