----------------------------- MODULE BackupJobs -----------------------------
(***************************************************************************)
(* The backup and restore job queue: the tables backup_runs and            *)
(* restore_runs, the HTTP handlers and cron entries that insert rows, and  *)
(* the worker of every API process that claims and executes them           *)
(* (internal/backup/worker.go, internal/backup/service.go,                 *)
(* internal/backup/store/postgres.go).                                     *)
(*                                                                         *)
(* Both tables hold the same columns and follow the same protocol, so one  *)
(* function `runs' maps every run identifier (a UUID, never reused) to its *)
(* row.  A worker is a control location pc[w], the run job[w] it holds in  *)
(* memory, the index stage[w] of the pipeline stage it is in and the flag  *)
(* expired[w]: the job context has passed its deadline.  Every statement   *)
(* sent to the database is one step; a transaction that spans two          *)
(* statements is two steps with the row lock held between them.            *)
(*                                                                         *)
(* What a stage computes is abstracted away: it ends well or badly.  What  *)
(* the pg_restore stage does to these very tables is not: it drops and     *)
(* recreates them, and the dump holds no rows for them.                    *)
(***************************************************************************)
EXTENDS Naturals, FiniteSets

CONSTANTS
    Instances,     \* API processes, each with one worker
    BackupIds,     \* rows that may be inserted into backup_runs
    RestoreIds,    \* rows that may be inserted into restore_runs
    NoRun,         \* job[w] of a worker that executes nothing
    MaxCrashes,    \* bound: processes killed
    MaxFaults,     \* bound: statements that end in an error
    MaxTimeouts,   \* bound: job contexts that expire
    MaxPanics      \* bound: panics recovered by the worker

Runs == BackupIds \cup RestoreIds

ASSUME IdsAssumption ==
    /\ NoRun \notin Runs
    /\ BackupIds \cap RestoreIds = {}
ASSUME BoundsAssumption ==
    {MaxCrashes, MaxFaults, MaxTimeouts, MaxPanics} \subseteq Nat

VARIABLES
    runs,          \* the rows of both tables
    tables,        \* "present", or "dropped" while pg_restore recreates them
    clock,         \* now() of the last insertion
    pc, job, stage, expired,   \* the workers
    uploaded,      \* backup runs whose archive reached the target
    dangling,      \* restore runs whose target row is not in the database
    lost,          \* history: runs whose row missed a write that failed
    failures,      \* history: runs the failure counters have counted
    budget         \* crashes, faults, timeouts and panics so far

rowVars    == <<runs, tables, clock, dangling>>
workerVars == <<pc, job, stage, expired>>
ghostVars  == <<uploaded, lost, failures>>
vars == <<rowVars, workerVars, ghostVars, budget>>

-----------------------------------------------------------------------------
(* The pipelines.  Stage k of a job first records its phase and percentage *)
(* in the row, then does its work.                                         *)

BackupStages ==
    << [phase |-> "postgres_dump", percent |-> 10],
       [phase |-> "minio_export",  percent |-> 35],
       [phase |-> "manifest",      percent |-> 55],
       [phase |-> "archive",       percent |-> 70],
       [phase |-> "upload",        percent |-> 85] >>

RestoreStages ==
    << [phase |-> "download",          percent |-> 10],
       [phase |-> "extract",           percent |-> 30],
       [phase |-> "validate_manifest", percent |-> 45],
       [phase |-> "postgres_restore",  percent |-> 60],
       [phase |-> "minio_import",      percent |-> 85] >>

(* Mutated: the pipeline ends one stage early.                             *)
LastStageEarly == 4

LastStage      == 5
PgRestoreStage == 4
(* Mutated: the stage after pg_restore is counted from one too high.       *)
ImportStageTooHigh == 6
ImportStage    == 5

(* Stages whose work cannot succeed once the job context has expired: they *)
(* run a command under the context or poll it between entries.             *)
ContextBound(r) == IF r \in BackupIds THEN {1, 2, 4} ELSE {2, 4, 5}

StageOf(r, k) == IF r \in BackupIds THEN BackupStages[k] ELSE RestoreStages[k]

-----------------------------------------------------------------------------
(* Rows.                                                                   *)

Terminal == {"completed", "failed"}
Present  == {"pending", "running"} \cup Terminal
Status   == {"unborn", "gone"} \cup Present

BackupPhases  == {"postgres_dump", "minio_export", "manifest", "archive", "upload"}
RestorePhases == {"download", "extract", "validate_manifest", "postgres_restore",
                  "minio_import"}
Phases == {"", "queued", "initializing"} \cup Terminal
          \cup BackupPhases \cup RestorePhases

Row == [status: Status, phase: Phases, progress: 0..100, createdAt: Nat]

NoRow == [status |-> "unborn", phase |-> "", progress |-> 0, createdAt |-> 0]

(* A row that a restore wiped; history: the percentage it last showed.     *)
GoneRow(row) ==
    [status |-> "gone", phase |-> "", progress |-> row.progress, createdAt |-> 0]

Exists(r)      == runs[r].status \in Present
Running(Table) == {r \in Table : runs[r].status = "running"}

(* A row inserted by this step gets the next value of now().               *)
Inserted(status, phase, progress) ==
    [status |-> status, phase |-> phase, progress |-> progress,
     createdAt |-> clock + 1]

(* An UPDATE of the three columns that change.                             *)
Updated(row, status, phase, progress) ==
    [status |-> status, phase |-> phase, progress |-> progress,
     createdAt |-> row.createdAt]

(* The row of a run that is claimed, that reaches a stage, that fails (the *)
(* percentage stays) and that completes.                                   *)
ClaimedRow(row)      == Updated(row, "running", "initializing", 1)
StageRow(row, s)     == Updated(row, row.status, s.phase, s.percent)
FailedRow(row)       == Updated(row, "failed", "failed", row.progress)
CompletedRow(row)    == Updated(row, "completed", "completed", 100)

(* Statements.  One that finds no table fails; any other may fail, at the  *)
(* cost of one unit of the budget.                                         *)
StatementRuns  == tables = "present" /\ UNCHANGED budget
StatementFails ==
    \/ tables = "dropped" /\ UNCHANGED budget
    \/ /\ tables = "present"
       /\ budget.faults < MaxFaults
       /\ budget' = [budget EXCEPT !.faults = @ + 1]

(* A statement under the job context also fails once that has expired.     *)
JobStatementRuns(w)  == ~expired[w] /\ StatementRuns
JobStatementFails(w) == \/ expired[w] /\ UNCHANGED budget
                        \/ StatementFails
-----------------------------------------------------------------------------
(* Workers.                                                                *)

Locations ==
    {"down", "fail_backups", "fail_restores", "claim_backup", "claim_restore",
     "commit_claim", "sleep", "open", "progress", "work", "recreate",
     "complete", "insert_completed", "failing", "insert_failed"}

(* Locations in which a worker executes the run it holds.                  *)
JobLocations == {"open", "progress", "work", "recreate", "complete",
                 "insert_completed", "failing", "insert_failed"}

Locking(w, r)   == pc[w] = "commit_claim" /\ job[w] = r
Executing(w, r) == pc[w] # "commit_claim" /\ job[w] = r /\ r # NoRun
Locked(r)       == \E w \in Instances : Locking(w, r)
Executed(r)     == \E w \in Instances : Executing(w, r)

Goto(w, location) == pc' = [pc EXCEPT ![w] = location]
SameJob           == UNCHANGED <<job, stage, expired>>

(* The worker holds no run any more and moves on.                          *)
LetGo(w, location) ==
    /\ Goto(w, location)
    /\ job' = [job EXCEPT ![w] = NoRun]
    /\ stage' = [stage EXCEPT ![w] = 0]
    /\ expired' = [expired EXCEPT ![w] = FALSE]

(* processOne returns true and processPending asks for the next run.       *)
Finish(w) == LetGo(w, "claim_backup")

(* ExecuteBackup and ExecuteRestore set failed = true, which the deferred  *)
(* metrics observation reports, and go on to record the failure.           *)
Abort(w) ==
    /\ Goto(w, "failing") /\ SameJob
    /\ failures' = failures \cup {job[w]}
    /\ UNCHANGED <<uploaded, lost>>

Init ==
    /\ runs = [r \in Runs |-> NoRow]
    /\ tables = "present" /\ clock = 0
    /\ pc = [w \in Instances |-> "down"]
    /\ job = [w \in Instances |-> NoRun]
    /\ stage = [w \in Instances |-> 0]
    /\ expired = [w \in Instances |-> FALSE]
    /\ uploaded = {} /\ dangling = {} /\ lost = {} /\ failures = {}
    /\ budget = [crashes |-> 0, faults |-> 0, timeouts |-> 0, panics |-> 0]

(* POST /backup/run and POST /backup/restore after their checks, and a     *)
(* cron entry that fires: the row is inserted pending.                     *)
Enqueue(r) ==
    /\ StatementRuns
    /\ runs[r].status = "unborn"
    /\ runs' = [runs EXCEPT ![r] = Inserted("pending", "queued", 0)]
    /\ clock' = clock + 1
    /\ UNCHANGED <<tables, dangling, workerVars, ghostVars>>
CreateBackupRun  == \E r \in BackupIds : Enqueue(r)
CreateRestoreRun == \E r \in RestoreIds : Enqueue(r)
-----------------------------------------------------------------------------
(* Start of a process, and FailRunningJobs.                                *)

(* Mutated: the worker starts polling without failing interrupted rows.    *)
StartPolling(w) ==
    /\ pc[w] = "down"
    /\ Goto(w, "claim_backup") /\ SameJob
    /\ tables' = "present"
    /\ UNCHANGED <<runs, clock, dangling, ghostVars, budget>>

(* The process migrates the schema, which recreates missing tables, and    *)
(* starts the worker; the worker first fails the rows left running.        *)
StartInstance(w) ==
    /\ pc[w] = "down"
    /\ Goto(w, "fail_backups") /\ SameJob
    /\ tables' = "present"
    /\ UNCHANGED <<runs, clock, dangling, ghostVars, budget>>

(* FailRunningJobs is called at the start and, with a run in hand, after   *)
(* pg_restore; its error is only logged.                                   *)
AfterFailRunningJobs(w) ==
    IF job[w] = NoRun
    THEN Goto(w, "claim_backup") /\ SameJob
    ELSE /\ Goto(w, "progress")
         /\ stage' = [stage EXCEPT ![w] = ImportStage]
         /\ UNCHANGED <<job, expired>>

(* Mutated: interrupted rows are queued again.                             *)
RequeueRunning(Table) ==
    runs' = [r \in Runs |-> IF r \in Running(Table)
                            THEN Updated(runs[r], "pending", "queued", 0)
                            ELSE runs[r]]

FailRunning(Table) ==
    runs' = [r \in Runs |-> IF r \in Running(Table) THEN FailedRow(runs[r])
                                                    ELSE runs[r]]

FailRunningBackups(w) ==
    /\ pc[w] = "fail_backups"
    /\ \/ /\ JobStatementRuns(w)
          /\ FailRunning(BackupIds)
          /\ Goto(w, "fail_restores") /\ SameJob
          /\ UNCHANGED lost
       \/ /\ JobStatementFails(w)
          /\ AfterFailRunningJobs(w)
          /\ lost' = lost \cup Running(Runs)
          /\ UNCHANGED runs
    /\ UNCHANGED <<tables, clock, dangling, uploaded, failures>>

FailRunningRestores(w) ==
    /\ pc[w] = "fail_restores"
    /\ AfterFailRunningJobs(w)
    /\ \/ /\ JobStatementRuns(w)
          /\ FailRunning(RestoreIds)
          /\ UNCHANGED lost
       \/ /\ JobStatementFails(w)
          /\ lost' = lost \cup Running(RestoreIds)
          /\ UNCHANGED runs
    /\ UNCHANGED <<tables, clock, dangling, uploaded, failures>>

-----------------------------------------------------------------------------
(* processOne: claim the oldest pending backup, or else the oldest pending *)
(* restore, or else sleep until the ticker fires.                          *)

(* Mutated: the lock of another claim is ignored; failed rows are retried. *)
ClaimableUnlocked(Table) == {r \in Table : runs[r].status = "pending"}
ClaimableRetrying(Table) ==
    {r \in Table : runs[r].status \in {"pending", "failed"} /\ ~Locked(r)}

Claimable(Table) ==
    {r \in Table : runs[r].status = "pending" /\ ~Locked(r)}

(* SELECT ... ORDER BY created_at FOR UPDATE SKIP LOCKED LIMIT 1           *)
SelectOldest(w, Table, whenNone) ==
    /\ \/ /\ StatementRuns
          /\ \E r \in Claimable(Table) :
                /\ \A q \in Claimable(Table) : runs[r].createdAt <= runs[q].createdAt
                /\ job' = [job EXCEPT ![w] = r]
          /\ Goto(w, "commit_claim")
          /\ UNCHANGED <<stage, expired>>
       \/ /\ StatementRuns
          /\ Claimable(Table) = {}
          /\ Goto(w, whenNone) /\ SameJob
       \/ /\ StatementFails
          /\ Goto(w, "sleep") /\ SameJob
    /\ UNCHANGED <<rowVars, ghostVars>>

(* Mutated: the second claim asks the first table again.                   *)
ClaimBackupTwice(w) == /\ pc[w] = "claim_restore"
                       /\ SelectOldest(w, BackupIds, "sleep")

ClaimPendingBackupRun(w)  == /\ pc[w] = "claim_backup"
                             /\ SelectOldest(w, BackupIds, "claim_restore")
ClaimPendingRestoreRun(w) == /\ pc[w] = "claim_restore"
                             /\ SelectOldest(w, RestoreIds, "sleep")

(* The update and the commit.  When the connection breaks the transaction  *)
(* is rolled back, or it is committed and the worker never learns of it.   *)
CommitClaim(w) ==
    /\ pc[w] = "commit_claim"
    /\ \/ /\ StatementRuns
          /\ runs' = [runs EXCEPT ![job[w]] = ClaimedRow(@)]
          /\ Goto(w, "open") /\ SameJob
          /\ UNCHANGED lost
       \/ /\ StatementFails
          /\ LetGo(w, "sleep")
          /\ UNCHANGED <<runs, lost>>
       \/ /\ StatementFails
          /\ runs' = [runs EXCEPT ![job[w]] = ClaimedRow(@)]
          /\ LetGo(w, "sleep")
          /\ lost' = lost \cup {job[w]}
    /\ UNCHANGED <<tables, clock, dangling, uploaded, failures>>

Tick(w) ==
    /\ pc[w] = "sleep"
    /\ Goto(w, "claim_backup") /\ SameJob
    /\ UNCHANGED <<rowVars, ghostVars, budget>>

-----------------------------------------------------------------------------
(* The stages of ExecuteBackup and ExecuteRestore.                         *)

(* driverForTarget, the Enabled check and the work directory.              *)
OpenTarget(w) ==
    /\ pc[w] = "open"
    /\ \/ /\ JobStatementRuns(w)
          /\ Goto(w, "progress")
          /\ stage' = [stage EXCEPT ![w] = 1]
          /\ UNCHANGED <<job, expired, ghostVars>>
       \/ /\ Abort(w)
          /\ UNCHANGED budget
    /\ UNCHANGED rowVars

(* progress and restoreProgress: no row, no effect, and no error.          *)
UpdateProgress(w) ==
    /\ pc[w] = "progress"
    /\ \/ /\ JobStatementRuns(w)
          /\ LET r == job[w]
             IN  runs' = IF Exists(r)
                         THEN [runs EXCEPT ![r] = StageRow(@, StageOf(r, stage[w]))]
                         ELSE runs
          /\ Goto(w, "work") /\ SameJob
          /\ UNCHANGED ghostVars
       \/ /\ JobStatementFails(w)
          /\ Abort(w)
          /\ UNCHANGED runs
    /\ UNCHANGED <<tables, clock, dangling>>

IsPgRestore(w) == job[w] \in RestoreIds /\ stage[w] = PgRestoreStage

(* The work of every other stage, through the upload or the import.        *)
StageSucceeds(w) ==
    /\ pc[w] = "work" /\ ~IsPgRestore(w)
    /\ expired[w] => stage[w] \notin ContextBound(job[w])
    /\ IF stage[w] < LastStage
       THEN /\ Goto(w, "progress")
            /\ stage' = [stage EXCEPT ![w] = @ + 1]
       ELSE /\ Goto(w, "complete")
            /\ UNCHANGED stage
    /\ uploaded' = IF StageOf(job[w], stage[w]).phase = "upload"
                   THEN uploaded \cup {job[w]} ELSE uploaded
    /\ UNCHANGED <<rowVars, job, expired, lost, failures, budget>>

(* Any stage may fail; a pg_restore that fails here has dropped nothing.   *)
StageFails(w) ==
    /\ pc[w] = "work"
    /\ Abort(w)
    /\ UNCHANGED <<rowVars, budget>>

(* Mutated: the dump leaves the run tables out, so pg_restore keeps them.   *)
PgRestoreKeepsRuns(w) ==
    /\ pc[w] = "work" /\ IsPgRestore(w) /\ ~expired[w]
    /\ Goto(w, "fail_backups") /\ SameJob
    /\ UNCHANGED <<rowVars, ghostVars, budget>>

(* pg_restore --clean --if-exists, without a transaction: the tables are   *)
(* dropped, which waits for the row locks of a claim ...                   *)
PgRestoreDrop(w) ==
    /\ pc[w] = "work" /\ IsPgRestore(w) /\ ~expired[w]
    /\ \A v \in Instances : pc[v] # "commit_claim"
    /\ tables' = "dropped"
    /\ runs' = [r \in Runs |-> IF Exists(r) THEN GoneRow(runs[r]) ELSE runs[r]]
    /\ Goto(w, "recreate") /\ SameJob
    /\ UNCHANGED <<clock, dangling, ghostVars, budget>>

(* ... and recreated, empty.  The restored backup_targets may lack the     *)
(* target of a restore that is being executed.  Tables that exist again    *)
(* are an error, and pg_restore may fail before or after it creates them.  *)
InFlightRestores == {r \in RestoreIds : Executed(r)}

PgRestoreCreate(w) ==
    /\ pc[w] = "recreate"
    /\ \/ /\ tables = "dropped" /\ ~expired[w]
          /\ tables' = "present"
          /\ dangling' \in SUBSET InFlightRestores
          /\ Goto(w, "fail_backups") /\ SameJob
          /\ UNCHANGED ghostVars
       \/ /\ tables = "dropped"
          /\ tables' = "present"
          /\ dangling' \in SUBSET InFlightRestores
          /\ Abort(w)
       \/ /\ UNCHANGED <<tables, dangling>>
          /\ Abort(w)
    /\ UNCHANGED <<runs, clock, budget>>
-----------------------------------------------------------------------------
(* The outcome.                                                            *)

(* The final write failed: the error is dropped or only logged.            *)
GiveUp(w) ==
    /\ lost' = lost \cup {job[w]}
    /\ Finish(w)
    /\ UNCHANGED <<runs, clock>>

CompleteBackupRun(w) ==
    /\ pc[w] = "complete" /\ job[w] \in BackupIds
    /\ \/ /\ JobStatementRuns(w)
          /\ runs' = IF Exists(job[w])
                     THEN [runs EXCEPT ![job[w]] = CompletedRow(@)] ELSE runs
          /\ Finish(w)
          /\ UNCHANGED <<clock, lost>>
       \/ JobStatementFails(w) /\ GiveUp(w)
    /\ UNCHANGED <<tables, dangling, uploaded, failures>>

FailBackupRun(w) ==
    /\ pc[w] = "failing" /\ job[w] \in BackupIds
    /\ \/ /\ StatementRuns
          /\ runs' = IF Exists(job[w])
                     THEN [runs EXCEPT ![job[w]] = FailedRow(@)] ELSE runs
          /\ Finish(w)
          /\ UNCHANGED <<clock, lost>>
       \/ StatementFails /\ GiveUp(w)
    /\ UNCHANGED <<tables, dangling, uploaded, failures>>

(* Mutated: an update that finds no row is taken for success.              *)
CompleteRestoreRunNoInsert(w) ==
    /\ pc[w] = "complete" /\ job[w] \in RestoreIds
    /\ \/ /\ JobStatementRuns(w)
          /\ runs' = IF Exists(job[w])
                     THEN [runs EXCEPT ![job[w]] = CompletedRow(@)] ELSE runs
          /\ Finish(w)
          /\ UNCHANGED <<clock, lost>>
       \/ JobStatementFails(w) /\ GiveUp(w)
    /\ UNCHANGED <<tables, dangling, uploaded, failures>>

(* The restore may have wiped its own row: when the update finds none, the *)
(* row is inserted anew.                                                   *)
CompleteRestoreRun(w) ==
    /\ pc[w] = "complete" /\ job[w] \in RestoreIds
    /\ \/ /\ JobStatementRuns(w)
          /\ IF Exists(job[w])
             THEN /\ runs' = [runs EXCEPT ![job[w]] = CompletedRow(@)]
                  /\ Finish(w)
             ELSE Goto(w, "insert_completed") /\ SameJob /\ UNCHANGED runs
          /\ UNCHANGED <<clock, lost>>
       \/ JobStatementFails(w) /\ GiveUp(w)
    /\ UNCHANGED <<tables, dangling, uploaded, failures>>

FailRestoreRun(w) ==
    /\ pc[w] = "failing" /\ job[w] \in RestoreIds
    /\ \/ /\ StatementRuns
          /\ IF Exists(job[w])
             THEN /\ runs' = [runs EXCEPT ![job[w]] = FailedRow(@)]
                  /\ Finish(w)
             ELSE Goto(w, "insert_failed") /\ SameJob /\ UNCHANGED runs
          /\ UNCHANGED <<clock, lost>>
       \/ StatementFails /\ GiveUp(w)
    /\ UNCHANGED <<tables, dangling, uploaded, failures>>

InsertRun(w, row) ==
    /\ job[w] \notin dangling
    /\ runs' = [runs EXCEPT ![job[w]] = row]
    /\ clock' = clock + 1
    /\ Finish(w)
    /\ UNCHANGED lost

(* The foreign key refuses the row when the target is not in the database. *)
RefuseRun(w) == tables = "present" /\ job[w] \in dangling /\ UNCHANGED budget

(* Mutated: the percentage is the one the worker read when it claimed.     *)
InsertCompletedAsRead(w) ==
    /\ pc[w] = "insert_completed"
    /\ \/ JobStatementRuns(w) /\ InsertRun(w, Inserted("completed", "completed", 1))
       \/ (JobStatementFails(w) \/ RefuseRun(w)) /\ GiveUp(w)
    /\ UNCHANGED <<tables, dangling, uploaded, failures>>

InsertCompletedRestoreRun(w) ==
    /\ pc[w] = "insert_completed"
    /\ \/ JobStatementRuns(w) /\ InsertRun(w, Inserted("completed", "completed", 100))
       \/ (JobStatementFails(w) \/ RefuseRun(w)) /\ GiveUp(w)
    /\ UNCHANGED <<tables, dangling, uploaded, failures>>

(* The percentage is the one the worker read when it claimed the run.      *)
InsertFailedRestoreRun(w) ==
    /\ pc[w] = "insert_failed"
    /\ \/ StatementRuns /\ InsertRun(w, Inserted("failed", "failed", 1))
       \/ (StatementFails \/ RefuseRun(w)) /\ GiveUp(w)
    /\ UNCHANGED <<tables, dangling, uploaded, failures>>

-----------------------------------------------------------------------------
(* The environment.                                                        *)

JobTimeout(w) ==
    /\ job[w] # NoRun /\ pc[w] # "commit_claim" /\ ~expired[w]
    /\ budget.timeouts < MaxTimeouts
    /\ budget' = [budget EXCEPT !.timeouts = @ + 1]
    /\ expired' = [expired EXCEPT ![w] = TRUE]
    /\ UNCHANGED <<rowVars, pc, job, stage, ghostVars>>

(* The deferred recover of executeBackup and executeRestore records the    *)
(* failure; `failed' was never set, so the failure is not counted.         *)
Panic(w) ==
    /\ pc[w] \in {"open", "progress", "work", "complete", "insert_completed"}
    /\ budget.panics < MaxPanics
    /\ budget' = [budget EXCEPT !.panics = @ + 1]
    /\ Goto(w, "failing") /\ SameJob
    /\ UNCHANGED <<rowVars, ghostVars>>

(* The process is killed: what it held in memory is gone, an open          *)
(* transaction is rolled back, pg_restore dies with it.                    *)
Crash(w) ==
    /\ pc[w] # "down"
    /\ budget.crashes < MaxCrashes
    /\ budget' = [budget EXCEPT !.crashes = @ + 1]
    /\ LetGo(w, "down")
    /\ UNCHANGED <<rowVars, ghostVars>>

FinishRun(w) ==
    \/ CompleteBackupRun(w) \/ CompleteRestoreRun(w) \/ InsertCompletedRestoreRun(w)
    \/ FailBackupRun(w) \/ FailRestoreRun(w) \/ InsertFailedRestoreRun(w)

ExecuteStage(w) ==
    \/ OpenTarget(w) \/ UpdateProgress(w) \/ StageSucceeds(w) \/ StageFails(w)
    \/ PgRestoreDrop(w) \/ PgRestoreCreate(w)

ProcessOne(w) ==
    \/ ClaimPendingBackupRun(w) \/ ClaimPendingRestoreRun(w) \/ CommitClaim(w)
    \/ Tick(w)

WorkerStep(w) ==
    \/ StartInstance(w) \/ FailRunningBackups(w) \/ FailRunningRestores(w)
    \/ ProcessOne(w) \/ ExecuteStage(w) \/ FinishRun(w)

Next ==
    \/ CreateBackupRun \/ CreateRestoreRun
    \/ \E w \in Instances : WorkerStep(w) \/ JobTimeout(w) \/ Panic(w) \/ Crash(w)

Spec == Init /\ [][Next]_vars

(* A process that is down is started again, and a worker that can take a   *)
(* step takes one: every statement, command and transfer comes to an end.  *)
(* Nobody has to enqueue, and no fault has to happen.                      *)
FairSpec == Spec /\ \A w \in Instances : WF_vars(WorkerStep(w))

-----------------------------------------------------------------------------
(* Properties.                                                             *)

Budget == [crashes: 0..MaxCrashes, faults: 0..MaxFaults,
           timeouts: 0..MaxTimeouts, panics: 0..MaxPanics]

(* Type invariant: every row is one the CHECK constraints of               *)
(* migrations/004_backups.sql admit, and a worker holds a run exactly when *)
(* it is claiming or executing one.                                        *)
RowsOK ==
    /\ runs \in [Runs -> Row]
    /\ tables \in {"present", "dropped"} /\ clock \in Nat
    /\ dangling \subseteq RestoreIds

WorkersOK ==
    /\ pc \in [Instances -> Locations]
    /\ job \in [Instances -> Runs \cup {NoRun}]
    /\ stage \in [Instances -> 0..LastStage]
    /\ expired \in [Instances -> BOOLEAN]
    /\ \A w \in Instances :
          /\ pc[w] \in JobLocations \cup {"commit_claim"} => job[w] # NoRun
          /\ pc[w] \in {"progress", "work"} => stage[w] # 0

HistoryOK ==
    /\ uploaded \subseteq BackupIds /\ lost \subseteq Runs /\ failures \subseteq Runs
    /\ budget \in Budget

TypeOK == RowsOK /\ WorkersOK /\ HistoryOK

(* FOR UPDATE SKIP LOCKED hands a run to one worker: however many processes *)
(* poll, and whatever fails in between, no two hold the same run.          *)
SingleExecutor ==
    \A v, w \in Instances : job[v] # NoRun /\ job[v] = job[w] => v = w

(* A backup run that says completed stands for an archive that was uploaded *)
(* in full, even when another process interrupted or replaced its row.     *)
CompletedHasArchive ==
    \A r \in BackupIds : runs[r].status = "completed" => r \in uploaded

(* The percentage shown for a run never goes back, not even over a restore *)
(* that wipes its row and another that inserts it anew.  The one exception *)
(* is a wiped restore that fails: its row is inserted with the percentage  *)
(* that the worker read when it claimed the run (store/postgres.go:451).   *)
ProgressMonotone ==
    [][\A r \in Runs :
          \/ runs'[r].progress >= runs[r].progress
          \/ /\ r \in RestoreIds /\ runs[r].status = "gone"
             /\ runs'[r].status = "failed" /\ runs'[r].progress = 1]_vars

(* A worker that ends a restore without being killed leaves a row that says *)
(* how it ended, although the restore wiped the row, unless a final write  *)
(* failed.                                                                 *)
RestoreIsRecorded ==
    [][\A w \in Instances :
          job[w] \in RestoreIds /\ pc[w] # "commit_claim"
            /\ job'[w] = NoRun /\ pc'[w] # "down"
          => \/ runs'[job[w]].status \in Terminal
             \/ job[w] \in lost']_vars

(* Status and phase of a row tell the same story: no progress update and no *)
(* interruption reaches a row that has settled.                            *)
PhaseMatchesStatus ==
    \A r \in Runs : Exists(r) =>
        /\ runs[r].status = "pending" <=> runs[r].phase = "queued"
        /\ runs[r].status = "failed" <=> runs[r].phase = "failed"
        /\ runs[r].status = "completed" <=> runs[r].phase = "completed"
        /\ runs[r].status = "completed" <=> runs[r].progress = 100

(* A settled row is never written again; only a restore removes it.        *)
TerminalIsFinal ==
    [][\A r \in Runs : runs[r].status \in Terminal
                         => runs'[r] = runs[r] \/ runs'[r].status = "gone"]_vars

(* When every worker is past its start, a row that says running and that   *)
(* nobody executes is one whose final write, or whose interruption, failed *)
(* in the database: crashes alone leave none behind.                       *)
OrphansAreLost ==
    (\A w \in Instances : pc[w] \notin {"down", "fail_backups", "fail_restores"})
    => \A r \in Runs : runs[r].status = "running" /\ ~Executed(r) => r \in lost

(* What a row says of itself, and of being executed, is so.                *)
RowsAreTrue == PhaseMatchesStatus /\ OrphansAreLost

(* "interrupted by application restart" (worker.go): a run that a worker is *)
(* executing is failed by that worker only.                                *)
InterruptedIsDead ==
    [][\A r \in Runs : runs[r].status = "running" /\ runs'[r].status = "failed"
          => \A w \in Instances : Executing(w, r) => pc[w] = "failing"]_vars

(* "Total number of failed backup runs." (metrics.go): a backup run that   *)
(* is recorded as failed has been counted.                                 *)
FailedRunsAreCounted ==
    \A r \in BackupIds : runs[r].status = "failed" => r \in failures

(* Every run submitted settles, is wiped by a restore, or is one whose row *)
(* missed a write: the worker loop survives errors, panics, timeouts and   *)
(* restarts.                                                               *)
RunsSettle ==
    \A r \in Runs : (runs[r].status \in {"pending", "running"})
        ~> (runs[r].status \in Terminal \cup {"gone"} \/ r \in lost)

(* The lifecycle the tables show, with a restore that has wiped its own row *)
(* counted as running while its worker executes it.                        *)
Lifecycle == INSTANCE RunLifecycle WITH
    state <- [r \in Runs |-> IF runs[r].status = "gone" /\ Executed(r)
                              THEN "running" ELSE runs[r].status]

(* The tables implement that lifecycle.                                    *)
ImplementsLifecycle == Lifecycle!Spec
=============================================================================
