# Verification of storagetron

Storagetron keeps an inventory of boxed equipment: a Go API over PostgreSQL and
an S3 bucket, a Next.js web application, and a backup subsystem that dumps both
stores to an SFTP target and restores them from there. This directory models its
control in TLA+, checks the models with TLC and proves theorems about them with
TLAPS. Source paths below are relative to the repository (`src/` in
`PROJECT.json`).

    tlc -workers 2 -config BackupJobsSingle.cfg MCBackupJobs    a run
    tlc -workers 2 -config WebApp.cfg MCWebApp                  another
    tlapm BackupJobs_proofs.tla                                 proofs
    (likewise BackupSchedules_, Inventory_, Reports_, Stores_, ItemEntry_, Pages_
    and WebApp_proofs)

`PROJECT.json` lists the components, the runs, the definitions with the lines
they model, the mutants (a plausible bug for every property of every run), the
hazards, the findings and the theorems.

## 1. The system

| component | state | operations | interacts with |
|---|---|---|---|
| backup job queue (`internal/backup/worker.go`, `service.go`, `store/postgres.go`) | tables `backup_runs`, `restore_runs`; the worker's control point, the run in its hand, its job context | create run; claim; progress; complete; fail; fail running | HTTP handlers and cron entries insert; one worker per process claims; `pg_restore` replaces the tables |
| scheduler (`scheduler.go`) | the installed cron and its entries, a mutex | Start, Reload, Stop; an entry fires | reads `backup_schedules`, inserts runs; reloaded by the handlers |
| targets and schedules API (`httpapi/handlers.go`) | `backup_targets`, `backup_schedules` (soft deletion) | create, update, delete, test, list backups | driver, scheduler |
| SFTP driver, retention (`target/sftp/driver.go`, `service.go`) | the remote directory | upload, download, list, delete, retention | worker |
| archive, object export/import (`archive.go`, `minio.go`, `postgres.go`) | a work directory, the bucket, the dump | dump, export, pack, unpack, restore, import | worker, photos |
| inventory (`internal/{repository,service,handler}`) | items, kits, locations, kit membership | CRUD, add to kit, remove from kit | labels, photos, reports |
| labels, scanning | labels, label assignments | assign, unassign, resolve a scanned code | inventory |
| photos (`photo_service.go`, `photo_repo.go`, `storage/s3.go`) | a row and an object per photo | presign and insert, delete | inventory deletion, backups |
| documentation reports (`internal/documentation`) | a row and a file per report | create, list, download | inventory, restore |
| migrations (`internal/db/db.go`) | schema, `schema_migrations` | run at start | every process; restores replace both |
| web application, data entry (`create-item-dialog.tsx`, `lib/item-entry.ts`) | the dialog and its guide, the progress of a save | enter an item with labels, photos and kit; save, save again, skip, go back, close | API: up to eight kinds of requests per save |
| web application, backups (`settings/backups/page.tsx`) | cached lists, two dialogs that want a word, the draft of a target | create, update, delete; back up, restore | API; secrets it never sees |
| web application, items and kits (`items/`, `kits/[id]`, `edit-record-dialog.tsx`, `add-items-to-container-dialog.tsx`) | cached lists, selections, dialogs, drafts | filter, select, delete many, add many, edit | API: one request per row |
| web application, reports and scanning (`documentation/`, `scan/`) | a form and its last report; the camera and a lookup | make, download; scan, resume, leave | API, the camera |

What is hard in it, and what correctness means for each part:

* **Job queue.** Several processes poll the same two tables; each statement is
  a step of its own; processes die, statements fail, commits are ambiguous,
  jobs expire and panic, and a restore replaces the very tables the queue lives
  in. Correct: a run has one executor; a run settles once and for good;
  `completed` stands for finished work; nothing but a failed write leaves a row
  running for ever.
* **Scheduler.** `Reload` lists before it locks and starts the new cron before
  it stops the old one; every process has its own. Correct: eventually the
  entries are those of the table; a due schedule fires once.
* **Targets, schedules.** Handlers read, merge and write whole rows. Correct: no
  enabled schedule points to a deleted target; an update keeps the secrets it
  does not mention.
* **SFTP, retention.** Uploads write to the final name; retention orders
  whatever is in the directory. Correct: once a backup was completed, a whole
  one is there.
* **Photos, reports.** Two stores, no transaction across them. Correct: a row
  points to an object or file that exists; what cannot be reached is at worst
  an orphan.
* **Migrations.** Executed and then recorded, with no lock. Correct: in order, and
  whoever serves finds the schema of its release.
* **Inventory.** Checks and writes in separate statements. Correct: an item is
  in one kit at a time; deleting a kit frees its items.
* **Web application.** Requests fail, or succeed without an answer after ten
  seconds; nothing is sent twice by itself, so it is the user who tries again.
  State outlives what it was made for: a selection its filter, a draft its
  refetch, a save its dialog, a lookup its page. Correct: a retry repeats nothing
  that succeeded and reports what is true; only what a dialog named is lost.

## 2. Order

The modules were written in the order of importance: the backup subsystem, in
which several processes share state; the inventory; what backups are made of;
then the web application, page by page. Each has its constants with named
assumptions, one action per operation and invariants as conjunctions of named
parts, and none declares a recursive operator, so that all can be proved about.
`Migrations` and `Reports` came last.

| module | composes or extends | proofs |
|---|---|---|
| `BackupJobs`, its abstract specification `RunLifecycle` | | `BackupJobs_proofs` |
| `BackupSchedules` | | `BackupSchedules_proofs` |
| `Inventory` | | `Inventory_proofs` |
| `Reports` | | `Reports_proofs` |
| `Archives`, `Migrations` | | `Stores_proofs` |
| `Stores` | `Archives`, `Migrations`, `Reports` | `Stores_proofs` |
| `ApiClient` | | |
| `ItemEntry` | `ApiClient` | `ItemEntry_proofs` |
| `BackupsPage`, `TargetForm`, `ItemsPage`, `KitPage`, `EditRecord`, `ReportsPage`, `ScanPage` | `ApiClient` | `Pages_proofs` |
| `WebApp` | `ItemEntry` and the seven modules above | `WebApp_proofs` |
| `MCBackupJobs`, `MCBackupSchedules`, `MCInventory`, `MCStores`, `MCWebApp` | the module of the same name, for TLC | |

What would come next is a composition of `BackupJobs` and `BackupSchedules`, in
which a restore replaces the tables under the installed crons.

## 3. Modules

### BackupJobs

One function `runs` stands for both tables, because their columns, statements
and protocol are the same; a row is `unborn` before it is inserted and `gone`
after a restore removed it (`GoneRow` then keeps the percentage last shown, as a
history). `pc[w]` is where the worker of process `w` stands,
`job[w]` the run in its hand, `stage[w]` the stage of `ExecuteBackup` or
`ExecuteRestore`, `expired[w]` whether the job context has passed its deadline.

| code | action |
|---|---|
| `CreateBackupRun`, `CreateRestoreRun` handlers, a cron entry | `CreateBackupRun`, `CreateRestoreRun` |
| `main`: migrations, `worker.Run` up to `FailRunningJobs` | `StartInstance` |
| `FailRunningJobs` (two statements, not one transaction) | `FailRunningBackups`, `FailRunningRestores` |
| `Claim…Run`: `SELECT … FOR UPDATE SKIP LOCKED` | `ClaimPendingBackupRun`, `ClaimPendingRestoreRun` |
| its `UPDATE` and commit, with an ambiguous outcome | `CommitClaim` |
| `driverForTarget` and the work directory | `OpenTarget` |
| `progress`, `restoreProgress` | `UpdateProgress` |
| dump, export, manifest, archive, upload; download, extract, validate, import | `StageSucceeds`, `StageFails` |
| `pg_restore --clean --if-exists` | `PgRestoreDrop`, `PgRestoreCreate` |
| `Complete…Run`, `Fail…Run` and the insertions of restores | `CompleteBackupRun` … `InsertFailedRestoreRun` |
| `context.WithTimeout`, `recover`, the death of a process | `JobTimeout`, `Panic`, `Crash` |

A statement is one step and may fail (`StatementFails`); under the job context
it also fails once that has expired. A claim keeps the row lock between
its two steps (`Locked`). `pg_restore` waits for those locks, drops the tables,
and recreates them without any rows, since the dump leaves the run tables' data
out; in between every statement fails. What a stage computes is abstracted to
how it ends. `lost` and `failures` are histories: runs whose row missed a write
that failed, and runs the failure counter has counted. `uploaded` is the set of
backups whose archive reached the target.

Not in this module: what the archive holds, which target a run names, and the
schedule that created it.

### RunLifecycle

What a reader of the two tables may rely on when one process works on them:
a run is submitted, claimed and settled once; a restore forgets every run but
itself. `BackupJobs` implements it (`ImplementsLifecycle`) under the mapping
that counts a restore which wiped its own row as running while it is executed.

### MCBackupJobs

`BackupJobs` with the symmetry of instances and of the identifiers of a table.

### BackupSchedules

`targets` and `schedules` are the rows of the two tables, by what the code tells
apart: whether a row exists, is deleted or enabled, and the target a schedule
names. `current[i]` is `Scheduler.cron` of process `i` and `running[i]` the crons
of that process that are started and not stopped; a cron is who built it and what
it fires. A request `q` is served once, at process `at[q]`, and stands at `pc[q]`.

| code | action |
|---|---|
| `main`: `NewScheduler`, `Scheduler.Start`, serving | `StartProcess`, `LoadSchedules`, `StartScheduler` |
| the body of a request, validated | `Receive` |
| `GetTarget`, `GetSchedule` of the row to update | `Read` |
| `GetTarget` of the target a schedule names | `CheckTarget` |
| `CreateTarget` … `SoftDeleteSchedule`, one transaction each | `Write` |
| `Reload`: listing; `next.Start`; the exchange under the mutex; `old.Stop` | `ListEnabled`, `StartNext`, `Swap`, `StopOld` |
| the death of a process | `Crash` |

A statement may fail, and a write may take effect and its answer be lost
(`Write`); then the handler answers with an error and reloads nothing.
`SoftDeleteTarget` updates both tables in one transaction, so it is one step.
`observed[q]` is a history (`Observe`): whether, at some moment between the arrival
of the request and its write, the row it writes was enabled and the target it
names was there.
Requests are one-shot, so the system stops when all are answered
(`CHECK_DEADLOCK FALSE`); `Init` starts from all tables a process may find.

### MCBackupSchedules

`BackupSchedules` with the symmetry of processes, rows and requests.

### Inventory

The tables are sets and functions over ids: `live` and `gone` rows, `place` and
`detail` of items and kits (every column an update may leave out is the one
`detail`), `contents` (membership), `tagged` (both assignment tables), `codes`
(what a printed code is on). A request `q` asks `ask[q]`, stands at `pc[q]`, and
was answered `answer[q]`; `seen[q]` is what its last statement read. Two are
histories: `observed[q]`, what was true of the subject of the request while it ran
(of an update that leaves a field out, what the field was), and `entered[q]`, the
memberships of its item made since an `AddItem` looked for one.

| code | action |
|---|---|
| routing, the body of a request | `Receive`, `Close` |
| `Create` of the repositories, one transaction with the scan code | `Create` |
| `Update` of the services: `Get`, then every column | `Read`, `Write` |
| `Delete`, with the cascades of the schema | `Delete` |
| `AddItem`: its snapshot, then its insertion | `Snapshot`, `Insert` |
| `RemoveItem` | `Remove` |
| `AttachLabel`, `DetachLabel` | `Attach`, `Exists`, `Detach` |
| `ScanHandler.Scan`: up to six lookups | `Scan` |
| a statement fails, also the one that reads a written row back | `Abort` |

`AddItem` is one SQL statement and two steps: its `NOT EXISTS` reads the snapshot
the statement began with, and the primary key of `item_container` only stops the
same pair. Every other statement is one step, since the rows it checks are the
rows it locks. The rows that an answer repeats are left out, so is the printed
label beside a scanned row.

### MCInventory

`Inventory` with the symmetry of ids, codes, values and requests.

### Archives

A photo is in `rows` and in `objects`; `issued` upload URLs are used at any time,
and a deletion stands between its two statements in `removing`. `job` is the run
in hand with the rows and objects in its work directory, `files[n]` what the
target holds under the name of second `n`, whole or not.

| code | action |
|---|---|
| `CreateUpload`, the client's `PUT`, `Delete` of a photo | `CreateUpload`, `PutObject`, `DeleteRow`, `DeleteObject` |
| `ExecuteBackup`: name, dump, export, `Upload`, retention, the last write | `BeginBackup`, `Dump`, `ExportObjects`, `Upload`, `ApplyRetention`, `CompleteBackupRun` |
| a stage fails, the process dies | `FailBackup`, and the outcomes of `Upload` |
| `ExecuteRestore`: download and validation, `pg_restore`, import | `BeginRestore`, `RestoreRows`, `ImportObjects` |

`ApplyRetention` keeps the newest of whatever ends in `.tar.zst`, in any order
among files of the same second, and deletes the others until one deletion fails.
`excused` is a history: the photos deleted while an archive or a restore was at
work, and those whose upload had not arrived when they were archived. `torn`
says that a restore stopped half way: what a backup finds missing then is its
damage, too.

### Migrations

`executed` is what the schema has, `recorded` is `schema_migrations`, `pc[p]` and
`at[p]` where process `p` stands in the loop of `RunMigrations` and at which file.

| code | action |
|---|---|
| `main` up to `CREATE TABLE IF NOT EXISTS schema_migrations` | `Start` |
| `SELECT EXISTS`, `continue` | `Check` |
| `db.Exec` of the file, one transaction | `Execute` |
| `INSERT INTO schema_migrations` | `Record` |
| an error and `logger.Fatal`, a lost answer, the death of the process | `Fail` |
| `pg_restore --clean` of an archive from before an upgrade | `RestoreOlder` |

Of a script it matters whether it can be executed twice (`RepeatsUntil`; 001
until 006 renames `labels`, 002 to 005 always, 006 to 008 never) and whether a
restore that does not know it leaves its table behind (`Own`: 008). `cut`,
`older`, `crossed` and `behind` are histories. `BackupJobs` and `BackupSchedules`
start their processes with the migrations done.

### Reports

`db` is the inventory as committed, `snapshot` what the transaction of the report
sees, `found` the scope as far as it is read, `report` the rows and totals, `temp`,
`file` and `row` what is stored. `stayed` and `ever` are histories of the scope.

| code | action or operator |
|---|---|
| `getDocumentationLocation`, `listDocumentationContainers` | `GetLocation`, `ListContainers` |
| `hydrateDocumentationContainers`, `listDocumentationLooseItems` | `HydrateContainers`, `ListLooseItems` |
| `PrepareReport`: the loop over kits in their order, then loose items | `Package`, `AddPackage`, `PrepareReport` |
| the totals of a currency | `Added`, `Sum` |
| `WriteAtomic`: temporary file; sync, close, rename, stat | `Render`, `RenderFails`; `Publish`, `PublishFails` |
| `InsertReport`; `Remove` after its error | `InsertReport`, `InsertFails`; `Cleanup`, `CleanupFails` |
| `List`, `Open` of a row with or without its file | `Listed` |
| requests of others; the death of the process | `Edit`; `Crash` |

### Stores, MCStores

What the system stores: `Archives`, `Migrations` and `Reports`. The three
meet only in restores, of which each has the part that concerns it, so a
behaviour is about one of `Parts`, chosen in `Init`, and the others stay as they
are: the archives, the schema, a report with every choice of values and nothing
going wrong (`money`), or a report without values that meets an edit and errors
(`report`). `MCStores` has the eight files of the repository, and values that
are distinct powers of two.

### ApiClient

A request as the pages see it: answered, refused, or applied with its answer
lost. `Unanswered` names the kinds of requests that the last may befall.

### ItemEntry

`dialog` is the state of the dialog and its guide, `progress` what the
coordinator has saved so far, `saving` the running save with its input. The
server is `title`, `tagged`, `packed` and `photos`. `born[i]` and `outlived` are
histories: the entry whose form made item `i`, and the entries whose dialog was
left while their save ran; nothing keeps the user from that.

| code | action |
|---|---|
| open, the guide, closing and its question | `OpenDialog`, `ToggleAssisted`, `RequestClose`, `KeepWorking`, `ExitAndKeepItem` |
| the steps of the guide | `Skip`, `Back`, `Visit`, `AddAnother`, `ViewItem` |
| the buttons that save | `Submit` |
| `saveItemEntry`: row; labels; photos, one by one; kit | `SaveRecord`; `SaveLabels`; `CreatePhoto`, `PutPhoto`, `DeletePhoto`, `PhotosDone`; `LeaveContainer`, `EnterContainer` |
| `invalidateQueries` and `onSuccess` | `Refetched` |

The labels of a save are sent at once and any of them may fail, so they are one
step with every possible outcome.

### BackupsPage, TargetForm

`BackupsPage` has the rows at the server (`live`) and as the page last read them
(`shown`), a dialog and a request in flight per word (`DELETE`, `RESTORE`), and
numbers dialogs to trace what the server did to the dialog that asked.
`Ask`, `Type`, `Cancel`, `Confirm`, `AnswerDialog` and `DialogRefetched` are
`openRestore`/`setPendingDelete`, the text field, Cancel, the buttons, the
answers and the refetch. `TargetForm` follows the credentials of one target: the
row (`Merged`, `Methods`: `handlers.go`), what the page reads back (`Redacted`),
the draft (`DraftFromTarget`) and the request built from it (`Built`).

### ItemsPage, KitPage, EditRecord, ReportsPage, ScanPage

| module | state | actions |
|---|---|---|
| `ItemsPage` | stock, list, filters, page, selection, the deletion; `insisted`, a history: what was to be deleted and still is | `FilterItems`, `TurnPage`, `TickItems`, `OpenDeleteItems`, `ConfirmDeleteItems`, `AnswerDeleteItems`, `ItemsDeleted` |
| `KitPage` | where each item is and is shown, marks, the two dialogs and their requests | `RemoveFromKit`, `PickItem`, `AddSelectedItems`, `AdditionsDone`, `ConfirmErase`, `EraseDone`, `DeleteKit` |
| `EditRecord` | the record, its cached copy, the draft, the save | `ChangeDraft`, `SaveRecordChanges`, `UpdateFields`, `UpdateLabels`, `Settle` |
| `ReportsPage` | the form, the picker, the request, the report offered, the history | `EditReportForm`, `ConfirmPicker`, `SubmitReport`, `AnswerReport`, `DownloadReport` |
| `ScanPage` | the camera, the marks of the page, lookups on their way | `Decode`, `AnswerScan`, `handleResume`, `LeaveScan` |

Requests sent together (`Promise.allSettled`) are of different rows and are
carried out in one step, each with an outcome of its own; the page goes on when
all are answered. Other clients change the server before and after
(`ItemsElsewhere`, `KitElsewhere`), and what the page shows is what it last read.

### WebApp, MCWebApp

Every page beside the others. A browser shows one page at a time, and pages
share nothing but the server, of which each module has the part its page works
on: a behaviour visits one page, chosen in `Init`. `MCWebApp` adds model values
and the symmetry of items and kits.

## 4. Runs

| run | instance | question |
|---|---|---|
| `jobs_single` | one process, two backups, a restore; a crash, a fault, a timeout, a panic | Does the queue implement the lifecycle through every failure? |
| `jobs_pair` | two processes, a backup, two restores; a fault | What survives two processes and two restores that wipe each other's rows? |
| `jobs_live` | one process, a backup, a restore; all four failures | Does every run settle? |
| `jobs_overlap` (violation) | two processes, a backup, no failure | Is only a dead run interrupted? |
| `schedules_serial` | two processes, two targets, a schedule, two requests one at a time; a crash, a fault | Are the installed entries those of the tables when requests do not overlap? |
| `schedules_overlap` | one process, a target, a schedule, three requests at once; a crash, a fault | What do overlapping requests leave intact? |
| `inventory_answers` | an item, two kits, a label, a code, two requests at once | Is every answer true of some moment of its request, and how may an item get a second kit? |
| `inventory_updates` | an item, a location, two values, three requests at once | What does an update write where it leaves a field out? |
| `inventory_two_kits` (violation) | an item, two kits, two requests at once | Is an item in one kit? |
| `stores` | one photo, retention 0, 1 or 2, three seconds; two processes, eight files, a new database or one of release 006 or 007, three failures or restores; a report of two items and two kits in every placement and selection, with every choice of values in two currencies, or with one edit and two errors | Does a whole archive survive, and does it hold what it names? Is the schema migrated in order, and does every process serve in the end? Does a report count its scope, and is what is stored what was answered? |
| `web_app` | every page: two entries of two items, one label, two kits, one file; one row of each table and two dialogs; two secrets; a stock of two on pages of one; two goods; two boxes and reports; three lookups | Did each page do what the user asked, and say what was done? |
| `edit_retry` (violation) | two texts, two labels, every request answered | Does saving again finish a save that failed half way? |

Bounds. One unit of each failure already gives every order of a failure against
every step of a run; `jobs_single` combines a crash, a fault, a timeout and a
panic in one behaviour. Two backups and a restore are enough for a run that
waits behind another, one that is wiped while pending, and an order within a
table; two restores and a backup in two processes let a restore wipe a backup,
and a restore wipe another one. `jobs_live` has no symmetry, since symmetry is
unsound for liveness. Deadlock is checked in every run of the queue: a worker that
sleeps can always tick.

For the schedules, one schedule on two targets can move between them, and two
requests in sequence are a change and its revision. Three requests at once are
the least in which a reload lies between the exchange and the stop of another
while a third has listed; requests only meet in the process they share, since
nothing reloads across processes.

For the inventory, rows are never created twice, so an item and two kits let one
code pass from a kit to the item and on to another kit, which is what confuses a
scan that looks in between; they also are the least in which an item can be in two
kits. A request looks at one subject, so a second request is the whole environment
of the first, and a third adds only what the second may do later. For updates there
are three, so that one may read what the second writes back over the third; two
values and a location that may be deleted let the row or its location be gone at the
write. Items and kits are updated alike, so one item is enough. Requests come again
and again.

For the archives, three seconds are three names: an older archive, an upload that
stops half way and is counted by retention, and the newest. A photo is only ever
looked at by itself, so one is enough; the theorems are of any number. For the
pages, two of a thing are enough to mix it up with another: two entries, so that
what a save left behind meets the next one; two dialogs; two rows on two pages;
two reports; three lookups, so that one on its way may meet a resumed and a new
one. `Unanswered` leaves out the requests of a new item other than those about
the row of a photo, those of a dialog that wanted a word, and refetches: a lost
answer to one of these breaks a property (below). The dialog of a new item is
closed and opened again at any moment, also during a save. The theorems about a
new item need less, each what its property needs (section 6). Symmetry is of items and kits, the
sets of the page with most states. Archives and pages may stop (`CHECK_DEADLOCK
FALSE`): their seconds and numbers are bounded.

Two processes are the least that meet in the migrations, and three (with two
failures, checked once) show nothing new; three failures are a restore, a second
one and a death in between. For reports, two items and two kits place an item in
two kits, in one kit of the scope and one outside it, and in none; one edit moves
an item, puts it into a kit or takes it out, deletes a kit or the location
between two statements. The values of items and kits are distinct powers of two,
so a total that misses one or counts it twice is a different number. Both may
stop (`CHECK_DEADLOCK FALSE`): migrations when every process serves, a report
when it is answered.

What they show. With one process, settled rows are final, phase and status
agree and a row left running with no executor is one whose write failed
(`PhaseMatchesStatus` and `OrphansAreLost`, together `RowsAreTrue`), and only the worker that executes a run fails it
(`InterruptedIsDead`). Four of these do not hold of two processes, and
`jobs_pair` checks what does: one executor per run, completed means uploaded,
and a restore that ends leaves a record. The percentage of a run never goes back,
not even over a restore that wipes the row, with one exception, which
`ProgressMonotone` names: a wiped restore that fails is inserted with the
percentage its worker read when it claimed the run (`store/postgres.go:451`), so
that 60 may become 1.

Requests on targets and schedules that do not overlap install exactly what is
enabled in the process that served them. Those that overlap never bring a deleted
row back and never leave a second cron running, but which listing is installed
last is a matter of chance. A schedule may be put on a target deleted meanwhile
(`ListSchedules` joins the targets, so it does not fire), and that is the only way
to lose one: the target was there while the request ran (`SchedulesKeepTargets`).
An update that leaves `enabled` out may enable again what another disabled since it
read the row; nothing else is enabled unasked (`EnabledOnDemand`).

In the inventory no answer depends on how statements interleave. What the tables
hold may: two `AddItem` requests at once put an item into two kits, and no other
requests do (`SecondKitIsRaced`); of two updates at once, the one that leaves a field
out reverts the other's change to it (`item_service.go:103`), and it never writes
anything there but what the row held while it ran (`OmittedFieldIsKept`).

A schedule that is deleted may go on firing: `Reload` lists outside its mutex
(`scheduler.go:43`), so that a request which listed before the deletion may
install its listing last. And a run that panics is recorded as failed but not
counted: the deferred metrics observation has reported a success before
`recover` sees it.

Once a backup was completed, a whole archive is on the target, whatever uploads
and deletions fail later: retention counts files that are not whole, but the one
it runs for is the newest and always kept. That needs backups that begin in
different seconds. With `Quick = TRUE` it is violated: `processPending` begins
the next run without waiting, a second backup in the same second opens the name
of the first, truncates it, and may stop half way. Schedules that share a target
share its retention. Photos keep their objects in archives and in the running
system, but for deletions and uploads under way; a backup that is made after a
restore stopped half way carries the damage on.

Processes that start together never harm the schema: the scripts that cannot be
repeated fail and the process starts again, by which time they are recorded. What
does harm it is a process that fails between the execution of 006, 007 or 008 and
its record (`db.go:88`): every later start executes the file again and fails. So
does a restore of an archive from before 008: it brings back the
older `schema_migrations` but leaves `documentation_reports` (`postgres.go:41`),
the processes that serve work on the older tables, and the next start fails at
008. If two such restores cross the migrations of a process that starts, a file
is even recorded whose effect is gone; `MigratedInOrder` excepts that case
(`crossed`).

A report counts every item of its scope once, also one that is moved while it is
read, because all its statements see one snapshot; with `ReadCommitted` an item
put into a kit between two statements is missed. A created report is listed. A
failed one leaves nothing, unless the answer of the insertion got lost (a row
whose file is removed, which `List` omits) or a file could not be removed; with
both, a report that was said to have failed is listed.

Pages keep what the user asked for: a save that is retried makes one item, sends
no photo twice and starts from what the server holds; an item whose deletion fails
stays selected, and success is reported only of items that are gone; a word confirms the dialog it was typed in, once; secrets a form
never saw stay; a scan that stands still says why. What they do not keep:

* The dialog of a new item can be closed during a save and stays mounted, so the
  save puts its progress into the next entry (`create-item-dialog.tsx:96`), whose
  form then renames the item of the first. `EntriesStayApart` says how far that
  goes: only an item of an entry that was left while its save ran (`outlived`) takes
  the name of another. No document of the repository promises more, so this is
  told here and not listed as a finding.
* Nothing tells a save whose answer got lost from a refused one. A retry then
  makes a second item or uploads a photo again, keeps a label the user took
  back, or fails for ever, because the server refuses to put an item that is
  already assigned into a kit.
* Confirming again after a lost answer restores a second time.
* A refetch that fails leaves the edit dialog with an old record to compare
  with, and labels already changed are not changed back (`SavedAsShown` needs
  the refetch to be answered).
* The authentication mode and the passphrase of a target can be changed, never
  cleared: a blank field keeps what is stored.
* Items stay selected when a filter hides them or the kit loses them, and are
  deleted with the rest, as the dialog says.

### Findings

* `jobs_overlap`: a process that starts fails every running row with
  "interrupted by application restart" (`worker.go:45`), also rows another
  process is executing. The production values of the chart deploy two replicas.
* `inventory_two_kits`: two `AddItem` requests at once put an item into two kits
  (`container_repo.go:181`); the list of items then shows it twice
  (`item_repo.go:69`, a join).
* `edit_retry`: after "some label changes failed. Try saving again."
  (`kits/[id]/page.tsx:89`), saving again succeeds without them, because the
  dialog took its draft from the old record again whenever the page rendered
  (`edit-record-dialog.tsx:101`).

## 5. Fairness

`FairSpec` assumes weak fairness of `WorkerStep(w)` for every process: a process
that is down is started again (the chart's Deployment restarts it), and a worker
that can take a step takes one: the loop of `worker.Run` polls until its context
ends, statements, `pg_dump` and `pg_restore` run under contexts with a deadline.
The one step that has none is the copy of an SFTP transfer
(`target/sftp/driver.go:87`, `:129`): `io.Copy` does not look at the context, so
`RunsSettle` assumes that connections end. Nothing is assumed of the
environment: nobody has to enqueue and no failure has to happen.

`MigrationsSpec` assumes weak fairness of `RunMigrations(p)` for every process:
one that went down is started again, and the statements of a start run under a
deadline (`main.go:36`, `db.go:87`). `docker compose` starts nothing again: there,
`AllServe` needs somebody who does.

## 6. Proofs

`BackupJobs_proofs` proves, for every set of processes and runs and every bound
on the failures, from `IdsAssumption` (the identifiers of the two tables differ,
and none is `NoRun`) and `BoundsAssumption` (the bounds are naturals):

* `TypeCorrect`: `Spec => []TypeOK`. `TypeOK` is inductive as it stands, because
  it relates the location of a worker to the run it holds.
* `OneExecutor`: `Spec => []SingleExecutor`. The invariant is `ClaimInv`: the row
  of a claim that is not committed is still pending, and the row of a run in
  execution is not. A run that is selected is pending, so nobody executes it, and
  not locked, so nobody claims it. Every other step is shown to keep locked rows
  as they are, to make no old row pending and to take no run in hand
  (`KeepsRow`, `KeepsWorker`); the dropping of the tables does because it waits
  for the row locks.
* `CompletedIsUploaded`: `Spec => []CompletedHasArchive`. The invariant is
  `ArchiveInv`: a backup is at `complete` only after its upload, and only
  restores are at the steps that insert a row.
* `PercentagesRise`: `Spec => ProgressMonotone`. The invariant is `ProgressInv`:
  the percentage of a row, or of the row that a restore wiped, is not above that
  of the stage its worker is in (`Behind`), a pending row is at 0, and a row that a
  worker is about to insert is not there. A worker writes the row of its own run
  only (`WorkerWrites`); what others do to that row keeps its percentage
  (`OutlivesKeeps`), also when they wipe it (`ProgressKept`), and what shows less
  than before is a wiped restore that failed (`ShowsLess`).
* `RestoresAreRecorded`: `Spec => RestoreIsRecorded`. No invariant but `TypeOK` is
  needed: the steps that let go of a restore write its row or add it to `lost`.

With `OneInstance`, one process as the chart deploys by default (`jobs_overlap` shows
what a second one breaks), it also proves

* `SoloRows`: `Spec => []RowsAreTrue`, from `SoloPhases` and `SoloOrphans`;
* `SoloSettled`, `SoloInterrupts`: `Spec => TerminalIsFinal`, `Spec =>
  InterruptedIsDead`;
* `SoloImplementsLifecycle`: `Spec => ImplementsLifecycle`, the refinement of
  `RunLifecycle`.

They rest on one invariant and one classification of the steps. `SoloInv` says
that the run the worker holds is running, or a restore that has wiped its own row
(`WorkerInv`), after which no row is running until the worker goes on; and that a
running row is executed, missed a write, or awaits the start of the worker
(`OrphansInv`). Under it every step is one of eight `Moves`, from a row that is
submitted to a run that is let go unrecorded (`NextAdvances`), and each of the
five theorems follows from what a move does to the rows, not from the actions
one by one.

`BackupSchedules_proofs` proves, for every set of processes, rows and requests,
from `SchedulerAssumption` (`None` is no process and no request, no process is a
request, the bounds are naturals):

* `TypeCorrect`: `Spec => []TypeOK`, inductive as it stands.
* `ReloadKeepsOneCron`: `Spec => []OneCronRuns`. The invariant is `CronInv`: the
  crons that run in a process are exactly the installed one, those of requests
  about to install theirs and those of requests about to stop the one they
  replaced (`Accounted`); a request that is still to install its cron has given
  it to nobody (`Fresh`), and no two requests are about to stop the same one
  (`Replaced`). Without the last two the equation does not survive `StopOld`.
* `DeletionIsFinal`: `Spec => DeletedIsFinal`, since `Writable` looks at the row
  in the statement that changes it (`OnlyWrites`, `DeletedStays`).

* `TargetsAreKept`, `DisabledRowsStay`: `Spec => SchedulesKeepTargets`, `Spec =>
  EnabledOnDemand`, however requests overlap. The invariant is `WitnessInv`: a
  request that is to write a row which it read as enabled, or onto a target which
  it found, has observed so (`Witnessed`), whatever was disabled or deleted since.

With `OneAtATime` (finitely many requests, `MaxInFlight = 1`) it also proves
`ReloadsAloneInstall`: `Spec => ReloadInstalls`, which does not hold of reloads that
overlap. The invariant is `AloneInv`: at most one request is served, and the cron it
built lists what the tables say (`Settled`). Processes may start and crash
meanwhile. `ReloadsAloneInstall` takes from `ReloadKeepsOneCron` that nothing else is
left running.

`Inventory_proofs` proves, for every set of ids, codes, values and requests, from
`InventoryAssumption` (`None` is none of them):

* `ReferencesAreLive`: `Spec => []NothingDangles`. The invariant is
  `ReferenceInv`, which adds that the columns are functions on all rows and
  codes: `Refers` and `BothLive` check in the statement that writes, and
  `Cascade` drops what refers to a deleted row.
* `TypeCorrect`: `Spec => []TypeOK`. The invariant `TypeInv` adds that a request
  asks what its location lets it ask, and that an update which is to write has
  read the fields (`FieldsRead`).
* `AnswersAreTrue`: `Spec => []AnswersWereTrue`, however many requests interleave.
  The invariant is `AnswerInv`; its parts say what a request in progress has
  established: at which moment what it checked was so (`Checked`, `Witnessed`),
  and of a scan, which looks in six tables one after the other, that a code which
  is on something else by now was on nothing at a moment in between (`Looked`).
* `SecondKitsAreRaced`, `OmittedFieldsAreKept`: `Spec => SecondKitIsRaced`, `Spec =>
  OmittedFieldIsKept`, however requests overlap. The invariant is `OverlapInv`: every
  membership of its item that an `AddItem` about to insert did not see was entered
  since it looked (`UnseenEntered`), and what an update about to write has read was
  the field of its row while it ran (`ReadObserved`).

`Stores_proofs` proves, for every set of photos, every set of retentions and
every number of seconds, from `ArchivesAssumption`:

* `TypeCorrect`: `ArchivesSpec => []ArchivesTypeOK`.
* `ABackupSurvives`: if `Quick = FALSE`, `ArchivesSpec => []SomeBackupSurvives`.
  The invariant is `SurvivalInv`: a file is uploaded in the second of its name or
  later (`NamesPrecede`), and the name of a backup is later than every file,
  until after its upload it is itself the newest and whole (`BackupIsNewest`).
  What retention keeps contains the newest (`NewestIsKept`).
* `PhotosKeepObjects`: `ArchivesSpec => []PhotosHaveObjects`, for any `Quick`.
  The invariant is `PhotosInv`, which adds what the worker holds: a dumped row is
  still there at the export or its photo is excused (`JobHasObjects`).

It also proves, for any number of processes, files and failures, from
`MigrationsAssumption`:

* `MigratesInOrder`: `MigrationsSpec => [](MigrationsTypeOK /\ MigratedInOrder)`.
  The invariant is `InOrderInv`: the files before the one at which a process
  stands are recorded (`PassedRecorded`), and the one it is to record is executed
  (`ExecutedBeforeRecord`); so what it executes or records is there already or the
  next one (`NextFile`), whatever other processes recorded since it looked. A
  restore that crosses no migration finds nobody who stands at a file.

and of the composition `Stores`:

* `EachPartIsItsModule`: `StoresSpec` implies the specification of the archives,
  and that of the migrations or of the report if the behaviour is about them.
* `StoresAreTyped`: `StoresSpec => []StoresTypeOK`.
* `StoresKeepTheirPromises`: with `Quick = FALSE`, everything the run `stores`
  checks but liveness, in one invariant of the composition.

`Reports_proofs` proves, for every set of items and kits, every order of the kits,
every choice of values and currencies, and any edits and errors, from
`ReportsAssumption`:

* `ReportsAreTyped`: `ReportsSpec => []ReportsTypeOK`; the totals are natural
  numbers.
* `ReportsCountTheirScope`: `ReportsSpec => []ReportCountsScope`. The invariant
  is `ScopeInv`: what has been read at each step is of one state of the inventory
  (`FoundAt`), whose scope lies between what stayed in it and what ever was in it
  (`Between`), and a report is what these readings give in the order of the kits
  (`ReportFrom`). That its rows and totals then count every item once is a fact of
  the computation: `PackagesFolded` says what the loop over the kits has after any
  of them, `OneRowEach` that an item of two kits has one row, and `KitsAddUp` that
  the values of the packages add up. A theorem of induction cannot be cited here,
  so sums and folds are reasoned about by the smallest set, or the least position,
  at which the claim would fail (`SmallestSet`, `LeastNatural`); `SumExists`,
  `SumIsUnique` and `SumOfUnion` are what is needed of `MapThenSumSet`.
* `ReportsAreAsAnswered`: `ReportsSpec => []OutcomeIsTrue`. `OutcomeInv` says what
  is stored at each step of `Create` (`StoredBy`).

The pages are proved about for any sets of rows, secrets, labels, texts and
codes, any size of a page and any of the bounds, from the named assumptions of
their modules (values that differ, numbers that are naturals):

* `SecretsAreKept` (`Pages_proofs`): `TargetSpec => [](TargetTypeOK /\
  SecretsStand)`; a draft holds of each secret nothing or what the user typed
  (`DraftIsTyped`).
* `ConfirmedWithTheWord` (`Pages_proofs`): if requests of the dialogs are
  answered, `BackupsSpec => [](BackupsTypeOK /\ ConfirmedOnce)`. At most one
  dialog is open, its number is the last and new (`OneOpen`, `OpenIsFresh`), what
  was sent had its word (`SentIsWorded`), two requests in flight have different
  numbers (`NumbersDiffer`), and numbers not given out are obeyed by nobody.
* `ItemEntry_proofs`, in which each property supposes only what it needs.
  `AssignmentsHeard` says that the requests about labels and kits are refused or
  answered; whatever is not named may be lost, and the dialog may be left at any
  moment.

  | theorem | property | supposes | invariant |
  |---|---|---|---|
  | `EntryIsTyped` | `EntryTypeOK` | nothing | `EntryTypes`: a save past its record has an item |
  | `EntriesKeptApart` | `EntriesStayApart` | nothing | `ApartInv`: a save that goes on is for the entry in the dialog or for one that was left, and what it and the page hold is the item of that entry or of one that was left during its save (`HeldIsOfEntry`) |
  | `SavesStartFromWhatIsServed` | `ProgressIsTrue` | `AssignmentsHeard` | `ServedInv`: what is held is as the server has it, and items that do not exist have nothing |
  | `RetriesAreSafe` | `SuccessMeansSaved` | `AssignmentsHeard` | `ServedInv`, `KeepsUpInv`: at each phase a save has what its earlier phases sent, or has failed; `NamedInv`: from its record on the item of a save bears the name of its entry |
  | `RetriesRepeatNothing` | `NothingTwice` | the requests that make items and upload photos are answered | `OneItemInv`: no item was made for an entry that holds none, nor for one begun after the save; `CopyInv`: files not held as uploaded are not there, and a photo that is cleaned up never was |

  None of the hypotheses can be dropped (TLC finds a counterexample for each);
  what happens without them is told in section 4.
* `DeletionsAccounted`, `AdditionsAccounted`, `ReadyIsTheLast`, `ScansOneByOne`
  and `SavesAsShown` (`Pages_proofs`): `NoDeletionIsLost`,
  `NoAdditionIsLost`, `ReadyIsLatest`, `ScansAreOrderly` (one lookup at a time,
  and a scan that stands still says why), and, if refetches are answered,
  `SavedAsShown`: between saves the cache is the record, and a save is where its stage says
  (`CacheIsRecord`, `SaveIsOnTrack`).

* `KitIsTyped` (`Pages_proofs`): `KitSpec => []KitTypeOK`, whatever requests of
  the page and other clients do to the kit.

`WebApp_proofs` puts them together:

* `EachPageIsItsModule`: `WebSpec` implies the specification of every page.
* `WebAppIsTyped`: `WebSpec => []WebTypeOK`, with no hypothesis on answers.
* `PagesKeepTheirPromises`: what holds whichever requests go unanswered
  (`EntriesStayApart`, `SecretsStand`, `ReadyIsLatest`, `ScansAreOrderly`,
  `NoAdditionIsLost`, `NoDeletionIsLost`).
* `AnsweredPagesKeepTheirs`: the other invariants of the run `web_app`, under the
  hypotheses of the theorems above. The constants of `WebApp.cfg` meet them.

Before they were proved, the invariants held in TLC: `CronInv` on the instance
of `schedules_overlap` and the `AloneInv` of the scheduler on that of
`schedules_serial`; `ClaimInv`, `ArchiveInv` and `ProgressInv` on two processes,
`SoloInv` on one, with every kind of failure; `AnswerInv` on two items and a kit; those of a new item on two entries, two kits and a file,
with every answer lost that their theorem lets get lost. Only model-checked are
`RunsSettle` and `AllServe`, because liveness is out of the prover's reach, and
the disagreements of the violation runs, which are counterexamples.

## 7. Not modelled

* Report layout (`pdf.go`, `xlsx.go`): formatting without state. Of reports,
  the labels and texts, weights and volumes, the limit of the list, and restores
  of an archive, which replace their rows.
* The SQL of the migrations, and restores of archives from before 006, which fail
  half way because later tables refer to `items`.
* Configuration, logging, version, middleware; metrics other than the failure
  counters of backups.
* The packing, checksums and validation of archives, and their manifest; host
  keys and connections of the SFTP driver but for failing; the errors of closing
  what is packed, which the code drops (`archive.go:49`, `minio.go:35`), so that a
  short archive may count as whole; encryption of secrets, which every read undoes,
  but for a plaintext that looks encrypted (`enc:v1:`) and is kept as it is
  (`secrets.go:126`).
* The dashboard and the lists of kits, labels and locations, whose forms are a
  request each; spreadsheets and the printing of labels, which change nothing;
  the page that opens a link with a code, one lookup and a redirection.
* The composition of `BackupJobs` and `BackupSchedules`: after a restore, what is
  installed in the schedulers names rows that may be gone.
* The chart, but for the replicas it deploys.
