------------------------------ MODULE Archives ------------------------------
(***************************************************************************)
(* What a backup is made of, and what a target keeps of it.  Photos have a *)
(* row and an object (internal/service/photo_service.go), which requests   *)
(* create and delete one after the other while backups and restores run.   *)
(* A backup dumps the rows, exports the objects, uploads the archive of    *)
(* both under a name that has the resolution of a second, and deletes what *)
(* its schedule no longer keeps (internal/backup/service.go,               *)
(* target/sftp/driver.go).  A restore replaces the rows and adds objects.  *)
(*                                                                         *)
(* One worker executes one run at a time (BackupJobs has the queue and     *)
(* several workers).  A process that is killed leaves what a stage that    *)
(* fails at the same point leaves.  The clocks of the worker and of the    *)
(* target agree and never go back.                                         *)
(*                                                                         *)
(* Left out: the manifest and its checksums, by which a restore refuses    *)
(* an archive that is not whole; the contents of photos, which no request  *)
(* changes; the runs and their progress.                                   *)
(***************************************************************************)
EXTENDS Naturals, FiniteSets

CONSTANTS
    Photos,
    Keeps,      \* retention: archives to keep, 0 for all (manual runs keep all)
    MaxClock,   \* bound: seconds
    Quick,      \* a backup may begin and end in the second in which another ended
    NoJob

VARIABLES
    \* the application
    rows,      \* photos with a row
    objects,   \* photos with an object
    issued,    \* photos whose upload URL was given out and not used
    removing,  \* photos whose row a request deleted, and whose object it will
    \* the worker and the target
    clock,
    job,       \* the run being executed, and what it holds in its directory
    files,     \* files[n]: what the target holds under the name of second n
    \* history
    arrived,   \* photos whose object was uploaded once
    excused,   \* photos that a backup or a restore could not have whole
    torn,      \* a restore has begun to replace the rows and not ended well
    completed  \* a backup was completed

photoVars    == <<rows, objects, issued, removing, arrived>>
archivesVars == <<photoVars, clock, job, files, excused, torn, completed>>

Seconds  == 1..MaxClock
(* An upload that stopped half way leaves a file that is not whole.        *)
Files    == [whole : BOOLEAN, time : Seconds, rows : SUBSET Photos, objects : SUBSET Photos]
NoFile   == [whole |-> FALSE, time |-> 0, rows |-> {}, objects |-> {}]
Stages   == {"dump", "export", "upload", "retain", "record", "tables", "import"}
Jobs     == [stage : Stages, name : Seconds, rows : SUBSET Photos, objects : SUBSET Photos]

ASSUME ArchivesAssumption ==
    /\ Keeps \subseteq Nat /\ MaxClock \in Nat \ {0} /\ Quick \in BOOLEAN
    /\ NoJob \notin Jobs

Stored   == {n \in Seconds : files[n] # NoFile}
Backups  == {n \in Stored : files[n].whole}
-----------------------------------------------------------------------------
(* Requests about photos.                                                  *)

(* CreateUpload: the row is there before the object is.                    *)
CreateUpload ==
    /\ \E p \in Photos \ (rows \cup issued \cup removing \cup arrived) :
        rows' = rows \cup {p} /\ issued' = issued \cup {p}
    /\ UNCHANGED <<objects, removing, arrived, clock, job, files, excused, torn, completed>>

(* The client uses the URL, at any time or never.                          *)
PutObject ==
    /\ \E p \in issued :
        /\ issued' = issued \ {p} /\ objects' = objects \cup {p}
        /\ arrived' = arrived \cup {p}
    /\ UNCHANGED <<rows, removing, clock, job, files, excused, torn, completed>>

At(stage) == job # NoJob /\ job.stage = stage

(* The row is deleted; between dump and export, the archive has it still.  *)
DeleteRow ==
    /\ \E p \in rows :
        /\ rows' = rows \ {p} /\ removing' = removing \cup {p}
        /\ excused' = IF At("export") THEN excused \cup {p} ELSE excused
    /\ UNCHANGED <<objects, issued, arrived, clock, job, files, torn, completed>>

(* Then its object, or that fails; a restore may have brought back the row.*)
DeleteObject ==
    /\ \E p \in removing :
        /\ removing' = removing \ {p}
        /\ objects' \in {objects, objects \ {p}}
        /\ excused' = IF p \in rows THEN excused \cup {p} ELSE excused
    /\ UNCHANGED <<rows, issued, arrived, clock, job, files, torn, completed>>
-----------------------------------------------------------------------------
(* ExecuteBackup.                                                          *)

Tick ==
    /\ clock < MaxClock
    /\ clock' = clock + 1
    /\ UNCHANGED <<photoVars, job, files, excused, torn, completed>>

(* Mutated: the objects are exported before the rows are dumped.           *)
ExportFirst == <<"export", "dump", "upload", "retain", "record">>

Pipeline == <<"dump", "export", "upload", "retain", "record">>

After(stage) == LET k == CHOOSE k \in 1..4 : Pipeline[k] = stage IN Pipeline[k + 1]

(* Mutated: the run is executed before it has a name.                      *)
BeginUnnamed ==
    /\ job = NoJob
    /\ Quick \/ \A n \in Stored : files[n].time < clock
    /\ job' = [stage |-> Pipeline[1], name |-> 0, rows |-> {}, objects |-> {}]
    /\ UNCHANGED <<photoVars, clock, files, excused, torn, completed>>

BeginBackup ==
    /\ job = NoJob
    /\ Quick \/ \A n \in Stored : files[n].time < clock
    /\ job' = [stage |-> Pipeline[1], name |-> clock, rows |-> {}, objects |-> {}]
    /\ UNCHANGED <<photoVars, clock, files, excused, torn, completed>>

Dump ==
    /\ At("dump")
    /\ job' = [job EXCEPT !.rows = rows, !.stage = After("dump")]
    /\ UNCHANGED <<photoVars, clock, files, excused, torn, completed>>

(* ExportObjects fails when a listed object is gone before it is read.     *)
ExportObjects ==
    /\ At("export")
    /\ job' = [job EXCEPT !.objects = objects, !.stage = After("export")]
    /\ excused' = excused \cup (job.rows \ arrived)
                          \cup (IF torn THEN job.rows \ objects ELSE {})
    /\ UNCHANGED <<photoVars, clock, files, torn, completed>>

(* The remote file is truncated, filled, closed and looked at; each may    *)
(* fail, and then the run has failed.                                      *)
Upload ==
    /\ At("upload")
    /\ \E whole \in BOOLEAN :
        /\ files' = [files EXCEPT ![job.name] =
                        [whole |-> whole, time |-> clock, rows |-> job.rows, objects |-> job.objects]]
        /\ job' \in {NoJob} \cup (IF whole THEN {[job EXCEPT !.stage = After("upload")]} ELSE {})
    /\ UNCHANGED <<photoVars, clock, excused, torn, completed>>

Newer(N, O) == \A n \in N, o \in O : files[n].time >= files[o].time

(* Mutated: the listing is sorted the other way round.                     *)
OldestKept(keep) ==
    {N \in SUBSET Stored : Newer(Stored \ N, N) /\ Cardinality(N) = keep}

(* The first of List, sorted by time; files of the same second come in any *)
(* order.                                                                  *)
NewestKept(keep) ==
    {N \in SUBSET Stored : Newer(N, Stored \ N) /\ Cardinality(N) = keep}

(* applyRetention: whatever is on the target counts, also what is not      *)
(* whole.  The first deletion that fails ends it, and the run goes on.     *)
ApplyRetention ==
    /\ At("retain")
    /\ \E keep \in Keeps :
        IF keep = 0 \/ Cardinality(Stored) <= keep THEN UNCHANGED files
        ELSE \E N \in NewestKept(keep) : \E D \in SUBSET (Stored \ N) :
            /\ Newer(D, Stored \ (N \cup D))
            /\ files' = [n \in Seconds |-> IF n \in D THEN NoFile ELSE files[n]]
    /\ job' = [job EXCEPT !.stage = After("retain")]
    /\ UNCHANGED <<photoVars, clock, excused, torn, completed>>

CompleteBackupRun ==
    /\ At("record")
    /\ completed' = TRUE /\ job' = NoJob
    /\ UNCHANGED <<photoVars, clock, files, excused, torn>>

(* A stage fails or the process is killed.                                 *)
FailBackup ==
    /\ job # NoJob /\ job.stage \in {Pipeline[k] : k \in 1..5}
    /\ job' = NoJob
    /\ UNCHANGED <<photoVars, clock, files, excused, torn, completed>>
-----------------------------------------------------------------------------
(* ExecuteRestore: the archive is downloaded and validated first.          *)
BeginRestore ==
    /\ job = NoJob
    /\ \E n \in Backups :
        job' = [stage |-> "tables", name |-> n,
                rows |-> files[n].rows, objects |-> files[n].objects]
    /\ UNCHANGED <<photoVars, clock, files, excused, torn, completed>>

(* pg_restore drops the tables and fills them; half way, it may stop.      *)
RestoreRows ==
    /\ At("tables")
    /\ torn' = TRUE
    /\ \/ rows' = job.rows /\ job' = [job EXCEPT !.stage = "import"]
       \/ rows' \in SUBSET job.rows /\ job' = NoJob
    /\ UNCHANGED <<objects, issued, removing, arrived, clock, files, excused, completed>>

(* ImportObjects puts one object after the other, and removes none.        *)
ImportObjects ==
    /\ At("import")
    /\ \/ objects' = objects \cup job.objects /\ torn' = FALSE
       \/ \E some \in SUBSET job.objects : objects' = objects \cup some /\ UNCHANGED torn
    /\ job' = NoJob
    /\ UNCHANGED <<rows, issued, removing, arrived, clock, files, excused, completed>>
-----------------------------------------------------------------------------
ArchivesInit ==
    /\ rows = {} /\ objects = {} /\ issued = {} /\ removing = {} /\ arrived = {}
    /\ clock = 1 /\ job = NoJob /\ files = [n \in Seconds |-> NoFile]
    /\ excused = {} /\ torn = FALSE /\ completed = FALSE

ArchivesNext ==
    \/ CreateUpload \/ PutObject \/ DeleteRow \/ DeleteObject \/ Tick
    \/ BeginBackup \/ Dump \/ ExportObjects \/ Upload \/ ApplyRetention
    \/ CompleteBackupRun \/ FailBackup
    \/ BeginRestore \/ RestoreRows \/ ImportObjects

ArchivesSpec == ArchivesInit /\ [][ArchivesNext]_archivesVars
-----------------------------------------------------------------------------
(* The values of the variables.                                            *)
ArchivesTypeOK ==
    /\ {rows, objects, issued, removing, arrived, excused} \subseteq SUBSET Photos
    /\ job \in Jobs \cup {NoJob} /\ clock \in Seconds /\ {torn, completed} \subseteq BOOLEAN
    /\ files \in [Seconds -> Files \cup {NoFile}]

(* Once a backup was completed the target holds an archive that is whole,  *)
(* though retention counts files that are not and those of other runs, and *)
(* any later upload or deletion may fail; if no backup begins in the very  *)
(* second in which another was uploaded (Quick).                           *)
SomeBackupSurvives == completed => Backups # {}

(* In an archive and, unless a restore stopped half way, in the running    *)
(* system a photo that has a row has its object, but for photos whose      *)
(* upload had not arrived and those deleted while the backup or the        *)
(* restore was at work.                                                    *)
PhotosHaveObjects ==
    /\ \A n \in Backups : files[n].rows \ files[n].objects \subseteq excused
    /\ ~torn => rows \ objects \subseteq excused \cup (Photos \ arrived)
=============================================================================
