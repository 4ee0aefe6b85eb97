---------------------------- MODULE Stores_proofs ---------------------------
(***************************************************************************)
(* Proofs about what is stored.  Archives: what retention leaves, and what *)
(* an archive holds.  Migrations: in which order the schema grows.  Then   *)
(* all of it together, with reports (Reports_proofs).                      *)
(***************************************************************************)
EXTENDS Stores, Reports_proofs

BackupStages == {"dump", "export", "upload", "retain", "record"}

(* The stages of a backup follow each other.                               *)
LEMMA StageOrder ==
    /\ After("dump") = "export" /\ After("export") = "upload"
    /\ After("upload") = "retain" /\ After("retain") = "record"
    /\ Pipeline[1] = "dump" /\ {Pipeline[k] : k \in 1..5} = BackupStages
  <1>1. /\ Pipeline[1] = "dump" /\ Pipeline[2] = "export" /\ Pipeline[3] = "upload"
        /\ Pipeline[4] = "retain" /\ Pipeline[5] = "record"
    BY DEF Pipeline
  <1>2. 1..4 = {1, 2, 3, 4} /\ 1..5 = {1, 2, 3, 4, 5}
    OBVIOUS
  <1>3. ASSUME NEW i \in 1..4, NEW s, s = Pipeline[i]
        PROVE  After(s) = Pipeline[i + 1]
    <2>1. \A k \in 1..4 : Pipeline[k] = s => k = i
      BY <1>1, <1>2, <1>3
    <2>2. (CHOOSE k \in 1..4 : Pipeline[k] = s) = i
      BY <1>3, <2>1
    <2> QED
      BY <2>2 DEF After
  <1>4. {Pipeline[k] : k \in 1..5} = BackupStages
    BY <1>1, <1>2 DEF BackupStages
  <1>5. 1 \in 1..4 /\ 2 \in 1..4 /\ 3 \in 1..4 /\ 4 \in 1..4
    OBVIOUS
  <1>6. After(Pipeline[1]) = Pipeline[2] /\ After(Pipeline[2]) = Pipeline[3]
    BY <1>3, <1>5
  <1>7. After(Pipeline[3]) = Pipeline[4] /\ After(Pipeline[4]) = Pipeline[5]
    BY <1>3, <1>5
  <1> QED
    BY <1>1, <1>4, <1>6, <1>7

-----------------------------------------------------------------------------
(* Types.                                                                  *)

LEMMA TypesInitial == ArchivesInit => ArchivesTypeOK
  <1> SUFFICES ASSUME ArchivesInit PROVE ArchivesTypeOK
    OBVIOUS
  <1>1. clock \in Seconds
    BY ArchivesAssumption DEF ArchivesInit, Seconds
  <1>2. files \in [Seconds -> Files \cup {NoFile}]
    BY DEF ArchivesInit
  <1>3. {rows, objects, issued, removing, arrived, excused} \subseteq SUBSET Photos
    BY DEF ArchivesInit
  <1> QED
    BY <1>1, <1>2, <1>3 DEF ArchivesInit, ArchivesTypeOK

(* A step of the job that only moves it on.                                *)
LEMMA MovedOn ==
    ASSUME job \in Jobs, NEW s \in Stages
    PROVE  /\ [job EXCEPT !.stage = s] \in Jobs
           /\ [job EXCEPT !.stage = s].stage = s
           /\ [job EXCEPT !.stage = s].name = job.name
           /\ [job EXCEPT !.stage = s].rows = job.rows
           /\ [job EXCEPT !.stage = s].objects = job.objects
  BY DEF Jobs

LEMMA TypesKept ==
    ASSUME ArchivesTypeOK, [ArchivesNext]_archivesVars
    PROVE  ArchivesTypeOK'
  <1> USE DEF ArchivesTypeOK
  <1>1. ASSUME CreateUpload \/ PutObject \/ DeleteRow \/ DeleteObject PROVE ArchivesTypeOK'
    BY <1>1 DEF CreateUpload, PutObject, DeleteRow, DeleteObject
  <1>2. ASSUME Tick PROVE ArchivesTypeOK'
    BY <1>2, ArchivesAssumption DEF Tick, Seconds, photoVars
  <1>3. ASSUME BeginBackup PROVE ArchivesTypeOK'
    <2>1. job' = [stage |-> "dump", name |-> clock, rows |-> {}, objects |-> {}]
      BY <1>3, StageOrder DEF BeginBackup
    <2>2. job' \in Jobs
      BY <2>1 DEF Jobs, Stages
    <2> QED
      BY <1>3, <2>2 DEF BeginBackup, photoVars
  <1>4. ASSUME Dump \/ ExportObjects PROVE ArchivesTypeOK'
    <2>1. job \in Jobs
      BY <1>4 DEF Dump, ExportObjects, At
    <2>2. job' \in Jobs
      BY <1>4, <2>1, StageOrder DEF Dump, ExportObjects, Jobs, Stages
    <2>3. excused' \subseteq Photos
      BY <1>4, <2>1 DEF Dump, ExportObjects, Jobs
    <2> QED
      BY <1>4, <2>2, <2>3 DEF Dump, ExportObjects, photoVars
  <1>5. ASSUME Upload PROVE ArchivesTypeOK'
    <2>1. job \in Jobs
      BY <1>5 DEF Upload, At
    <2>2. PICK whole \in BOOLEAN :
            /\ files' = [files EXCEPT ![job.name] =
                   [whole |-> whole, time |-> clock, rows |-> job.rows, objects |-> job.objects]]
            /\ job' \in {NoJob} \cup (IF whole THEN {[job EXCEPT !.stage = "retain"]} ELSE {})
      BY <1>5, StageOrder DEF Upload
    <2>3. [whole |-> whole, time |-> clock, rows |-> job.rows, objects |-> job.objects] \in Files
      BY <2>1 DEF Files, Jobs
    <2>4. files' \in [Seconds -> Files \cup {NoFile}]
      BY <2>2, <2>3
    <2>5. job' \in Jobs \cup {NoJob}
      BY <2>1, <2>2, MovedOn DEF Stages
    <2> QED
      BY <1>5, <2>4, <2>5 DEF Upload, photoVars
  <1>6. ASSUME ApplyRetention PROVE ArchivesTypeOK'
    <2>1. job \in Jobs
      BY <1>6 DEF ApplyRetention, At
    <2>2. job' \in Jobs
      BY <1>6, <2>1, StageOrder, MovedOn DEF ApplyRetention, Stages
    <2>3. \/ files' = files
          \/ \E D : files' = [n \in Seconds |-> IF n \in D THEN NoFile ELSE files[n]]
      BY <1>6 DEF ApplyRetention
    <2>4. files' \in [Seconds -> Files \cup {NoFile}]
      BY <2>3
    <2> QED
      BY <1>6, <2>2, <2>4 DEF ApplyRetention, photoVars
  <1>7. ASSUME CompleteBackupRun \/ FailBackup PROVE ArchivesTypeOK'
    BY <1>7 DEF CompleteBackupRun, FailBackup, photoVars
  <1>8. ASSUME BeginRestore PROVE ArchivesTypeOK'
    <2>1. PICK n \in Backups :
            job' = [stage |-> "tables", name |-> n,
                    rows |-> files[n].rows, objects |-> files[n].objects]
      BY <1>8 DEF BeginRestore
    <2>2. n \in Seconds /\ files[n] \in Files
      BY DEF Backups, Stored
    <2>3. job' \in Jobs
      BY <2>1, <2>2 DEF Jobs, Files, Stages
    <2> QED
      BY <1>8, <2>3 DEF BeginRestore, photoVars
  <1>9. ASSUME RestoreRows \/ ImportObjects PROVE ArchivesTypeOK'
    <2>1. job \in Jobs
      BY <1>9 DEF RestoreRows, ImportObjects, At
    <2>2. job.rows \subseteq Photos /\ job.objects \subseteq Photos
      BY <2>1 DEF Jobs
    <2>3. job' \in Jobs \cup {NoJob}
      BY <1>9, <2>1, MovedOn DEF RestoreRows, ImportObjects, Stages
    <2>4. rows' \subseteq Photos /\ objects' \subseteq Photos /\ torn' \in BOOLEAN
      BY <1>9, <2>2 DEF RestoreRows, ImportObjects
    <2> QED
      BY <1>9, <2>3, <2>4 DEF RestoreRows, ImportObjects
  <1>10. ASSUME UNCHANGED archivesVars PROVE ArchivesTypeOK'
    BY <1>10 DEF archivesVars, photoVars
  <1> QED
    BY <1>1, <1>2, <1>3, <1>4, <1>5, <1>6, <1>7, <1>8, <1>9, <1>10 DEF ArchivesNext

(* Every value of the state has its type, for all photos and retentions.   *)
THEOREM TypeCorrect == ArchivesSpec => []ArchivesTypeOK
  BY TypesInitial, TypesKept, PTL DEF ArchivesSpec
-----------------------------------------------------------------------------
(* Retention.                                                              *)

(* A file was uploaded in the second it is named after or later.           *)
NamesPrecede == \A n \in Stored : n <= files[n].time /\ files[n].time <= clock

(* Until its upload a backup has a name that is later than every file on   *)
(* the target, and after it the newest file there, which is whole.         *)
BackupIsNewest ==
    job # NoJob =>
        /\ job.stage \in {"dump", "export", "upload"} =>
               job.name <= clock /\ \A n \in Stored : files[n].time < job.name
        /\ job.stage = "retain" =>
               /\ job.name \in Backups
               /\ \A n \in Stored \ {job.name} : files[n].time < files[job.name].time
        /\ job.stage = "record" => Backups # {}

SurvivalInv == ArchivesTypeOK /\ NamesPrecede /\ BackupIsNewest /\ SomeBackupSurvives

LEMMA SurvivalInitial == ArchivesInit => SurvivalInv
  <1> SUFFICES ASSUME ArchivesInit PROVE SurvivalInv
    OBVIOUS
  <1>1. Stored = {}
    BY DEF ArchivesInit, Stored
  <1> QED
    BY <1>1, TypesInitial DEF ArchivesInit, SurvivalInv, NamesPrecede, BackupIsNewest,
       SomeBackupSurvives

(* What is on the target is what its files are.                            *)
LEMMA SameFiles == files' = files => Stored' = Stored /\ Backups' = Backups
  BY DEF Stored, Backups

(* Steps that neither touch the target nor bring the job further.          *)
LEMMA JobAside ==
    ASSUME SurvivalInv, ArchivesTypeOK', files' = files, clock' >= clock,
           completed' = completed, job' \in {job, NoJob}
    PROVE  SurvivalInv'
  <1>1. Stored' = Stored /\ Backups' = Backups
    BY SameFiles
  <1>2. clock \in Nat /\ clock' \in Nat /\ \A n \in Stored : files[n].time \in Nat
    BY DEF SurvivalInv, ArchivesTypeOK, Seconds, Stored, Files
  <1>3. job # NoJob => job.name \in Nat
    BY DEF SurvivalInv, ArchivesTypeOK, Jobs, Seconds
  <1>4. NamesPrecede'
    BY <1>1, <1>2 DEF SurvivalInv, NamesPrecede, Stored, Seconds
  <1>5. BackupIsNewest'
    BY <1>1, <1>2, <1>3 DEF SurvivalInv, BackupIsNewest
  <1> QED
    BY <1>1, <1>4, <1>5 DEF SurvivalInv, SomeBackupSurvives

LEMMA UploadIsNewest ==
    ASSUME SurvivalInv, ArchivesTypeOK', Upload
    PROVE  SurvivalInv'
  <1> USE DEF SurvivalInv
  <1>1. PICK whole \in BOOLEAN :
            /\ files' = [files EXCEPT ![job.name] =
                   [whole |-> whole, time |-> clock, rows |-> job.rows, objects |-> job.objects]]
            /\ job' \in {NoJob} \cup (IF whole THEN {[job EXCEPT !.stage = "retain"]} ELSE {})
    BY StageOrder DEF Upload
  <1>2. UNCHANGED <<clock, completed>> /\ At("upload")
    BY DEF Upload
  <1>3. job \in Jobs /\ job.name \in Seconds /\ clock \in Seconds
    BY <1>2 DEF At, ArchivesTypeOK, Jobs
  <1> DEFINE stored == [whole |-> whole, time |-> clock, rows |-> job.rows, objects |-> job.objects]
  <1>4. stored # NoFile /\ stored.whole = whole /\ stored.time = clock
    BY <1>3 DEF NoFile, Seconds
  <1>5. job.name <= clock /\ \A n \in Stored : files[n].time < job.name
    BY <1>2 DEF At, BackupIsNewest
  <1>6. job.name \notin Stored
    BY <1>3, <1>5 DEF NamesPrecede, Stored, Files, ArchivesTypeOK, Seconds
  <1>7. files'[job.name] = stored /\ \A n \in Seconds \ {job.name} : files'[n] = files[n]
    BY <1>1, <1>3 DEF ArchivesTypeOK
  <1> HIDE DEF stored
  <1>8. Stored' = Stored \cup {job.name}
    BY <1>3, <1>4, <1>7 DEF Stored
  <1>9. /\ Backups \subseteq Backups'
        /\ whole => job.name \in Backups'
    BY <1>4, <1>6, <1>7, <1>8 DEF Backups, Stored
  <1>10. NamesPrecede'
    <2>1. clock <= clock
      BY <1>3 DEF Seconds
    <2>2. ASSUME NEW n \in Stored'
          PROVE  n <= files'[n].time /\ files'[n].time <= clock
      <3>1. CASE n = job.name
        BY <1>4, <1>5, <1>7, <2>1, <3>1
      <3>2. CASE n # job.name
        <4>1. n \in Stored /\ files'[n] = files[n]
          BY <1>7, <1>8, <2>2, <3>2 DEF Stored
        <4> QED
          BY <4>1 DEF NamesPrecede
      <3> QED
        BY <3>1, <3>2
    <2> QED
      BY <1>2, <2>2 DEF NamesPrecede
  <1>11. BackupIsNewest'
    <2>1. CASE job' = NoJob
      BY <2>1 DEF BackupIsNewest
    <2>2. CASE whole /\ job' = [job EXCEPT !.stage = "retain"]
      <3>1. job'.stage = "retain" /\ job'.name = job.name
        BY <1>3, <2>2 DEF Jobs
      <3>2. \A n \in Stored' \ {job.name} : files'[n].time < files'[job.name].time
        <4>1. ASSUME NEW n \in Stored
              PROVE  files[n].time < clock
          <5>1. files[n].time \in Nat /\ clock \in Nat /\ job.name \in Nat
            BY <1>3 DEF Stored, ArchivesTypeOK, Files, Seconds
          <5> QED
            BY <1>5, <5>1
        <4> QED
          BY <1>4, <1>6, <1>7, <1>8, <4>1 DEF Stored
      <3> QED
        BY <1>9, <2>2, <3>1, <3>2 DEF BackupIsNewest
    <2> QED
      BY <1>1, <2>1, <2>2
  <1>12. SomeBackupSurvives'
    BY <1>2, <1>9 DEF SomeBackupSurvives
  <1> QED
    BY <1>10, <1>11, <1>12

(* What is kept contains the newest file, so the backup that was just      *)
(* uploaded.                                                               *)
LEMMA NewestIsKept ==
    ASSUME SurvivalInv, At("retain"), NEW keep \in Nat \ {0}, NEW N \in NewestKept(keep)
    PROVE  job.name \in N
  <1> USE DEF SurvivalInv
  <1>1. job.name \in Stored /\ \A n \in Stored \ {job.name} : files[n].time < files[job.name].time
    BY DEF At, BackupIsNewest, Backups
  <1>2. N \subseteq Stored /\ Newer(N, Stored \ N) /\ Cardinality(N) # 0
    BY DEF NewestKept
  <1>3. PICK n \in N : TRUE
    BY <1>2, FS_EmptySet
  <1>4. ASSUME job.name \notin N
        PROVE  FALSE
    <2>1. files[n].time < files[job.name].time /\ files[n].time >= files[job.name].time
      BY <1>1, <1>2, <1>3, <1>4 DEF Newer
    <2>2. files[n].time \in Nat /\ files[job.name].time \in Nat
      BY <1>1, <1>2 DEF Stored, ArchivesTypeOK, Files, Seconds
    <2> QED
      BY <2>1, <2>2
  <1> QED
    BY <1>4

LEMMA RetentionKeepsNewest ==
    ASSUME SurvivalInv, ArchivesTypeOK', ApplyRetention
    PROVE  SurvivalInv'
  <1> USE DEF SurvivalInv
  <1>1. /\ At("retain") /\ job \in Jobs /\ UNCHANGED <<clock, completed>>
        /\ job' = [job EXCEPT !.stage = "record"]
    BY StageOrder DEF ApplyRetention, At, ArchivesTypeOK
  <1>2. job'.stage = "record"
    BY <1>1 DEF Jobs
  <1>3. job.name \in Backups
    BY <1>1 DEF At, BackupIsNewest
  <1>4. \E D : job.name \notin D /\ files' = [n \in Seconds |-> IF n \in D THEN NoFile ELSE files[n]]
    <2>1. CASE files' = files
      <3>1. files' = [n \in Seconds |-> IF n \in {} THEN NoFile ELSE files[n]]
        BY <2>1 DEF ArchivesTypeOK
      <3> WITNESS {}
      <3> QED
        BY <3>1
    <2>2. CASE files' # files
      <3>1. PICK keep \in Keeps \ {0} : \E N \in NewestKept(keep) : \E D \in SUBSET (Stored \ N) :
               files' = [n \in Seconds |-> IF n \in D THEN NoFile ELSE files[n]]
        BY <2>2 DEF ApplyRetention
      <3>2. PICK N \in NewestKept(keep) : \E D \in SUBSET (Stored \ N) :
               files' = [n \in Seconds |-> IF n \in D THEN NoFile ELSE files[n]]
        BY <3>1
      <3>3. job.name \in N
        BY <1>1, NewestIsKept, ArchivesAssumption
      <3> QED
        BY <3>2, <3>3
    <2> QED
      BY <2>1, <2>2
  <1>5. PICK D : job.name \notin D /\ files' = [n \in Seconds |-> IF n \in D THEN NoFile ELSE files[n]]
    BY <1>4
  <1>6. job.name \in Backups'
    BY <1>3, <1>5 DEF Backups, Stored
  <1>7. \A n \in Stored' : n \in Stored /\ files'[n] = files[n]
    BY <1>5 DEF Stored
  <1>8. NamesPrecede'
    BY <1>1, <1>7 DEF NamesPrecede
  <1> QED
    BY <1>2, <1>6, <1>8 DEF BackupIsNewest, SomeBackupSurvives

LEMMA SurvivalStep ==
    ASSUME Quick = FALSE, SurvivalInv, [ArchivesNext]_archivesVars
    PROVE  SurvivalInv'
  <1> USE DEF SurvivalInv
  <1>1. ArchivesTypeOK'
    BY TypesKept
  <1>2. clock \in Nat /\ clock + 1 >= clock /\ clock >= clock
    BY DEF ArchivesTypeOK, Seconds
  <1>3. ASSUME \/ CreateUpload \/ PutObject \/ DeleteRow \/ DeleteObject \/ Tick
               \/ FailBackup \/ ImportObjects \/ UNCHANGED archivesVars
        PROVE  SurvivalInv'
    <2>1. files' = files /\ completed' = completed
      BY <1>3 DEF CreateUpload, PutObject, DeleteRow, DeleteObject, Tick, FailBackup,
         ImportObjects, archivesVars, photoVars
    <2>2. clock' >= clock
      BY <1>2, <1>3 DEF CreateUpload, PutObject, DeleteRow, DeleteObject, Tick, FailBackup,
         ImportObjects, archivesVars, photoVars
    <2>3. job' \in {job, NoJob}
      BY <1>3 DEF CreateUpload, PutObject, DeleteRow, DeleteObject, Tick, FailBackup,
         ImportObjects, archivesVars, photoVars
    <2> QED
      BY <1>1, <2>1, <2>2, <2>3, JobAside
  <1>4. ASSUME BeginBackup PROVE SurvivalInv'
    <2>1. job' = [stage |-> "dump", name |-> clock, rows |-> {}, objects |-> {}]
      BY <1>4, StageOrder DEF BeginBackup
    <2>2. UNCHANGED <<clock, files, completed>> /\ \A n \in Stored : files[n].time < clock
      BY <1>4 DEF BeginBackup
    <2>3. Stored' = Stored /\ Backups' = Backups
      BY <2>2, SameFiles
    <2>4. BackupIsNewest'
      BY <1>2, <2>1, <2>2, <2>3 DEF BackupIsNewest
    <2> QED
      BY <1>1, <2>2, <2>3, <2>4 DEF NamesPrecede, SomeBackupSurvives
  <1>5. ASSUME Dump \/ ExportObjects PROVE SurvivalInv'
    <2>1. job # NoJob /\ job \in Jobs /\ job.stage \in {"dump", "export"}
      BY <1>5 DEF Dump, ExportObjects, At, ArchivesTypeOK
    <2>2. job'.name = job.name /\ job'.stage \in {"export", "upload"}
      BY <1>5, <2>1, StageOrder DEF Dump, ExportObjects, Jobs
    <2>3. UNCHANGED <<clock, files, completed>>
      BY <1>5 DEF Dump, ExportObjects
    <2>4. Stored' = Stored /\ Backups' = Backups
      BY <2>3, SameFiles
    <2>5. BackupIsNewest'
      BY <2>1, <2>2, <2>3, <2>4 DEF BackupIsNewest
    <2> QED
      BY <1>1, <2>3, <2>4, <2>5 DEF NamesPrecede, SomeBackupSurvives
  <1>6. ASSUME CompleteBackupRun PROVE SurvivalInv'
    <2>1. Backups # {}
      BY <1>6 DEF CompleteBackupRun, At, BackupIsNewest
    <2>2. UNCHANGED <<clock, files>> /\ job' = NoJob
      BY <1>6 DEF CompleteBackupRun
    <2>3. Stored' = Stored /\ Backups' = Backups
      BY <2>2, SameFiles
    <2> QED
      BY <1>1, <2>1, <2>2, <2>3 DEF NamesPrecede, BackupIsNewest, SomeBackupSurvives
  <1>7. ASSUME BeginRestore \/ RestoreRows PROVE SurvivalInv'
    <2>1. job' = NoJob \/ job'.stage \in {"tables", "import"}
      <3>1. CASE BeginRestore
        BY <3>1 DEF BeginRestore
      <3>2. CASE RestoreRows
        BY <3>2 DEF RestoreRows, At, ArchivesTypeOK, Jobs
      <3> QED
        BY <1>7, <3>1, <3>2
    <2>2. UNCHANGED <<clock, files, completed>>
      BY <1>7 DEF BeginRestore, RestoreRows
    <2>3. Stored' = Stored /\ Backups' = Backups
      BY <2>2, SameFiles
    <2> QED
      BY <1>1, <2>1, <2>2, <2>3 DEF NamesPrecede, BackupIsNewest, SomeBackupSurvives
  <1> QED
    BY <1>1, <1>3, <1>4, <1>5, <1>6, <1>7, UploadIsNewest, RetentionKeepsNewest
       DEF ArchivesNext

(* If no backup begins in the second in which another was uploaded: for    *)
(* any photos, retentions and failures, once a backup was completed a      *)
(* whole archive is on the target.                                         *)
THEOREM ABackupSurvives ==
    ASSUME Quick = FALSE
    PROVE  ArchivesSpec => []SomeBackupSurvives
  <1>1. SurvivalInv /\ [ArchivesNext]_archivesVars => SurvivalInv'
    BY SurvivalStep
  <1>2. ArchivesSpec => []SurvivalInv
    BY <1>1, SurvivalInitial, PTL DEF ArchivesSpec
  <1>3. SurvivalInv => SomeBackupSurvives
    BY DEF SurvivalInv
  <1> QED
    BY <1>2, <1>3, PTL
-----------------------------------------------------------------------------
(* Photos.                                                                 *)

(* An archive lacks the object of no photo it has a row of, but of excused *)
(* ones.                                                                   *)
FilesHaveObjects == \A n \in Seconds : files[n].rows \ files[n].objects \subseteq excused

(* Nor does the running system, but of those not uploaded yet.             *)
RowsHaveObjects == ~torn => rows \ objects \subseteq excused \cup (Photos \ arrived)

(* Nor what the worker holds.  A row it has dumped is there until the      *)
(* export, or its photo is excused; a row there before the import is from  *)
(* the archive, or its photo was added since or has its object.            *)
JobHasObjects ==
    job # NoJob =>
        /\ job.stage \in {"upload", "tables", "import"} =>
               job.rows \ job.objects \subseteq excused
        /\ job.stage = "export" => job.rows \subseteq rows \cup excused
        /\ job.stage = "import" =>
               rows \subseteq job.rows \cup objects \cup (Photos \ arrived) \cup excused

PhotosInv == ArchivesTypeOK /\ FilesHaveObjects /\ RowsHaveObjects /\ JobHasObjects

LEMMA PhotosInitial == ArchivesInit => PhotosInv
  BY TypesInitial
     DEF ArchivesInit, PhotosInv, FilesHaveObjects, RowsHaveObjects, JobHasObjects, NoFile

(* Requests, which leave the job and the files as they are.                *)
LEMMA RequestsKeepObjects ==
    ASSUME PhotosInv, ArchivesTypeOK', CreateUpload \/ PutObject \/ DeleteRow \/ DeleteObject
    PROVE  PhotosInv'
  <1> USE DEF PhotosInv
  <1>1. /\ rows \subseteq Photos /\ excused \subseteq Photos /\ arrived \subseteq Photos
        /\ objects \subseteq Photos /\ issued \subseteq Photos
    BY DEF ArchivesTypeOK
  <1>2. UNCHANGED <<job, files, torn>> /\ excused \subseteq excused'
    BY DEF CreateUpload, PutObject, DeleteRow, DeleteObject
  <1>3. FilesHaveObjects'
    BY <1>2 DEF FilesHaveObjects
  <1>4. ASSUME CreateUpload PROVE RowsHaveObjects' /\ JobHasObjects'
    <2>1. PICK p \in Photos \ (rows \cup issued \cup removing \cup arrived) : rows' = rows \cup {p}
      BY <1>4 DEF CreateUpload
    <2>2. UNCHANGED <<objects, arrived, excused>>
      BY <1>4 DEF CreateUpload
    <2> QED
      BY <1>2, <2>1, <2>2 DEF RowsHaveObjects, JobHasObjects
  <1>5. ASSUME PutObject PROVE RowsHaveObjects' /\ JobHasObjects'
    <2>1. PICK p \in issued : objects' = objects \cup {p} /\ arrived' = arrived \cup {p}
      BY <1>5 DEF PutObject
    <2>2. UNCHANGED <<rows, excused>>
      BY <1>5 DEF PutObject
    <2> QED
      BY <1>1, <1>2, <2>1, <2>2 DEF RowsHaveObjects, JobHasObjects
  <1>6. ASSUME DeleteRow PROVE RowsHaveObjects' /\ JobHasObjects'
    <2>1. PICK p \in rows : /\ rows' = rows \ {p}
                            /\ excused' = IF At("export") THEN excused \cup {p} ELSE excused
      BY <1>6 DEF DeleteRow
    <2>2. UNCHANGED <<objects, arrived>>
      BY <1>6 DEF DeleteRow
    <2>3. RowsHaveObjects'
      BY <1>2, <2>1, <2>2 DEF RowsHaveObjects
    <2>4. JobHasObjects'
      BY <1>2, <2>1, <2>2 DEF JobHasObjects, At
    <2> QED
      BY <2>3, <2>4
  <1>7. ASSUME DeleteObject PROVE RowsHaveObjects' /\ JobHasObjects'
    <2>1. PICK p \in removing : /\ objects' \in {objects, objects \ {p}}
                                /\ excused' = IF p \in rows THEN excused \cup {p} ELSE excused
      BY <1>7 DEF DeleteObject
    <2>2. UNCHANGED <<rows, arrived>>
      BY <1>7 DEF DeleteObject
    <2>3. rows \cap objects \subseteq objects' \cup excused'
      BY <2>1
    <2>4. RowsHaveObjects'
      BY <1>2, <2>2, <2>3 DEF RowsHaveObjects
    <2>5. JobHasObjects'
      BY <1>2, <2>2, <2>3 DEF JobHasObjects
    <2> QED
      BY <2>4, <2>5
  <1> QED
    BY <1>3, <1>4, <1>5, <1>6, <1>7

(* A photo in the rows that were dumped, and without an object when the    *)
(* objects are exported, is excused.                                       *)
LEMMA ExportKeepsObjects ==
    ASSUME PhotosInv, ArchivesTypeOK', ExportObjects
    PROVE  PhotosInv'
  <1> USE DEF PhotosInv
  <1>1. job # NoJob /\ job.stage = "export" /\ job \in Jobs
    BY DEF ExportObjects, At, ArchivesTypeOK
  <1>2. /\ job' # NoJob => job'.rows = job.rows /\ job'.objects = objects /\ job'.stage = "upload"
        /\ excused' = excused \cup (job.rows \ arrived) \cup (IF torn THEN job.rows \ objects ELSE {})
        /\ UNCHANGED <<rows, objects, arrived, files, torn>>
    BY <1>1, StageOrder DEF ExportObjects, Jobs, photoVars
  <1>3. job.rows \ objects \subseteq excused'
    BY <1>1, <1>2 DEF RowsHaveObjects, JobHasObjects
  <1>4. FilesHaveObjects' /\ RowsHaveObjects'
    BY <1>2 DEF FilesHaveObjects, RowsHaveObjects
  <1>5. JobHasObjects'
    BY <1>2, <1>3 DEF JobHasObjects
  <1> QED
    BY <1>4, <1>5

LEMMA UploadKeepsObjects ==
    ASSUME PhotosInv, ArchivesTypeOK', Upload
    PROVE  PhotosInv'
  <1> USE DEF PhotosInv
  <1>1. job # NoJob /\ job.stage = "upload" /\ job \in Jobs
    BY DEF Upload, At, ArchivesTypeOK
  <1>2. PICK whole \in BOOLEAN :
            /\ files' = [files EXCEPT ![job.name] =
                   [whole |-> whole, time |-> clock, rows |-> job.rows, objects |-> job.objects]]
            /\ job' \in {NoJob} \cup (IF whole THEN {[job EXCEPT !.stage = "retain"]} ELSE {})
    BY StageOrder DEF Upload
  <1>3. UNCHANGED <<rows, objects, arrived, excused, torn>>
    BY DEF Upload, photoVars
  <1>4. job.rows \ job.objects \subseteq excused
    BY <1>1 DEF JobHasObjects
  <1>5. ASSUME NEW n \in Seconds
        PROVE  files'[n].rows \ files'[n].objects \subseteq excused
    <2>1. CASE n = job.name
      BY <1>2, <1>4, <2>1 DEF ArchivesTypeOK
    <2>2. CASE n # job.name
      BY <1>2, <2>2 DEF ArchivesTypeOK, FilesHaveObjects
    <2> QED
      BY <2>1, <2>2
  <1>6. FilesHaveObjects' /\ RowsHaveObjects'
    BY <1>3, <1>5 DEF FilesHaveObjects, RowsHaveObjects
  <1>7. job' # NoJob => job'.stage = "retain"
    BY <1>1, <1>2 DEF Jobs
  <1> QED
    BY <1>6, <1>7 DEF JobHasObjects

LEMMA RetentionKeepsObjects ==
    ASSUME PhotosInv, ArchivesTypeOK', ApplyRetention
    PROVE  PhotosInv'
  <1> USE DEF PhotosInv
  <1>1. UNCHANGED <<rows, objects, arrived, excused, torn>>
    BY DEF ApplyRetention, photoVars
  <1>2. ASSUME NEW n \in Seconds
        PROVE  files'[n] \in {NoFile, files[n]}
    <2>1. CASE files' = files
      BY <2>1
    <2>2. CASE files' # files
      <3>1. PICK keep \in Keeps : \E N \in NewestKept(keep) : \E D \in SUBSET (Stored \ N) :
               files' = [m \in Seconds |-> IF m \in D THEN NoFile ELSE files[m]]
        BY <2>2 DEF ApplyRetention
      <3>2. PICK N \in NewestKept(keep) : \E D \in SUBSET (Stored \ N) :
               files' = [m \in Seconds |-> IF m \in D THEN NoFile ELSE files[m]]
        BY <3>1
      <3>3. PICK D \in SUBSET (Stored \ N) :
               files' = [m \in Seconds |-> IF m \in D THEN NoFile ELSE files[m]]
        BY <3>2
      <3> QED
        BY <3>3
    <2> QED
      BY <2>1, <2>2
  <1>3. FilesHaveObjects' /\ RowsHaveObjects'
    BY <1>1, <1>2 DEF FilesHaveObjects, RowsHaveObjects, NoFile
  <1>4. job' # NoJob => job'.stage = "record"
    BY StageOrder DEF ApplyRetention, At, ArchivesTypeOK, Jobs
  <1> QED
    BY <1>3, <1>4 DEF JobHasObjects

LEMMA RestoreKeepsObjects ==
    ASSUME PhotosInv, ArchivesTypeOK', BeginRestore \/ RestoreRows \/ ImportObjects
    PROVE  PhotosInv'
  <1> USE DEF PhotosInv
  <1>1. UNCHANGED <<arrived, files, excused>>
    BY DEF BeginRestore, RestoreRows, ImportObjects, photoVars
  <1>2. FilesHaveObjects'
    BY <1>1 DEF FilesHaveObjects
  <1>3. ASSUME BeginRestore PROVE RowsHaveObjects' /\ JobHasObjects'
    <2>1. PICK n \in Backups : job' = [stage |-> "tables", name |-> n,
                                       rows |-> files[n].rows, objects |-> files[n].objects]
      BY <1>3 DEF BeginRestore
    <2>2. n \in Seconds
      BY <2>1 DEF Backups, Stored
    <2>3. UNCHANGED <<rows, objects, torn>>
      BY <1>3 DEF BeginRestore, photoVars
    <2>4. job'.rows \ job'.objects \subseteq excused /\ job'.stage = "tables"
      BY <2>1, <2>2 DEF FilesHaveObjects
    <2>5. RowsHaveObjects'
      BY <1>1, <2>3 DEF RowsHaveObjects
    <2>6. JobHasObjects'
      BY <1>1, <2>4 DEF JobHasObjects
    <2> QED
      BY <2>5, <2>6
  <1>4. ASSUME RestoreRows PROVE RowsHaveObjects' /\ JobHasObjects'
    <2>1. /\ job # NoJob /\ job.stage = "tables" /\ job \in Jobs
          /\ torn' = TRUE
          /\ job' # NoJob => rows' = job.rows /\ job' = [job EXCEPT !.stage = "import"]
      BY <1>4 DEF RestoreRows, At, ArchivesTypeOK
    <2>2. job' # NoJob => /\ job'.stage = "import" /\ job'.rows = job.rows
                          /\ job'.objects = job.objects
      BY <2>1 DEF Jobs
    <2>3. job.rows \ job.objects \subseteq excused
      BY <2>1 DEF JobHasObjects
    <2>4. JobHasObjects'
      BY <1>1, <2>1, <2>2, <2>3 DEF JobHasObjects
    <2> QED
      BY <2>1, <2>4 DEF RowsHaveObjects
  <1>5. ASSUME ImportObjects PROVE RowsHaveObjects' /\ JobHasObjects'
    <2>1. job # NoJob /\ job.stage = "import" /\ job' = NoJob /\ rows' = rows
      BY <1>5 DEF ImportObjects, At
    <2>2. /\ job.rows \ job.objects \subseteq excused
          /\ rows \subseteq job.rows \cup objects \cup (Photos \ arrived) \cup excused
      BY <2>1 DEF JobHasObjects
    <2>3. \/ objects' = objects \cup job.objects
          \/ objects \subseteq objects' /\ torn' = torn
      BY <1>5 DEF ImportObjects
    <2>4. RowsHaveObjects'
      BY <1>1, <2>1, <2>2, <2>3 DEF RowsHaveObjects
    <2> QED
      BY <2>1, <2>4 DEF JobHasObjects
  <1> QED
    BY <1>2, <1>3, <1>4, <1>5

LEMMA PhotosStep ==
    ASSUME PhotosInv, [ArchivesNext]_archivesVars
    PROVE  PhotosInv'
  <1> USE DEF PhotosInv
  <1>1. ArchivesTypeOK'
    BY TypesKept
  <1>2. ASSUME \/ Tick \/ BeginBackup \/ Dump \/ CompleteBackupRun \/ FailBackup
               \/ UNCHANGED archivesVars
        PROVE  PhotosInv'
    <2>1. UNCHANGED <<rows, objects, arrived, files, excused, torn>>
      BY <1>2 DEF Tick, BeginBackup, Dump, CompleteBackupRun, FailBackup, archivesVars, photoVars
    <2>2. FilesHaveObjects' /\ RowsHaveObjects'
      BY <2>1 DEF FilesHaveObjects, RowsHaveObjects
    <2>3. CASE job' \in {job, NoJob}
      BY <1>1, <2>1, <2>2, <2>3 DEF JobHasObjects
    <2>4. CASE BeginBackup
      BY <1>1, <2>2, <2>4, StageOrder DEF BeginBackup, JobHasObjects
    <2>5. CASE Dump
      <3>1. job \in Jobs /\ job' = [job EXCEPT !.rows = rows, !.stage = "export"]
        BY <2>5, StageOrder DEF Dump, At, ArchivesTypeOK
      <3>2. job'.stage = "export" /\ job'.rows = rows
        BY <3>1 DEF Jobs
      <3> QED
        BY <1>1, <2>1, <2>2, <3>2 DEF JobHasObjects
    <2> QED
      BY <1>2, <2>3, <2>4, <2>5 DEF Tick, CompleteBackupRun, FailBackup, archivesVars
  <1> QED
    BY <1>1, <1>2, RequestsKeepObjects, ExportKeepsObjects, UploadKeepsObjects,
       RetentionKeepsObjects, RestoreKeepsObjects DEF ArchivesNext

(* A photo that has a row has its object, in every archive and, unless a   *)
(* restore stopped half way, in the running system, but for photos not     *)
(* uploaded yet or deleted while the worker was at work: for any photos,   *)
(* retentions and failures, and backups that follow at any speed.          *)
THEOREM PhotosKeepObjects == ArchivesSpec => []PhotosHaveObjects
  <1>1. PhotosInv /\ [ArchivesNext]_archivesVars => PhotosInv'
    BY PhotosStep
  <1>2. ArchivesSpec => []PhotosInv
    BY <1>1, PhotosInitial, PTL DEF ArchivesSpec
  <1>3. PhotosInv => PhotosHaveObjects
    BY DEF PhotosInv, FilesHaveObjects, RowsHaveObjects, PhotosHaveObjects, Backups, Stored
  <1> QED
    BY <1>2, <1>3, PTL
-----------------------------------------------------------------------------
(* Migrations: whoever starts with whom, the schema grows in order.        *)

LEMMA MigrationTypes ==
    /\ MigrationsInit => MigrationsTypeOK
    /\ MigrationsTypeOK /\ [MigrationsNext]_migrationsVars => MigrationsTypeOK'
  <1> USE MigrationsAssumption DEF MigrationsTypeOK, Scripts, Points
  <1>1. ASSUME MigrationsInit PROVE MigrationsTypeOK
    <2>1. PICK release \in Releases : MigratedTo(release, "down", 1)
      BY <1>1 DEF MigrationsInit
    <2>2. release \in 0..Count /\ 1 \in Scripts /\ 1..release \subseteq Scripts
      BY <2>1
    <2>3. executed \subseteq Scripts /\ recorded \subseteq Scripts /\ installed \in 0..Count
      BY <2>1, <2>2 DEF MigratedTo
    <2>4. pc \in [Processes -> Points] /\ at \in [Processes -> Scripts]
      BY <2>1, <2>2 DEF MigratedTo
    <2>5. /\ budget = MaxFailures /\ behind = {}
          /\ cut = FALSE /\ older = FALSE /\ crossed = FALSE
      BY <2>1 DEF MigratedTo
    <2>6. budget \in 0..MaxFailures
      BY <2>5
    <2>7. {executed, recorded} \subseteq SUBSET Scripts /\ {cut, older, crossed} \subseteq BOOLEAN
      <3> HIDE MigrationsAssumption DEF Scripts
      <3> QED
        BY <2>3, <2>5
    <2> QED
      BY <2>3, <2>4, <2>5, <2>6, <2>7
  <1>2. ASSUME MigrationsTypeOK, NEW p \in Processes, RunMigrations(p)
        PROVE  MigrationsTypeOK'
    <2>1. at[p] \in Scripts
      BY <1>2
    <2>2. CASE Start(p)
      BY <1>2, <2>2 DEF Start, Goes
    <2>3. ASSUME GoesOn(p)
          PROVE  pc' \in [Processes -> Points] /\ at' \in [Processes -> Scripts]
      <3>1. at[p] < Count => at[p] + 1 \in Scripts
        BY <2>1
      <3> QED
        BY <1>2, <2>3, <3>1 DEF GoesOn, Goes
    <2>4. CASE Check(p)
      <3>1. pc' \in [Processes -> Points] /\ at' \in [Processes -> Scripts]
        BY <1>2, <2>4, <2>3 DEF Check, Goes
      <3> QED
        BY <1>2, <2>4, <3>1 DEF Check
    <2>5. CASE Execute(p)
      BY <1>2, <2>1, <2>5 DEF Execute, Goes, GoesDown
    <2>6. CASE Record(p)
      <3>1. pc' \in [Processes -> Points] /\ at' \in [Processes -> Scripts]
        BY <1>2, <2>6, <2>3 DEF Record, Goes, GoesDown
      <3>2. recorded' \subseteq Scripts
        BY <1>2, <2>1, <2>6 DEF Record
      <3> QED
        BY <1>2, <2>6, <3>1, <3>2 DEF Record
    <2> QED
      BY <1>2, <2>2, <2>4, <2>5, <2>6 DEF RunMigrations
  <1>3. ASSUME MigrationsTypeOK, NEW p \in Processes, Fail(p)
        PROVE  MigrationsTypeOK'
    <2>1. at[p] \in Scripts /\ at' = at /\ pc' = [pc EXCEPT ![p] = "down"]
      BY <1>3 DEF Fail, Goes, GoesDown
    <2>2. executed' \subseteq Scripts /\ recorded' \subseteq Scripts
      BY <1>3, <2>1 DEF Fail
    <2>3. /\ budget' \in 0..MaxFailures /\ cut' \in BOOLEAN
          /\ behind' \subseteq Processes
      BY <1>3 DEF Fail
    <2> QED
      BY <1>3, <2>1, <2>2, <2>3 DEF Fail
  <1>4. ASSUME MigrationsTypeOK, RestoreOlder PROVE MigrationsTypeOK'
    BY <1>4 DEF RestoreOlder
  <1>5. ASSUME MigrationsTypeOK, UNCHANGED migrationsVars PROVE MigrationsTypeOK'
    BY <1>5 DEF migrationsVars
  <1> QED
    BY <1>1, <1>2, <1>3, <1>4, <1>5 DEF MigrationsNext

(* The files up to k are recorded and executed, and the next one may be.   *)
UpTo(k) ==
    /\ recorded = 1..k /\ 1..k \subseteq executed
    /\ executed \subseteq 1..(k + 1) \cup (IF older THEN Own ELSE {})

(* Where a process is, the files before are recorded.                      *)
Migrates(p) == pc[p] \notin {"down", "serving"}
PassedRecorded ==
    \A p \in Processes : Migrates(p) => 1..(at[p] - 1) \subseteq recorded

ExecutedBeforeRecord ==
    \A p \in Processes : pc[p] = "record" => at[p] \in executed

ServesRecorded ==
    \A p \in Processes \ behind : pc[p] = "serving" => Scripts \subseteq recorded

InOrderInv ==
    /\ MigrationsTypeOK
    /\ \A p \in behind : pc[p] = "serving"
    /\ crossed \/ /\ \E k \in 0..Count : UpTo(k)
                  /\ PassedRecorded /\ ExecutedBeforeRecord /\ ServesRecorded

LEMMA InOrderInitial == MigrationsInit => InOrderInv
  <1> SUFFICES ASSUME MigrationsInit PROVE InOrderInv
    OBVIOUS
  <1>1. PICK release \in Releases : MigratedTo(release, "down", 1)
    BY DEF MigrationsInit
  <1>2. release \in 0..Count /\ UpTo(release)
    BY <1>1, MigrationsAssumption DEF MigratedTo, UpTo
  <1>3. PassedRecorded /\ ExecutedBeforeRecord /\ ServesRecorded
    BY <1>1 DEF MigratedTo, PassedRecorded, ExecutedBeforeRecord, ServesRecorded, Migrates
  <1>4. behind = {}
    BY <1>1 DEF MigratedTo
  <1> QED
    BY <1>2, <1>3, <1>4, MigrationTypes DEF InOrderInv

(* What a process executes or records is already there or the next file.   *)
LEMMA NextFile ==
    ASSUME MigrationsTypeOK, NEW k \in 0..Count, UpTo(k), PassedRecorded,
           NEW p \in Processes, Migrates(p)
    PROVE  at[p] \in Scripts /\ at[p] <= k + 1 /\ (at[p] \in recorded \/ at[p] = k + 1)
  <1>1. at[p] \in 1..Count /\ 1..(at[p] - 1) \subseteq 1..k /\ recorded = 1..k
    BY DEF MigrationsTypeOK, Scripts, PassedRecorded, UpTo
  <1>2. Count \in Nat
    BY MigrationsAssumption
  <1>3. at[p] = 1 \/ at[p] - 1 \in 1..(at[p] - 1)
    BY <1>1, <1>2
  <1>4. at[p] <= k + 1
    BY <1>1, <1>2, <1>3
  <1> QED
    BY <1>1, <1>2, <1>4 DEF Scripts

(* A step of one process that executes and records nothing, or what is     *)
(* there or next.                                                          *)
LEMMA GrowsInOrder ==
    ASSUME MigrationsTypeOK, NEW k \in 0..Count, UpTo(k), PassedRecorded, ExecutedBeforeRecord,
           older' = older, NEW p \in Processes,
           executed' = executed \/ (Migrates(p) /\ executed' = executed \cup {at[p]}),
           recorded' = recorded \/ (pc[p] = "record" /\ recorded' = recorded \cup {at[p]})
    PROVE  /\ \E n \in 0..Count : UpTo(n)'
           /\ recorded \subseteq recorded' /\ executed \subseteq executed'
  <1>1. Count \in Nat /\ k \in Nat
    BY MigrationsAssumption
  <1>2. CASE recorded' = recorded
    <2>1. executed \subseteq executed' /\ executed' \subseteq executed \cup {k + 1} \cup recorded
      BY NextFile
    <2>2. k + 1 \in 1..(k + 1) /\ 1..k \subseteq 1..(k + 1)
      BY <1>1
    <2>3. UpTo(k)'
      BY <1>2, <2>1, <2>2 DEF UpTo
    <2> QED
      BY <1>2, <2>1, <2>3
  <1>3. CASE recorded' # recorded
    <2>1. /\ pc[p] = "record" /\ Migrates(p) /\ at[p] \in executed /\ executed' = executed
          /\ recorded' = recorded \cup {at[p]} /\ at[p] \notin recorded
      BY <1>3 DEF ExecutedBeforeRecord, Migrates
    <2>2. at[p] = k + 1 /\ k + 1 \in 1..Count
      BY <2>1, NextFile DEF Scripts
    <2>3. recorded' = 1..(k + 1) /\ k + 1 \in 0..Count
      BY <1>1, <2>1, <2>2 DEF UpTo
    <2>4. UpTo(k + 1)'
      BY <1>1, <2>1, <2>2, <2>3 DEF UpTo
    <2> QED
      BY <2>1, <2>3, <2>4
  <1> QED
    BY <1>2, <1>3

(* A process that goes on to the next file leaves a recorded one.          *)
LEMMA InOrderRun ==
    ASSUME InOrderInv, NEW p \in Processes, RunMigrations(p)
    PROVE  InOrderInv'
  <1>1. MigrationsTypeOK' /\ MigrationsTypeOK
    BY MigrationTypes DEF InOrderInv, MigrationsNext
  <1>2. /\ UNCHANGED <<older, crossed, behind, installed, budget, cut>>
        /\ pc[p] # "serving" /\ p \notin behind
        /\ pc' = [pc EXCEPT ![p] = pc'[p]]
        /\ \A q \in Processes \ {p} : pc'[q] = pc[q] /\ at'[q] = at[q]
    BY <1>1 DEF RunMigrations, Start, Check, Execute, Record, Goes, GoesOn, GoesDown,
                InOrderInv, MigrationsTypeOK
  <1>3. \A q \in behind' : pc'[q] = "serving"
    BY <1>1, <1>2 DEF InOrderInv, MigrationsTypeOK
  <1>4. ASSUME ~crossed
        PROVE  (\E n \in 0..Count : UpTo(n)') /\ PassedRecorded'
               /\ ExecutedBeforeRecord' /\ ServesRecorded'
    <2>1. PICK k \in 0..Count : UpTo(k)
      BY <1>4 DEF InOrderInv
    <2>2. PassedRecorded /\ ExecutedBeforeRecord /\ ServesRecorded
      BY <1>4 DEF InOrderInv
    <2>3. /\ executed' = executed \/ (Migrates(p) /\ executed' = executed \cup {at[p]})
          /\ recorded' = recorded \/ (pc[p] = "record" /\ recorded' = recorded \cup {at[p]})
      BY DEF RunMigrations, Start, Check, Execute, Record, Migrates
    <2>4. /\ \E n \in 0..Count : UpTo(n)'
          /\ recorded \subseteq recorded' /\ executed \subseteq executed'
      BY <1>1, <1>2, <2>1, <2>2, <2>3, GrowsInOrder
    <2>5. /\ Migrates(p)' => 1..(at'[p] - 1) \subseteq recorded'
          /\ pc'[p] = "record" => at'[p] \in executed'
          /\ pc'[p] = "serving" => Scripts \subseteq recorded'
      <3>1. at[p] \in 1..Count /\ Count \in Nat
        BY <1>1, MigrationsAssumption DEF MigrationsTypeOK, Scripts
      <3>2. Migrates(p) => 1..(at[p] - 1) \subseteq recorded
        BY <2>2 DEF PassedRecorded
      <3>3. CASE Start(p)
        <4>1. pc'[p] = "check" /\ at'[p] = 1
          BY <1>1, <3>3 DEF Start, Goes, MigrationsTypeOK
        <4> QED
          BY <4>1
      <3>4. ASSUME GoesOn(p), Migrates(p), at[p] \in recorded'
            PROVE  <2>5!1 /\ <2>5!2 /\ <2>5!3
        <4>1. 1..at[p] \subseteq recorded'
          BY <2>4, <3>1, <3>2, <3>4
        <4>2. \/ pc'[p] = "check" /\ at'[p] = at[p] + 1
              \/ pc'[p] = "serving" /\ at[p] = Count
          BY <1>1, <3>4 DEF GoesOn, Goes, MigrationsTypeOK
        <4>3. CASE pc'[p] = "check" /\ at'[p] = at[p] + 1
          <5>1. at'[p] - 1 = at[p]
            BY <3>1, <4>3
          <5> QED
            BY <4>1, <4>3, <5>1
        <4>4. CASE pc'[p] = "serving" /\ at[p] = Count
          BY <4>1, <4>4 DEF Scripts, Migrates
        <4> QED
          BY <4>2, <4>3, <4>4
      <3>5. CASE Check(p)
        <4>1. Migrates(p)
          BY <3>5 DEF Check, Migrates
        <4>2. CASE at[p] \in recorded /\ GoesOn(p)
          BY <2>4, <3>4, <4>1, <4>2
        <4>3. CASE Goes(p, "execute") /\ UNCHANGED at
          <5>1. pc'[p] = "execute" /\ at'[p] = at[p]
            BY <1>1, <4>3 DEF Goes, MigrationsTypeOK
          <5> QED
            BY <2>4, <3>2, <4>1, <5>1
        <4> QED
          BY <3>5, <4>2, <4>3 DEF Check
      <3>6. CASE Execute(p)
        <4>1. Migrates(p) /\ at'[p] = at[p]
          BY <3>6 DEF Execute, GoesDown, Migrates
        <4>2. pc'[p] = "down" \/ (pc'[p] = "record" /\ executed' = executed \cup {at[p]})
          BY <1>1, <3>6 DEF Execute, Goes, GoesDown, MigrationsTypeOK
        <4> QED
          BY <2>4, <3>2, <4>1, <4>2 DEF Migrates
      <3>7. CASE Record(p)
        <4>1. CASE GoesDown(p)
          <5>1. pc'[p] = "down"
            BY <1>1, <4>1 DEF GoesDown, Goes, MigrationsTypeOK
          <5> QED
            BY <5>1 DEF Migrates
        <4>2. CASE GoesOn(p) /\ recorded' = recorded \cup {at[p]}
          BY <3>4, <3>7, <4>2 DEF Record, Migrates
        <4> QED
          BY <3>7, <4>1, <4>2 DEF Record
      <3> QED
        BY <3>3, <3>5, <3>6, <3>7 DEF RunMigrations, Migrates
    <2>6. PassedRecorded'
      BY <1>2, <2>2, <2>4, <2>5 DEF PassedRecorded, Migrates
    <2>7. ExecutedBeforeRecord'
      BY <1>2, <2>2, <2>4, <2>5 DEF ExecutedBeforeRecord
    <2>8. ServesRecorded'
      BY <1>2, <2>2, <2>4, <2>5 DEF ServesRecorded, Scripts
    <2> QED
      BY <2>4, <2>6, <2>7, <2>8
  <1> QED
    BY <1>1, <1>2, <1>3, <1>4 DEF InOrderInv

LEMMA InOrderFail ==
    ASSUME InOrderInv, NEW p \in Processes, Fail(p)
    PROVE  InOrderInv'
  <1>1. MigrationsTypeOK' /\ MigrationsTypeOK
    BY MigrationTypes DEF InOrderInv, MigrationsNext
  <1>2. /\ UNCHANGED <<older, crossed, at>> /\ pc'[p] = "down" /\ behind' = behind \ {p}
        /\ \A q \in Processes \ {p} : pc'[q] = pc[q]
    BY <1>1 DEF Fail, GoesDown, Goes, MigrationsTypeOK
  <1>3. \A q \in behind' : pc'[q] = "serving"
    BY <1>1, <1>2 DEF InOrderInv, MigrationsTypeOK
  <1>4. ASSUME ~crossed
        PROVE  (\E n \in 0..Count : UpTo(n)') /\ PassedRecorded'
               /\ ExecutedBeforeRecord' /\ ServesRecorded'
    <2>1. PICK k \in 0..Count : UpTo(k)
      BY <1>4 DEF InOrderInv
    <2>2. PassedRecorded /\ ExecutedBeforeRecord /\ ServesRecorded
      BY <1>4 DEF InOrderInv
    <2>3. /\ executed' = executed \/ (Migrates(p) /\ executed' = executed \cup {at[p]})
          /\ recorded' = recorded \/ (pc[p] = "record" /\ recorded' = recorded \cup {at[p]})
      BY DEF Fail, Migrates
    <2>4. /\ \E n \in 0..Count : UpTo(n)'
          /\ recorded \subseteq recorded' /\ executed \subseteq executed'
      BY <1>1, <1>2, <2>1, <2>2, <2>3, GrowsInOrder
    <2> QED
      BY <1>2, <2>2, <2>4 DEF PassedRecorded, ExecutedBeforeRecord, ServesRecorded, Migrates, Scripts
  <1> QED
    BY <1>1, <1>2, <1>3, <1>4 DEF InOrderInv

(* A restore that crosses no migration finds every process down or         *)
(* serving, and leaves those that serve behind.                            *)
LEMMA InOrderRestore ==
    ASSUME InOrderInv, RestoreOlder
    PROVE  InOrderInv'
  <1>1. MigrationsTypeOK' /\ MigrationsTypeOK
    BY MigrationTypes DEF InOrderInv, MigrationsNext
  <1>2. UNCHANGED <<pc, at, installed>> /\ behind' = {p \in Processes : pc[p] = "serving"}
    BY DEF RestoreOlder
  <1>3. ASSUME ~crossed'
        PROVE  (\E n \in 0..Count : UpTo(n)') /\ PassedRecorded'
               /\ ExecutedBeforeRecord' /\ ServesRecorded'
    <2>1. \A p \in Processes : pc[p] \in {"down", "serving"}
      BY <1>3 DEF RestoreOlder
    <2>2. UpTo(installed)' /\ installed \in 0..Count
      BY <1>1 DEF RestoreOlder, UpTo, MigrationsTypeOK
    <2> QED
      BY <1>2, <2>1, <2>2 DEF PassedRecorded, ExecutedBeforeRecord, ServesRecorded, Migrates
  <1> QED
    BY <1>1, <1>2, <1>3 DEF InOrderInv

LEMMA InOrderStep == InOrderInv /\ [MigrationsNext]_migrationsVars => InOrderInv'
  <1>1. ASSUME InOrderInv, UNCHANGED migrationsVars PROVE InOrderInv'
    BY <1>1 DEF migrationsVars, InOrderInv, MigrationsTypeOK, UpTo, PassedRecorded,
                ExecutedBeforeRecord, ServesRecorded, Migrates
  <1> QED
    BY <1>1, InOrderRun, InOrderFail, InOrderRestore DEF MigrationsNext

LEMMA InOrderMeans == InOrderInv => MigrationsTypeOK /\ MigratedInOrder
  <1> SUFFICES ASSUME InOrderInv, ~crossed PROVE MigratedInOrder
    BY DEF InOrderInv, MigratedInOrder
  <1>1. \E k \in 0..Count : UpTo(k)
    BY DEF InOrderInv
  <1>2. recorded \subseteq executed /\ executed \subseteq Scripts /\ recorded \subseteq Scripts
    BY <1>1 DEF UpTo, InOrderInv, MigrationsTypeOK
  <1> QED
    BY <1>1, <1>2 DEF UpTo, InOrderInv, ServesRecorded, MigratedInOrder

(* Any number of processes that start, fail and are started again, and     *)
(* restores of older archives: the files that are recorded are the first   *)
(* ones, and who serves has all of them, but for what MigratedInOrder      *)
(* excepts.                                                                *)
THEOREM MigratesInOrder == MigrationsSpec => [](MigrationsTypeOK /\ MigratedInOrder)
  BY InOrderInitial, InOrderStep, InOrderMeans, PTL DEF MigrationsSpec
-----------------------------------------------------------------------------
(* All of it together.                                                     *)

LEMMA EachPartSteps ==
    ASSUME [StoresNext]_storesVars
    PROVE  /\ [ArchivesNext]_archivesVars /\ [MigrationsNext]_migrationsVars
           /\ [ReportsNext]_reportsVars
  BY DEF StoresNext, storesVars, BackupSide, Schema, Report

LEMMA AskedAsItMay == StoresInit => ScopeInv /\ OutcomeInv
  <1> SUFFICES ASSUME StoresInit PROVE ScopeInv /\ OutcomeInv
    OBVIOUS
  <1>1. Unvalued \in [Things -> Worths] /\ Location \in Scopes
    BY ReportsAssumption DEF Unvalued, Things, Scopes
  <1>2. \E d \in Placements : d.here = {} /\ d.kitsHere = {}
    <2> DEFINE e == [located |-> TRUE, kits |-> Kits, here |-> {}, kitsHere |-> {},
                     contents |-> [k \in Kits |-> {}]]
    <2>1. e \in Inventories /\ e.located /\ e.kits = Kits /\ e.here = {} /\ e.kitsHere = {}
      BY DEF Inventories
    <2> QED
      BY <2>1, Zenon DEF Placements
  <1>3. (CHOOSE d \in Placements : d.here = {} /\ d.kitsHere = {}) \in Placements
    BY <1>2, Zenon
  <1>4. /\ \E d \in Placements, s \in Scopes, w \in [Things -> Worths] : Requested(d, s, w)
        /\ edits \in 0..MaxEdits /\ faults \in 0..MaxErrors
    <2>1. AskReport
      BY DEF StoresInit
    <2>2. CASE part = "money"
      BY <2>1, <2>2, ReportsAssumption DEF AskReport, Things
    <2>3. CASE part = "report"
      BY <1>1, <2>1, <2>3, ReportsAssumption DEF AskReport
    <2>4. CASE part \notin {"money", "report"}
      BY <1>1, <1>3, <2>1, <2>4, ReportsAssumption DEF AskReport
    <2> QED
      BY <2>2, <2>3, <2>4
  <1>5. OutcomeInv
    BY <1>4 DEF Requested, OutcomeInv, OutcomeIsTrue, StoredBy, Nothing
  <1> QED
    BY <1>4, <1>5, RequestIsTyped

LEMMA SchemaIsInOrder == StoresInit => InOrderInv
  <1> SUFFICES ASSUME StoresInit, MigratedTo(Count, "serving", Count) PROVE InOrderInv
    BY InOrderInitial DEF StoresInit
  <1> USE MigrationsAssumption DEF MigratedTo
  <1>1. MigrationsTypeOK
    <2>1. Count \in Scripts /\ Count \in 0..Count /\ MaxFailures \in 0..MaxFailures
      BY DEF Scripts
    <2>2. pc \in [Processes -> Points] /\ at \in [Processes -> Scripts]
      BY <2>1, Zenon DEF Points
    <2>3. executed = Scripts /\ recorded = Scripts
      BY DEF Scripts
    <2> QED
      BY <2>1, <2>2, <2>3 DEF MigrationsTypeOK
  <1>2. Count \in 0..Count /\ UpTo(Count)
    BY DEF UpTo
  <1>3. PassedRecorded /\ ExecutedBeforeRecord /\ ServesRecorded
    BY DEF PassedRecorded, ExecutedBeforeRecord, ServesRecorded, Migrates, Scripts
  <1> QED
    BY <1>1, <1>2, <1>3 DEF InOrderInv

(* What is stored behaves as the module of each part says, whatever the    *)
(* others do.                                                              *)
THEOREM EachPartIsItsModule ==
    /\ StoresSpec => ArchivesSpec
    /\ StoresSpec /\ part = "schema" => MigrationsSpec
    /\ StoresSpec /\ part = "report" => ReportsSpec
  <1>1. StoresInit => /\ ArchivesInit
                      /\ part = "schema" => MigrationsInit
                      /\ part = "report" => ReportsInit
    <2>1. ASSUME StoresInit, part = "report" PROVE ReportsInit
      <3>1. Unvalued \in [Items \cup Kits -> Worths]
        BY ReportsAssumption DEF Unvalued
      <3> QED
        BY <2>1, <3>1 DEF StoresInit, AskReport, ReportsInit
    <2> QED
      BY <2>1 DEF StoresInit
  <1> QED
    BY <1>1, EachPartSteps, PTL DEF StoresSpec, ArchivesSpec, MigrationsSpec, ReportsSpec

(* The values of the variables of archives, migrations and reports.        *)
THEOREM StoresAreTyped == StoresSpec => []StoresTypeOK
  <1>1. StoresInit => InOrderInv /\ ScopeInv
    BY AskedAsItMay, SchemaIsInOrder
  <1>2. InOrderInv /\ ScopeInv /\ [StoresNext]_storesVars => InOrderInv' /\ ScopeInv'
    BY EachPartSteps, InOrderStep, ScopeStep
  <1>3. InOrderInv /\ ScopeInv /\ ArchivesTypeOK => StoresTypeOK
    BY DEF InOrderInv, ScopeInv, StoresTypeOK
  <1> QED
    BY <1>1, <1>2, <1>3, EachPartIsItsModule, TypeCorrect, PTL DEF StoresSpec

(* What the modules promise of archives, of the schema and of reports, of  *)
(* all of them together; retention as ABackupSurvives has it.              *)
THEOREM StoresKeepTheirPromises ==
    ASSUME Quick = FALSE
    PROVE  StoresSpec => [](/\ SomeBackupSurvives /\ PhotosHaveObjects
                            /\ MigratedInOrder
                            /\ ReportCountsScope /\ OutcomeIsTrue)
  <1>1. StoresInit => InOrderInv /\ ScopeInv /\ OutcomeInv
    BY AskedAsItMay, SchemaIsInOrder
  <1>2. InOrderInv /\ ScopeInv /\ OutcomeInv /\ [StoresNext]_storesVars
            => InOrderInv' /\ ScopeInv' /\ OutcomeInv'
    BY EachPartSteps, InOrderStep, ScopeStep, OutcomeStep
  <1>3. InOrderInv /\ ScopeInv /\ OutcomeInv
            => MigratedInOrder /\ ReportCountsScope /\ OutcomeIsTrue
    BY InOrderMeans, ScopeCovered, TotalsCarried DEF ReportCountsScope, OutcomeInv
  <1>4. StoresSpec => []SomeBackupSurvives /\ []PhotosHaveObjects
    BY EachPartIsItsModule, ABackupSurvives, PhotosKeepObjects, PTL
  <1> QED
    BY <1>1, <1>2, <1>3, <1>4, PTL DEF StoresSpec
=============================================================================
