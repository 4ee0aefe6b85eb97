------------------------------- MODULE Stores -------------------------------
(***************************************************************************)
(* What the system stores: the archives of backups and the photos in them, *)
(* the schema, documentation reports.  They meet only in restores, of      *)
(* which each module has the part that concerns it: a behaviour is about   *)
(* one of Parts, and the others stay as they are.                          *)
(***************************************************************************)
EXTENDS Archives, Migrations, Reports

CONSTANT Parts

VARIABLE part

storesVars == <<part, archivesVars, migrationsVars, reportsVars>>

Unvalued == [x \in Items \cup Kits |-> None]

(* The values of things with nothing going wrong, or no values and what    *)
(* may go wrong.                                                           *)
AskReport ==
    CASE part = "money" ->
           /\ \E d \in Placements, s \in Scopes, w \in [Items \cup Kits -> Worths] : Requested(d, s, w)
           /\ edits = MaxEdits /\ faults = MaxErrors
      [] part = "report" ->
           /\ \E d \in Placements, s \in Scopes : Requested(d, s, Unvalued)
           /\ edits = 0 /\ faults = 0
      [] OTHER ->
           /\ Requested(CHOOSE d \in Placements : d.here = {} /\ d.kitsHere = {}, Location, Unvalued)
           /\ edits = 0 /\ faults = 0

StoresInit ==
    /\ part \in Parts
    /\ ArchivesInit
    /\ IF part = "schema" THEN MigrationsInit ELSE MigratedTo(Count, "serving", Count)
    /\ AskReport

BackupSide == part = "archives" /\ ArchivesNext /\ UNCHANGED <<migrationsVars, reportsVars>>
Schema     == part = "schema" /\ MigrationsNext /\ UNCHANGED <<archivesVars, reportsVars>>
Report     == part \in {"money", "report"} /\ ReportsNext /\ UNCHANGED <<archivesVars, migrationsVars>>

StoresNext == (BackupSide \/ Schema \/ Report) /\ UNCHANGED part

StoresSpec ==
    /\ StoresInit /\ [][StoresNext]_storesVars
    /\ \A p \in Processes : WF_migrationsVars(RunMigrations(p))

(* The type invariants of the three modules.                               *)
StoresTypeOK == ArchivesTypeOK /\ MigrationsTypeOK /\ ReportsTypeOK
=============================================================================
