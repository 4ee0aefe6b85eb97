----------------------------- MODULE Migrations -----------------------------
(***************************************************************************)
(* What a process does before it serves: RunMigrations of                  *)
(* internal/db/db.go, called by cmd/api/main.go, file by file: is it       *)
(* recorded, execute it, record it.  These are statements of their own     *)
(* with no lock around them, so processes that start together interleave,  *)
(* and one that dies between the last two has executed what nothing        *)
(* records.  A process that fails goes down and is started again.          *)
(*                                                                         *)
(* A restore of an archive of an older release brings back the tables of   *)
(* that release, schema_migrations among them, and drops no table that the *)
(* archive does not know (internal/backup/postgres.go).                    *)
(*                                                                         *)
(* Left out: the SQL, of which RepeatsUntil and Own say what matters here; *)
(* the wait for the database; restores that stop half way.                 *)
(***************************************************************************)
EXTENDS Naturals

CONSTANTS
    Processes,
    Count,         \* migrations/*.sql, in the order of their names
    RepeatsUntil,  \* RepeatsUntil[f]: f may be executed again until a later file than this was
    Own,           \* files all of whose effect is a table that no older archive knows
    Releases,      \* how many files the releases had that the database may come from
    MaxFailures    \* bound: failures and restores

VARIABLES
    executed,  \* files whose effect is in the schema
    recorded,  \* schema_migrations
    installed, \* files of the release the database and its archives come from
    pc,        \* pc[p]: down, check, execute, record, serving
    at,        \* at[p]: the file at which p is
    budget,    \* failures and restores to come
    \* history
    cut,       \* a file that cannot be repeated was executed by a process that then failed
    older,     \* an archive of an older release was restored
    crossed,   \* it was while another process migrated
    behind     \* processes that were serving when it was

migrationsVars == <<executed, recorded, installed, pc, at, budget, cut, older, crossed, behind>>

Scripts == 1..Count
Points  == {"down", "check", "execute", "record", "serving"}

ASSUME MigrationsAssumption ==
    /\ Count \in Nat \ {0} /\ MaxFailures \in Nat
    /\ RepeatsUntil \in [Scripts -> Nat] /\ Own \subseteq Scripts /\ Releases \subseteq 0..Count

Repeatable(f) == \A g \in executed : g <= RepeatsUntil[f]
Applies(f)    == f \notin executed \/ Repeatable(f)

Goes(p, point) == pc' = [pc EXCEPT ![p] = point]

(* logger.Fatal: an error of any statement ends the process.               *)
GoesDown(p) == Goes(p, "down") /\ UNCHANGED at

(* The next file, or, after the last one, the rest of main.                *)
GoesOn(p) ==
    \/ at[p] < Count /\ at' = [at EXCEPT ![p] = @ + 1] /\ Goes(p, "check")
    \/ at[p] = Count /\ UNCHANGED at /\ Goes(p, "serving")
-----------------------------------------------------------------------------
(* The process is started; schema_migrations is created if it is missing.  *)
Start(p) ==
    /\ pc[p] = "down"
    /\ Goes(p, "check") /\ at' = [at EXCEPT ![p] = 1]
    /\ UNCHANGED <<executed, recorded, installed, budget, cut, older, crossed, behind>>

(* Mutated: every file is executed again at every start.                   *)
CheckNothing(p) ==
    /\ pc[p] = "check"
    /\ Goes(p, "execute") /\ UNCHANGED at
    /\ UNCHANGED <<executed, recorded, installed, budget, cut, older, crossed, behind>>

(* A recorded file is skipped.                                             *)
Check(p) ==
    /\ pc[p] = "check"
    /\ \/ at[p] \in recorded /\ GoesOn(p)
       \/ at[p] \notin recorded /\ Goes(p, "execute") /\ UNCHANGED at
    /\ UNCHANGED <<executed, recorded, installed, budget, cut, older, crossed, behind>>

(* Mutated: an error of a file is logged, and the next one tried.          *)
ExecuteAnyway(p) ==
    /\ pc[p] = "execute"
    /\ \/ /\ Applies(at[p])
          /\ executed' = executed \cup {at[p]}
          /\ Goes(p, "record") /\ UNCHANGED at
       \/ ~Applies(at[p]) /\ GoesOn(p) /\ UNCHANGED executed
    /\ UNCHANGED <<recorded, installed, budget, cut, older, crossed, behind>>

(* The statements of a file are one transaction.                           *)
Execute(p) ==
    /\ pc[p] = "execute"
    /\ \/ /\ Applies(at[p])
          /\ executed' = executed \cup {at[p]}
          /\ Goes(p, "record") /\ UNCHANGED at
       \/ ~Applies(at[p]) /\ GoesDown(p) /\ UNCHANGED executed
    /\ UNCHANGED <<recorded, installed, budget, cut, older, crossed, behind>>

(* The name of the file is the primary key: a second record is an error.   *)
Record(p) ==
    /\ pc[p] = "record"
    /\ \/ at[p] \in recorded /\ GoesDown(p) /\ UNCHANGED recorded
       \/ at[p] \notin recorded /\ GoesOn(p) /\ recorded' = recorded \cup {at[p]}
    /\ UNCHANGED <<executed, installed, budget, cut, older, crossed, behind>>

(* A statement fails or its answer is lost, or the process dies: what it   *)
(* was doing is done or not.                                               *)
Fail(p) ==
    /\ pc[p] # "down" /\ budget > 0
    /\ budget' = budget - 1
    /\ executed' \in {executed} \cup
                     (IF pc[p] = "execute" /\ Applies(at[p]) THEN {executed \cup {at[p]}} ELSE {})
    /\ recorded' \in {recorded} \cup (IF pc[p] = "record" THEN {recorded \cup {at[p]}} ELSE {})
    /\ cut' = (cut \/ (\E f \in executed' \ recorded' :
                          pc[p] \in {"execute", "record"} /\ at[p] = f /\ RepeatsUntil[f] < f))
    /\ GoesDown(p)
    /\ behind' = behind \ {p}
    /\ UNCHANGED <<installed, older, crossed>>

(* A process that serves restores an archive of the older release.         *)
RestoreOlder ==
    /\ \E p \in Processes : pc[p] = "serving"
    /\ budget > 0 /\ budget' = budget - 1
    /\ 0 < installed /\ installed < Count
    /\ executed' = 1..installed \cup (executed \cap Own) /\ recorded' = 1..installed
    /\ older' = TRUE /\ behind' = {p \in Processes : pc[p] = "serving"}
    /\ crossed' = (crossed \/ \E p \in Processes : pc[p] \notin {"down", "serving"})
    /\ UNCHANGED <<installed, pc, at, cut>>
-----------------------------------------------------------------------------
MigratedTo(release, point, file) ==
    /\ installed = release /\ executed = 1..release /\ recorded = 1..release
    /\ pc = [p \in Processes |-> point] /\ at = [p \in Processes |-> file]
    /\ budget = MaxFailures /\ behind = {}
    /\ cut = FALSE /\ older = FALSE /\ crossed = FALSE

MigrationsInit == \E release \in Releases : MigratedTo(release, "down", 1)

RunMigrations(p) == Start(p) \/ Check(p) \/ Execute(p) \/ Record(p)

MigrationsNext == RestoreOlder \/ \E p \in Processes : RunMigrations(p) \/ Fail(p)

(* A process that is down is started again, and one that runs goes on.     *)
MigrationsSpec ==
    /\ MigrationsInit /\ [][MigrationsNext]_migrationsVars
    /\ \A p \in Processes : WF_migrationsVars(RunMigrations(p))
-----------------------------------------------------------------------------
(* A file that every start will try to execute, and fail.                  *)
Stranded(f) ==
    /\ f \in executed \ recorded /\ ~Repeatable(f)
    /\ \A p \in Processes : ~(pc[p] = "record" /\ at[p] = f)

(* The values of the variables.                                            *)
MigrationsTypeOK ==
    /\ {executed, recorded} \subseteq SUBSET Scripts /\ installed \in 0..Count
    /\ pc \in [Processes -> Points] /\ at \in [Processes -> Scripts]
    /\ budget \in 0..MaxFailures /\ {cut, older, crossed} \subseteq BOOLEAN /\ behind \subseteq Processes

(* Whoever starts together with whom and fails where, the files that are   *)
(* recorded are the first ones, each was executed, and of the others at    *)
(* most the next one was (after a restore, the tables it did not drop).    *)
(* Restores that cross a migration are excepted: they take away what it    *)
(* executed before it records it.  And a process serves only a schema of   *)
(* its release, unless an older archive was restored under it.             *)
MigratedInOrder ==
    crossed \/
        /\ \E k \in 0..Count :
              /\ recorded = 1..k /\ 1..k \subseteq executed
              /\ executed \subseteq 1..(k + 1) \cup (IF older THEN Own ELSE {})
        /\ \A p \in Processes \ behind :
              pc[p] = "serving" => executed = Scripts /\ recorded = Scripts

(* In the end every process serves, or none that starts ever will; and     *)
(* that comes only of a failure between the execution of a file and its    *)
(* record or of the restore of an older archive, never of processes that   *)
(* start together.                                                         *)
AllServe ==
    <>[](\/ \A p \in Processes : pc[p] = "serving"
         \/ (cut \/ older) /\ \E f \in Scripts : Stranded(f))
=============================================================================
