---------------------------- MODULE BackupsPage ----------------------------
(***************************************************************************)
(* The page that administers backups (app/settings/backups/page.tsx): the  *)
(* lists it shows, the forms that create and change rows, and the two      *)
(* dialogs that ask for a word before something is lost: DELETE before a   *)
(* row is deleted, RESTORE before a backup replaces the data.              *)
(*                                                                         *)
(* Each dialog that opens gets a number, so that what the server did can   *)
(* be traced to the dialog that asked.  A cancelled dialog keeps its text  *)
(* and does not stop the request it sent.  Requests of the forms are one   *)
(* step; those of the dialogs are sent, answered and followed by the       *)
(* refetch, during which their button stays disabled.                      *)
(*                                                                         *)
(* Left out: tabs (any may be opened at any time), error texts, the other  *)
(* fields of a draft (TargetForm has those of a target), sizes and dates.  *)
(***************************************************************************)
EXTENDS ApiClient, Naturals, FiniteSets

CONSTANTS
    Targets, Schedules,
    Backups,      \* identifiers of archives
    MaxDialogs    \* bound: dialogs opened

ASSUME BackupsPageAssumption ==
    /\ Targets \cap Schedules = {}
    /\ None \notin Targets \cup Schedules \cup (Targets \X Backups)
    /\ MaxDialogs \in Nat

VARIABLES
    live,     \* live[r]: the row at the server
    shown,    \* the cached lists; a deleted row is no longer listed
    runs,     \* completed runs: pairs of a target and an archive
    asked,    \* asked[w]: the request the dialog of word w is open for
    typed,    \* typed[w]: its text is the word
    asking,   \* asking[w]: the number of the dialog last opened
    flight,   \* flight[w]: the request on its way, and the dialog that sent it
    dialogs,  \* dialogs opened
    worded,   \* dialogs whose word the user typed
    obeyed    \* obeyed[n]: requests the server carried out for dialog n

lists       == <<live, shown, runs>>
backupsVars == <<lists, asked, typed, asking, flight, dialogs, worded, obeyed>>

Rows     == Targets \cup Schedules
Statuses == {"absent", "enabled", "disabled", "deleted"}
Words    == {"DELETE", "RESTORE"}
Requests(w) == IF w = "DELETE" THEN Rows ELSE Targets \X Backups
AnyRequest == Rows \cup (Targets \X Backups)

NoFlight == [request |-> None, number |-> 0, stage |-> "idle"]
Flights == [request : AnyRequest \cup {None}, number : 0..MaxDialogs,
            stage : {"idle", "sent", "refetch"}]

Listed(r)  == shown[r] \in {"enabled", "disabled"}
Enabled(t) == shown[t] = "enabled"
(* An id a select may hold: the one chosen, or the first that was listed,  *)
(* which stays chosen when its target is disabled or deleted.              *)
Chosen(t) == t \in Targets /\ shown[t] # "absent"

(* What each table and form of the page offers, and when its button is not *)
(* disabled.                                                               *)
BackupTargetsTable   == {t \in Targets : Listed(t)}
BackupSchedulesTable == {r \in Schedules : Listed(r)}
BackupRunsTable      == {run \in runs : Listed(run[1])}
ScheduleForm(t) == Chosen(t) /\ \E e \in Targets : Enabled(e)
HistoryTab(t)   == Chosen(t) /\ BackupTargetsTable # {}
RestoreTab(t)   == Chosen(t) /\ BackupTargetsTable # {}

(* invalidateBackups: each query is refetched, or fails and keeps its data.*)
InvalidateBackups(after) == shown' \in {after, shown}
-----------------------------------------------------------------------------
(* The lists and the forms.                                                *)

Reload ==
    /\ shown' = live
    /\ UNCHANGED <<live, runs, asked, typed, asking, flight, dialogs, worded, obeyed>>

(* Another administrator changes a row.                                    *)
Elsewhere ==
    /\ \E r \in Rows, s \in Statuses \ {"absent"} :
        /\ live[r] # "deleted" /\ (live[r] = "absent" => s # "deleted")
        /\ live' = [live EXCEPT ![r] = s]
    /\ UNCHANGED <<shown, runs, asked, typed, asking, flight, dialogs, worded, obeyed>>

Write(r, s) ==
    /\ live' = [live EXCEPT ![r] = s]
    /\ InvalidateBackups(live')
    /\ UNCHANGED <<runs, asked, typed, asking, flight, dialogs, worded, obeyed>>

CreateTarget ==
    \E t \in Targets, s \in {"enabled", "disabled"} : live[t] = "absent" /\ Write(t, s)

(* The server wants a target that is not deleted.                          *)
CreateSchedule ==
    \E r \in Schedules, s \in {"enabled", "disabled"}, t \in Targets :
        /\ ScheduleForm(t) /\ live[t] \in {"enabled", "disabled"}
        /\ live[r] = "absent" /\ Write(r, s)

UpdateTarget ==
    \E t \in BackupTargetsTable, s \in {"enabled", "disabled"} :
        live[t] \in {"enabled", "disabled"} /\ Write(t, s)

UpdateSchedule ==
    \E r \in BackupSchedulesTable, s \in {"enabled", "disabled"}, t \in Targets :
        /\ live[r] \in {"enabled", "disabled"}
        /\ ScheduleForm(t) /\ live[t] \in {"enabled", "disabled"}
        /\ Write(r, s)

(* submitManualBackup; the run is taken to complete.                       *)
ManualBackup ==
    /\ \E t \in Targets, b \in Backups :
        /\ HistoryTab(t) /\ live[t] = "enabled"
        /\ runs' = runs \cup {<<t, b>>}
    /\ InvalidateBackups(live)
    /\ UNCHANGED <<live, asked, typed, asking, flight, dialogs, worded, obeyed>>
-----------------------------------------------------------------------------
(* The dialogs.                                                            *)

NoDialog == \A w \in Words : asked[w] = None

(* Mutated: the text of the dialog before is kept.                         *)
AskKeepingText(w, request) ==
    /\ dialogs < MaxDialogs
    /\ asked' = [asked EXCEPT ![w] = request]
    /\ dialogs' = dialogs + 1
    /\ asking' = [asking EXCEPT ![w] = dialogs + 1]
    /\ UNCHANGED <<lists, typed, flight, worded, obeyed>>

Ask(w, request) ==
    /\ dialogs < MaxDialogs
    /\ asked' = [asked EXCEPT ![w] = request]
    /\ typed' = [typed EXCEPT ![w] = FALSE]
    /\ dialogs' = dialogs + 1
    /\ asking' = [asking EXCEPT ![w] = dialogs + 1]
    /\ UNCHANGED <<lists, flight, worded, obeyed>>

(* From a run in the history or among the completed backups.               *)
OpenRestoreFromRun ==
    /\ NoDialog
    /\ \E run \in BackupRunsTable : Ask("RESTORE", run)

(* From the form, with an identifier typed by hand.                        *)
SubmitManualRestore ==
    /\ NoDialog
    /\ \E t \in Targets, b \in Backups : RestoreTab(t) /\ Ask("RESTORE", <<t, b>>)

OpenDelete ==
    /\ NoDialog
    /\ \E r \in BackupTargetsTable \cup BackupSchedulesTable : Ask("DELETE", r)

Type ==
    /\ \E w \in Words :
        /\ asked[w] # None
        /\ typed' = [typed EXCEPT ![w] = ~@]
        /\ worded' = IF typed'[w] THEN worded \cup {asking[w]} ELSE worded
    /\ UNCHANGED <<lists, asked, asking, flight, dialogs, obeyed>>

Cancel ==
    /\ \E w \in Words : asked[w] # None /\ asked' = [asked EXCEPT ![w] = None]
    /\ UNCHANGED <<lists, typed, asking, flight, dialogs, worded, obeyed>>

Confirm ==
    /\ \E w \in Words :
        /\ asked[w] # None /\ typed[w] /\ flight[w].stage = "idle"
        /\ flight' = [flight EXCEPT ![w] = [request |-> asked[w], number |-> asking[w],
                                            stage |-> "sent"]]
    /\ UNCHANGED <<lists, asked, typed, asking, dialogs, worded, obeyed>>

(* What the server does with a request it carries out.                     *)
Carry(w, request) ==
    IF w = "RESTORE"
    THEN live[request[1]] \in {"enabled", "disabled"} /\ UNCHANGED live
    ELSE /\ live[request] \in {"enabled", "disabled"}
         /\ live' = [live EXCEPT ![request] = "deleted"]

(* onSuccess closes the dialog that is open, onError leaves it.            *)
AnswerDialog ==
    /\ \E w \in Words, o \in Outcomes("dialog") :
        /\ flight[w].stage = "sent"
        /\ IF o.applied
           THEN /\ Carry(w, flight[w].request)
                /\ obeyed' = [obeyed EXCEPT ![flight[w].number] = IF @ < 2 THEN @ + 1 ELSE 2]
           ELSE UNCHANGED <<live, obeyed>>
        /\ IF o.heard
           THEN /\ flight' = [flight EXCEPT ![w] = [flight[w] EXCEPT !.stage = "refetch"]]
                /\ asked' = [asked EXCEPT ![w] = None]
                /\ typed' = [typed EXCEPT ![w] = FALSE]
           ELSE /\ flight' = [flight EXCEPT ![w] = NoFlight]
                /\ UNCHANGED <<asked, typed>>
    /\ UNCHANGED <<shown, runs, asking, dialogs, worded>>

DialogRefetched ==
    /\ \E w \in Words :
        /\ flight[w].stage = "refetch"
        /\ flight' = [flight EXCEPT ![w] = NoFlight]
    /\ InvalidateBackups(live)
    /\ UNCHANGED <<live, runs, asked, typed, asking, dialogs, worded, obeyed>>
-----------------------------------------------------------------------------
BackupsInit ==
    /\ live = [r \in Rows |-> "absent"] /\ shown = live /\ runs = {}
    /\ asked = [w \in Words |-> None] /\ typed = [w \in Words |-> FALSE]
    /\ asking = [w \in Words |-> 0] /\ flight = [w \in Words |-> NoFlight]
    /\ dialogs = 0 /\ worded = {} /\ obeyed = [n \in 1..MaxDialogs |-> 0]

BackupsNext ==
    \/ Reload \/ Elsewhere \/ CreateTarget \/ CreateSchedule \/ UpdateTarget
    \/ UpdateSchedule \/ ManualBackup \/ OpenRestoreFromRun \/ SubmitManualRestore
    \/ OpenDelete \/ Type \/ Cancel \/ Confirm \/ AnswerDialog \/ DialogRefetched

BackupsSpec == BackupsInit /\ [][BackupsNext]_backupsVars
-----------------------------------------------------------------------------
(* The values of the variables.                                            *)
BackupsTypeOK ==
    /\ live \in [Rows -> Statuses] /\ shown \in [Rows -> Statuses]
    /\ runs \subseteq Targets \X Backups
    /\ asked \in [Words -> AnyRequest \cup {None}] /\ flight \in [Words -> Flights]
    /\ \A w \in Words : {asked[w], flight[w].request} \subseteq Requests(w) \cup {None}
    /\ typed \in [Words -> BOOLEAN] /\ asking \in [Words -> 0..MaxDialogs]
    /\ dialogs \in 0..MaxDialogs /\ worded \subseteq 1..MaxDialogs
    /\ obeyed \in [1..MaxDialogs -> 0..2]

(* A row is deleted, or a restore started, only for a dialog in which the  *)
(* user typed the word, and once for each: a text left behind by a         *)
(* cancelled dialog confirms nothing, and neither does an answer on its    *)
(* way.                                                                    *)
ConfirmedOnce ==
    \A n \in 1..MaxDialogs : obeyed[n] <= (IF n \in worded THEN 1 ELSE 0)
=============================================================================
