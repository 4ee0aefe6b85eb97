---------------------------- MODULE ReportsPage ----------------------------
(***************************************************************************)
(* The page that makes transport documents (app/documentation/page.tsx):   *)
(* a form whose scope is one location or some containers, the dialog that  *)
(* picks containers (container-report-picker-dialog.tsx), and the history. *)
(*                                                                         *)
(* Reports are numbered in the order in which the form was submitted.  A   *)
(* report that takes longer than the ten seconds of `request' is made      *)
(* although the page shows an error, and can be found in the history.      *)
(*                                                                         *)
(* Left out: the texts of the summary but for being complete, the format,  *)
(* what a report contains, the filters of the dialog (what they keep is    *)
(* chosen freely), errors of a download.                                   *)
(***************************************************************************)
EXTENDS ApiClient, Naturals

CONSTANTS
    Sites, Boxes,   \* locations, containers
    MaxReports      \* bound: submissions

VARIABLES
    scope,     \* the form: type, site, boxes
    picker,    \* the draft of the dialog, None while it is closed
    complete,  \* every required field of the summary is filled in
    sent,      \* submissions whose answer is awaited
    count,     \* submissions
    ready,     \* latestReport: a submission, or None
    made,      \* made[n]: the scope of report n, None before it exists
    history,   \* the cached list of reports
    fetching,  \* reports being downloaded
    spinner    \* downloadId

reportsVars == <<scope, picker, complete, sent, count, ready, made, history, fetching, spinner>>

ScopeTypes == {"location", "containers"}
Scopes == [type : ScopeTypes, site : Sites \cup {None}, boxes : SUBSET Boxes]
Numbers == 1..MaxReports

scopeMissing == IF scope.type = "location" THEN scope.site = None ELSE scope.boxes = {}
(* A scope as the server takes it, of the one type or the other.           *)
Scoped(s) == IF s.type = "location" THEN <<"location", s.site>> ELSE <<"containers", s.boxes>>
Wanted == ({"location"} \X Sites) \cup ({"containers"} \X ((SUBSET Boxes) \ {{}}))

ASSUME ReportsPageAssumption == MaxReports \in Nat /\ None \notin Sites \cup Nat \cup Wanted
-----------------------------------------------------------------------------
EditReportForm ==
    /\ picker = None
    /\ \/ \E t \in ScopeTypes : scope' = [scope EXCEPT !.type = t]
       \/ scope.type = "location" /\ \E s \in Sites \cup {None} : scope' = [scope EXCEPT !.site = s]
    /\ complete' \in BOOLEAN
    /\ UNCHANGED <<picker, sent, count, ready, made, history, fetching, spinner>>

OpenPicker ==
    /\ picker = None /\ scope.type = "containers"
    /\ picker' = scope.boxes
    /\ UNCHANGED <<scope, complete, sent, count, ready, made, history, fetching, spinner>>

(* A container, every container the filters keep, or none.                 *)
PickBoxes ==
    /\ picker # None
    /\ \/ \E b \in Boxes : picker' = (picker \ {b}) \cup ({b} \ picker)
       \/ \E filtered \in SUBSET Boxes : picker' = picker \cup filtered
       \/ picker' = {}
    /\ UNCHANGED <<scope, complete, sent, count, ready, made, history, fetching, spinner>>

ConfirmPicker ==
    /\ picker # None
    /\ scope' = [scope EXCEPT !.boxes = picker] /\ picker' = None
    /\ UNCHANGED <<complete, sent, count, ready, made, history, fetching, spinner>>

CancelPicker ==
    /\ picker # None
    /\ picker' = None
    /\ UNCHANGED <<scope, complete, sent, count, ready, made, history, fetching, spinner>>

(* Mutated: the button is not disabled while a report is being made.       *)
SubmitAgain ==
    /\ picker = None /\ ~scopeMissing
    /\ ready' = None
    /\ IF complete /\ count < MaxReports
       THEN count' = count + 1 /\ sent' = sent \cup {<<count + 1, Scoped(scope)>>}
       ELSE UNCHANGED <<count, sent>>
    /\ UNCHANGED <<scope, picker, complete, made, history, fetching, spinner>>

(* What was made before is no longer shown, also if the form is refused.   *)
SubmitReport ==
    /\ picker = None /\ ~scopeMissing /\ sent = {}
    /\ ready' = None
    /\ IF complete /\ count < MaxReports
       THEN count' = count + 1 /\ sent' = sent \cup {<<count + 1, Scoped(scope)>>}
       ELSE UNCHANGED <<count, sent>>
    /\ UNCHANGED <<scope, picker, complete, made, history, fetching, spinner>>

(* onSuccess empties the scope, and an open dialog starts over with it.    *)
AnswerReport ==
    /\ \E s \in sent, o \in Outcomes("report") :
        /\ sent' = sent \ {s}
        /\ made' = IF o.applied THEN [made EXCEPT ![s[1]] = s[2]] ELSE made
        /\ IF o.heard
           THEN /\ ready' = s[1]
                /\ scope' = [scope EXCEPT !.site = None, !.boxes = {}]
                /\ picker' = IF picker # None /\ scope.boxes # {} THEN {} ELSE picker
           ELSE UNCHANGED <<ready, scope, picker>>
        /\ history' \in IF o.heard THEN {history \cup {n \in Numbers : made'[n] # None}, history}
                                   ELSE {history}
    /\ UNCHANGED <<complete, count, fetching, spinner>>

ReloadHistory ==
    /\ history' = {n \in Numbers : made[n] # None}
    /\ UNCHANGED <<scope, picker, complete, sent, count, ready, made, fetching, spinner>>

(* Only the button of the report asked last is disabled.                   *)
DownloadReport ==
    /\ picker = None
    /\ \E n \in history \cup ({ready} \ {None}) :
        /\ n # spinner
        /\ fetching' = fetching \cup {n} /\ spinner' = n
    /\ UNCHANGED <<scope, picker, complete, sent, count, ready, made, history>>

DownloadEnds ==
    /\ \E n \in fetching : fetching' = fetching \ {n}
    /\ spinner' = None
    /\ UNCHANGED <<scope, picker, complete, sent, count, ready, made, history>>
-----------------------------------------------------------------------------
ReportsInit ==
    /\ scope = [type |-> "location", site |-> None, boxes |-> {}]
    /\ picker = None /\ complete = FALSE /\ sent = {} /\ count = 0 /\ ready = None
    /\ made = [n \in Numbers |-> None] /\ history = {} /\ fetching = {} /\ spinner = None

ReportsNext ==
    \/ EditReportForm \/ OpenPicker \/ PickBoxes \/ ConfirmPicker \/ CancelPicker
    \/ SubmitReport \/ AnswerReport \/ ReloadHistory \/ DownloadReport \/ DownloadEnds

ReportsSpec == ReportsInit /\ [][ReportsNext]_reportsVars
-----------------------------------------------------------------------------
(* The values of the variables.                                            *)
ReportsTypeOK ==
    /\ scope \in Scopes /\ picker \in (SUBSET Boxes) \cup {None} /\ complete \in BOOLEAN
    /\ sent \subseteq Numbers \X Wanted /\ count \in 0..MaxReports
    /\ ready \in Numbers \cup {None} /\ made \in [Numbers -> Wanted \cup {None}]
    /\ history \subseteq Numbers /\ fetching \subseteq Numbers /\ spinner \in Numbers \cup {None}

(* The report offered as ready is the one submitted last, never one that   *)
(* was asked for before the form was changed and submitted again.          *)
ReadyIsLatest == ready # None => ready = count /\ made[ready] # None
=============================================================================
