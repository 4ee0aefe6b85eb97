------------------------------ MODULE Reports ------------------------------
(***************************************************************************)
(* One documentation report: Create, List and Open of                      *)
(* internal/documentation/service.go.  The scope, a location or some kits, *)
(* is read by several statements of one repeatable-read transaction        *)
(* (internal/repository/documentation_repo.go) while other requests edit   *)
(* the inventory; PrepareReport makes rows and totals of what was read;    *)
(* a file is rendered beside its place and renamed (storage.go), and then  *)
(* a row of documentation_reports points to it.  Statements, files and the *)
(* process may fail at each step.                                          *)
(*                                                                         *)
(* Reports share nothing but the directory, in which each has a name of    *)
(* its own, so one is enough.  Left out: labels and all other text, weight *)
(* and volume, which are summed without a condition; the rounding to minor *)
(* units; the limit of List; restores, which replace the rows of reports.  *)
(***************************************************************************)
EXTENDS Naturals, Sequences, FiniteSets, FiniteSetsExt, SequencesExt

CONSTANTS
    Items,
    KitOrder,    \* the kits, in the order of their package identifiers
    Currencies,
    Location,    \* the scope that is a location
    None,        \* no value and no currency; no kit
    Worths,      \* the currencies, or None, that items and kits are valued in
    Amount,      \* Amount[x]: the value of x in minor units, when it has one
    MaxEdits,    \* bound: edits by other requests while the scope is read
    MaxErrors    \* bound: statements and file operations that fail

Kits == ToSet(KitOrder)

VARIABLES
    db,        \* the inventory, as committed
    worth,     \* worth[x]: the currency in which x has a value, or None
    scope,     \* what the report is asked for: Location, or some kits
    snapshot,  \* what the statements of the transaction see
    step,      \* the step of Create
    found,     \* the scope as read so far: kits, the items of each, loose items
    report,    \* what PrepareReport returned
    temp, file,\* the temporary file and the published one: none, part, whole
    row,       \* there is a row in documentation_reports
    answer,    \* none, created, notFound, failed
    edits, faults,
    \* history
    stayed,    \* items that were in the scope ever since the request began
    ever,      \* items that were in it once since then
    unsure,    \* the insertion was done and its answer lost
    stuck      \* a file could not be removed

asked       == <<worth, scope>>
store       == <<temp, file, row, unsure, stuck>>
history     == <<stayed, ever>>
reportsVars == <<db, asked, snapshot, step, found, report, store, answer, edits, faults, history>>

(* located: the location exists; kits: those that exist; here, kitsHere:   *)
(* what is assigned to it; contents[k]: the items of kit k.                *)
Inventories == [located : BOOLEAN, kits : SUBSET Kits, here : SUBSET Items,
                kitsHere : SUBSET Kits, contents : [Kits -> SUBSET Items]]
Sound(d) ==
    /\ d.kitsHere \subseteq d.kits
    /\ \A k \in Kits \ d.kits : d.contents[k] = {}
    /\ ~d.located => d.here = {} /\ d.kitsHere = {}

Scopes == {Location} \cup ((SUBSET Kits) \ {{}})

NothingFound == [kits |-> {}, items |-> [k \in Kits |-> {}], loose |-> {}]
NoReport     == [seen |-> {}, rows |-> {}, totals |-> [c \in Currencies |-> 0],
                 values |-> [k \in Kits |-> <<None, 0>>]]

(* Items and kits have identifiers of their own.                           *)
ASSUME ReportsAssumption ==
    /\ None \notin Currencies /\ None \in Worths /\ Worths \subseteq Currencies \cup {None}
    /\ KitOrder \in Seq(Kits) /\ IsInjective(KitOrder)
    /\ IsFiniteSet(Items) /\ Items \cap Kits = {}
    /\ None \notin Kits /\ None \notin Inventories
    /\ Amount \in [Items \cup Kits -> Nat]
    /\ MaxEdits \in Nat /\ MaxErrors \in Nat

Contained(d) == UNION {d.contents[k] : k \in Kits}
KitsOf(d)    == IF scope = Location THEN d.kitsHere ELSE d.kits \cap scope
InScope(d) ==
    (UNION {d.contents[k] : k \in KitsOf(d)})
        \cup (IF scope = Location THEN d.here \ Contained(d) ELSE {})

Reading == step \in {"begin", "containers", "items", "loose"}
-----------------------------------------------------------------------------
(* Other requests edit the inventory; one edit is one transaction.  Two    *)
(* additions at once may put an item into two kits (Inventory).            *)

Moved(d, i) == [d EXCEPT !.here = IF i \in @ THEN @ \ {i} ELSE @ \cup {i}]
Packed(d, i, k) == [d EXCEPT !.contents[k] = IF i \in @ THEN @ \ {i} ELSE @ \cup {i}]
KitMoved(d, k) == [d EXCEPT !.kitsHere = IF k \in @ THEN @ \ {k} ELSE @ \cup {k}]

KitDeleted(d, k) ==
    [d EXCEPT !.kits = @ \ {k}, !.kitsHere = @ \ {k}, !.contents[k] = {}]

LocationDeleted(d) == [d EXCEPT !.located = FALSE, !.here = {}, !.kitsHere = {}]

Edit ==
    /\ Reading /\ edits < MaxEdits
    /\ edits' = edits + 1
    /\ db' \in {Packed(db, i, k) : i \in Items, k \in db.kits}
               \cup {KitDeleted(db, k) : k \in db.kits} \cup {LocationDeleted(db)}
               \cup (IF db.located THEN {Moved(db, i) : i \in Items}
                                          \cup {KitMoved(db, k) : k \in db.kits} ELSE {})
    /\ stayed' = stayed \cap InScope(db') /\ ever' = ever \cup InScope(db')
    /\ UNCHANGED <<asked, snapshot, step, found, report, store, answer, faults>>
-----------------------------------------------------------------------------
(* ResolveLocationScope, ResolveContainersScope.                           *)

Answers(a) == step' = "answered" /\ answer' = a

(* Mutated: every statement sees what is committed when it runs.           *)
ReadCommitted == db

(* The first statement takes the snapshot that all of them see.            *)
RepeatableRead == IF snapshot = None THEN db ELSE snapshot

(* getDocumentationLocation.                                               *)
GetLocation ==
    /\ step = "begin" /\ scope = Location
    /\ snapshot' = RepeatableRead
    /\ \/ db.located /\ step' = "containers" /\ UNCHANGED answer
       \/ ~db.located /\ Answers("notFound")
    /\ UNCHANGED <<db, asked, found, report, store, edits, faults, history>>

(* listDocumentationContainers; a kit that was asked for must be there.    *)
ListContainers ==
    /\ step = "containers" \/ (step = "begin" /\ scope # Location)
    /\ LET d == RepeatableRead IN
        /\ snapshot' = d
        /\ found' = [found EXCEPT !.kits = KitsOf(d)]
        /\ \/ scope \in {Location, KitsOf(d)} /\ step' = "items" /\ UNCHANGED answer
           \/ scope \notin {Location, KitsOf(d)} /\ Answers("notFound")
    /\ UNCHANGED <<db, asked, report, store, edits, faults, history>>

Position(k) == CHOOSE n \in DOMAIN KitOrder : KitOrder[n] = k

(* hydrateDocumentationContainers: an item of several kits belongs to the  *)
(* first of them.                                                          *)
HydrateContainers ==
    /\ step = "items"
    /\ LET d == RepeatableRead
           taken(k) == UNION {d.contents[j] : j \in {j \in found.kits : Position(j) < Position(k)}}
       IN  found' = [found EXCEPT !.items =
                        [k \in Kits |-> IF k \in found.kits THEN d.contents[k] \ taken(k) ELSE {}]]
    /\ step' = IF scope = Location THEN "loose" ELSE "render"
    /\ UNCHANGED <<db, asked, snapshot, report, store, answer, edits, faults, history>>

(* listDocumentationLooseItems: here, and in no kit wherever that is.      *)
ListLooseItems ==
    /\ step = "loose"
    /\ LET d == RepeatableRead IN found' = [found EXCEPT !.loose = d.here \ Contained(d)]
    /\ step' = "render"
    /\ UNCHANGED <<db, asked, snapshot, report, store, answer, edits, faults, history>>
-----------------------------------------------------------------------------
(* PrepareReport.                                                          *)

Added(v) == MapThenSumSet(LAMBDA x : v[x], DOMAIN v)

Sum(S, c) == Added([x \in S |-> IF worth[x] = c THEN Amount[x] ELSE 0])

(* A kit adds its own value, or else those of its items by currency; its   *)
(* row shows a sum only of one currency.                                   *)
Package(acc, k) ==
    LET mine == found.items[k] \ acc.seen
        used == {worth[i] : i \in mine} \ {None}
        sums == [c \in Currencies |-> IF worth[k] = None THEN Sum(mine, c) ELSE Sum({k}, c)]
        shown == IF worth[k] # None THEN {worth[k]} ELSE used
    IN  [seen   |-> acc.seen \cup mine,
         rows   |-> acc.rows \cup {<<k, i>> : i \in mine},
         totals |-> [c \in Currencies |-> acc.totals[c] + sums[c]],
         values |-> [acc.values EXCEPT ![k] =
                        IF Cardinality(shown) = 1
                        THEN LET c == CHOOSE c \in shown : TRUE IN <<c, sums[c]>>
                        ELSE <<None, 0>>]]

AddPackage(acc, k) == IF k \in found.kits THEN Package(acc, k) ELSE acc

PrepareReport ==
    LET kits == FoldLeft(AddPackage, NoReport, KitOrder)
        rest == found.loose \ kits.seen
    IN  [seen   |-> kits.seen \cup rest,
         rows   |-> kits.rows \cup {<<None, i>> : i \in rest},
         totals |-> [c \in Currencies |-> kits.totals[c] + Sum(rest, c)],
         values |-> kits.values]
-----------------------------------------------------------------------------
(* FileStore.WriteAtomic, InsertReport and what Create does when they fail.*)

(* Render: into a temporary file; a failure leaves a part of it, which is  *)
(* removed, or not.                                                        *)
Render ==
    /\ step = "render"
    /\ report' = PrepareReport
    /\ step' = "publish" /\ temp' = "whole"
    /\ UNCHANGED <<db, asked, snapshot, found, file, row, unsure, stuck, answer, edits, faults, history>>

RenderFails ==
    /\ step = "render" /\ faults < MaxErrors
    /\ faults' = faults + 1
    /\ temp' \in {"none", "part"} /\ stuck' = (temp' # "none")
    /\ Answers("failed")
    /\ UNCHANGED <<db, asked, snapshot, found, report, file, row, unsure, edits, history>>

(* Sync, close, rename, stat.                                              *)
Publish ==
    /\ step = "publish"
    /\ step' = "insert" /\ temp' = "none" /\ file' = temp
    /\ UNCHANGED <<db, asked, snapshot, found, report, row, unsure, stuck, answer, edits, faults, history>>

(* Before the rename, the temporary file is removed, or not; after it, the *)
(* published one.                                                          *)
PublishFails ==
    /\ step = "publish" /\ faults < MaxErrors
    /\ faults' = faults + 1
    /\ \/ temp' \in {"none", temp} /\ UNCHANGED file
       \/ temp' = "none" /\ file' \in {"none", temp}
    /\ stuck' = (temp' # "none" \/ file' # "none")
    /\ Answers("failed")
    /\ UNCHANGED <<db, asked, snapshot, found, report, row, unsure, edits, history>>

InsertReport ==
    /\ step = "insert"
    /\ row' = TRUE /\ Answers("created")
    /\ UNCHANGED <<db, asked, snapshot, found, report, temp, file, unsure, stuck, edits, faults, history>>

(* Mutated: the error of the insertion is answered, the file forgotten.    *)
InsertFailsOnly ==
    /\ step = "insert" /\ faults < MaxErrors
    /\ faults' = faults + 1
    /\ row' \in BOOLEAN /\ unsure' = row'
    /\ Answers("failed")
    /\ UNCHANGED <<db, asked, snapshot, found, report, temp, file, stuck, edits, history>>

(* An error, of an insertion that was not done or one that was.            *)
InsertFails ==
    /\ step = "insert" /\ faults < MaxErrors
    /\ faults' = faults + 1
    /\ row' \in BOOLEAN /\ unsure' = row'
    /\ step' = "cleanup"
    /\ UNCHANGED <<db, asked, snapshot, found, report, temp, file, stuck, answer, edits, history>>

Cleanup ==
    /\ step = "cleanup"
    /\ file' = "none" /\ Answers("failed")
    /\ UNCHANGED <<db, asked, snapshot, found, report, temp, row, unsure, stuck, edits, faults, history>>

CleanupFails ==
    /\ step = "cleanup" /\ faults < MaxErrors
    /\ faults' = faults + 1
    /\ stuck' = TRUE /\ Answers("failed")
    /\ UNCHANGED <<db, asked, snapshot, found, report, temp, file, row, unsure, edits, history>>

(* An error of a statement of the transaction.                             *)
ResolveFails ==
    /\ Reading /\ faults < MaxErrors
    /\ faults' = faults + 1 /\ Answers("failed")
    /\ UNCHANGED <<db, asked, snapshot, found, report, store, edits, history>>

(* The process dies; while it writes, with a part of the temporary file.   *)
Crash ==
    /\ step # "answered" /\ step # "dead" /\ faults < MaxErrors
    /\ faults' = faults + 1 /\ step' = "dead"
    /\ temp' \in {temp} \cup (IF step = "render" THEN {"part"} ELSE {})
    /\ UNCHANGED <<db, asked, snapshot, found, report, file, row, unsure, stuck, answer, edits, history>>

(* List omits a row whose file is missing, and Open answers not found.     *)
Listed == row /\ file # "none"
-----------------------------------------------------------------------------
Requested(d, s, w) ==
    /\ db = d /\ scope = s /\ worth = w
    /\ snapshot = None /\ step = "begin" /\ found = NothingFound /\ report = NoReport
    /\ temp = "none" /\ file = "none" /\ row = FALSE /\ unsure = FALSE /\ stuck = FALSE
    /\ answer = "none"
    /\ stayed = InScope(db) /\ ever = InScope(db)

(* Any placement of items and kits; kits may hold what others hold.        *)
Placements == {d \in Inventories : d.located /\ d.kits = Kits}

ReportsInit ==
    /\ \E d \in Placements, s \in Scopes, w \in [Items \cup Kits -> Worths] : Requested(d, s, w)
    /\ edits = 0 /\ faults = 0

ReportsNext ==
    \/ Edit
    \/ GetLocation \/ ListContainers \/ HydrateContainers \/ ListLooseItems \/ ResolveFails
    \/ Render \/ RenderFails \/ Publish \/ PublishFails
    \/ InsertReport \/ InsertFails \/ Cleanup \/ CleanupFails \/ Crash

ReportsSpec == ReportsInit /\ [][ReportsNext]_reportsVars
-----------------------------------------------------------------------------
Prepared == report # NoReport /\ step # "dead"

RowsOf(k) == {r[2] : r \in {r \in report.rows : r[1] = k}}

(* The values of the variables.                                            *)
ReportsTypeOK ==
    /\ db \in Inventories /\ Sound(db) /\ snapshot \in Inventories \cup {None}
    /\ scope \in Scopes /\ worth \in [Items \cup Kits -> Worths]
    /\ found \in [kits : SUBSET Kits, items : [Kits -> SUBSET Items], loose : SUBSET Items]
    /\ report.rows \subseteq (Kits \cup {None}) \X Items /\ report.seen \subseteq Items
    /\ {temp, file} \subseteq {"none", "part", "whole"} /\ {row, unsure, stuck} \subseteq BOOLEAN
    /\ answer \in {"none", "created", "notFound", "failed"}
    /\ edits \in 0..MaxEdits /\ faults \in 0..MaxErrors
    /\ {stayed, ever} \subseteq SUBSET Items

(* A report has one row for each item that was in its scope all the time,  *)
(* also for one that was moved within it while the statements ran, and     *)
(* none for an item that never was.                                        *)
CoversScope ==
    answer = "created" =>
        /\ \A i \in stayed : Cardinality({r \in report.rows : r[2] = i}) = 1
        /\ \A i \in Items : Cardinality({r \in report.rows : r[2] = i}) <= 1
        /\ \A r \in report.rows : r[2] \in ever

(* What gives the scope its value: kits with one of their own, and items   *)
(* that are in none of these, where a kit has what no kit before it has.   *)
Carriers(d) ==
    LET first(i) == {k \in KitsOf(d) : i \in d.contents[k]
                        /\ \A j \in KitsOf(d) : i \in d.contents[j] => Position(k) <= Position(j)}
    IN  {k \in KitsOf(d) : worth[k] # None}
            \cup {i \in InScope(d) : \A k \in first(i) : worth[k] = None}

(* The totals are the values of the carriers, each counted once, by        *)
(* currency; and they are what a reader adds up from the rows, unless a    *)
(* package of several currencies shows none.                               *)
TotalsAddUp ==
    Prepared => \A c \in Currencies :
        /\ report.totals[c] = Sum(Carriers(snapshot), c)
        /\ (\A k \in found.kits : RowsOf(k) # {} => report.values[k][1] # None) =>
              report.totals[c] = Sum(RowsOf(None), c) +
                  Added([k \in Kits |->
                            IF report.values[k][1] = c THEN report.values[k][2] ELSE 0])

(* What a report says is its scope, and the value of that.                 *)
ReportCountsScope == CoversScope /\ TotalsAddUp

(* A report that was created is listed.  A request that failed left        *)
(* nothing behind, and what is listed no one was told had failed, but for  *)
(* an answer that was lost or a file that could not be removed.  Under the *)
(* published name there is never a part of a file.                         *)
OutcomeIsTrue ==
    /\ row => file = "whole" \/ unsure
    /\ file # "part"
    /\ answer = "created" => Listed
    /\ answer \in {"failed", "notFound"} =>
          (unsure \/ ~row) /\ (stuck \/ (file = "none" /\ temp = "none"))
    /\ answer \in {"failed", "notFound"} /\ Listed => unsure /\ stuck
=============================================================================
