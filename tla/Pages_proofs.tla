---------------------------- MODULE Pages_proofs ----------------------------
(***************************************************************************)
(* Proofs about the pages that list items, fill a kit, make reports, scan  *)
(* codes, edit a record, and administer backups and their targets.  Each   *)
(* section is about one page and its specification.                        *)
(***************************************************************************)
EXTENDS ItemsPage, KitPage, ReportsPage, ScanPage, EditRecord, BackupsPage, TargetForm,
        FiniteSetTheorems, TLAPS

-----------------------------------------------------------------------------
(* The list of items.                                                      *)

(* What a dialog named and the answers said is gone is gone, and what the  *)
(* user insists on is selected or gone.                                    *)
ItemsInv ==
    /\ ItemsTypeOK
    /\ insisted \subseteq ticked \cup removed
    /\ deleting # None /\ deleting.stage = "refetch" => deleting.deleted \cap kept = {}

LEMMA RowsCounted == Cardinality(PageRows) \in Nat \/ ~ItemsTypeOK
  <1> SUFFICES ASSUME ItemsTypeOK PROVE Cardinality(PageRows) \in Nat
    OBVIOUS
  <1>1. IsFiniteSet(AllItems)
    BY FS_Interval, ItemsPageAssumption DEF AllItems
  <1>2. PageRows \in SUBSET AllItems
    BY DEF PageRows, FilteredRows, ItemsTypeOK
  <1> QED
    BY <1>1, <1>2, FS_Subset, FS_CardinalityType

LEMMA ItemsInitial == ItemsInit => ItemsInv
  BY DEF ItemsInit, ItemsInv, ItemsTypeOK

LEMMA ConfirmKeeps ==
    ASSUME ItemsInv, ConfirmDeleteItems
    PROVE  ItemsInv'
  <1> USE DEF ItemsInv
  <1>1. doomed \in SUBSET AllItems /\ page \in Nat /\ ticked \in SUBSET AllItems
    BY DEF ConfirmDeleteItems, ItemsTypeOK
  <1>2. deleting' = [ids |-> doomed, deleted |-> {}, page |-> page,
                     rows |-> Cardinality(PageRows), stage |-> "sent"]
    BY DEF ConfirmDeleteItems
  <1>3. deleting' \in Deletions /\ deleting'.stage = "sent"
    BY <1>1, <1>2, RowsCounted DEF Deletions
  <1>4. insisted' = insisted \cup (doomed \cap ticked) /\ notice' = "none"
    BY DEF ConfirmDeleteItems
  <1>5. UNCHANGED <<kept, listed, matching, page, ticked, doomed, removed>>
    BY DEF ConfirmDeleteItems
  <1> QED
    BY <1>1, <1>3, <1>4, <1>5 DEF ItemsTypeOK

LEMMA DeletionAnswered ==
    ASSUME ItemsInv, AnswerDeleteItems
    PROVE  ItemsInv'
  <1> USE DEF ItemsInv
  <1>1. PICK applied \in SUBSET (deleting.ids \cap kept) :
        \E heard \in IF "delete" \in Unanswered THEN SUBSET applied ELSE {applied} :
            /\ kept' = kept \ applied
            /\ removed' = removed \cup applied
            /\ ticked' = ticked \ heard
            /\ deleting' = [deleting EXCEPT !.deleted = heard, !.stage = "refetch"]
    BY Zenon DEF AnswerDeleteItems
  <1>2. PICK heard \in IF "delete" \in Unanswered THEN SUBSET applied ELSE {applied} :
            /\ kept' = kept \ applied
            /\ removed' = removed \cup applied
            /\ ticked' = ticked \ heard
            /\ deleting' = [deleting EXCEPT !.deleted = heard, !.stage = "refetch"]
    BY <1>1
  <1>3. heard \subseteq applied
    OBVIOUS
  <1>4. deleting # None /\ deleting \in Deletions
    BY DEF AnswerDeleteItems, ItemsTypeOK
  <1>5. applied \subseteq AllItems
    BY <1>4 DEF Deletions
  <1>6. deleting' \in Deletions /\ deleting'.deleted = heard
    BY <1>2, <1>3, <1>4, <1>5 DEF Deletions
  <1>7. UNCHANGED <<listed, matching, page, doomed, notice, insisted>>
    BY DEF AnswerDeleteItems
  <1>8. insisted' \subseteq ticked' \cup removed' /\ heard \cap kept' = {}
    BY <1>2, <1>3, <1>7
  <1> QED
    BY <1>2, <1>5, <1>6, <1>7, <1>8 DEF ItemsTypeOK

LEMMA DeletedKeeps ==
    ASSUME ItemsInv, ItemsDeleted
    PROVE  ItemsInv'
  <1> USE DEF ItemsInv
  <1>1. page' \in Nat
    BY DEF ItemsDeleted, PageAfter, ItemsTypeOK
  <1>2. listed' \subseteq AllItems /\ doomed' \in (SUBSET AllItems) \cup {None}
    BY DEF ItemsDeleted, ItemsTypeOK
  <1>3. notice' \in {"none", "error", "partial"}
    BY DEF ItemsDeleted, ItemsTypeOK
  <1>4. deleting' = None /\ UNCHANGED <<kept, matching, ticked, insisted, removed>>
    BY DEF ItemsDeleted
  <1> QED
    BY <1>1, <1>2, <1>3, <1>4 DEF ItemsTypeOK

LEMMA ItemsStep ==
    ASSUME ItemsInv, [ItemsNext]_itemsVars
    PROVE  ItemsInv'
  <1> USE DEF ItemsInv, ItemsTypeOK
  <1>1. ASSUME ItemsElsewhere \/ ItemsReload \/ FilterItems PROVE ItemsInv'
    BY <1>1 DEF ItemsElsewhere, ItemsReload, FilterItems
  <1>2. ASSUME TurnPage PROVE ItemsInv'
    <2>1. page' \in Nat
      BY <1>2 DEF TurnPage
    <2> QED
      BY <1>2, <2>1 DEF TurnPage
  <1>3. ASSUME TickItems PROVE ItemsInv'
    <2>1. PageRows \subseteq AllItems /\ FilteredRows \subseteq AllItems
      BY DEF PageRows, FilteredRows
    <2>2. ticked' \subseteq AllItems
      BY <1>3, <2>1 DEF TickItems
    <2> QED
      BY <1>3, <2>2 DEF TickItems
  <1>4. ASSUME ClearTicked PROVE ItemsInv'
    BY <1>4 DEF ClearTicked
  <1>5. ASSUME OpenDeleteItems PROVE ItemsInv'
    <2>1. PageRows \subseteq AllItems
      BY DEF PageRows, FilteredRows
    <2>2. doomed' \in SUBSET AllItems
      BY <1>5, <2>1 DEF OpenDeleteItems
    <2> QED
      BY <1>5, <2>2 DEF OpenDeleteItems
  <1>6. ASSUME CancelDeleteItems PROVE ItemsInv'
    BY <1>6 DEF CancelDeleteItems
  <1>7. ASSUME UNCHANGED itemsVars PROVE ItemsInv'
    BY <1>7 DEF itemsVars
  <1> QED
    BY <1>1, <1>2, <1>3, <1>4, <1>5, <1>6, <1>7, ConfirmKeeps, DeletionAnswered, DeletedKeeps
       DEF ItemsNext

(* Only the answer to a deletion ends it.                                  *)
LEMMA DeletionEnds ==
    ASSUME ItemsInv, [ItemsNext]_itemsVars, deleting # None, deleting' = None, notice' = "none"
    PROVE  deleting.ids \cap kept' = {}
  <1>1. CASE ItemsDeleted
    <2>1. deleting.stage = "refetch" /\ kept' = kept /\ deleting.deleted = deleting.ids
      BY <1>1 DEF ItemsDeleted
    <2> QED
      BY <2>1 DEF ItemsInv
  <1>2. CASE AnswerDeleteItems
    <2>1. deleting \in Deletions
      BY DEF ItemsInv, ItemsTypeOK
    <2>2. PICK heard \in SUBSET deleting.ids :
            deleting' = [deleting EXCEPT !.deleted = heard, !.stage = "refetch"]
      BY <1>2 DEF AnswerDeleteItems
    <2>3. deleting' \in Deletions
      BY <2>1, <2>2 DEF Deletions
    <2> QED
      BY <2>3, ItemsPageAssumption
  <1>3. CASE ConfirmDeleteItems
    BY <1>3 DEF ConfirmDeleteItems
  <1> QED
    BY <1>1, <1>2, <1>3 DEF ItemsNext, itemsVars, ItemsElsewhere, ItemsReload, FilterItems,
       TurnPage, TickItems, ClearTicked, OpenDeleteItems, CancelDeleteItems

(* For any number of items and rows per page, whatever other clients       *)
(* delete and whichever requests of a deletion fail or go unanswered: what *)
(* the user insists on stays selected until it is gone, and a deletion     *)
(* without a message has deleted all it named.                             *)
THEOREM DeletionsAccounted == ItemsSpec => []ItemsTypeOK /\ NoDeletionIsLost
  <1>1. ItemsSpec => []ItemsInv
    BY ItemsInitial, ItemsStep, PTL DEF ItemsSpec
  <1>2. ItemsInv => ItemsTypeOK
    BY DEF ItemsInv
  <1>3. ItemsInv /\ [ItemsNext]_itemsVars =>
            [/\ insisted' \subseteq ticked' \cup removed'
             /\ deleting # None /\ deleting' = None /\ notice' = "none" =>
                    deleting.ids \cap kept' = {}]_itemsVars
    BY ItemsStep, DeletionEnds DEF ItemsInv
  <1> QED
    BY <1>1, <1>2, <1>3, PTL DEF ItemsSpec, NoDeletionIsLost
-----------------------------------------------------------------------------
(* The contents of a kit.                                                  *)

(* What was chosen is in the kit or known to have failed when the answers  *)
(* are in.                                                                 *)
AdditionInv ==
    /\ adding \in Additions \cup {None} /\ picked \subseteq Goods
    /\ adding # None /\ adding.stage = "refetch" => adding.chosen \subseteq adding.put \cup adding.failed

LEMMA AdditionInitial == KitInit => AdditionInv
  BY DEF KitInit, AdditionInv

LEMMA AnswersAccounted ==
    ASSUME AdditionInv, AnswerAdditions
    PROVE  AdditionInv' /\ adding' # None
  <1> USE DEF AdditionInv
  <1>1. PICK applied \in SUBSET {i \in adding.chosen : place[i] = None} :
        \E heard \in IF "add" \in Unanswered THEN SUBSET applied ELSE {applied} :
            adding' = [adding EXCEPT !.put = applied, !.stage = "refetch",
                                     !.failed = adding.chosen \ heard]
    BY Zenon DEF AnswerAdditions
  <1>2. PICK heard \in IF "add" \in Unanswered THEN SUBSET applied ELSE {applied} :
            adding' = [adding EXCEPT !.put = applied, !.stage = "refetch",
                                     !.failed = adding.chosen \ heard]
    BY <1>1
  <1>3. heard \subseteq applied
    OBVIOUS
  <1>4. adding \in Additions /\ adding.chosen \subseteq Goods
    BY DEF AnswerAdditions, Additions
  <1>5. /\ adding' \in Additions /\ adding'.chosen = adding.chosen
        /\ adding'.put = applied /\ adding'.failed = adding.chosen \ heard
    BY <1>2, <1>3, <1>4 DEF Additions
  <1>6. picked' = picked
    BY DEF AnswerAdditions
  <1> QED
    BY <1>3, <1>5, <1>6, KitPageAssumption

LEMMA AdditionStep ==
    ASSUME AdditionInv, [KitNext]_kitVars
    PROVE  /\ AdditionInv'
           /\ adding # None /\ adding' = None =>
                  adding.chosen \subseteq adding.put \cup picked'
  <1> USE DEF AdditionInv
  <1>1. CASE AnswerAdditions
    BY <1>1, AnswersAccounted
  <1>2. CASE AdditionsDone
    <2>1. adding \in Additions /\ adding # None /\ adding.stage = "refetch" /\ adding' = None
      BY <1>2 DEF AdditionsDone
    <2>2. picked' = adding.failed
      BY <1>2, <2>1 DEF AdditionsDone
    <2> QED
      BY <2>1, <2>2 DEF Additions
  <1>3. CASE AddSelectedItems
    <2>1. adding = None /\ picked' = picked
      BY <1>3 DEF AddSelectedItems
    <2>2. adding' = [chosen |-> picked, put |-> {}, failed |-> {}, stage |-> "sent"]
      BY <1>3 DEF AddSelectedItems
    <2>3. adding' \in Additions /\ adding'.stage = "sent"
      BY <2>2 DEF Additions
    <2> QED
      BY <2>1, <2>3
  <1>4. CASE PickItem \/ CloseAddItems
    <2>1. picked' \subseteq Goods /\ adding' = adding /\ adding = None
      BY <1>4 DEF PickItem, CloseAddItems, Selectable
    <2> QED
      BY <2>1
  <1>5. CASE UNCHANGED <<picked, adding>>
    BY <1>5
  <1>6. UNCHANGED kitVars => UNCHANGED <<picked, adding>>
    BY DEF kitVars
  <1>7. KitElsewhere \/ KitReload \/ MarkItems \/ RemoveFromKit \/ AnswerRemoval
        \/ OpenAddItems => UNCHANGED <<picked, adding>>
    BY DEF KitElsewhere, KitReload, MarkItems, RemoveFromKit, AnswerRemoval, OpenAddItems
  <1>8. OpenErase \/ OpenDeleteKit \/ CancelErase \/ ConfirmErase \/ AnswerErase \/ EraseDone
        \/ DeleteKit => UNCHANGED <<picked, adding>>
    BY DEF OpenErase, OpenDeleteKit, CancelErase, ConfirmErase, AnswerErase, EraseDone, DeleteKit
  <1> QED
    BY <1>1, <1>2, <1>3, <1>4, <1>5, <1>6, <1>7, <1>8 DEF KitNext

(* The answers to an addition or a deletion.                               *)
LEMMA KitAnswersTyped ==
    ASSUME KitTypeOK, AnswerAdditions \/ AnswerErase
    PROVE  KitTypeOK'
  <1> USE DEF KitTypeOK, Places
  <1>1. CASE AnswerAdditions
    <2>1. PICK applied \in SUBSET {i \in adding.chosen : place[i] = None} :
            \E heard \in IF "add" \in Unanswered THEN SUBSET applied ELSE {applied} :
                /\ place' = [i \in Goods |-> IF i \in applied THEN Here ELSE place[i]]
                /\ adding' = [adding EXCEPT !.put = applied, !.stage = "refetch",
                                            !.failed = adding.chosen \ heard]
      BY <1>1, Zenon DEF AnswerAdditions
    <2>2. adding \in Additions /\ UNCHANGED <<seen, modal, picked, marked, erasing, leaving>>
      BY <1>1 DEF AnswerAdditions
    <2>3. adding.chosen \subseteq Goods /\ applied \subseteq Goods
      BY <2>2 DEF Additions
    <2>4. adding' \in Additions
      <3>1. PICK heard : adding' = [adding EXCEPT !.put = applied, !.stage = "refetch",
                                                  !.failed = adding.chosen \ heard]
        BY <2>1
      <3> QED
        BY <2>2, <2>3, <3>1 DEF Additions
    <2>5. place' \in [Goods -> Places]
      BY <2>1
    <2> QED
      BY <2>2, <2>4, <2>5
  <1>2. CASE AnswerErase
    <2>1. PICK applied \in SUBSET {i \in erasing.chosen : place[i] # Gone} :
            \E heard \in IF "delete" \in Unanswered THEN SUBSET applied ELSE {applied} :
                /\ place' = [i \in Goods |-> IF i \in applied THEN Gone ELSE place[i]]
                /\ marked' = marked \ heard
                /\ erasing' = [erasing EXCEPT !.erased = heard, !.stage = "refetch"]
      BY <1>2, Zenon DEF AnswerErase
    <2>2. erasing \in Erasures /\ UNCHANGED <<seen, modal, picked, adding, leaving>>
      BY <1>2 DEF AnswerErase
    <2>3. /\ marked' \subseteq Goods
          /\ \E heard \in SUBSET Goods :
                erasing' = [erasing EXCEPT !.erased = heard, !.stage = "refetch"]
      BY <2>1, <2>2 DEF Erasures
    <2>4. erasing' \in Erasures
      BY <2>2, <2>3 DEF Erasures
    <2>5. place' \in [Goods -> Places]
      BY <2>1
    <2> QED
      BY <2>2, <2>3, <2>4, <2>5
  <1> QED
    BY <1>1, <1>2

LEMMA KitTypes ==
    /\ KitInit => KitTypeOK
    /\ KitTypeOK /\ [KitNext]_kitVars => KitTypeOK'
  <1> USE DEF KitTypeOK, Places
  <1>1. KitInit => KitTypeOK
    BY DEF KitInit
  <1> SUFFICES ASSUME KitTypeOK, [KitNext]_kitVars PROVE KitTypeOK'
    BY <1>1
  <1>2. CASE KitElsewhere \/ KitReload \/ UNCHANGED kitVars
    BY <1>2 DEF KitElsewhere, KitReload, kitVars
  <1>3. CASE MarkItems \/ RemoveFromKit \/ PickItem
    BY <1>3 DEF MarkItems, RemoveFromKit, PickItem, KitItems, Selectable
  <1>4. CASE AnswerRemoval
    <2>1. place' \in [Goods -> Places] /\ seen' \in {place', seen} /\ leaving' \subseteq leaving
      BY <1>4 DEF AnswerRemoval
    <2> QED
      BY <1>4, <2>1 DEF AnswerRemoval
  <1>5. CASE OpenAddItems \/ CloseAddItems \/ OpenErase \/ OpenDeleteKit \/ CancelErase
    BY <1>5 DEF OpenAddItems, CloseAddItems, OpenErase, OpenDeleteKit, CancelErase
  <1>6. CASE AddSelectedItems \/ ConfirmErase
    BY <1>6 DEF AddSelectedItems, ConfirmErase, Additions, Erasures
  <1>7. CASE AdditionsDone
    BY <1>7 DEF AdditionsDone, KitRefetch, Additions
  <1>8. CASE EraseDone \/ DeleteKit
    BY <1>8 DEF EraseDone, DeleteKit, KitRefetch
  <1> QED
    BY <1>2, <1>3, <1>4, <1>5, <1>6, <1>7, <1>8, KitAnswersTyped DEF KitNext

(* The values of the variables of a kit's page.                            *)
THEOREM KitIsTyped == KitSpec => []KitTypeOK
  BY KitTypes, PTL DEF KitSpec

(* For every set of items and any answers that get lost: when an addition  *)
(* ends, each item chosen was put into the kit or is still selected.       *)
THEOREM AdditionsAccounted == KitSpec => NoAdditionIsLost
  <1>1. KitSpec => []AdditionInv
    BY AdditionInitial, AdditionStep, PTL DEF KitSpec
  <1>2. AdditionInv /\ [KitNext]_kitVars =>
            [adding # None /\ adding' = None => adding.chosen \subseteq adding.put \cup picked']_kitVars
    BY AdditionStep
  <1> QED
    BY <1>1, <1>2, PTL DEF KitSpec, NoAdditionIsLost
-----------------------------------------------------------------------------
(* Reports.                                                                *)

(* What is awaited is the report asked for last.                           *)
ReportsInv == ReportsTypeOK /\ ReadyIsLatest /\ \A s \in sent : s[1] = count

LEMMA ReportsInitial == ReportsInit => ReportsInv
  <1> SUFFICES ASSUME ReportsInit PROVE ReportsInv
    OBVIOUS
  <1>1. scope \in Scopes
    BY DEF ReportsInit, Scopes, ScopeTypes
  <1>2. count \in 0..MaxReports
    BY ReportsPageAssumption DEF ReportsInit
  <1> QED
    BY <1>1, <1>2 DEF ReportsInit, ReportsInv, ReportsTypeOK, ReadyIsLatest

(* A form that may be submitted has a scope as the server takes it.        *)
LEMMA ScopeIsWanted ==
    ASSUME scope \in Scopes, ~scopeMissing
    PROVE  Scoped(scope) \in Wanted
  <1>1. CASE scope.type = "location"
    <2>1. scope.site \in Sites
      BY <1>1 DEF Scopes, scopeMissing
    <2>2. Scoped(scope) = <<"location", scope.site>>
      BY <1>1 DEF Scoped
    <2> QED
      BY <2>1, <2>2 DEF Wanted
  <1>2. CASE scope.type = "containers"
    <2>1. scope.boxes \in (SUBSET Boxes) \ {{}}
      <3>1. scope.boxes \in SUBSET Boxes
        BY <1>2 DEF Scopes
      <3>2. scope.boxes # {}
        BY <1>2 DEF scopeMissing
      <3> QED
        BY <3>1, <3>2
    <2>2. Scoped(scope) = <<"containers", scope.boxes>>
      BY <1>2 DEF Scoped
    <2> QED
      BY <2>1, <2>2 DEF Wanted
  <1> QED
    BY <1>1, <1>2 DEF Scopes, ScopeTypes

LEMMA SubmitKeeps ==
    ASSUME ReportsInv, SubmitReport
    PROVE  ReportsInv'
  <1> USE DEF ReportsInv
  <1>1. Scoped(scope) \in Wanted
    BY ScopeIsWanted DEF SubmitReport, ReportsTypeOK
  <1>2. sent = {} /\ ready' = None
    BY DEF SubmitReport
  <1>3. UNCHANGED <<scope, picker, complete, made, history, fetching, spinner>>
    BY DEF SubmitReport
  <1>4. CASE count < MaxReports /\ count' = count + 1 /\ sent' = {<<count + 1, Scoped(scope)>>}
    <2>1. count + 1 \in Numbers /\ count' \in 0..MaxReports
      BY <1>4, ReportsPageAssumption DEF ReportsTypeOK, Numbers
    <2>2. sent' \subseteq Numbers \X Wanted /\ \A s \in sent' : s[1] = count'
      BY <1>1, <1>4, <2>1
    <2> QED
      BY <1>2, <1>3, <2>1, <2>2 DEF ReportsTypeOK, ReadyIsLatest
  <1>5. CASE UNCHANGED <<count, sent>>
    BY <1>2, <1>3, <1>5 DEF ReportsTypeOK, ReadyIsLatest
  <1> QED
    BY <1>2, <1>4, <1>5 DEF SubmitReport

LEMMA ReportAnswered ==
    ASSUME ReportsInv, AnswerReport
    PROVE  ReportsInv'
  <1> USE DEF ReportsInv
  <1>1. PICK s \in sent, o \in Outcomes("report") :
        /\ sent' = sent \ {s}
        /\ made' = IF o.applied THEN [made EXCEPT ![s[1]] = s[2]] ELSE made
        /\ IF o.heard
           THEN /\ ready' = s[1]
                /\ scope' = [scope EXCEPT !.site = None, !.boxes = {}]
                /\ picker' = IF picker # None /\ scope.boxes # {} THEN {} ELSE picker
           ELSE UNCHANGED <<ready, scope, picker>>
        /\ history' \in IF o.heard THEN {history \cup {n \in Numbers : made'[n] # None}, history}
                                   ELSE {history}
    BY Zenon DEF AnswerReport
  <1>2. UNCHANGED <<complete, count, fetching, spinner>>
    BY DEF AnswerReport
  <1>3. o.heard => o.applied
    BY DEF Outcomes, Answered, Refused, Lost
  <1>4. s[1] \in Numbers /\ s[2] \in Wanted /\ s[2] # None /\ s[1] = count
    BY ReportsPageAssumption DEF ReportsTypeOK
  <1>5. made' \in [Numbers -> Wanted \cup {None}]
    BY <1>1, <1>4 DEF ReportsTypeOK
  <1>6. \A n \in Numbers : made[n] # None => made'[n] # None
    BY <1>1, <1>4 DEF ReportsTypeOK
  <1>7. scope' \in Scopes /\ picker' \in (SUBSET Boxes) \cup {None}
    BY <1>1 DEF Scopes, ReportsTypeOK
  <1>8. history' \subseteq Numbers /\ sent' \subseteq sent
    BY <1>1 DEF ReportsTypeOK
  <1>9. ready' \in Numbers \cup {None} /\ ReadyIsLatest'
    <2>1. CASE o.heard
      BY <1>1, <1>2, <1>3, <1>4, <2>1 DEF ReadyIsLatest, ReportsTypeOK
    <2>2. CASE ~o.heard
      BY <1>1, <1>2, <1>6, <2>2 DEF ReadyIsLatest, ReportsTypeOK
    <2> QED
      BY <2>1, <2>2
  <1> QED
    BY <1>2, <1>5, <1>7, <1>8, <1>9 DEF ReportsTypeOK

LEMMA ReportsStep ==
    ASSUME ReportsInv, [ReportsNext]_reportsVars
    PROVE  ReportsInv'
  <1> USE DEF ReportsInv, ReportsTypeOK, ReadyIsLatest
  <1>1. ASSUME EditReportForm PROVE ReportsInv'
    <2>1. scope' \in Scopes
      BY <1>1 DEF EditReportForm, Scopes
    <2> QED
      BY <1>1, <2>1 DEF EditReportForm
  <1>2. ASSUME OpenPicker \/ PickBoxes \/ CancelPicker PROVE ReportsInv'
    <2>1. picker' \in (SUBSET Boxes) \cup {None}
      BY <1>2 DEF OpenPicker, PickBoxes, CancelPicker, Scopes
    <2> QED
      BY <1>2, <2>1 DEF OpenPicker, PickBoxes, CancelPicker
  <1>3. ASSUME ConfirmPicker PROVE ReportsInv'
    <2>1. scope' \in Scopes
      BY <1>3 DEF ConfirmPicker, Scopes
    <2> QED
      BY <1>3, <2>1 DEF ConfirmPicker
  <1>4. ASSUME ReloadHistory PROVE ReportsInv'
    BY <1>4 DEF ReloadHistory
  <1>5. ASSUME DownloadReport \/ DownloadEnds PROVE ReportsInv'
    <2>1. fetching' \subseteq Numbers /\ spinner' \in Numbers \cup {None}
      BY <1>5 DEF DownloadReport, DownloadEnds
    <2> QED
      BY <1>5, <2>1 DEF DownloadReport, DownloadEnds
  <1>6. ASSUME UNCHANGED reportsVars PROVE ReportsInv'
    BY <1>6 DEF reportsVars
  <1> QED
    BY <1>1, <1>2, <1>3, <1>4, <1>5, <1>6, SubmitKeeps, ReportAnswered DEF ReportsNext

(* For all locations, containers and numbers of reports, whatever answers  *)
(* get lost: the report offered as ready is the one submitted last.        *)
THEOREM ReadyIsTheLast == ReportsSpec => [](ReportsTypeOK /\ ReadyIsLatest)
  <1>1. ReportsSpec => []ReportsInv
    BY ReportsInitial, ReportsStep, PTL DEF ReportsSpec
  <1>2. ReportsInv => ReportsTypeOK /\ ReadyIsLatest
    BY DEF ReportsInv
  <1> QED
    BY <1>1, <1>2, PTL
-----------------------------------------------------------------------------
(* Scanning.                                                               *)

(* Until Resume is pressed during a lookup, `pending' says whether one     *)
(* runs.                                                                   *)
PendingIsOne ==
    resumed = 0 =>
        IF pending THEN \E c \in QrCodes : /\ lookups[c] = 1
                                           /\ \A e \in QrCodes \ {c} : lookups[e] = 0
                   ELSE \A c \in QrCodes : lookups[c] = 0

ScanInv ==
    /\ ScanTypeOK /\ PendingIsOne /\ StillnessIsExplained
    /\ \A c \in QrCodes : lookups[c] <= begun

LEMMA ScanInitial == ScanInit => ScanInv
  <1> SUFFICES ASSUME ScanInit PROVE ScanInv
    OBVIOUS
  <1>1. 0 \in 0..MaxLookups
    BY ScanAssumption
  <1>2. ScanTypeOK
    BY <1>1 DEF ScanInit, ScanTypeOK
  <1>3. \A c \in QrCodes : lookups[c] = 0
    BY DEF ScanInit
  <1> QED
    BY <1>2, <1>3 DEF ScanInit, ScanInv, PendingIsOne, StillnessIsExplained

LEMMA DecodeKeeps ==
    ASSUME ScanInv, Decode
    PROVE  ScanInv'
  <1> USE DEF ScanInv
  <1>1. PICK c \in QrCodes :
            /\ begun < MaxLookups /\ lastCode' = c /\ pending' = TRUE
            /\ lookups' = [lookups EXCEPT ![c] = lookups[c] + 1] /\ begun' = begun + 1
    BY DEF Decode
  <1>2. UNCHANGED <<here, cameraError, opened, resumed>> /\ ~pending
    BY DEF Decode
  <1>3. camera' \in {"paused", "scanning"}
    BY DEF Decode
  <1>4. /\ begun \in Nat /\ begun' \in 0..MaxLookups
        /\ \A e \in QrCodes : lookups[e] \in Nat
    BY <1>1, ScanAssumption DEF ScanTypeOK
  <1>5. /\ lookups'[c] = lookups[c] + 1
        /\ \A e \in QrCodes \ {c} : lookups'[e] = lookups[e]
    BY <1>1 DEF ScanTypeOK
  <1>6. \A e \in QrCodes : lookups'[e] <= begun' /\ lookups'[e] \in 0..MaxLookups
    BY <1>1, <1>4, <1>5, ScanAssumption DEF ScanTypeOK
  <1>7. lookups' \in [QrCodes -> 0..MaxLookups]
    BY <1>1, <1>6 DEF ScanTypeOK
  <1>8. ScanTypeOK'
    BY <1>1, <1>2, <1>3, <1>4, <1>7 DEF ScanTypeOK
  <1>9. PendingIsOne'
    BY <1>1, <1>2, <1>5 DEF PendingIsOne
  <1>10. AnyLookup'
    BY <1>4, <1>5 DEF AnyLookup
  <1> QED
    BY <1>6, <1>8, <1>9, <1>10 DEF StillnessIsExplained

LEMMA ScanAnswered ==
    ASSUME ScanInv, AnswerScan
    PROVE  ScanInv'
  <1> USE DEF ScanInv
  <1>1. PICK c \in QrCodes, o \in Outcomes("scan") :
        /\ lookups[c] > 0
        /\ lookups' = [lookups EXCEPT ![c] = lookups[c] - 1]
        /\ pending' = FALSE
        /\ IF o.heard /\ c \in Known
           THEN /\ opened' = c /\ here' = FALSE
                /\ camera' = IF camera = "starting" THEN camera ELSE "off"
                /\ UNCHANGED cameraError
           ELSE cameraError' = TRUE /\ UNCHANGED <<opened, here, camera>>
    BY DEF AnswerScan
  <1>2. UNCHANGED <<lastCode, begun, resumed>>
    BY DEF AnswerScan
  <1>3. \A e \in QrCodes : lookups[e] \in 0..MaxLookups
    BY DEF ScanTypeOK
  <1>4. /\ lookups'[c] = lookups[c] - 1
        /\ \A e \in QrCodes \ {c} : lookups'[e] = lookups[e]
    BY <1>1 DEF ScanTypeOK
  <1>5. \A e \in QrCodes : lookups'[e] <= begun /\ lookups'[e] \in 0..MaxLookups
    BY <1>1, <1>3, <1>4, ScanAssumption DEF ScanTypeOK
  <1>6. lookups' \in [QrCodes -> 0..MaxLookups]
    BY <1>1, <1>5 DEF ScanTypeOK
  <1>7. /\ {here', pending', cameraError'} \subseteq BOOLEAN
        /\ opened' \in QrCodes \cup {None}
        /\ camera' \in {"starting", "scanning", "paused", "off"}
    BY <1>1 DEF ScanTypeOK
  <1>8. ScanTypeOK'
    BY <1>2, <1>6, <1>7 DEF ScanTypeOK
  <1>9. PendingIsOne'
    <2>1. ASSUME resumed = 0
          PROVE  \A e \in QrCodes : lookups'[e] = 0
      <3>1. pending /\ lookups[c] = 1 /\ \A e \in QrCodes \ {c} : lookups[e] = 0
        BY <1>1, <2>1 DEF PendingIsOne
      <3> QED
        BY <1>4, <3>1
    <2> QED
      BY <1>1, <1>2, <2>1 DEF PendingIsOne
  <1>10. StillnessIsExplained'
    BY <1>1 DEF StillnessIsExplained
  <1> QED
    BY <1>2, <1>5, <1>8, <1>9, <1>10

LEMMA ResumeKeeps ==
    ASSUME ScanInv, handleResume
    PROVE  ScanInv'
  <1> USE DEF ScanInv
  <1>1. /\ lastCode' = None /\ pending' = FALSE
        /\ camera' = IF camera = "paused" THEN "scanning" ELSE camera
        /\ cameraError' = (camera # "paused")
        /\ resumed' = IF AnyLookup /\ resumed < MaxLookups THEN resumed + 1 ELSE resumed
        /\ UNCHANGED <<here, lookups, opened, begun>>
    BY DEF handleResume
  <1>2. resumed' \in 0..MaxLookups
    BY <1>1, ScanAssumption DEF ScanTypeOK
  <1>3. camera' \in {"starting", "scanning", "paused", "off"}
    BY <1>1 DEF ScanTypeOK
  <1>4. cameraError' \in BOOLEAN
    BY <1>1
  <1>5. ScanTypeOK'
    BY <1>1, <1>2, <1>3, <1>4 DEF ScanTypeOK
  <1>6. resumed' = 0 => ~AnyLookup
    BY <1>1, ScanAssumption DEF AnyLookup, ScanTypeOK
  <1>7. PendingIsOne'
    BY <1>1, <1>6, ScanAssumption DEF PendingIsOne, AnyLookup, ScanTypeOK
  <1>8. StillnessIsExplained'
    BY <1>1 DEF StillnessIsExplained
  <1> QED
    BY <1>1, <1>5, <1>7, <1>8

LEMMA ScanStep ==
    ASSUME ScanInv, [ScanNext]_scanVars
    PROVE  ScanInv'
  <1> USE DEF ScanInv, ScanTypeOK, PendingIsOne, StillnessIsExplained, AnyLookup
  <1>1. ASSUME StartCamera PROVE ScanInv'
    BY <1>1 DEF StartCamera
  <1>2. ASSUME LeaveScan PROVE ScanInv'
    BY <1>2 DEF LeaveScan
  <1>3. ASSUME UNCHANGED scanVars PROVE ScanInv'
    BY <1>3 DEF scanVars
  <1> QED
    BY <1>1, <1>2, <1>3, DecodeKeeps, ScanAnswered, ResumeKeeps DEF ScanNext

(* For all codes and any number of lookups, answers lost among them: there *)
(* is one lookup at a time unless Resume is pressed during one, and a      *)
(* camera that stands still waits for an answer or has an error to show.   *)
THEOREM ScansOneByOne ==
    ScanSpec => [](ScanTypeOK /\ ScansAreOrderly)
  <1>1. ScanSpec => []ScanInv
    BY ScanInitial, ScanStep, PTL DEF ScanSpec
  <1>2. ScanInv => ScanTypeOK /\ ScansAreOrderly
    <2>1. ASSUME ScanInv, resumed = 0, NEW c \in QrCodes, NEW e \in QrCodes,
                 lookups[c] > 0, lookups[e] > 0
          PROVE  c = e /\ lookups[c] = 1
      BY <2>1 DEF ScanInv, PendingIsOne
    <2> QED
      BY <2>1 DEF ScanInv, ScansAreOrderly, OneLookupAtATime
  <1> QED
    BY <1>1, <1>2, PTL
-----------------------------------------------------------------------------
(* The dialog that edits a record.                                         *)


(* Between saves the page has the record of the server.  During a save the *)
(* labels are those its diff was taken from until they are changed, and    *)
(* each stage that went well has made its part of the record the input.    *)
CacheIsRecord == update = None => cached = record

SaveIsOnTrack ==
    update # None =>
        /\ update.stage \in {"fields", "labels"} => record.tags = update.base
        /\ update.stage = "labels" => record.text = update.input.text
        /\ update.stage = "settle" /\ update.failed = "none" => record = update.input

EditInv == EditTypeOK /\ CacheIsRecord /\ SaveIsOnTrack

LEMMA EditInitial == EditInit => EditInv
  BY DEF EditInit, EditInv, EditTypeOK, CacheIsRecord, SaveIsOnTrack, EditErrors

LEMMA FieldsStep ==
    ASSUME EditInv, UpdateFields
    PROVE  EditInv'
  <1> USE DEF EditInv
  <1>1. PICK o \in Outcomes("edit") :
            /\ record' = IF o.applied THEN [record EXCEPT !.text = update.input.text] ELSE record
            /\ update' = IF o.heard THEN [update EXCEPT !.stage = "labels"]
                         ELSE [update EXCEPT !.stage = "settle", !.failed = "fields"]
    BY DEF UpdateFields
  <1>2. update \in Updates /\ update.stage = "fields" /\ record \in Records
    BY DEF UpdateFields, EditTypeOK
  <1>3. o.heard => o.applied
    BY DEF Outcomes, Answered, Refused, Lost
  <1>4. update.input \in Records /\ update.input.text \in Texts
    BY <1>2 DEF Updates, Records
  <1>5. record' \in Records /\ record'.tags = record.tags
    BY <1>1, <1>2, <1>4 DEF Records
  <1>6. CASE o.heard
    <2>1. record'.text = update.input.text
      BY <1>1, <1>2, <1>3, <1>6 DEF Records
    <2>2. /\ update' \in Updates /\ update'.stage = "labels"
          /\ update'.input = update.input /\ update'.base = update.base
      BY <1>1, <1>2, <1>6 DEF Updates
    <2>3. record.tags = update.base /\ update # None
      BY <1>2 DEF UpdateFields, SaveIsOnTrack
    <2> QED
      BY <1>5, <2>1, <2>2, <2>3, EditAssumption DEF UpdateFields, EditTypeOK, CacheIsRecord,
         SaveIsOnTrack, Updates
  <1>7. CASE ~o.heard
    <2>1. /\ update' \in Updates /\ update'.stage = "settle" /\ update'.failed = "fields"
      BY <1>1, <1>2, <1>7 DEF Updates, EditErrors
    <2> QED
      BY <1>5, <2>1, EditAssumption DEF UpdateFields, EditTypeOK, CacheIsRecord, SaveIsOnTrack
  <1> QED
    BY <1>6, <1>7

LEMMA TagsStep ==
    ASSUME EditInv, UpdateLabels
    PROVE  EditInv'
  <1> USE DEF EditInv
  <1> DEFINE diff == labelSelectionDiff(update.base, update.input.tags)
  <1>1. PICK on \in SUBSET diff.attach, off \in SUBSET diff.detach :
           \E heard \in IF "tags" \in Unanswered THEN SUBSET (on \cup off) ELSE {on \cup off} :
                /\ record' = [record EXCEPT !.tags = (@ \cup on) \ off]
                /\ update' = [update EXCEPT !.stage = "settle",
                                            !.failed = IF heard = diff.attach \cup diff.detach
                                                       THEN "none" ELSE "labels"]
    BY Zenon DEF UpdateLabels
  <1>2. PICK heard \in IF "tags" \in Unanswered THEN SUBSET (on \cup off) ELSE {on \cup off} :
                /\ record' = [record EXCEPT !.tags = (@ \cup on) \ off]
                /\ update' = [update EXCEPT !.stage = "settle",
                                            !.failed = IF heard = diff.attach \cup diff.detach
                                                       THEN "none" ELSE "labels"]
    BY <1>1
  <1>3. heard \subseteq on \cup off
    OBVIOUS
  <1>4. /\ update # None /\ update \in Updates /\ update.stage = "labels"
        /\ record \in Records /\ record.tags = update.base
        /\ record.text = update.input.text
    BY DEF UpdateLabels, EditTypeOK, SaveIsOnTrack
  <1>5. /\ diff.attach = update.input.tags \ update.base
        /\ diff.detach = update.base \ update.input.tags
    BY DEF labelSelectionDiff
  <1>6. update.input \in Records /\ update.input.tags \subseteq Tags
    BY <1>4 DEF Updates, Records
  <1>7. /\ record' \in Records /\ record'.text = record.text
        /\ record'.tags = (update.base \cup on) \ off
    BY <1>2, <1>4, <1>5, <1>6 DEF Records
  <1>8. /\ update' \in Updates /\ update'.stage = "settle" /\ update'.input = update.input
        /\ update'.failed = IF heard = diff.attach \cup diff.detach THEN "none" ELSE "labels"
    BY <1>2, <1>4 DEF Updates, EditErrors
  <1>9. ASSUME update'.failed = "none"
        PROVE  record' = update.input
    <2>1. heard = diff.attach \cup diff.detach
      BY <1>8, <1>9
    <2>2. on = diff.attach /\ off = diff.detach
      BY <1>5, <1>3, <2>1
    <2>3. record'.tags = update.input.tags
      BY <1>5, <1>7, <2>2
    <2> QED
      BY <1>4, <1>6, <1>7, <2>3 DEF Records
  <1> HIDE DEF diff
  <1> QED
    BY <1>4, <1>7, <1>8, <1>9, EditAssumption DEF UpdateLabels, EditTypeOK, CacheIsRecord, SaveIsOnTrack

LEMMA EditStep ==
    ASSUME "refetch" \notin Unanswered, EditInv, [EditNext]_editVars
    PROVE  EditInv'
  <1> USE DEF EditInv, EditTypeOK, CacheIsRecord, SaveIsOnTrack
  <1>1. ASSUME OpenEditor PROVE EditInv'
    BY <1>1 DEF OpenEditor
  <1>2. ASSUME ChangeDraft PROVE EditInv'
    BY <1>2 DEF ChangeDraft
  <1>3. ASSUME CloseEditor PROVE EditInv'
    BY <1>3 DEF CloseEditor
  <1>4. ASSUME SaveRecordChanges PROVE EditInv'
    <2>1. /\ cached = record /\ cached \in Records /\ cached.tags \subseteq Tags
          /\ edits \in Records /\ wish \in Records
      BY <1>4 DEF SaveRecordChanges, Records
    <2>2. update' = [input |-> edits, base |-> cached.tags, wish |-> wish,
                     stage |-> "fields", failed |-> "none", told |-> editError]
      BY <1>4 DEF SaveRecordChanges
    <2>3. /\ update' \in Updates /\ update'.stage = "fields" /\ update'.base = cached.tags
      BY <2>1, <2>2 DEF Updates, EditErrors
    <2>4. edits' = cached /\ UNCHANGED <<record, cached, editor, wish, editError>>
      BY <1>4 DEF SaveRecordChanges, ResetDraft
    <2> QED
      BY <2>1, <2>3, <2>4
  <1>5. ASSUME Settle PROVE EditInv'
    <2>1. cached' = record /\ record' = record /\ update' = None /\ wish' = wish
      BY <1>5 DEF Settle
    <2>2. editor' \in BOOLEAN /\ edits' \in {cached', edits}
      BY <1>5 DEF Settle, ResetDraft
    <2>3. editError' \in EditErrors
      BY <1>5 DEF Settle, Updates
    <2> QED
      BY <2>1, <2>2, <2>3
  <1>6. ASSUME UNCHANGED editVars PROVE EditInv'
    BY <1>6 DEF editVars
  <1> QED
    BY <1>1, <1>2, <1>3, <1>4, <1>5, <1>6, FieldsStep, TagsStep DEF EditNext

(* The values of the variables, whichever answers get lost.                *)
LEMMA EditTypes ==
    /\ EditInit => EditTypeOK
    /\ EditTypeOK /\ [EditNext]_editVars => EditTypeOK'
  <1> USE DEF EditTypeOK
  <1>1. EditInit => EditTypeOK
    BY DEF EditInit, EditErrors
  <1> SUFFICES ASSUME EditTypeOK, [EditNext]_editVars PROVE EditTypeOK'
    BY <1>1
  <1>2. CASE OpenEditor \/ ChangeDraft \/ CloseEditor \/ UNCHANGED editVars
    BY <1>2 DEF OpenEditor, ChangeDraft, CloseEditor, editVars
  <1>3. CASE SaveRecordChanges
    <2>1. cached.tags \in SUBSET Tags
      BY DEF Records
    <2>2. update' \in Updates
      BY <1>3, <2>1 DEF SaveRecordChanges, Updates, EditErrors
    <2> QED
      BY <1>3, <2>2 DEF SaveRecordChanges, ResetDraft
  <1>4. CASE UpdateFields
    <2>1. update \in Updates /\ update.input.text \in Texts
      BY <1>4 DEF UpdateFields, Updates, Records
    <2>2. record' \in Records
      BY <1>4, <2>1 DEF UpdateFields, Records
    <2>3. update' \in Updates
      BY <1>4, <2>1 DEF UpdateFields, Updates, EditErrors
    <2> QED
      BY <1>4, <2>2, <2>3 DEF UpdateFields
  <1>5. CASE UpdateLabels
    <2>1. update \in Updates /\ update.base \subseteq Tags /\ update.input.tags \subseteq Tags
      BY <1>5 DEF UpdateLabels, Updates, Records
    <2> DEFINE diff == labelSelectionDiff(update.base, update.input.tags)
    <2>2. diff.attach \subseteq Tags /\ diff.detach \subseteq Tags
      BY <2>1 DEF labelSelectionDiff
    <2>3. PICK on \in SUBSET diff.attach, off \in SUBSET diff.detach, failed \in EditErrors :
              /\ record' = [record EXCEPT !.tags = (@ \cup on) \ off]
              /\ update' = [update EXCEPT !.stage = "settle", !.failed = failed]
      BY <1>5, Zenon DEF UpdateLabels, EditErrors
    <2> HIDE DEF diff
    <2>4. record' \in Records /\ update' \in Updates
      BY <2>1, <2>2, <2>3 DEF Records, Updates
    <2> QED
      BY <1>5, <2>4 DEF UpdateLabels
  <1>6. CASE Settle
    <2>1. update \in Updates /\ update.failed \in EditErrors
      BY <1>6 DEF Settle, Updates
    <2> QED
      BY <1>6, <2>1 DEF Settle, ResetDraft
  <1> QED
    BY <1>2, <1>3, <1>4, <1>5, <1>6 DEF EditNext

(* If the refetch after a save brings the record, then for every set of    *)
(* labels and any other answers that get lost: a save that closes its      *)
(* dialog has made the record what the form held when Save was pressed.    *)
THEOREM SavesAsShown ==
    ASSUME "refetch" \notin Unanswered
    PROVE  EditSpec => [](EditTypeOK /\ SavedAsShown)
  <1>1. EditInv /\ [EditNext]_editVars => EditInv'
    BY EditStep
  <1>2. EditSpec => []EditInv
    BY <1>1, EditInitial, PTL DEF EditSpec
  <1>3. EditInv => EditTypeOK /\ SavedAsShown
    BY DEF EditInv, SavedAsShown, Saved, SaveIsOnTrack
  <1> QED
    BY <1>2, <1>3, PTL
-----------------------------------------------------------------------------
(* The page of backups: the dialogs that delete and restore.               *)

(* At most one dialog is open.                                             *)
OneOpen == \A v, w \in Words : asked[v] # None /\ asked[w] # None => v = w

(* An open dialog has been given a number, for which the server has done   *)
(* nothing; its text is the word only if the user typed it.                *)
OpenIsFresh ==
    \A w \in Words : asked[w] # None =>
        /\ asking[w] \in 1..dialogs /\ obeyed[asking[w]] = 0
        /\ typed[w] => asking[w] \in worded

(* Neither has it for a dialog whose request is on its way, and that one   *)
(* was confirmed with the word.                                            *)
SentIsWorded ==
    \A w \in Words : flight[w].stage = "sent" =>
        /\ flight[w].number \in 1..dialogs /\ obeyed[flight[w].number] = 0
        /\ flight[w].number \in worded

(* The dialogs of the two words do not share a number.                     *)
NumbersDiffer ==
    \A v, w \in Words : v # w /\ flight[v].stage = "sent" =>
        /\ asked[w] # None => asking[w] # flight[v].number
        /\ flight[w].stage = "sent" => flight[w].number # flight[v].number

Unopened == \A n \in 1..MaxDialogs : n > dialogs => obeyed[n] = 0

DialogInv ==
    /\ BackupsTypeOK /\ OneOpen /\ OpenIsFresh /\ SentIsWorded
    /\ NumbersDiffer /\ Unopened /\ ConfirmedOnce

(* What the dialogs are about.                                             *)
dialogVars == <<asked, typed, asking, flight, dialogs, worded, obeyed>>

LEMMA DialogInit == BackupsInit => DialogInv
  <1> SUFFICES ASSUME BackupsInit PROVE DialogInv
    OBVIOUS
  <1>1. NoFlight \in Flights
    BY BackupsPageAssumption DEF NoFlight, Flights
  <1>2. BackupsTypeOK
    BY <1>1, BackupsPageAssumption DEF BackupsInit, BackupsTypeOK, Statuses, NoFlight
  <1>3. \A w \in Words : asked[w] = None /\ flight[w].stage = "idle"
    BY DEF BackupsInit, NoFlight
  <1>4. \A n \in 1..MaxDialogs : obeyed[n] = 0
    BY DEF BackupsInit
  <1> QED
    BY <1>2, <1>3, <1>4 DEF DialogInv, OneOpen, OpenIsFresh, SentIsWorded,
       NumbersDiffer, Unopened, ConfirmedOnce

(* Steps that change only the lists.                                       *)
LEMMA ListsOnly ==
    ASSUME DialogInv, UNCHANGED dialogVars,
           live' \in [Rows -> Statuses], shown' \in [Rows -> Statuses],
           runs' \subseteq Targets \X Backups
    PROVE  DialogInv'
  BY DEF DialogInv, dialogVars, BackupsTypeOK, OneOpen, OpenIsFresh, SentIsWorded,
     NumbersDiffer, Unopened, ConfirmedOnce

LEMMA WriteKeeps ==
    ASSUME DialogInv, NEW r \in Rows, NEW s \in Statuses, Write(r, s)
    PROVE  DialogInv'
  <1>1. live' \in [Rows -> Statuses] /\ shown' \in [Rows -> Statuses]
    BY DEF Write, InvalidateBackups, DialogInv, BackupsTypeOK
  <1> QED
    BY <1>1, ListsOnly DEF Write, DialogInv, BackupsTypeOK, dialogVars

LEMMA ListSteps ==
    ASSUME DialogInv,
           \/ Reload \/ Elsewhere \/ CreateTarget \/ CreateSchedule \/ UpdateTarget
           \/ UpdateSchedule \/ ManualBackup
    PROVE  DialogInv'
  <1>1. ASSUME Reload PROVE DialogInv'
    BY <1>1, ListsOnly DEF Reload, DialogInv, BackupsTypeOK, dialogVars
  <1>2. ASSUME Elsewhere PROVE DialogInv'
    <2>1. live' \in [Rows -> Statuses]
      BY <1>2 DEF Elsewhere, DialogInv, BackupsTypeOK, Statuses
    <2> QED
      BY <1>2, <2>1, ListsOnly DEF Elsewhere, DialogInv, BackupsTypeOK, dialogVars
  <1>3. ASSUME CreateTarget \/ UpdateTarget PROVE DialogInv'
    <2>1. PICK t \in Targets, s \in {"enabled", "disabled"} : Write(t, s)
      BY <1>3 DEF CreateTarget, UpdateTarget, BackupTargetsTable
    <2> QED
      BY <2>1, WriteKeeps DEF Rows, Statuses
  <1>4. ASSUME CreateSchedule \/ UpdateSchedule PROVE DialogInv'
    <2>1. PICK r \in Schedules, s \in {"enabled", "disabled"} : Write(r, s)
      BY <1>4 DEF CreateSchedule, UpdateSchedule, BackupSchedulesTable
    <2> QED
      BY <2>1, WriteKeeps DEF Rows, Statuses
  <1>5. ASSUME ManualBackup PROVE DialogInv'
    <2>1. runs' \subseteq Targets \X Backups
      BY <1>5 DEF ManualBackup, DialogInv, BackupsTypeOK
    <2>2. shown' \in [Rows -> Statuses]
      BY <1>5 DEF ManualBackup, InvalidateBackups, DialogInv, BackupsTypeOK
    <2> QED
      BY <1>5, <2>1, <2>2, ListsOnly DEF ManualBackup, DialogInv, BackupsTypeOK, dialogVars
  <1> QED
    BY <1>1, <1>2, <1>3, <1>4, <1>5

(* A dialog is opened under a new number.                                  *)
LEMMA AskKeeps ==
    ASSUME DialogInv, NoDialog, NEW w \in Words, NEW request \in Requests(w), Ask(w, request)
    PROVE  DialogInv'
  <1> USE DEF DialogInv
  <1>1. /\ dialogs \in Nat /\ dialogs < MaxDialogs /\ dialogs' = dialogs + 1
        /\ dialogs' \in 1..MaxDialogs
    BY BackupsPageAssumption DEF Ask, BackupsTypeOK
  <1>2. /\ asked' = [asked EXCEPT ![w] = request] /\ typed' = [typed EXCEPT ![w] = FALSE]
        /\ asking' = [asking EXCEPT ![w] = dialogs']
        /\ UNCHANGED <<live, shown, runs, flight, worded, obeyed>>
    BY <1>1 DEF Ask, lists
  <1>3. request \in AnyRequest
    BY DEF Requests, AnyRequest
  <1>4. BackupsTypeOK'
    BY <1>1, <1>2, <1>3 DEF BackupsTypeOK
  <1>5. \A v \in Words : asked'[v] # None => v = w
    BY <1>2 DEF NoDialog, BackupsTypeOK
  <1>6. asking'[w] = dialogs' /\ typed'[w] = FALSE /\ obeyed'[dialogs'] = 0
    BY <1>1, <1>2 DEF BackupsTypeOK, Unopened
  <1>7. OneOpen' /\ OpenIsFresh'
    BY <1>1, <1>5, <1>6 DEF OneOpen, OpenIsFresh
  <1>8. SentIsWorded' /\ Unopened' /\ ConfirmedOnce'
    BY <1>1, <1>2 DEF SentIsWorded, Unopened, ConfirmedOnce, BackupsTypeOK
  <1>9. NumbersDiffer'
    BY <1>1, <1>2, <1>5, <1>6 DEF NumbersDiffer, SentIsWorded
  <1> QED
    BY <1>4, <1>7, <1>8, <1>9

LEMMA OpenSteps ==
    ASSUME DialogInv, OpenRestoreFromRun \/ SubmitManualRestore \/ OpenDelete
    PROVE  DialogInv'
  <1>1. ASSUME OpenRestoreFromRun \/ SubmitManualRestore PROVE DialogInv'
    <2>1. PICK pair \in Targets \X Backups : NoDialog /\ Ask("RESTORE", pair)
      BY <1>1 DEF OpenRestoreFromRun, SubmitManualRestore, BackupRunsTable, DialogInv, BackupsTypeOK
    <2> QED
      BY <2>1, AskKeeps DEF Words, Requests
  <1>2. ASSUME OpenDelete PROVE DialogInv'
    <2>1. PICK r \in Rows : NoDialog /\ Ask("DELETE", r)
      BY <1>2 DEF OpenDelete, BackupTargetsTable, BackupSchedulesTable, Rows
    <2> QED
      BY <2>1, AskKeeps DEF Words, Requests
  <1> QED
    BY <1>1, <1>2

LEMMA DialogSteps ==
    ASSUME DialogInv, Type \/ Cancel \/ Confirm \/ DialogRefetched
    PROVE  DialogInv'
  <1> USE DEF DialogInv
  <1>1. ASSUME Type PROVE DialogInv'
    <2>1. PICK w \in Words :
            /\ asked[w] # None
            /\ typed' = [typed EXCEPT ![w] = ~typed[w]]
            /\ worded' = IF typed'[w] THEN worded \cup {asking[w]} ELSE worded
      BY <1>1 DEF Type
    <2>2. UNCHANGED <<live, shown, runs, asked, asking, flight, dialogs, obeyed>>
      BY <1>1 DEF Type, lists
    <2>3. asking[w] \in 1..MaxDialogs /\ worded \subseteq worded'
      BY <2>1 DEF OpenIsFresh, BackupsTypeOK
    <2>4. worded' \subseteq 1..MaxDialogs /\ typed' \in [Words -> BOOLEAN]
      BY <2>1, <2>3 DEF BackupsTypeOK
    <2>5. BackupsTypeOK'
      BY <2>2, <2>4 DEF BackupsTypeOK
    <2>6. OpenIsFresh'
      <3>1. typed'[w] => asking[w] \in worded'
        BY <2>1
      <3>2. \A v \in Words \ {w} : typed'[v] = typed[v]
        BY <2>1 DEF BackupsTypeOK
      <3> QED
        BY <2>2, <2>3, <3>1, <3>2 DEF OpenIsFresh
    <2>7. ConfirmedOnce'
      <3>1. ASSUME NEW n \in 1..MaxDialogs
            PROVE  obeyed[n] <= (IF n \in worded' THEN 1 ELSE 0)
        <4>1. obeyed[n] \in 0..2 /\ obeyed[n] <= (IF n \in worded THEN 1 ELSE 0)
          BY DEF ConfirmedOnce, BackupsTypeOK
        <4> QED
          BY <2>3, <4>1
      <3> QED
        BY <2>2, <3>1 DEF ConfirmedOnce
    <2> QED
      BY <2>2, <2>3, <2>5, <2>6, <2>7
         DEF OneOpen, SentIsWorded, NumbersDiffer, Unopened
  <1>2. ASSUME Cancel PROVE DialogInv'
    <2>1. PICK w \in Words : asked' = [asked EXCEPT ![w] = None]
      BY <1>2 DEF Cancel
    <2>2. UNCHANGED <<live, shown, runs, typed, asking, flight, dialogs, worded, obeyed>>
      BY <1>2 DEF Cancel, lists
    <2>3. \A v \in Words : asked'[v] \in {asked[v], None}
      BY <2>1 DEF BackupsTypeOK
    <2>4. BackupsTypeOK'
      BY <2>1, <2>2, <2>3 DEF BackupsTypeOK
    <2> QED
      BY <2>2, <2>3, <2>4
         DEF OneOpen, OpenIsFresh, SentIsWorded, NumbersDiffer, Unopened, ConfirmedOnce
  <1>3. ASSUME Confirm PROVE DialogInv'
    <2>1. PICK w \in Words :
            /\ asked[w] # None /\ typed[w]
            /\ flight' = [flight EXCEPT ![w] = [request |-> asked[w], number |-> asking[w],
                                                stage |-> "sent"]]
      BY <1>3 DEF Confirm
    <2>2. UNCHANGED <<live, shown, runs, asked, typed, asking, dialogs, worded, obeyed>>
      BY <1>3 DEF Confirm, lists
    <2> DEFINE new == [request |-> asked[w], number |-> asking[w], stage |-> "sent"]
    <2>3. new \in Flights /\ new.request = asked[w] /\ new.number = asking[w]
      BY DEF Flights, BackupsTypeOK
    <2>4. flight'[w] = new /\ \A v \in Words \ {w} : flight'[v] = flight[v]
      BY <2>1 DEF BackupsTypeOK
    <2>5. flight' \in [Words -> Flights]
      BY <2>1, <2>3 DEF BackupsTypeOK
    <2> HIDE DEF new
    <2>6. BackupsTypeOK'
      BY <2>2, <2>3, <2>4, <2>5 DEF BackupsTypeOK
    <2>7. SentIsWorded'
      BY <2>1, <2>2, <2>3, <2>4 DEF SentIsWorded, OpenIsFresh
    <2>8. NumbersDiffer'
      BY <2>1, <2>2, <2>3, <2>4 DEF NumbersDiffer, OneOpen
    <2> QED
      BY <2>2, <2>6, <2>7, <2>8 DEF OneOpen, OpenIsFresh, Unopened, ConfirmedOnce
  <1>4. ASSUME DialogRefetched PROVE DialogInv'
    <2>1. PICK w \in Words : flight' = [flight EXCEPT ![w] = NoFlight]
      BY <1>4 DEF DialogRefetched
    <2>2. UNCHANGED <<live, runs, asked, typed, asking, dialogs, worded, obeyed>>
      BY <1>4 DEF DialogRefetched
    <2>3. NoFlight \in Flights /\ NoFlight.stage = "idle" /\ NoFlight.request = None
      BY BackupsPageAssumption DEF NoFlight, Flights
    <2>4. flight'[w] = NoFlight /\ \A v \in Words \ {w} : flight'[v] = flight[v]
      BY <2>1 DEF BackupsTypeOK
    <2>5. flight' \in [Words -> Flights] /\ shown' \in [Rows -> Statuses]
      BY <1>4, <2>1, <2>3 DEF BackupsTypeOK, DialogRefetched, InvalidateBackups
    <2>6. BackupsTypeOK'
      BY <2>2, <2>3, <2>4, <2>5 DEF BackupsTypeOK
    <2> QED
      BY <2>2, <2>3, <2>4, <2>6
         DEF OneOpen, OpenIsFresh, SentIsWorded, NumbersDiffer, Unopened, ConfirmedOnce
  <1> QED
    BY <1>1, <1>2, <1>3, <1>4

(* An answer: the request was carried out and its dialog closes, or it was *)
(* refused and only the flight ends.                                       *)
LEMMA AnswerKeeps ==
    ASSUME "dialog" \notin Unanswered, DialogInv, AnswerDialog
    PROVE  DialogInv'
  <1> USE DEF DialogInv
  <1>1. PICK w \in Words, o \in {Answered, Refused} :
        /\ flight[w].stage = "sent"
        /\ IF o.applied
           THEN /\ Carry(w, flight[w].request)
                /\ obeyed' = [obeyed EXCEPT ![flight[w].number] =
                                  IF obeyed[flight[w].number] < 2
                                  THEN obeyed[flight[w].number] + 1 ELSE 2]
           ELSE UNCHANGED <<live, obeyed>>
        /\ IF o.heard
           THEN /\ flight' = [flight EXCEPT ![w] = [flight[w] EXCEPT !.stage = "refetch"]]
                /\ asked' = [asked EXCEPT ![w] = None]
                /\ typed' = [typed EXCEPT ![w] = FALSE]
           ELSE /\ flight' = [flight EXCEPT ![w] = NoFlight]
                /\ UNCHANGED <<asked, typed>>
    BY DEF AnswerDialog, Outcomes
  <1>2. UNCHANGED <<shown, runs, asking, dialogs, worded>>
    BY DEF AnswerDialog
  <1> DEFINE n == flight[w].number
  <1>3. n \in 1..MaxDialogs /\ n <= dialogs /\ obeyed[n] = 0 /\ n \in worded
    BY <1>1 DEF SentIsWorded, BackupsTypeOK
  <1>4. flight[w] \in Flights
    BY DEF BackupsTypeOK
  <1>5. CASE o = Answered
    <2>1. /\ Carry(w, flight[w].request) /\ obeyed' = [obeyed EXCEPT ![n] = 1]
          /\ flight' = [flight EXCEPT ![w] = [flight[w] EXCEPT !.stage = "refetch"]]
          /\ asked' = [asked EXCEPT ![w] = None] /\ typed' = [typed EXCEPT ![w] = FALSE]
      BY <1>1, <1>3, <1>5 DEF Answered
    <2>2. live' \in [Rows -> Statuses]
      BY <2>1 DEF Carry, BackupsTypeOK, Statuses
    <2>3. [flight[w] EXCEPT !.stage = "refetch"] \in Flights
      BY <1>4 DEF Flights
    <2>4. /\ flight'[w].stage = "refetch" /\ flight'[w].request = flight[w].request
          /\ \A v \in Words \ {w} : flight'[v] = flight[v]
      BY <1>4, <2>1 DEF BackupsTypeOK, Flights
    <2>5. asked'[w] = None /\ \A v \in Words \ {w} : asked'[v] = asked[v] /\ typed'[v] = typed[v]
      BY <2>1 DEF BackupsTypeOK
    <2>6. obeyed'[n] = 1 /\ \A m \in 1..MaxDialogs : m # n => obeyed'[m] = obeyed[m]
      BY <1>3, <2>1 DEF BackupsTypeOK
    <2>7. /\ flight' \in [Words -> Flights] /\ asked' \in [Words -> AnyRequest \cup {None}]
          /\ typed' \in [Words -> BOOLEAN] /\ obeyed' \in [1..MaxDialogs -> 0..2]
      <3>1. flight' \in [Words -> Flights]
        BY <2>1, <2>3 DEF BackupsTypeOK
      <3>2. asked' \in [Words -> AnyRequest \cup {None}] /\ typed' \in [Words -> BOOLEAN]
        BY <2>1 DEF BackupsTypeOK
      <3>3. obeyed' \in [1..MaxDialogs -> 0..2]
        <4>1. obeyed \in [1..MaxDialogs -> 0..2] /\ 1 \in 0..2
          BY DEF BackupsTypeOK
        <4> HIDE DEF n
        <4> QED
          BY <2>1, <4>1
      <3> QED
        BY <3>1, <3>2, <3>3
    <2>8. BackupsTypeOK'
      <3>1. \A v \in Words : {asked'[v], flight'[v].request} \subseteq Requests(v) \cup {None}
        BY <2>4, <2>5 DEF BackupsTypeOK
      <3> QED
        BY <1>2, <2>2, <2>7, <3>1 DEF BackupsTypeOK
    <2>9. OneOpen' /\ Unopened' /\ ConfirmedOnce'
      <3>1. OneOpen'
        BY <2>5 DEF OneOpen
      <3>2. Unopened'
        BY <1>2, <1>3, <2>6 DEF Unopened, BackupsTypeOK
      <3>3. \A m \in 1..MaxDialogs : obeyed'[m] <= (IF m \in worded THEN 1 ELSE 0)
        BY <1>3, <2>6 DEF ConfirmedOnce
      <3> QED
        BY <1>2, <3>1, <3>2, <3>3 DEF ConfirmedOnce
    <2>10. OpenIsFresh'
      <3>1. ASSUME NEW v \in Words, asked'[v] # None
            PROVE  /\ asking[v] \in 1..dialogs /\ obeyed'[asking[v]] = 0
                   /\ typed'[v] => asking[v] \in worded
        <4>1. v # w /\ asked[v] # None /\ asking[v] # n
          BY <1>1, <2>5, <3>1 DEF NumbersDiffer
        <4>2. asking[v] \in 1..MaxDialogs
          BY <4>1 DEF OpenIsFresh, BackupsTypeOK
        <4> QED
          BY <2>5, <2>6, <4>1, <4>2 DEF OpenIsFresh
      <3> QED
        BY <1>2, <3>1 DEF OpenIsFresh
    <2>11. SentIsWorded'
      <3>1. ASSUME NEW v \in Words, flight'[v].stage = "sent"
            PROVE  /\ flight'[v].number \in 1..dialogs /\ obeyed'[flight'[v].number] = 0
                   /\ flight'[v].number \in worded
        <4>1. v # w /\ flight'[v] = flight[v] /\ flight[v].number # n
          BY <1>1, <2>4, <3>1 DEF NumbersDiffer
        <4>2. flight[v].number \in 1..MaxDialogs
          BY <3>1, <4>1 DEF SentIsWorded, BackupsTypeOK
        <4> QED
          BY <2>6, <3>1, <4>1, <4>2 DEF SentIsWorded
      <3> QED
        BY <1>2, <3>1 DEF SentIsWorded
    <2>12. NumbersDiffer'
      BY <1>2, <2>4, <2>5 DEF NumbersDiffer
    <2> QED
      BY <2>8, <2>9, <2>10, <2>11, <2>12
  <1>6. CASE o = Refused
    <2>1. UNCHANGED <<live, obeyed, asked, typed>> /\ flight' = [flight EXCEPT ![w] = NoFlight]
      BY <1>1, <1>6 DEF Refused
    <2>2. NoFlight \in Flights /\ NoFlight.stage = "idle" /\ NoFlight.request = None
      BY BackupsPageAssumption DEF NoFlight, Flights
    <2>3. flight'[w] = NoFlight /\ \A v \in Words \ {w} : flight'[v] = flight[v]
      BY <2>1 DEF BackupsTypeOK
    <2>4. flight' \in [Words -> Flights]
      BY <2>1, <2>2 DEF BackupsTypeOK
    <2>5. BackupsTypeOK'
      BY <1>2, <2>1, <2>2, <2>3, <2>4 DEF BackupsTypeOK
    <2> QED
      BY <1>2, <2>1, <2>2, <2>3, <2>5
         DEF OneOpen, OpenIsFresh, SentIsWorded, NumbersDiffer, Unopened, ConfirmedOnce
  <1> QED
    BY <1>5, <1>6

LEMMA DialogNext ==
    ASSUME "dialog" \notin Unanswered, DialogInv, [BackupsNext]_backupsVars
    PROVE  DialogInv'
  <1>1. ASSUME UNCHANGED backupsVars PROVE DialogInv'
    BY <1>1, ListsOnly DEF backupsVars, lists, dialogVars, DialogInv, BackupsTypeOK
  <1> QED
    BY <1>1, ListSteps, OpenSteps, DialogSteps, AnswerKeeps DEF BackupsNext

(* The values of the variables, whichever answers get lost: a dialog that  *)
(* is open has a number.                                                   *)
DialogTypes == BackupsTypeOK /\ \A w \in Words : asked[w] # None => asking[w] # 0

LEMMA AskedTypes ==
    ASSUME DialogTypes, NEW w \in Words, NEW request \in Requests(w), Ask(w, request)
    PROVE  DialogTypes'
  <1>1. request \in AnyRequest /\ request # None
    BY BackupsPageAssumption DEF Requests, AnyRequest, Rows, Words
  <1>2. dialogs + 1 \in 1..MaxDialogs
    BY BackupsPageAssumption DEF Ask, DialogTypes, BackupsTypeOK
  <1>3. UNCHANGED <<live, shown, runs, flight, worded, obeyed>>
    BY DEF Ask, lists
  <1>4. /\ asked' \in [Words -> AnyRequest \cup {None}]
        /\ typed' \in [Words -> BOOLEAN] /\ asking' \in [Words -> 0..MaxDialogs]
        /\ dialogs' \in 0..MaxDialogs
    BY <1>1, <1>2 DEF Ask, DialogTypes, BackupsTypeOK
  <1>5. \A v \in Words : /\ {asked'[v], flight'[v].request} \subseteq Requests(v) \cup {None}
                         /\ asked'[v] # None => asking'[v] # 0
    BY <1>1, <1>2, <1>3 DEF Ask, DialogTypes, BackupsTypeOK
  <1> QED
    BY <1>3, <1>4, <1>5 DEF DialogTypes, BackupsTypeOK

LEMMA AnsweredTypes ==
    ASSUME DialogTypes, AnswerDialog
    PROVE  DialogTypes'
  <1> USE DEF DialogTypes, BackupsTypeOK
  <1>1. PICK w \in Words, o \in Outcomes("dialog") :
            /\ flight[w].stage = "sent"
            /\ IF o.applied
               THEN /\ Carry(w, flight[w].request)
                    /\ obeyed' = [obeyed EXCEPT ![flight[w].number] = IF @ < 2 THEN @ + 1 ELSE 2]
               ELSE UNCHANGED <<live, obeyed>>
            /\ IF o.heard
               THEN /\ flight' = [flight EXCEPT ![w] = [flight[w] EXCEPT !.stage = "refetch"]]
                    /\ asked' = [asked EXCEPT ![w] = None]
                    /\ typed' = [typed EXCEPT ![w] = FALSE]
               ELSE /\ flight' = [flight EXCEPT ![w] = NoFlight]
                    /\ UNCHANGED <<asked, typed>>
    BY Zenon DEF AnswerDialog
  <1>2. UNCHANGED <<shown, runs, asking, dialogs, worded>>
    BY DEF AnswerDialog
  <1>3. live' \in [Rows -> Statuses] /\ obeyed' \in [1..MaxDialogs -> 0..2]
    <2>1. live' = live \/ \E r : live' = [live EXCEPT ![r] = "deleted"]
      BY <1>1 DEF Carry
    <2>2. live' \in [Rows -> Statuses]
      BY <2>1 DEF Statuses
    <2>3. obeyed' \in [1..MaxDialogs -> 0..2]
      BY <1>1
    <2> QED
      BY <2>2, <2>3
  <1>4. /\ asked' \in [Words -> AnyRequest \cup {None}] /\ typed' \in [Words -> BOOLEAN]
        /\ \A v \in Words : asked'[v] \in {asked[v], None}
    BY <1>1
  <1>5. flight' \in [Words -> Flights]
        /\ \A v \in Words : flight'[v].request \in {flight[v].request, None}
    <2>1. NoFlight \in Flights /\ NoFlight.request = None
      BY BackupsPageAssumption DEF NoFlight, Flights
    <2>2. [flight[w] EXCEPT !.stage = "refetch"] \in Flights
          /\ [flight[w] EXCEPT !.stage = "refetch"].request = flight[w].request
      BY DEF Flights
    <2>3. \E h \in Flights : /\ flight' = [flight EXCEPT ![w] = h]
                             /\ h.request \in {flight[w].request, None}
      BY <1>1, <2>1, <2>2
    <2> QED
      BY <2>3
  <1>6. \A v \in Words : /\ {asked'[v], flight'[v].request} \subseteq Requests(v) \cup {None}
                         /\ asked'[v] # None => asking'[v] # 0
    BY <1>2, <1>4, <1>5
  <1> QED
    BY <1>2, <1>3, <1>4, <1>5, <1>6

LEMMA DialogsTyped ==
    /\ BackupsInit => DialogTypes
    /\ DialogTypes /\ [BackupsNext]_backupsVars => DialogTypes'
  <1>1. BackupsInit => DialogTypes
    BY DialogInit DEF DialogInv, OpenIsFresh, DialogTypes, BackupsInit
  <1> SUFFICES ASSUME DialogTypes, [BackupsNext]_backupsVars PROVE DialogTypes'
    BY <1>1
  <1> USE DEF DialogTypes, BackupsTypeOK
  <1>2. CASE UNCHANGED backupsVars
    BY <1>2 DEF backupsVars, lists
  <1>3. CASE Reload \/ Elsewhere \/ ManualBackup
    <2>1. CASE Reload
      BY <2>1 DEF Reload
    <2>2. CASE Elsewhere
      <3>1. live' \in [Rows -> Statuses]
        BY <2>2 DEF Elsewhere, Statuses
      <3> QED
        BY <2>2, <3>1 DEF Elsewhere
    <2>3. CASE ManualBackup
      <3>1. runs' \subseteq Targets \X Backups /\ shown' \in [Rows -> Statuses]
        BY <2>3 DEF ManualBackup, InvalidateBackups
      <3> QED
        BY <2>3, <3>1 DEF ManualBackup
    <2> QED
      BY <1>3, <2>1, <2>2, <2>3
  <1>4. ASSUME NEW r \in Rows, NEW s \in Statuses, Write(r, s) PROVE DialogTypes'
    BY <1>4 DEF Write, InvalidateBackups
  <1>5. CASE CreateTarget \/ CreateSchedule \/ UpdateTarget \/ UpdateSchedule
    <2>1. \E r \in Rows, s \in Statuses : Write(r, s)
      BY <1>5 DEF CreateTarget, CreateSchedule, UpdateTarget, UpdateSchedule, Rows, Statuses,
                  BackupTargetsTable, BackupSchedulesTable
    <2> QED
      BY <1>4, <2>1
  <1>6. CASE OpenRestoreFromRun \/ SubmitManualRestore \/ OpenDelete
    <2>1. \E w \in Words : \E request \in Requests(w) : Ask(w, request)
      BY <1>6 DEF OpenRestoreFromRun, SubmitManualRestore, OpenDelete, Words, Requests, Rows,
                  BackupRunsTable, BackupTargetsTable, BackupSchedulesTable
    <2> QED
      BY <2>1, AskedTypes
  <1>7. CASE Type \/ Cancel
    <2>1. CASE Type
      <3>1. PICK w \in Words :
              /\ asked[w] # None
              /\ typed' = [typed EXCEPT ![w] = ~typed[w]]
              /\ worded' = IF typed'[w] THEN worded \cup {asking[w]} ELSE worded
        BY <2>1 DEF Type
      <3>2. asking[w] \in 1..MaxDialogs
        BY <3>1, BackupsPageAssumption
      <3>3. worded' \subseteq 1..MaxDialogs /\ typed' \in [Words -> BOOLEAN]
        BY <3>1, <3>2
      <3> QED
        BY <2>1, <3>3 DEF Type, lists
    <2>2. CASE Cancel
      <3>1. /\ asked' \in [Words -> AnyRequest \cup {None}]
            /\ \A v \in Words : asked'[v] \in {asked[v], None}
        BY <2>2 DEF Cancel
      <3> QED
        BY <2>2, <3>1 DEF Cancel, lists
    <2> QED
      BY <1>7, <2>1, <2>2
  <1>8. CASE Confirm
    <2>1. PICK w \in Words :
              /\ asked[w] # None
              /\ flight' = [flight EXCEPT ![w] = [request |-> asked[w], number |-> asking[w],
                                                  stage |-> "sent"]]
      BY <1>8 DEF Confirm
    <2>2. [request |-> asked[w], number |-> asking[w], stage |-> "sent"] \in Flights
      BY <2>1 DEF Flights
    <2>3. flight' \in [Words -> Flights]
          /\ \A v \in Words : flight'[v].request \in {flight[v].request, asked[v]}
      BY <2>1, <2>2
    <2> QED
      BY <1>8, <2>3 DEF Confirm, lists
  <1>9. CASE DialogRefetched
    <2>1. NoFlight \in Flights /\ NoFlight.request = None
      BY BackupsPageAssumption DEF NoFlight, Flights
    <2>2. flight' \in [Words -> Flights]
          /\ \A v \in Words : flight'[v].request \in {flight[v].request, None}
      BY <1>9, <2>1 DEF DialogRefetched
    <2> QED
      BY <1>9, <2>2 DEF DialogRefetched, InvalidateBackups
  <1> QED
    BY <1>2, <1>3, <1>5, <1>6, <1>7, <1>8, <1>9, AnsweredTypes DEF BackupsNext

(* For any number of rows, archives and dialogs, if the answers to what    *)
(* the dialogs ask arrive: the server deletes or restores only for a       *)
(* dialog in which the word was typed, and once for each.                  *)
THEOREM ConfirmedWithTheWord ==
    ASSUME "dialog" \notin Unanswered
    PROVE  BackupsSpec => [](BackupsTypeOK /\ ConfirmedOnce)
  <1>1. DialogInv /\ [BackupsNext]_backupsVars => DialogInv'
    BY DialogNext
  <1>2. BackupsSpec => []DialogInv
    BY <1>1, DialogInit, PTL DEF BackupsSpec
  <1>3. DialogInv => BackupsTypeOK /\ ConfirmedOnce
    BY DEF DialogInv
  <1> QED
    BY <1>2, <1>3, PTL
-----------------------------------------------------------------------------
(* The form of a backup target.                                            *)

(* The form holds what was typed in it and nothing else: no mask, and      *)
(* blanks where the user did not type.                                     *)
DraftIsTyped ==
    draft # None => /\ draft \in [mode : Modes, value : [Fields -> Typed]]
                    /\ \A k \in Fields \ touched : draft.value[k] = Blank

SecretsInv == TargetTypeOK /\ DraftIsTyped /\ SecretsStand

LEMMA SecretsInit == TargetInit => SecretsInv
  BY TargetFormAssumption
     DEF TargetInit, SecretsInv, TargetTypeOK, DraftIsTyped, SecretsStand, Fields, Typed

(* An empty form.                                                          *)
LEMMA EmptyIsTyped ==
    ASSUME NEW mode \in Modes
    PROVE  [mode |-> mode, value |-> [k \in Fields |-> Blank]]
              \in [mode : Modes, value : [Fields -> Typed]]
  BY DEF Typed

(* Only opened forms are None or typed drafts.                             *)
LEMMA TypedIsDraft ==
    [mode : Modes, value : [Fields -> Typed]] \subseteq Drafts
  <1>1. Typed \subseteq Typed \cup {Mask}
    OBVIOUS
  <1> QED
    BY <1>1 DEF Drafts

(* A row that is created holds what was typed, a method among it.          *)
LEMMA CreatedStands ==
    ASSUME SecretsInv, SubmitCreate
    PROVE  SecretsInv'
  <1> USE DEF SecretsInv
  <1>1. PICK m \in Modes, val \in [Fields -> Typed] : draft = [mode |-> m, value |-> val]
    BY DEF SubmitCreate, DraftIsTyped
  <1>2. \A k \in Fields \ touched : val[k] = Blank
    BY <1>1 DEF SubmitCreate, DraftIsTyped
  <1>3. draft.mode = m /\ draft.value = val
    BY <1>1
  <1>4. Visible(m) \subseteq Fields
    BY DEF Visible, Fields
  <1>5. stored' = [k \in Fields |-> IF k \notin Visible(m) THEN None
                       ELSE IF val[k] = Blank /\ k = "passphrase" THEN None ELSE val[k]]
    BY <1>3 DEF SubmitCreate, Built
  <1>6. last' = [k \in Fields |-> IF /\ k \in Visible(m) /\ k \in touched
                                     /\ (k = "passphrase" => val[k] # Blank)
                                  THEN val[k] ELSE None]
    BY <1>3 DEF SubmitCreate
  <1>7. IF m = "password" THEN val["password"] # Blank ELSE val["private_key"] # Blank
    BY <1>3 DEF SubmitCreate, Complete
  <1>8. ASSUME NEW k \in Fields
        PROVE  stored'[k] = last'[k] /\ stored'[k] \in Typed \cup {None}
    <2>1. CASE k \notin Visible(m)
      BY <1>5, <1>6, <2>1
    <2>2. CASE k \in Visible(m) /\ k = "passphrase"
      BY <1>2, <1>5, <1>6, <2>2
    <2>3. CASE k \in Visible(m) /\ k # "passphrase"
      <3>1. val[k] # Blank
        BY <1>7, <2>3 DEF Visible, Modes
      <3> QED
        BY <1>2, <1>5, <1>6, <2>3, <3>1
    <2> QED
      BY <2>1, <2>2, <2>3
  <1>9. stored' = last' /\ stored' \in [Fields -> Typed \cup {None}]
    BY <1>5, <1>6, <1>8
  <1>10. stored' \in Configurations /\ last' \in [Fields -> Typed \cup {None}]
    BY <1>9 DEF Configurations
  <1>11. Methods(stored') # {}
    <2>1. CASE m = "password"
      <3>1. stored'["password"] = val["password"] /\ val["password"] \in Typed
        BY <1>5, <2>1 DEF Fields, Visible
      <3> QED
        BY <1>7, <2>1, <3>1, TargetFormAssumption DEF Methods, Modes, Typed
    <2>2. CASE m = "private_key"
      <3>1. stored'["private_key"] = val["private_key"] /\ val["private_key"] \in Typed
        BY <1>5, <2>2 DEF Fields, Visible
      <3> QED
        BY <1>7, <2>2, <3>1, TargetFormAssumption DEF Methods, Modes, Typed
    <2> QED
      BY <2>1, <2>2 DEF Modes
  <1>12. draft' = None /\ touched' = {}
    BY DEF SubmitCreate
  <1> QED
    BY <1>9, <1>10, <1>11, <1>12 DEF TargetTypeOK, DraftIsTyped, SecretsStand

(* A row that is edited changes where something was typed, as the user's   *)
(* last choice does.                                                       *)
LEMMA EditedStands ==
    ASSUME SecretsInv, SubmitEdit
    PROVE  SecretsInv'
  <1> USE DEF SecretsInv
  <1>1. PICK m \in Modes, val \in [Fields -> Typed] : draft = [mode |-> m, value |-> val]
    BY DEF SubmitEdit, DraftIsTyped
  <1>2. \A k \in Fields \ touched : val[k] = Blank
    BY <1>1 DEF SubmitEdit, DraftIsTyped
  <1>3. draft.mode = m /\ draft.value = val
    BY <1>1
  <1>4. stored # None /\ stored \in Configurations /\ last \in [Fields -> Typed \cup {None}]
        /\ stored = last /\ Methods(stored) # {}
    BY DEF SubmitEdit, TargetTypeOK, SecretsStand
  <1> DEFINE patch == [k \in Fields |-> IF k \notin Visible(m) THEN None
                                        ELSE IF val[k] = Blank THEN None ELSE val[k]]
  <1>5. Built(draft, TRUE) = patch
    BY <1>3 DEF Built
  <1>6. stored' = [k \in Fields |-> IF patch[k] \in {None, Blank, Spaces}
                                    THEN stored[k] ELSE patch[k]]
    BY <1>5 DEF SubmitEdit, Merged
  <1>7. last' = [k \in Fields |-> IF /\ k \in Visible(m) /\ k \in touched
                                     /\ val[k] \notin {Blank, Spaces}
                                  THEN val[k] ELSE last[k]]
    BY <1>3 DEF SubmitEdit
  <1>8. ASSUME NEW k \in Fields
        PROVE  /\ stored'[k] = last'[k] /\ stored'[k] \in Typed \cup {None}
               /\ stored[k] \notin {None, Blank} => stored'[k] \notin {None, Blank}
    <2>1. val[k] \in Typed /\ val[k] # None
      BY TargetFormAssumption DEF Typed
    <2>2. CASE k \in Visible(m) /\ val[k] \notin {Blank, Spaces}
      <3>1. k \in touched
        BY <1>2, <2>2
      <3>2. patch[k] = val[k]
        BY <2>2
      <3> QED
        BY <1>6, <1>7, <2>1, <2>2, <3>1, <3>2
    <2>3. CASE ~(k \in Visible(m) /\ val[k] \notin {Blank, Spaces})
      <3>1. patch[k] \in {None, Blank, Spaces}
        BY <2>3
      <3> QED
        BY <1>4, <1>6, <1>7, <2>3, <3>1
    <2> QED
      BY <2>2, <2>3
  <1> HIDE DEF patch
  <1>9. stored' = last' /\ stored' \in [Fields -> Typed \cup {None}]
    BY <1>6, <1>7, <1>8
  <1>10. stored' \in Configurations /\ last' \in [Fields -> Typed \cup {None}]
    BY <1>9 DEF Configurations
  <1>11. Methods(stored') # {}
    BY <1>4, <1>8 DEF Methods, Modes, Fields
  <1>12. \/ draft' = None /\ touched' = {}
         \/ UNCHANGED <<draft, touched>>
    BY DEF SubmitEdit
  <1> QED
    BY <1>9, <1>10, <1>11, <1>12 DEF TargetTypeOK, DraftIsTyped, SecretsStand

LEMMA SecretsNext ==
    ASSUME SecretsInv, [TargetNext]_targetVars
    PROVE  SecretsInv'
  <1> USE DEF SecretsInv
  <1>1. ASSUME OpenCreate \/ OpenEdit PROVE SecretsInv'
    <2>1. PICK m \in Modes : draft' = [mode |-> m, value |-> [k \in Fields |-> Blank]]
      BY <1>1 DEF OpenCreate, OpenEdit, EmptyDraft, DraftFromTarget, Modes
    <2>2. draft' \in [mode : Modes, value : [Fields -> Typed]]
      BY <2>1, EmptyIsTyped
    <2>3. draft' \in Drafts /\ \A k \in Fields : draft'.value[k] = Blank
      BY <2>1, <2>2, TypedIsDraft
    <2>4. touched' = {} /\ UNCHANGED <<stored, last>>
      BY <1>1 DEF OpenCreate, OpenEdit
    <2> QED
      BY <2>2, <2>3, <2>4 DEF TargetTypeOK, DraftIsTyped, SecretsStand
  <1>2. ASSUME TypeField PROVE SecretsInv'
    <2>1. PICK mode \in Modes, val \in [Fields -> Typed] : draft = [mode |-> mode, value |-> val]
      BY <1>2 DEF TypeField, DraftIsTyped
    <2>2. draft.mode = mode /\ draft.value = val
      BY <2>1
    <2>3. \A k \in Fields \ touched : val[k] = Blank
      BY <1>2, <2>1 DEF TypeField, DraftIsTyped
    <2>4. UNCHANGED <<stored, last>> /\ Visible(mode) \subseteq Fields
      BY <1>2 DEF TypeField, Visible, Fields
    <2>5. PICK m \in Modes, w \in [Fields -> Typed] :
             /\ draft' = [mode |-> m, value |-> w] /\ touched \subseteq touched'
             /\ touched' \subseteq Fields
             /\ \A k \in Fields \ touched' : w[k] = val[k]
      <3>1. CASE \E m \in Modes : /\ draft' = [mode |-> m, value |-> draft.value]
                                  /\ UNCHANGED touched
        BY <2>2, <3>1 DEF TargetTypeOK
      <3>2. CASE \E k \in Visible(draft.mode), v \in Typed :
                    /\ draft' = [mode |-> draft.mode, value |-> [draft.value EXCEPT ![k] = v]]
                    /\ touched' = touched \cup {k}
        <4>1. PICK k \in Visible(mode), v \in Typed :
                    /\ draft' = [mode |-> mode, value |-> [val EXCEPT ![k] = v]]
                    /\ touched' = touched \cup {k}
          BY <2>2, <3>2
        <4>2. [val EXCEPT ![k] = v] \in [Fields -> Typed]
          BY <2>4
        <4> QED
          BY <2>4, <4>1, <4>2 DEF TargetTypeOK
      <3> QED
        BY <1>2, <3>1, <3>2 DEF TypeField
    <2>6. draft' \in [mode : Modes, value : [Fields -> Typed]] /\ draft'.value = w
      BY <2>5
    <2>7. draft' \in Drafts /\ \A k \in Fields \ touched' : draft'.value[k] = Blank
      BY <2>3, <2>5, <2>6, TypedIsDraft
    <2> QED
      BY <2>4, <2>5, <2>6, <2>7 DEF TargetTypeOK, DraftIsTyped, SecretsStand
  <1>3. ASSUME CloseForm PROVE SecretsInv'
    BY <1>3 DEF CloseForm, TargetTypeOK, DraftIsTyped, SecretsStand
  <1>4. ASSUME UNCHANGED targetVars PROVE SecretsInv'
    BY <1>4 DEF targetVars, TargetTypeOK, DraftIsTyped, SecretsStand
  <1> QED
    BY <1>1, <1>2, <1>3, <1>4, CreatedStands, EditedStands DEF TargetNext

(* For every set of secrets and any answers that get lost: a blank field,  *)
(* a field of the mode not chosen and the mask change no stored secret,    *)
(* and a target keeps a method to log in.                                  *)
THEOREM SecretsAreKept == TargetSpec => [](TargetTypeOK /\ SecretsStand)
  <1>1. TargetSpec => []SecretsInv
    BY SecretsInit, SecretsNext, PTL DEF TargetSpec
  <1>2. SecretsInv => TargetTypeOK /\ SecretsStand
    BY DEF SecretsInv
  <1> QED
    BY <1>1, <1>2, PTL
=============================================================================
