------------------------------ MODULE KitPage ------------------------------
(***************************************************************************)
(* The contents of one kit (app/kits/[id]/page.tsx): items are added with  *)
(* a dialog that shows the inventory (add-items-to-container-dialog.tsx),  *)
(* taken out one by one, and deleted by selection.                         *)
(*                                                                         *)
(* Adding and deleting send one request per item, all at once; any may     *)
(* fail.  A selection names items by id and survives what happens to them: *)
(* an item taken out of the kit stays selected.  Each dialog is modal.     *)
(*                                                                         *)
(* Left out: the record of the kit (EditRecord), its photos, spreadsheets, *)
(* the order of rows, the filters of the dialog but for availability.      *)
(***************************************************************************)
EXTENDS ApiClient

CONSTANTS
    Goods,   \* items
    Here, Away, Gone   \* the kit of the page, another one, deleted

VARIABLES
    place,    \* place[i]: the kit item i is in, None or Gone
    seen,     \* the same in the cached lists
    modal,    \* the dialog that is open
    picked,   \* items selected in the dialog that adds
    adding,   \* the running addition, None if there is none
    marked,   \* items selected on the page
    erasing,  \* the running deletion, None if there is none
    leaving   \* items whose removal is on its way

kitVars == <<place, seen, modal, picked, adding, marked, erasing, leaving>>

Places == {Here, Away, Gone, None}
KitItems == {i \in Goods : seen[i] = Here}
(* buildContainerItemPickerRows: an item of any kit cannot be selected.    *)
Selectable == {i \in Goods : seen[i] = None}

Additions == [chosen : SUBSET Goods, put : SUBSET Goods, failed : SUBSET Goods,
              stage : {"sent", "refetch"}]
Erasures  == [chosen : SUBSET Goods, erased : SUBSET Goods, stage : {"sent", "refetch"}]

ASSUME KitPageAssumption ==
    {Here, Away, Gone, None} \cap Goods = {} /\ None \notin Additions

(* A refetch brings what the server holds, or fails and changes nothing.   *)
KitRefetch == seen' \in {place, seen}
-----------------------------------------------------------------------------
(* Another client packs, unpacks or deletes an item.                       *)
KitElsewhere ==
    /\ \E i \in Goods, p \in Places :
        /\ place[i] # Gone /\ (place[i] \in {Here, Away} => p \in {None, Gone})
        /\ place' = [place EXCEPT ![i] = p]
    /\ UNCHANGED <<seen, modal, picked, adding, marked, erasing, leaving>>

KitReload ==
    /\ seen' = place
    /\ UNCHANGED <<place, modal, picked, adding, marked, erasing, leaving>>

MarkItems ==
    /\ modal = "none"
    /\ \/ \E i \in KitItems : marked' = (marked \ {i}) \cup ({i} \ marked)
       \/ KitItems # {} /\ marked' \in {marked \cup KitItems, marked \ KitItems}
       \/ marked # {} /\ marked' = {}
    /\ UNCHANGED <<place, seen, modal, picked, adding, erasing, leaving>>

(* Several removals may be on their way; a second one of the same item is  *)
(* refused by the server and changes nothing.                              *)
RemoveFromKit ==
    /\ modal = "none"
    /\ \E i \in KitItems \ leaving : leaving' = leaving \cup {i}
    /\ UNCHANGED <<place, seen, modal, picked, adding, marked, erasing>>

AnswerRemoval ==
    /\ \E i \in leaving, o \in Outcomes("remove") :
        /\ o.applied => place[i] = Here
        /\ place' = IF o.applied THEN [place EXCEPT ![i] = None] ELSE place
        /\ seen' \in IF o.heard THEN {place', seen} ELSE {seen}
        /\ leaving' = leaving \ {i}
    /\ UNCHANGED <<modal, picked, adding, marked, erasing>>
-----------------------------------------------------------------------------
(* The dialog that adds items.                                             *)

OpenAddItems ==
    /\ modal = "none"
    /\ modal' = "add"
    /\ UNCHANGED <<place, seen, picked, adding, marked, erasing, leaving>>

PickItem ==
    /\ modal = "add" /\ adding = None
    /\ \/ \E i \in Selectable : picked' = (picked \ {i}) \cup ({i} \ picked)
       \/ picked # {} /\ picked' = {}
    /\ UNCHANGED <<place, seen, modal, adding, marked, erasing, leaving>>

CloseAddItems ==
    /\ modal = "add" /\ adding = None
    /\ modal' = "none" /\ picked' = {}
    /\ UNCHANGED <<place, seen, adding, marked, erasing, leaving>>

AddSelectedItems ==
    /\ modal = "add" /\ adding = None /\ picked # {}
    /\ adding' = [chosen |-> picked, put |-> {}, failed |-> {}, stage |-> "sent"]
    /\ UNCHANGED <<place, seen, modal, picked, marked, erasing, leaving>>

(* The server takes an item that is in no kit.                             *)
AnswerAdditions ==
    /\ adding # None /\ adding.stage = "sent"
    /\ \E applied \in SUBSET {i \in adding.chosen : place[i] = None} :
       \E heard \in IF "add" \in Unanswered THEN SUBSET applied ELSE {applied} :
        /\ place' = [i \in Goods |-> IF i \in applied THEN Here ELSE place[i]]
        /\ adding' = [adding EXCEPT !.put = applied, !.stage = "refetch",
                                    !.failed = adding.chosen \ heard]
    /\ UNCHANGED <<seen, modal, picked, marked, erasing, leaving>>

(* Mutated: the dialog closes as soon as something was added.              *)
CloseOnAnySuccess ==
    /\ adding # None /\ adding.stage = "refetch"
    /\ KitRefetch
    /\ adding' = None
    /\ IF adding.failed # adding.chosen
       THEN modal' = "none" /\ picked' = {}
       ELSE picked' = adding.failed /\ UNCHANGED modal
    /\ UNCHANGED <<place, marked, erasing, leaving>>

AdditionsDone ==
    /\ adding # None /\ adding.stage = "refetch"
    /\ KitRefetch
    /\ adding' = None
    /\ IF adding.failed = {}
       THEN modal' = "none" /\ picked' = {}
       ELSE picked' = adding.failed /\ UNCHANGED modal
    /\ UNCHANGED <<place, marked, erasing, leaving>>
-----------------------------------------------------------------------------
(* Deleting the selection, and the kit.                                    *)

OpenErase ==
    /\ modal = "none" /\ marked # {}
    /\ modal' = "erase"
    /\ UNCHANGED <<place, seen, picked, adding, marked, erasing, leaving>>

(* The dialog of the kit looks alike and deletes none of its items; once   *)
(* it is deleted the page is left.                                         *)
OpenDeleteKit ==
    /\ modal = "none"
    /\ modal' = "kit"
    /\ UNCHANGED <<place, seen, picked, adding, marked, erasing, leaving>>

CancelErase ==
    /\ modal \in {"erase", "kit"} /\ erasing = None
    /\ modal' = "none"
    /\ UNCHANGED <<place, seen, picked, adding, marked, erasing, leaving>>

(* The ids are read when Delete is pressed.                                *)
ConfirmErase ==
    /\ modal = "erase" /\ erasing = None /\ marked # {}
    /\ erasing' = [chosen |-> marked, erased |-> {}, stage |-> "sent"]
    /\ UNCHANGED <<place, seen, modal, picked, adding, marked, leaving>>

AnswerErase ==
    /\ erasing # None /\ erasing.stage = "sent"
    /\ \E applied \in SUBSET {i \in erasing.chosen : place[i] # Gone} :
       \E heard \in IF "delete" \in Unanswered THEN SUBSET applied ELSE {applied} :
        /\ place' = [i \in Goods |-> IF i \in applied THEN Gone ELSE place[i]]
        /\ marked' = marked \ heard
        /\ erasing' = [erasing EXCEPT !.erased = heard, !.stage = "refetch"]
    /\ UNCHANGED <<seen, modal, picked, adding, leaving>>

(* All deleted or some: the dialog closes.  None: it stays.                *)
EraseDone ==
    /\ erasing # None /\ erasing.stage = "refetch"
    /\ IF erasing.erased = {}
       THEN UNCHANGED <<seen, modal>>
       ELSE KitRefetch /\ modal' = "none"
    /\ erasing' = None
    /\ UNCHANGED <<place, picked, adding, marked, leaving>>

(* The kit is deleted: its items stay in the inventory.                    *)
DeleteKit ==
    /\ modal = "kit"
    /\ place' = [i \in Goods |-> IF place[i] = Here THEN None ELSE place[i]]
    /\ modal' = "left"
    /\ UNCHANGED <<seen, picked, adding, marked, erasing, leaving>>
-----------------------------------------------------------------------------
KitInit ==
    /\ place \in [Goods -> {Here, Away, None}] /\ seen = place
    /\ modal = "none" /\ picked = {} /\ adding = None
    /\ marked = {} /\ erasing = None /\ leaving = {}

KitNext ==
    \/ KitElsewhere \/ KitReload \/ MarkItems \/ RemoveFromKit \/ AnswerRemoval
    \/ OpenAddItems \/ PickItem \/ CloseAddItems \/ AddSelectedItems
    \/ AnswerAdditions \/ AdditionsDone
    \/ OpenErase \/ OpenDeleteKit \/ CancelErase \/ ConfirmErase
    \/ AnswerErase \/ EraseDone \/ DeleteKit

KitSpec == KitInit /\ [][KitNext]_kitVars
-----------------------------------------------------------------------------
(* The values of the variables.                                            *)
KitTypeOK ==
    /\ place \in [Goods -> Places] /\ seen \in [Goods -> Places]
    /\ modal \in {"none", "add", "erase", "kit", "left"}
    /\ picked \subseteq Goods /\ adding \in Additions \cup {None}
    /\ marked \subseteq Goods /\ erasing \in Erasures \cup {None}
    /\ leaving \subseteq Goods

(* When an addition ends, each item that was chosen was put into the kit   *)
(* or is still selected for another try.                                   *)
NoAdditionIsLost ==
    [][adding # None /\ adding' = None => adding.chosen \subseteq adding.put \cup picked']_kitVars
=============================================================================
