----------------------------- MODULE ItemsPage -----------------------------
(***************************************************************************)
(* The list of items (app/items/page.tsx): filters, pages, a selection     *)
(* that outlives both, and the deletion of what is selected or of one row. *)
(* Every item is deleted by a request of its own; some may fail.           *)
(*                                                                         *)
(* Items are numbered in the order of the list.  The query, the kit, the   *)
(* location, the status and the labels of the filters keep some rows and   *)
(* drop others: what they keep is chosen freely.  Dialogs are modal, so    *)
(* nothing else is pressed while one is open.                              *)
(*                                                                         *)
(* Left out: creating items (ItemEntry), the spreadsheet of the selection, *)
(* which changes nothing, the wording of messages.                         *)
(***************************************************************************)
EXTENDS ApiClient, Naturals, FiniteSets

CONSTANTS
    Stock,      \* bound: the items are 1..Stock
    PageSize    \* ITEMS_PAGE_SIZE

VARIABLES
    kept,      \* the items at the server
    listed,    \* the cached list of items
    matching,  \* the items the filters keep
    page,
    ticked,    \* selectedItemIds
    doomed,    \* deleteRequest: the items the dialog is open for, None while it is closed
    deleting,  \* the running deletion, None if there is none
    notice,    \* what the page says: nothing, deleteError or actionError
    insisted,  \* history: items the user had selected when confirming their deletion, and still wants deleted
    removed    \* history: items the page deleted

itemsVars == <<kept, listed, matching, page, ticked, doomed, deleting, notice, insisted, removed>>

AllItems == 1..Stock
Deletions == [ids : SUBSET AllItems, deleted : SUBSET AllItems, page : Nat, rows : Nat,
              stage : {"sent", "refetch"}]

ASSUME ItemsPageAssumption ==
    Stock \in Nat /\ PageSize \in Nat \ {0} /\ None \notin Deletions

FilteredRows == listed \cap matching
Position(i)  == Cardinality({j \in FilteredRows : j <= i})
PageRows     == {i \in FilteredRows : Position(i) \in page * PageSize + 1 .. (page + 1) * PageSize}
TotalPages   == LET full == (Cardinality(FilteredRows) + PageSize - 1) \div PageSize
                IN  IF full = 0 THEN 1 ELSE full

Pressable == doomed = None
-----------------------------------------------------------------------------
(* Another client deletes an item.                                         *)
ItemsElsewhere ==
    /\ \E i \in kept : kept' = kept \ {i}
    /\ UNCHANGED <<listed, matching, page, ticked, doomed, deleting, notice, insisted, removed>>

ItemsReload ==
    /\ listed' = kept
    /\ UNCHANGED <<kept, matching, page, ticked, doomed, deleting, notice, insisted, removed>>

(* A changed filter goes back to the first page and keeps the selection.   *)
FilterItems ==
    /\ Pressable
    /\ matching' \in SUBSET AllItems /\ page' = 0
    /\ UNCHANGED <<kept, listed, ticked, doomed, deleting, notice, insisted, removed>>

TurnPage ==
    /\ Pressable
    /\ \/ page > 0 /\ page' = page - 1
       \/ page + 1 < TotalPages /\ page' = page + 1
    /\ UNCHANGED <<kept, listed, matching, ticked, doomed, deleting, notice, insisted, removed>>

(* A row, the rows of the page, or every row the filters keep.             *)
TickItems ==
    /\ Pressable
    /\ \/ \E i \in PageRows : ticked' = (ticked \ {i}) \cup ({i} \ ticked)
       \/ PageRows # {} /\ ticked' \in {ticked \cup PageRows, ticked \ PageRows}
       \/ ticked # {} /\ FilteredRows # {} /\ ticked' = ticked \cup FilteredRows
    /\ insisted' = insisted \cap ticked'
    /\ UNCHANGED <<kept, listed, matching, page, doomed, deleting, notice, removed>>

ClearTicked ==
    /\ Pressable /\ ticked # {}
    /\ ticked' = {} /\ insisted' = {} /\ notice' = "none"
    /\ UNCHANGED <<kept, listed, matching, page, doomed, deleting, removed>>

OpenDeleteItems ==
    /\ Pressable
    /\ doomed' \in {{i} : i \in PageRows} \cup ({ticked} \ {{}})
    /\ notice' = "none"
    /\ UNCHANGED <<kept, listed, matching, page, ticked, deleting, insisted, removed>>

CancelDeleteItems ==
    /\ doomed # None /\ deleting = None
    /\ doomed' = None
    /\ UNCHANGED <<kept, listed, matching, page, ticked, deleting, notice, insisted, removed>>

ConfirmDeleteItems ==
    /\ doomed # None /\ deleting = None
    /\ deleting' = [ids |-> doomed, deleted |-> {}, page |-> page,
                    rows |-> Cardinality(PageRows), stage |-> "sent"]
    /\ notice' = "none" /\ insisted' = insisted \cup (doomed \cap ticked)
    /\ UNCHANGED <<kept, listed, matching, page, ticked, doomed, removed>>

(* Mutated: the selection loses what the dialog named once some of it went. *)
AnswerForgetsFailed ==
    /\ deleting # None /\ deleting.stage = "sent"
    /\ \E applied \in SUBSET (deleting.ids \cap kept) :
       \E heard \in IF "delete" \in Unanswered THEN SUBSET applied ELSE {applied} :
        /\ kept' = kept \ applied
        /\ removed' = removed \cup applied
        /\ ticked' = IF heard = {} THEN ticked ELSE ticked \ deleting.ids
        /\ deleting' = [deleting EXCEPT !.deleted = heard, !.stage = "refetch"]
    /\ UNCHANGED <<listed, matching, page, doomed, notice, insisted>>

(* Promise.allSettled: an item that is gone already answers an error.      *)
AnswerDeleteItems ==
    /\ deleting # None /\ deleting.stage = "sent"
    /\ \E applied \in SUBSET (deleting.ids \cap kept) :
       \E heard \in IF "delete" \in Unanswered THEN SUBSET applied ELSE {applied} :
        /\ kept' = kept \ applied
        /\ removed' = removed \cup applied
        /\ ticked' = ticked \ heard
        /\ deleting' = [deleting EXCEPT !.deleted = heard, !.stage = "refetch"]
    /\ UNCHANGED <<listed, matching, page, doomed, notice, insisted>>

(* Mutated: an emptied page is left also when it is the first.             *)
PageBefore == IF Cardinality(deleting.deleted) >= deleting.rows THEN page - 1 ELSE page

(* An emptied page is left for the one before it; the page and its rows    *)
(* are those of the moment Delete was pressed.                             *)
PageAfter ==
    IF page > 0 /\ deleting.page > 0 /\ Cardinality(deleting.deleted) >= deleting.rows
    THEN page - 1 ELSE page

(* The lists are refetched if something was deleted.                       *)
ItemsDeleted ==
    /\ deleting # None /\ deleting.stage = "refetch"
    /\ listed' \in IF deleting.deleted = {} THEN {listed} ELSE {kept, listed}
    /\ page' = IF deleting.deleted = {} THEN page ELSE PageAfter
    /\ \/ /\ deleting.deleted = deleting.ids
          /\ doomed' = None /\ UNCHANGED notice
       \/ /\ deleting.deleted \notin {{}, deleting.ids}
          /\ doomed' = None /\ notice' = "partial"
       \/ /\ deleting.deleted = {}
          /\ notice' = "error" /\ UNCHANGED doomed
    /\ deleting' = None
    /\ UNCHANGED <<kept, matching, ticked, insisted, removed>>
-----------------------------------------------------------------------------
ItemsInit ==
    /\ kept = AllItems /\ listed = kept /\ matching = AllItems /\ page = 0
    /\ ticked = {} /\ doomed = None /\ deleting = None /\ notice = "none"
    /\ insisted = {} /\ removed = {}

ItemsNext ==
    \/ ItemsElsewhere \/ ItemsReload \/ FilterItems \/ TurnPage \/ TickItems
    \/ ClearTicked \/ OpenDeleteItems \/ CancelDeleteItems
    \/ ConfirmDeleteItems \/ AnswerDeleteItems \/ ItemsDeleted

ItemsSpec == ItemsInit /\ [][ItemsNext]_itemsVars
-----------------------------------------------------------------------------
(* The values of the variables.                                            *)
ItemsTypeOK ==
    /\ {kept, listed, matching, ticked, insisted, removed} \subseteq SUBSET AllItems
    /\ page \in Nat /\ notice \in {"none", "error", "partial"}
    /\ doomed \in (SUBSET AllItems) \cup {None}
    /\ deleting \in Deletions \cup {None}

(* Some requests of a deletion fail, or their answers get lost: an item    *)
(* that the user selected and confirmed to delete stays selected, over     *)
(* filters, pages and further deletions, until the page deleted it or the  *)
(* user unselects it; and a deletion that ends without a message has       *)
(* deleted every item that its dialog named.                               *)
NoDeletionIsLost ==
    [][/\ insisted' \subseteq ticked' \cup removed'
       /\ deleting # None /\ deleting' = None /\ notice' = "none" =>
              deleting.ids \cap kept' = {}]_itemsVars
=============================================================================
