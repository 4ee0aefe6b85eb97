----------------------------- MODULE EditRecord -----------------------------
(***************************************************************************)
(* The dialog that edits an item or a kit (edit-record-dialog.tsx) and the *)
(* pages that save it (app/items/[id] and app/kits/[id]).  A save updates  *)
(* the fields in one request, then attaches and detaches labels by a diff  *)
(* against the record that was cached when Save was pressed.               *)
(*                                                                         *)
(* The fields are one value.  The page makes the record it hands to the    *)
(* dialog anew whenever it renders (documentRecord), and the dialog then   *)
(* takes its draft from the record again: pressing Save, an error and a    *)
(* refetch each reset what is typed.                                       *)
(*                                                                         *)
(* Left out: the validation of fields, texts of errors.                    *)
(***************************************************************************)
EXTENDS ApiClient

CONSTANTS Texts, Tags   \* values of the fields, labels

VARIABLES
    record,   \* the record at the server: text and tags
    cached,   \* the record as the page has it
    editor,   \* open
    edits,    \* the draft
    wish,     \* what the form showed when the user last changed it or opened it
    update,   \* the running save, None if there is none
    editError \* what the dialog says: nothing, or what failed

editVars == <<record, cached, editor, edits, wish, update, editError>>

Records == [text : Texts, tags : SUBSET Tags]
EditErrors == {"none", "fields", "labels"}
Updates == [input : Records, base : SUBSET Tags, wish : Records,
            stage : {"fields", "labels", "settle"},
            failed : EditErrors, told : EditErrors]

ASSUME EditAssumption == None \notin Updates

(* The effect of the dialog while it is open.                              *)
ResetDraft(open, to) == edits' = IF open THEN to ELSE edits
-----------------------------------------------------------------------------
OpenEditor ==
    /\ ~editor
    /\ editor' = TRUE /\ edits' = cached /\ wish' = cached
    /\ UNCHANGED <<record, cached, update, editError>>

ChangeDraft ==
    /\ editor
    /\ edits' \in Records /\ wish' = edits'
    /\ UNCHANGED <<record, cached, editor, update, editError>>

(* Cancel, Escape or the overlay, during a save as well.                   *)
CloseEditor ==
    /\ editor
    /\ editor' = FALSE
    /\ UNCHANGED <<record, cached, edits, wish, update, editError>>

(* The page renders as the save begins, which resets the draft.            *)
SaveRecordChanges ==
    /\ editor /\ update = None
    /\ update' = [input |-> edits, base |-> cached.tags, wish |-> wish,
                  stage |-> "fields", failed |-> "none", told |-> editError]
    /\ ResetDraft(TRUE, cached)
    /\ UNCHANGED <<record, cached, editor, wish, editError>>

UpdateFields ==
    /\ update # None /\ update.stage = "fields"
    /\ \E o \in Outcomes("edit") :
        /\ record' = IF o.applied THEN [record EXCEPT !.text = update.input.text] ELSE record
        /\ update' = IF o.heard THEN [update EXCEPT !.stage = "labels"]
                     ELSE [update EXCEPT !.stage = "settle", !.failed = "fields"]
    /\ UNCHANGED <<cached, editor, edits, wish, editError>>

(* Mutated: labels that are no longer chosen stay.                         *)
AttachOnly(base, chosen) == [attach |-> chosen \ base, detach |-> {}]

labelSelectionDiff(base, chosen) == [attach |-> chosen \ base, detach |-> base \ chosen]

(* One request per label; attaching and detaching twice is no error.       *)
UpdateLabels ==
    /\ update # None /\ update.stage = "labels"
    /\ LET diff == labelSelectionDiff(update.base, update.input.tags) IN
       \E on \in SUBSET diff.attach, off \in SUBSET diff.detach :
       \E heard \in IF "tags" \in Unanswered THEN SUBSET (on \cup off) ELSE {on \cup off} :
        /\ record' = [record EXCEPT !.tags = (@ \cup on) \ off]
        /\ update' = [update EXCEPT !.stage = "settle",
                                    !.failed = IF heard = diff.attach \cup diff.detach
                                               THEN "none" ELSE "labels"]
    /\ UNCHANGED <<cached, editor, edits, wish, editError>>

(* onSuccess closes the dialog, onError leaves it open; either way the     *)
(* record is refetched before Save can be pressed again.                   *)
Settle ==
    /\ update # None /\ update.stage = "settle"
    /\ editor' = (editor /\ update.failed # "none")
    /\ editError' = update.failed
    /\ cached' \in IF "refetch" \in Unanswered THEN {record, cached} ELSE {record}
    /\ ResetDraft(editor', cached')
    /\ update' = None
    /\ UNCHANGED <<record, wish>>
-----------------------------------------------------------------------------
EditInit ==
    /\ record \in Records /\ cached = record
    /\ editor = FALSE /\ edits = record /\ wish = record /\ update = None
    /\ editError = "none"

EditNext ==
    \/ OpenEditor \/ ChangeDraft \/ CloseEditor \/ SaveRecordChanges
    \/ UpdateFields \/ UpdateLabels \/ Settle

EditSpec == EditInit /\ [][EditNext]_editVars
-----------------------------------------------------------------------------
(* The values of the variables.                                            *)
EditTypeOK ==
    /\ {record, cached, edits, wish} \subseteq Records
    /\ editor \in BOOLEAN /\ update \in Updates \cup {None}
    /\ editError \in EditErrors

Saved == update # None /\ update.stage = "settle" /\ update.failed = "none"

(* A save that closes its dialog has made the record what the form showed  *)
(* when Save was pressed: also after saves that failed half way, and with  *)
(* labels whose answers got lost before.                                   *)
SavedAsShown == Saved => record = update.input

(* Told to save again because some label changes failed, the user presses  *)
(* Save: when the dialog closes, the record is what the user chose.        *)
SavingAgainFinishes == Saved /\ update.told = "labels" => record = update.wish
=============================================================================
