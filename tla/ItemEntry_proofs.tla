-------------------------- MODULE ItemEntry_proofs --------------------------
(***************************************************************************)
(* Proofs about ItemEntry: a save that is retried, for any form and any    *)
(* requests that are refused, makes one item of what the user entered,     *)
(* uploads nothing twice and reports success only of what was saved.       *)
(*                                                                         *)
(* Each property is proved from an invariant of its own and supposes no    *)
(* more than it needs: at most that the requests of one kind are answered. *)
(***************************************************************************)
EXTENDS ItemEntry, TLAPS

(* The requests that assign labels and kits are answered or refused.       *)
AssignmentsHeard == {"labels", "leave", "enter"} \cap Unanswered = {}
-----------------------------------------------------------------------------
(* The values of the variables, whichever answers get lost.                *)

(* A save past its record has an item; a photo that is uploaded, or        *)
(* removed after it was, is one.                                           *)
EntryTypes ==
    /\ EntryTypeOK
    /\ saving.phase \in {"labels", "photos", "put", "cleanup", "leave", "enter"} =>
          saving.progress.item \in Items
    /\ saving.phase \in {"put", "cleanup"} => saving.file \in Files
    /\ saving.phase = "cleanup" /\ saving.whole => photos[Photo] > 0

LEMMA FreshAreTyped ==
    /\ NoProgress \in Progress /\ EmptyForm \in Forms /\ NoSave \in Saves
    /\ \A shown, guided \in BOOLEAN : FreshDialog(shown, guided) \in Dialogs
  <1>1. NoProgress \in Progress /\ EmptyForm \in Forms
    BY DEF NoProgress, Progress, EmptyForm, Forms
  <1>2. 1 \in 1..(MaxEntries + 1)
    BY EntryAssumption
  <1>3. NoSave \in Saves
    BY <1>1, <1>2 DEF NoSave, Saves, Phases, Kinds
  <1>4. \A shown, guided \in BOOLEAN : FreshDialog(shown, guided) \in Dialogs
    BY DEF FreshDialog, Dialogs, LastStep
  <1> QED
    BY <1>1, <1>3, <1>4

LEMMA CompletedIsTyped == \A d \in Dialogs : Completed(d) \in Dialogs
  <1> SUFFICES ASSUME NEW d \in Dialogs PROVE Completed(d) \in Dialogs
    OBVIOUS
  <1>1. /\ d.step \in 0..7 /\ d.completed \cup {d.step} \in SUBSET (0..7)
        /\ (IF d.step < 7 THEN d.step + 1 ELSE 7) \in 0..7
    BY DEF Dialogs, LastStep
  <1> QED
    BY <1>1 DEF Completed, Dialogs, LastStep

LEMMA ResetIsTyped ==
    ASSUME EntryTypes, NEW shown \in BOOLEAN, NEW guided \in BOOLEAN, ResetEntry(shown, guided)
    PROVE  /\ dialog' \in Dialogs /\ entry' \in 1..(MaxEntries + 1) /\ progress' \in Progress
           /\ outlived' \subseteq 1..(MaxEntries + 1)
  <1>1. saving.entry \in 1..(MaxEntries + 1) /\ outlived \subseteq 1..(MaxEntries + 1)
    BY DEF EntryTypes, EntryTypeOK, Saves
  <1>2. outlived' \subseteq 1..(MaxEntries + 1)
    BY <1>1 DEF ResetEntry, Outlives
  <1> QED
    BY <1>2, FreshAreTyped, EntryAssumption DEF ResetEntry, EntryTypes, EntryTypeOK

LEMMA UserTypes ==
    ASSUME EntryTypes,
           \/ OpenDialog \/ ToggleAssisted \/ RequestClose \/ KeepWorking \/ ExitAndKeepItem
           \/ Skip \/ Back \/ Visit \/ AddAnother \/ ViewItem
    PROVE  EntryTypes'
  <1>1. UNCHANGED <<saving, entryServer>>
    BY DEF OpenDialog, ToggleAssisted, RequestClose, KeepWorking, ExitAndKeepItem, Skip, Back,
           Visit, AddAnother, ViewItem
  <1>2. /\ dialog' \in Dialogs /\ entry' \in 1..(MaxEntries + 1) /\ progress' \in Progress
        /\ outlived' \subseteq 1..(MaxEntries + 1)
    <2>0. /\ dialog \in Dialogs /\ entry \in 1..(MaxEntries + 1) /\ progress \in Progress
          /\ outlived \subseteq 1..(MaxEntries + 1)
      BY DEF EntryTypes, EntryTypeOK
    <2>1. CASE OpenDialog \/ ToggleAssisted \/ KeepWorking
      BY <2>0, <2>1 DEF OpenDialog, ToggleAssisted, KeepWorking, Dialogs
    <2>2. CASE RequestClose \/ ExitAndKeepItem \/ AddAnother \/ ViewItem
      <3>1. CASE \E shown, guided \in BOOLEAN : ResetEntry(shown, guided)
        BY <3>1, ResetIsTyped
      <3>2. CASE dialog' = [dialog EXCEPT !.exit = TRUE] /\ UNCHANGED <<entry, progress, outlived>>
        BY <2>0, <3>2 DEF Dialogs
      <3> QED
        BY <2>2, <3>1, <3>2 DEF RequestClose, ExitAndKeepItem, AddAnother, ViewItem
    <2>3. CASE Skip
      BY <2>0, <2>3, CompletedIsTyped DEF Skip
    <2>4. CASE Back
      <3>1. dialog.step - 1 \in 0..LastStep
        BY <2>4 DEF Back, AtStep, LastStep
      <3> QED
        BY <2>0, <2>4, <3>1 DEF Back, Dialogs
    <2>5. CASE Visit
      BY <2>0, <2>5 DEF Visit, Dialogs
    <2> QED
      BY <2>1, <2>2, <2>3, <2>4, <2>5
  <1> QED
    BY <1>1, <1>2 DEF EntryTypes, EntryTypeOK, entryServer, Photo

(* A step of a save: what it makes of the save and of what the page holds. *)
LEMMA SaveTyped ==
    ASSUME EntryTypes, UNCHANGED <<dialog, entry, outlived>>,
           saving' \in Saves, progress' \in {progress, saving'.progress},
           title' \in [Items -> 0..(MaxEntries + 1)], born' \in [Items -> 0..(MaxEntries + 1)],
           tagged' \subseteq Items \X Labels, packed' \in [Items -> Containers \cup {None}],
           photos' \in [Items \X Files -> 0..2],
           saving'.phase \in {"labels", "photos", "put", "cleanup", "leave", "enter"} =>
              saving'.progress.item \in Items,
           saving'.phase \in {"put", "cleanup"} => saving'.file \in Files,
           saving'.phase = "cleanup" /\ saving'.whole => photos'[Photo'] > 0
    PROVE  EntryTypes'
  <1>1. progress' \in Progress
    BY DEF EntryTypes, EntryTypeOK, Saves
  <1> QED
    BY <1>1 DEF EntryTypes, EntryTypeOK

LEMMA ReturnTyped ==
    ASSUME EntryTypes, NEW save \in Saves, Return(save),
           title' \in [Items -> 0..(MaxEntries + 1)], born' \in [Items -> 0..(MaxEntries + 1)],
           tagged' \subseteq Items \X Labels, packed' \in [Items -> Containers \cup {None}],
           photos' \in [Items \X Files -> 0..2]
    PROVE  EntryTypes'
  <1>1. saving' \in Saves /\ saving'.phase = "refetch" /\ progress' = saving'.progress
        /\ UNCHANGED <<dialog, entry, outlived>>
    BY DEF Return, Saves, Phases
  <1> QED
    BY <1>1, SaveTyped

LEMMA RecordTypes ==
    ASSUME EntryTypes, SaveRecord
    PROVE  EntryTypes'
  <1>0. /\ saving \in Saves /\ saving.entry \in 0..(MaxEntries + 1)
        /\ title \in [Items -> 0..(MaxEntries + 1)] /\ born \in [Items -> 0..(MaxEntries + 1)]
        /\ UNCHANGED <<tagged, packed, photos>>
        /\ tagged \subseteq Items \X Labels /\ packed \in [Items -> Containers \cup {None}]
        /\ photos \in [Items \X Files -> 0..2]
    BY EntryAssumption DEF EntryTypes, EntryTypeOK, SaveRecord, Saves
  <1>1. PICK o \in Outcomes("record"), i \in Items :
            /\ born' \in {born, [born EXCEPT ![i] = saving.entry]}
            /\ title' \in {title, [title EXCEPT ![i] = saving.entry]}
            /\ IF o.heard
               THEN /\ saving' = [saving EXCEPT !.phase = "labels",
                                        !.progress = [saving.progress EXCEPT !.item = i]]
                    /\ UNCHANGED entryPage
               ELSE Return([saving EXCEPT !.failed = TRUE])
    BY DEF SaveRecord
  <1>2. title' \in [Items -> 0..(MaxEntries + 1)] /\ born' \in [Items -> 0..(MaxEntries + 1)]
    BY <1>0, <1>1
  <1>3. CASE o.heard
    <2>1. [saving.progress EXCEPT !.item = i] \in Progress
      BY <1>0 DEF Saves, Progress
    <2>2. PICK p \in Progress :
            p.item = i /\ saving' = [saving EXCEPT !.phase = "labels", !.progress = p]
      <3>1. [saving.progress EXCEPT !.item = i].item = i
        BY <1>0 DEF Saves, Progress
      <3> QED
        BY <1>1, <1>3, <2>1, <3>1
    <2>3. saving \in Saves
      BY <1>0
    <2>4. saving' \in Saves /\ saving'.phase = "labels" /\ saving'.progress.item = i
      BY <2>2, <2>3 DEF Saves, Phases
    <2> QED
      BY <1>0, <1>1, <1>2, <1>3, <2>4, SaveTyped DEF entryPage
  <1>4. CASE ~o.heard
    <2>1. [saving EXCEPT !.failed = TRUE] \in Saves
      BY <1>0 DEF Saves
    <2> QED
      BY <1>0, <1>1, <1>2, <1>4, <2>1, ReturnTyped
  <1> QED
    BY <1>3, <1>4

LEMMA LabelTypes ==
    ASSUME EntryTypes, SaveLabels
    PROVE  EntryTypes'
  <1>0. /\ saving \in Saves /\ saving.progress.item \in Items
        /\ saving.progress \in Progress /\ saving.input.labels \subseteq Labels
        /\ saving.progress.labels \subseteq Labels
        /\ UNCHANGED <<entryPage, title, born, packed, photos>>
    BY DEF EntryTypes, EntryTypeOK, SaveLabels, Saves, Progress, Forms
  <1>1. PICK applied \in SUBSET LabelOperations :
        \E heard \in IF "labels" \in Unanswered THEN SUBSET applied ELSE {applied} :
          /\ tagged' = Retagged(saving.progress.item, Toggled(LabelsOf(saving.progress.item), applied))
          /\ saving' = [saving EXCEPT !.phase = "photos",
                              !.progress = [saving.progress EXCEPT !.labels = Toggled(@, heard)],
                              !.failed = @ \/ heard # LabelOperations]
    BY Zenon DEF SaveLabels
  <1>2. PICK heard, failed :
          /\ failed \in BOOLEAN
          /\ saving' = [saving EXCEPT !.phase = "photos",
                              !.progress = [saving.progress EXCEPT !.labels = Toggled(saving.progress.labels, heard)],
                              !.failed = failed]
    <2>0. \A b : (saving.failed \/ b # LabelOperations) \in BOOLEAN
      BY <1>0 DEF Saves
    <2>1. PICK heard :
            saving' = [saving EXCEPT !.phase = "photos",
                             !.progress = [saving.progress EXCEPT !.labels = Toggled(@, heard)],
                             !.failed = @ \/ heard # LabelOperations]
      BY <1>1
    <2>2. saving' = [saving EXCEPT !.phase = "photos",
                           !.progress = [saving.progress EXCEPT !.labels = Toggled(saving.progress.labels, heard)],
                           !.failed = saving.failed \/ heard # LabelOperations]
      BY <2>1, <1>0 DEF Progress, Saves
    <2>3. (saving.failed \/ heard # LabelOperations) \in BOOLEAN
      BY <2>0
    <2> QED
      BY <2>2, <2>3, Zenon
  <1>3. \A S \in SUBSET Labels : \A d : Toggled(S, d) \subseteq Labels
    BY <1>0 DEF Toggled
  <1>4. tagged' \subseteq Items \X Labels
    <2>1. LabelsOf(saving.progress.item) \in SUBSET Labels
      BY DEF LabelsOf
    <2> QED
      BY <1>0, <1>1, <1>3, <2>1 DEF Retagged, EntryTypes, EntryTypeOK
  <1>5. [saving.progress EXCEPT !.labels = Toggled(saving.progress.labels, heard)] \in Progress
        /\ [saving.progress EXCEPT !.labels = Toggled(saving.progress.labels, heard)].item \in Items
    BY <1>0, <1>3 DEF Progress
  <1>6. saving' \in Saves /\ saving'.phase = "photos" /\ saving'.progress.item \in Items
    BY <1>0, <1>2, <1>5 DEF Saves, Phases
  <1> QED
    BY <1>0, <1>4, <1>6, SaveTyped DEF EntryTypes, EntryTypeOK, entryPage

LEMMA PhotoTypes ==
    ASSUME EntryTypes, CreatePhoto \/ PutPhoto \/ DeletePhoto \/ PhotosDone
    PROVE  EntryTypes'
  <1>0. /\ saving \in Saves /\ saving.progress.item \in Items
        /\ saving.progress \in Progress /\ saving.input.files \subseteq Files
        /\ saving.phase \in {"put", "cleanup"} => saving.file \in Files /\ Photo \in Items \X Files
        /\ saving.phase = "cleanup" /\ saving.whole => photos[Photo] > 0
        /\ photos \in [Items \X Files -> 0..2]
        /\ saving.tried \subseteq Files /\ saving.progress.files \subseteq Files
        /\ dialog \in Dialogs
    BY DEF EntryTypes, EntryTypeOK, CreatePhoto, PutPhoto, DeletePhoto, PhotosDone, Saves, Progress, Forms,
           Photo
  <1>01. /\ title \in [Items -> 0..(MaxEntries + 1)] /\ born \in [Items -> 0..(MaxEntries + 1)]
         /\ tagged \subseteq Items \X Labels /\ packed \in [Items -> Containers \cup {None}]
         /\ UNCHANGED <<title, born, tagged, packed>>
    BY DEF EntryTypes, EntryTypeOK, CreatePhoto, PutPhoto, DeletePhoto, PhotosDone, entryServer
  <1>1. CASE CreatePhoto
    <2>1. PICK f \in FilesLeft, o \in Outcomes("photos") :
            /\ saving' = IF o.heard
                         THEN [saving EXCEPT !.phase = "put", !.file = f, !.whole = FALSE]
                         ELSE [saving EXCEPT !.tried = @ \cup {f}, !.failed = TRUE]
      BY <1>1, Zenon DEF CreatePhoto
    <2>2. f \in Files /\ saving.phase = "photos" /\ UNCHANGED <<entryPage, photos>>
      BY <1>0, <1>1 DEF FilesLeft, CreatePhoto, entryServer
    <2>4. /\ saving' \in Saves /\ saving'.phase \in {"put", "photos"} /\ saving'.progress = saving.progress
          /\ saving'.phase = "put" => saving'.file \in Files
      BY <1>0, <2>1, <2>2 DEF Saves, Phases
    <2> QED
      BY <1>0, <1>01, <2>2, <2>4, SaveTyped DEF entryPage
  <1>2. CASE PutPhoto
    <2>1. PICK o \in Outcomes("put") :
            /\ photos' = IF o.applied
                         THEN [photos EXCEPT ![Photo] = IF @ < 2 THEN @ + 1 ELSE 2]
                         ELSE photos
            /\ saving' = IF o.heard
                         THEN [saving EXCEPT !.phase = "photos", !.tried = @ \cup {saving.file},
                                             !.progress = [saving.progress EXCEPT !.files = @ \cup {saving.file}]]
                         ELSE [saving EXCEPT !.phase = "cleanup", !.whole = o.applied, !.failed = TRUE]
      BY <1>2, Zenon DEF PutPhoto
    <2>2. /\ saving.file \in Files /\ Photo \in Items \X Files /\ UNCHANGED entryPage
          /\ o.applied \in BOOLEAN
      <3>1. saving.file \in Files /\ Photo \in Items \X Files
        BY <1>0, <1>2 DEF PutPhoto
      <3>2. o.applied \in BOOLEAN
        <4>1. o = Answered \/ o = Refused \/ o = Lost
          BY <2>1 DEF Outcomes
        <4> QED
          BY <4>1, \A b, c \in BOOLEAN : [applied |-> b, heard |-> c].applied \in BOOLEAN, Zenon
             DEF Answered, Refused, Lost
      <3>3. UNCHANGED entryPage
        BY <1>2 DEF PutPhoto
      <3> QED
        BY <3>1, <3>2, <3>3
    <2>3. photos' \in [Items \X Files -> 0..2] /\ (o.applied => photos'[Photo] > 0)
      BY <1>0, <2>1, <2>2
    <2>4. CASE o.heard
      <3>1. [saving.progress EXCEPT !.files = @ \cup {saving.file}] \in Progress
            /\ [saving.progress EXCEPT !.files = @ \cup {saving.file}].item \in Items
        BY <1>0, <2>2 DEF Progress
      <3>2. saving' \in Saves /\ saving'.phase = "photos" /\ saving'.progress.item \in Items
        BY <1>0, <2>1, <2>2, <2>4, <3>1 DEF Saves, Phases
      <3> QED
        BY <1>0, <1>01, <2>2, <2>3, <3>2, SaveTyped DEF entryPage
    <2>5. CASE ~o.heard
      <3>1. /\ saving' \in Saves /\ saving'.phase = "cleanup" /\ saving'.progress = saving.progress
            /\ saving'.file = saving.file /\ saving'.whole = o.applied
        BY <1>0, <2>1, <2>2, <2>5 DEF Saves, Phases
      <3>2. Photo' = Photo
        BY <3>1 DEF Photo
      <3> QED
        BY <1>0, <1>01, <2>2, <2>3, <3>1, <3>2, SaveTyped DEF entryPage
    <2> QED
      BY <2>4, <2>5
  <1>3. CASE DeletePhoto
    <2>1. /\ photos' \in {photos} \cup (IF saving.whole THEN {[photos EXCEPT ![Photo] = @ - 1]} ELSE {})
          /\ saving.phase = "cleanup"
          /\ saving' = [saving EXCEPT !.phase = "photos", !.tried = @ \cup {saving.file}]
          /\ UNCHANGED entryPage
      BY <1>3 DEF DeletePhoto
    <2>2. saving.file \in Files /\ Photo \in Items \X Files /\ (saving.whole => photos[Photo] - 1 \in 0..2)
      BY <1>0, <2>1
    <2>3. photos' \in [Items \X Files -> 0..2]
      BY <1>0, <2>1, <2>2
    <2>4. saving' \in Saves /\ saving'.phase = "photos" /\ saving'.progress = saving.progress
      BY <1>0, <2>1, <2>2 DEF Saves, Phases
    <2> QED
      BY <1>0, <1>01, <2>1, <2>3, <2>4, SaveTyped DEF entryPage
  <1>4. CASE PhotosDone
    <2>1. UNCHANGED photos
      BY <1>4 DEF PhotosDone, entryServer
    <2>2. CASE WithContainer /\ saving.progress.container # saving.input.container
      <3>1. /\ \E p \in {"leave", "enter"} : saving' = [saving EXCEPT !.phase = p]
            /\ UNCHANGED entryPage
        BY <1>4, <2>2 DEF PhotosDone
      <3>2. saving' \in Saves /\ saving'.phase \in {"leave", "enter"} /\ saving'.progress = saving.progress
        BY <1>0, <3>1 DEF Saves, Phases
      <3> QED
        BY <1>0, <1>01, <2>1, <3>1, <3>2, SaveTyped DEF entryPage
    <2>3. CASE ~(WithContainer /\ saving.progress.container # saving.input.container)
      <3>1. Return(saving)
        BY <1>4, <2>3 DEF PhotosDone
      <3> QED
        BY <1>0, <1>01, <2>1, <3>1, ReturnTyped
    <2> QED
      BY <2>2, <2>3
  <1> QED
    BY <1>1, <1>2, <1>3, <1>4

LEMMA KitSaveTypes ==
    ASSUME EntryTypes, LeaveContainer \/ EnterContainer
    PROVE  EntryTypes'
  <1>0. /\ saving \in Saves /\ saving.progress.item \in Items /\ saving.progress \in Progress
        /\ saving.input.container \in Containers \cup {None}
        /\ packed \in [Items -> Containers \cup {None}]
        /\ UNCHANGED <<title, born, tagged, photos>>
    BY DEF EntryTypes, EntryTypeOK, LeaveContainer, EnterContainer, Saves, Forms
  <1>01. /\ title' \in [Items -> 0..(MaxEntries + 1)] /\ born' \in [Items -> 0..(MaxEntries + 1)]
         /\ tagged' \subseteq Items \X Labels
         /\ photos' \in [Items \X Files -> 0..2]
    BY <1>0 DEF EntryTypes, EntryTypeOK
  <1>1. packed' \in [Items -> Containers \cup {None}]
    BY <1>0 DEF LeaveContainer, EnterContainer
  <1>2. ASSUME NEW k \in Containers \cup {None}
        PROVE  /\ [saving.progress EXCEPT !.container = k] \in Progress
               /\ [saving.progress EXCEPT !.container = k].item = saving.progress.item
               /\ [saving EXCEPT !.progress = [saving.progress EXCEPT !.container = k]] \in Saves
    BY <1>0 DEF Progress, Saves
  <1>3. [saving EXCEPT !.failed = TRUE] \in Saves
    BY <1>0 DEF Saves
  <1>4. CASE \E save \in Saves : Return(save)
    BY <1>01, <1>1, <1>4, ReturnTyped
  <1>5. CASE /\ saving' = [saving EXCEPT !.phase = "enter",
                                 !.progress = [saving.progress EXCEPT !.container = None]]
             /\ UNCHANGED entryPage
    <2>1. saving' \in Saves /\ saving'.phase = "enter" /\ saving'.progress.item \in Items
      BY <1>0, <1>2, <1>5 DEF Saves, Phases
    <2> QED
      BY <1>01, <1>1, <1>5, <2>1, SaveTyped DEF entryPage
  <1> QED
    BY <1>0, <1>2, <1>3, <1>4, <1>5 DEF LeaveContainer, EnterContainer

LEMMA EntryTyped ==
    /\ EntryInit => EntryTypes
    /\ EntryTypes /\ [EntryNext]_entryVars => EntryTypes'
  <1>1. ASSUME EntryInit PROVE EntryTypes
    <2>1. /\ dialog \in Dialogs /\ progress \in Progress /\ saving \in Saves
          /\ saving.phase = "idle"
      BY <1>1, FreshAreTyped DEF EntryInit, NoSave
    <2>2. /\ entry \in 1..(MaxEntries + 1) /\ 0 \in 0..(MaxEntries + 1)
          /\ tagged \subseteq Items \X Labels /\ outlived \subseteq 1..(MaxEntries + 1)
      BY <1>1, EntryAssumption DEF EntryInit
    <2>3. /\ title \in [Items -> 0..(MaxEntries + 1)] /\ born \in [Items -> 0..(MaxEntries + 1)]
          /\ packed \in [Items -> Containers \cup {None}] /\ photos \in [Items \X Files -> 0..2]
      BY <1>1, <2>2 DEF EntryInit
    <2> QED
      BY <2>1, <2>2, <2>3 DEF EntryTypes, EntryTypeOK
  <1> SUFFICES ASSUME EntryTypes, [EntryNext]_entryVars PROVE EntryTypes'
    BY <1>1
  <1>2. CASE UNCHANGED entryVars
    BY <1>2 DEF entryVars, entryPage, entryServer, EntryTypes, EntryTypeOK, Photo
  <1>3. CASE Submit
    <2>1. PICK kind \in Kinds, form \in Forms :
              saving' = [NoSave EXCEPT !.phase = "record", !.kind = kind, !.input = form,
                                       !.progress = progress, !.entry = entry]
      BY <1>3 DEF Submit, Start, Kinds
    <2>2. saving' \in Saves /\ saving'.phase = "record"
      BY <2>1, FreshAreTyped DEF EntryTypes, EntryTypeOK, Saves, Phases
    <2>3. UNCHANGED <<entryPage, entryServer>>
      BY <1>3 DEF Submit, Start
    <2> QED
      BY <2>2, <2>3 DEF EntryTypes, EntryTypeOK, entryPage, entryServer
  <1>4. CASE Refetched
    <2>1. saving' = NoSave /\ UNCHANGED entryServer
      BY <1>4 DEF Refetched
    <2>2. /\ dialog' \in Dialogs /\ entry' \in 1..(MaxEntries + 1) /\ progress' \in Progress
          /\ outlived' \subseteq 1..(MaxEntries + 1)
      <3>1. CASE UNCHANGED entryPage
        BY <3>1 DEF entryPage, EntryTypes, EntryTypeOK
      <3>2. CASE ResetEntry(FALSE, FALSE)
        BY <3>2, ResetIsTyped
      <3>3. CASE dialog' = Completed(dialog) /\ UNCHANGED <<entry, progress, outlived>>
        BY <3>3, CompletedIsTyped DEF EntryTypes, EntryTypeOK
      <3> QED
        BY <1>4, <3>1, <3>2, <3>3 DEF Refetched
    <2>3. NoSave \in Saves /\ NoSave.phase = "idle"
      BY FreshAreTyped DEF NoSave
    <2> QED
      BY <2>1, <2>2, <2>3 DEF EntryTypes, EntryTypeOK, entryServer
  <1> QED
    BY <1>2, <1>3, <1>4, UserTypes, RecordTypes, LabelTypes, PhotoTypes, KitSaveTypes
       DEF EntryNext, SaveStep
-----------------------------------------------------------------------------
(* What the steps do, field by field.                                      *)

LEMMA OutcomeIs ==
    ASSUME NEW kind, NEW o \in Outcomes(kind)
    PROVE  /\ o.applied \in BOOLEAN /\ o.heard \in BOOLEAN
           /\ o.heard => o.applied
           /\ kind \notin Unanswered => o.heard = o.applied
  <1>1. o \in {Answered, Refused} \/ (o = Lost /\ kind \in Unanswered)
    BY DEF Outcomes
  <1>2. /\ Answered.applied = TRUE /\ Answered.heard = TRUE
        /\ Refused.applied = FALSE /\ Refused.heard = FALSE
        /\ Lost.applied = TRUE /\ Lost.heard = FALSE
    BY DEF Answered, Refused, Lost
  <1> QED
    BY <1>1, <1>2, Zenon

(* A step of a save goes on with the form it was given and leaves the      *)
(* dialog alone; the page gets the progress when the save returns.         *)
GoesOn ==
    /\ saving'.kind = saving.kind /\ saving'.input = saving.input /\ saving'.entry = saving.entry
    /\ saving.failed => saving'.failed
    /\ progress' = IF saving'.phase = "refetch" THEN saving'.progress ELSE progress
    /\ UNCHANGED <<dialog, entry, outlived>>

LEMMA ReturnGoesOn ==
    ASSUME NEW save \in Saves, Return(save), saving.failed => save.failed,
           save.kind = saving.kind, save.input = saving.input, save.entry = saving.entry
    PROVE  /\ GoesOn /\ saving'.phase = "refetch" /\ saving'.progress = save.progress
           /\ saving'.failed = save.failed /\ saving'.tried = save.tried
  BY DEF Return, GoesOn, Saves

LEMMA SubmitFacts ==
    ASSUME EntryTypes, Submit
    PROVE  /\ ~Saving /\ saving'.phase = "record" /\ InDialog
           /\ saving'.progress = progress /\ saving'.entry = entry
           /\ saving'.tried = {} /\ UNCHANGED <<entryPage, entryServer>>
  <1>1. PICK kind, form :
            saving' = [NoSave EXCEPT !.phase = "record", !.kind = kind, !.input = form,
                                     !.progress = progress, !.entry = entry]
    BY Zenon DEF Submit, Start
  <1> QED
    BY <1>1 DEF Submit, Start, AtStep, NoSave

LEMMA RecordFacts ==
    ASSUME EntryTypes, SaveRecord
    PROVE  \E i \in Items, applied \in BOOLEAN, heard \in BOOLEAN :
        /\ saving.phase = "record" /\ GoesOn /\ UNCHANGED <<tagged, packed, photos>>
        /\ heard => applied
        /\ "record" \notin Unanswered => heard = applied
        /\ IF saving.progress.item = None THEN title[i] = 0 ELSE i = saving.progress.item
        /\ title' = IF applied THEN [title EXCEPT ![i] = saving.entry] ELSE title
        /\ born' = IF applied /\ saving.progress.item = None
                   THEN [born EXCEPT ![i] = saving.entry] ELSE born
        /\ IF heard
           THEN /\ saving'.phase = "labels" /\ saving'.tried = saving.tried
                /\ saving'.progress = [saving.progress EXCEPT !.item = i]
           ELSE saving'.phase = "refetch" /\ saving'.failed /\ saving'.progress = saving.progress
  <1>0. saving \in Saves /\ saving.phase = "record" /\ UNCHANGED <<tagged, packed, photos>>
    BY DEF EntryTypes, EntryTypeOK, SaveRecord
  <1>1. PICK o \in Outcomes("record"), i \in Items :
        /\ IF saving.progress.item # None
           THEN i = saving.progress.item /\ UNCHANGED born
           ELSE /\ title[i] = 0
                /\ born' = IF o.applied THEN [born EXCEPT ![i] = saving.entry] ELSE born
        /\ title' = IF o.applied THEN [title EXCEPT ![i] = saving.entry] ELSE title
        /\ IF o.heard
           THEN /\ saving' = [saving EXCEPT !.phase = "labels",
                                           !.progress = [saving.progress EXCEPT !.item = i]]
                /\ UNCHANGED entryPage
           ELSE Return([saving EXCEPT !.failed = TRUE])
    BY DEF SaveRecord
  <1>2. /\ o.applied \in BOOLEAN /\ o.heard \in BOOLEAN
        /\ o.heard => o.applied
        /\ "record" \notin Unanswered => o.heard = o.applied
    BY OutcomeIs
  <1>3. GoesOn /\ IF o.heard
           THEN /\ saving'.phase = "labels" /\ saving'.tried = saving.tried
                /\ saving'.progress = [saving.progress EXCEPT !.item = i]
           ELSE saving'.phase = "refetch" /\ saving'.failed /\ saving'.progress = saving.progress
    <2>1. CASE o.heard
      <3> DEFINE p == [saving.progress EXCEPT !.item = i]
      <3>1. saving' = [saving EXCEPT !.phase = "labels", !.progress = p] /\ UNCHANGED entryPage
        BY <1>1, <2>1
      <3> HIDE DEF p
      <3>2. GoesOn /\ saving'.phase = "labels" /\ saving'.tried = saving.tried /\ saving'.progress = p
        BY <1>0, <3>1 DEF Saves, GoesOn, entryPage
      <3> QED
        BY <2>1, <3>2 DEF p
    <2>2. CASE ~o.heard
      <3> DEFINE s == [saving EXCEPT !.failed = TRUE]
      <3>1. /\ s \in Saves /\ s.failed /\ s.kind = saving.kind /\ s.input = saving.input
            /\ s.entry = saving.entry /\ s.progress = saving.progress
        BY <1>0 DEF Saves
      <3>2. Return(s)
        BY <1>1, <2>2
      <3> HIDE DEF s
      <3> QED
        BY <2>2, <3>1, <3>2, ReturnGoesOn
    <2> QED
      BY <2>1, <2>2
  <1> QED
    BY <1>0, <1>1, <1>2, <1>3

LEMMA LabelFacts ==
    ASSUME EntryTypes, SaveLabels
    PROVE  \E applied \in SUBSET LabelOperations, heard \in SUBSET LabelOperations :
        /\ saving.phase = "labels" /\ saving'.phase = "photos" /\ GoesOn
        /\ UNCHANGED <<title, born, packed, photos>>
        /\ "labels" \notin Unanswered => heard = applied
        /\ \A j \in Items : LabelsOf(j)' = IF j = saving.progress.item
                                           THEN Toggled(LabelsOf(j), applied) ELSE LabelsOf(j)
        /\ saving'.tried = saving.tried
        /\ saving'.progress = [saving.progress EXCEPT !.labels = Toggled(saving.progress.labels, heard)]
        /\ ~saving'.failed => heard = LabelOperations
  <1>0. /\ saving \in Saves /\ saving.progress \in Progress /\ saving.input.labels \subseteq Labels
        /\ saving.phase = "labels" /\ UNCHANGED <<entryPage, title, born, packed, photos>>
    BY DEF EntryTypes, EntryTypeOK, SaveLabels, Saves, Forms
  <1>01. PICK applied \in SUBSET LabelOperations :
        \E heard \in IF "labels" \in Unanswered THEN SUBSET applied ELSE {applied} :
          /\ tagged' = Retagged(saving.progress.item, Toggled(LabelsOf(saving.progress.item), applied))
          /\ saving' = [saving EXCEPT !.phase = "photos",
                            !.progress = [saving.progress EXCEPT !.labels = Toggled(@, heard)],
                            !.failed = @ \/ heard # LabelOperations]
    BY Zenon DEF SaveLabels
  <1>1. PICK heard \in IF "labels" \in Unanswered THEN SUBSET applied ELSE {applied} :
          /\ tagged' = Retagged(saving.progress.item, Toggled(LabelsOf(saving.progress.item), applied))
          /\ saving' = [saving EXCEPT !.phase = "photos",
                            !.progress = [saving.progress EXCEPT !.labels = Toggled(@, heard)],
                            !.failed = @ \/ heard # LabelOperations]
    BY <1>01
  <1>2. heard \in SUBSET LabelOperations /\ ("labels" \notin Unanswered => heard = applied)
    BY <1>1
  <1>3. \A S \in SUBSET Labels : \A d : Toggled(S, d) \subseteq Labels
    BY <1>0 DEF Toggled
  <1>4. \A j \in Items : LabelsOf(j)' = IF j = saving.progress.item
                                        THEN Toggled(LabelsOf(j), applied) ELSE LabelsOf(j)
    <2> DEFINE T == Toggled(LabelsOf(saving.progress.item), applied)
    <2>1. T \subseteq Labels
      BY <1>3 DEF LabelsOf
    <2>2. tagged' = {p \in tagged : p[1] # saving.progress.item} \cup ({saving.progress.item} \X T)
      BY <1>1 DEF Retagged
    <2> HIDE DEF T
    <2>3. \A j \in Items, l \in Labels :
              <<j, l>> \in tagged' <=> IF j = saving.progress.item THEN l \in T ELSE <<j, l>> \in tagged
      BY <2>2
    <2>4. \A j \in Items : LabelsOf(j)' = IF j = saving.progress.item THEN T ELSE LabelsOf(j)
      BY <2>1, <2>3 DEF LabelsOf
    <2> QED
      BY <2>4 DEF T
  <1>5. /\ saving'.phase = "photos" /\ saving'.tried = saving.tried /\ GoesOn
        /\ saving'.progress = [saving.progress EXCEPT !.labels = Toggled(saving.progress.labels, heard)]
        /\ ~saving'.failed => heard = LabelOperations
    <2> DEFINE p == [saving.progress EXCEPT !.labels = Toggled(saving.progress.labels, heard)]
               failed == saving.failed \/ heard # LabelOperations
    <2>1. saving' = [saving EXCEPT !.phase = "photos", !.progress = p, !.failed = failed]
      BY <1>0, <1>1 DEF Saves, Progress
    <2>2. (saving.failed => failed) /\ (~failed => heard = LabelOperations)
      OBVIOUS
    <2> HIDE DEF p, failed
    <2>3. /\ saving'.phase = "photos" /\ saving'.tried = saving.tried /\ saving'.progress = p
          /\ saving'.failed = failed /\ saving'.kind = saving.kind /\ saving'.input = saving.input
          /\ saving'.entry = saving.entry
      BY <1>0, <2>1 DEF Saves
    <2> QED
      BY <1>0, <2>2, <2>3 DEF GoesOn, entryPage, p
  <1> QED
    BY <1>0, <1>2, <1>4, <1>5

LEMMA CreateFacts ==
    ASSUME EntryTypes, CreatePhoto
    PROVE  \E f \in Files :
        /\ saving.phase = "photos" /\ GoesOn /\ UNCHANGED <<title, born, tagged, packed, photos>>
        /\ f \in FilesLeft /\ saving'.progress = saving.progress
        /\ \/ /\ saving'.phase = "put" /\ saving'.file = f /\ saving'.tried = saving.tried
           \/ saving'.phase = "photos" /\ saving'.failed
  <1>0. /\ saving \in Saves /\ saving.phase = "photos" /\ saving.input.files \subseteq Files
        /\ UNCHANGED <<entryPage, title, born, tagged, packed, photos>>
    BY DEF EntryTypes, EntryTypeOK, CreatePhoto, Saves, Forms, entryServer
  <1>1. PICK f \in FilesLeft :
            saving' \in {[saving EXCEPT !.phase = "put", !.file = f, !.whole = FALSE],
                         [saving EXCEPT !.tried = @ \cup {f}, !.failed = TRUE]}
    BY Zenon DEF CreatePhoto
  <1>2. f \in Files
    BY <1>0 DEF FilesLeft
  <1> QED
    BY <1>0, <1>1, <1>2 DEF GoesOn, Saves, entryPage

LEMMA PutFacts ==
    ASSUME EntryTypes, PutPhoto
    PROVE  \E applied \in BOOLEAN, heard \in BOOLEAN :
        /\ saving.phase = "put" /\ GoesOn /\ UNCHANGED <<title, born, tagged, packed>>
        /\ heard => applied
        /\ "put" \notin Unanswered => heard = applied
        /\ saving.file \in Files /\ saving.progress.item \in Items
        /\ photos' = IF applied
                     THEN [photos EXCEPT ![Photo] = IF photos[Photo] < 2 THEN photos[Photo] + 1 ELSE 2]
                     ELSE photos
        /\ IF heard
           THEN /\ saving'.phase = "photos" /\ saving'.tried = saving.tried \cup {saving.file}
                /\ saving'.progress = [saving.progress EXCEPT !.files = saving.progress.files \cup {saving.file}]
           ELSE /\ saving'.phase = "cleanup" /\ saving'.failed /\ saving'.whole = applied
                /\ saving'.file = saving.file /\ saving'.progress = saving.progress
  <1>0. /\ saving \in Saves /\ saving.phase = "put" /\ saving.progress \in Progress
        /\ saving.file \in Files /\ saving.progress.item \in Items
        /\ photos \in [Items \X Files -> 0..2] /\ Photo \in Items \X Files
        /\ UNCHANGED <<entryPage, title, born, tagged, packed>>
    BY DEF EntryTypes, EntryTypeOK, PutPhoto, Saves, Photo
  <1>1. PICK o \in Outcomes("put") :
            /\ photos' = IF o.applied
                         THEN [photos EXCEPT ![Photo] = IF @ < 2 THEN @ + 1 ELSE 2]
                         ELSE photos
            /\ saving' = IF o.heard
                         THEN [saving EXCEPT !.phase = "photos", !.tried = @ \cup {saving.file},
                                             !.progress = [saving.progress EXCEPT !.files = @ \cup {saving.file}]]
                         ELSE [saving EXCEPT !.phase = "cleanup", !.whole = o.applied, !.failed = TRUE]
    BY Zenon DEF PutPhoto
  <1>2. /\ o.applied \in BOOLEAN /\ o.heard \in BOOLEAN
        /\ o.heard => o.applied
        /\ "put" \notin Unanswered => o.heard = o.applied
    BY <1>1, OutcomeIs
  <1>3. photos' = IF o.applied
                  THEN [photos EXCEPT ![Photo] = IF photos[Photo] < 2 THEN photos[Photo] + 1 ELSE 2]
                  ELSE photos
    BY <1>0, <1>1
  <1>4. GoesOn /\
        IF o.heard
        THEN /\ saving'.phase = "photos" /\ saving'.tried = saving.tried \cup {saving.file}
             /\ saving'.progress = [saving.progress EXCEPT !.files = saving.progress.files \cup {saving.file}]
        ELSE /\ saving'.phase = "cleanup" /\ saving'.failed /\ saving'.whole = o.applied
             /\ saving'.file = saving.file /\ saving'.progress = saving.progress
    <2>1. CASE o.heard
      <3> DEFINE p == [saving.progress EXCEPT !.files = saving.progress.files \cup {saving.file}]
                 t == saving.tried \cup {saving.file}
      <3>1. saving' = [saving EXCEPT !.phase = "photos", !.tried = t, !.progress = p]
        BY <1>0, <1>1, <2>1 DEF Saves, Progress
      <3> HIDE DEF p, t
      <3>2. GoesOn /\ saving'.phase = "photos" /\ saving'.tried = t /\ saving'.progress = p
        BY <1>0, <3>1 DEF Saves, GoesOn, entryPage
      <3> QED
        BY <2>1, <3>2 DEF p, t
    <2>2. CASE ~o.heard
      <3> DEFINE w == o.applied
      <3>1. saving' = [saving EXCEPT !.phase = "cleanup", !.whole = w, !.failed = TRUE]
        BY <1>1, <2>2
      <3> HIDE DEF w
      <3>2. /\ GoesOn /\ saving'.phase = "cleanup" /\ saving'.failed /\ saving'.whole = w
            /\ saving'.file = saving.file /\ saving'.progress = saving.progress
        BY <1>0, <3>1 DEF Saves, GoesOn, entryPage
      <3> QED
        BY <2>2, <3>2 DEF w
    <2> QED
      BY <2>1, <2>2
  <1> DEFINE a == o.applied
             h == o.heard
  <1> QED
    <2>1. a \in BOOLEAN /\ h \in BOOLEAN /\ (h => a) /\ ("put" \notin Unanswered => h = a)
      BY <1>2
    <2>2. photos' = IF a
                    THEN [photos EXCEPT ![Photo] = IF photos[Photo] < 2 THEN photos[Photo] + 1 ELSE 2]
                    ELSE photos
      BY <1>3
    <2>3. GoesOn /\
          IF h
          THEN /\ saving'.phase = "photos" /\ saving'.tried = saving.tried \cup {saving.file}
               /\ saving'.progress = [saving.progress EXCEPT !.files = saving.progress.files \cup {saving.file}]
          ELSE /\ saving'.phase = "cleanup" /\ saving'.failed /\ saving'.whole = a
               /\ saving'.file = saving.file /\ saving'.progress = saving.progress
      BY <1>4
    <2> HIDE DEF a, h
    <2> QED
      BY <1>0, <2>1, <2>2, <2>3

LEMMA DeleteFacts ==
    ASSUME EntryTypes, DeletePhoto
    PROVE  /\ saving.phase = "cleanup" /\ saving'.phase = "photos" /\ GoesOn
           /\ UNCHANGED <<title, born, tagged, packed>>
           /\ saving.file \in Files /\ saving.progress.item \in Items
           /\ photos' = photos \/ (saving.whole /\ photos' = [photos EXCEPT ![Photo] = photos[Photo] - 1])
           /\ saving'.progress = saving.progress /\ saving'.failed = saving.failed
  <1>0. /\ saving \in Saves /\ saving.phase = "cleanup"
        /\ saving.file \in Files /\ saving.progress.item \in Items
        /\ photos \in [Items \X Files -> 0..2] /\ Photo \in Items \X Files
        /\ UNCHANGED <<entryPage, title, born, tagged, packed>>
        /\ saving' = [saving EXCEPT !.phase = "photos", !.tried = @ \cup {saving.file}]
    BY DEF EntryTypes, EntryTypeOK, DeletePhoto, Saves, Photo
  <1>1. photos' = photos \/ (saving.whole /\ photos' = [photos EXCEPT ![Photo] = photos[Photo] - 1])
    BY <1>0 DEF DeletePhoto
  <1> QED
    BY <1>0, <1>1 DEF Saves, GoesOn, entryPage

LEMMA DoneFacts ==
    ASSUME EntryTypes, PhotosDone
    PROVE  /\ saving.phase = "photos" /\ FilesLeft = {} /\ GoesOn /\ UNCHANGED entryServer
           /\ saving'.progress = saving.progress /\ saving'.tried = saving.tried
           /\ IF WithContainer /\ saving.progress.container # saving.input.container
              THEN saving'.phase = IF saving.progress.container # None THEN "leave" ELSE "enter"
              ELSE saving'.phase = "refetch"
  <1>0. saving \in Saves
    BY DEF EntryTypes, EntryTypeOK
  <1>1. CASE WithContainer /\ saving.progress.container # saving.input.container
    <2> DEFINE ph == IF saving.progress.container # None THEN "leave" ELSE "enter"
    <2>1. saving' = [saving EXCEPT !.phase = ph] /\ UNCHANGED entryPage /\ ph # "refetch"
      BY <1>1 DEF PhotosDone
    <2> HIDE DEF ph
    <2>2. /\ saving'.phase = ph /\ GoesOn /\ saving'.progress = saving.progress
          /\ saving'.tried = saving.tried
      BY <1>0, <2>1 DEF Saves, GoesOn, entryPage
    <2> QED
      BY <1>1, <2>2 DEF PhotosDone, ph
  <1>2. CASE ~(WithContainer /\ saving.progress.container # saving.input.container)
    <2>1. Return(saving)
      BY <1>2 DEF PhotosDone
    <2> QED
      BY <1>0, <1>2, <2>1, ReturnGoesOn DEF PhotosDone
  <1> QED
    BY <1>1, <1>2

LEMMA LeaveFacts ==
    ASSUME EntryTypes, LeaveContainer
    PROVE  \E applied \in BOOLEAN, heard \in BOOLEAN :
        /\ saving.phase = "leave" /\ GoesOn /\ UNCHANGED <<title, born, tagged, photos>>
        /\ heard => applied
        /\ "leave" \notin Unanswered => heard = applied
        /\ packed' = IF applied THEN [packed EXCEPT ![saving.progress.item] = None] ELSE packed
        /\ IF heard
           THEN /\ saving'.progress = [saving.progress EXCEPT !.container = None]
                /\ saving'.tried = saving.tried
                /\ saving'.phase = IF saving.input.container = None THEN "refetch" ELSE "enter"
           ELSE saving'.phase = "refetch" /\ saving'.failed /\ saving'.progress = saving.progress
  <1>0. saving \in Saves /\ saving.phase = "leave" /\ UNCHANGED <<title, born, tagged, photos>>
    BY DEF EntryTypes, EntryTypeOK, LeaveContainer
  <1> DEFINE p == [saving.progress EXCEPT !.container = None]
             s == [saving EXCEPT !.progress = p]
             f == [saving EXCEPT !.failed = TRUE]
  <1>1. PICK o \in Outcomes("leave") :
        /\ packed' = IF o.applied THEN [packed EXCEPT ![saving.progress.item] = None] ELSE packed
        /\ IF ~o.heard THEN Return(f)
           ELSE IF saving.input.container = None THEN Return(s)
           ELSE saving' = [saving EXCEPT !.phase = "enter", !.progress = p] /\ UNCHANGED entryPage
    BY DEF LeaveContainer
  <1>2. /\ o.applied \in BOOLEAN /\ o.heard \in BOOLEAN
        /\ o.heard => o.applied
        /\ "leave" \notin Unanswered => o.heard = o.applied
    BY OutcomeIs
  <1>3. p \in Progress
    BY <1>0 DEF Saves, Progress
  <1> HIDE DEF p
  <1>4. /\ s \in Saves /\ s.kind = saving.kind /\ s.input = saving.input /\ s.entry = saving.entry
        /\ s.progress = p /\ s.tried = saving.tried /\ s.failed = saving.failed
    BY <1>0, <1>3 DEF Saves
  <1>5. /\ f \in Saves /\ f.kind = saving.kind /\ f.input = saving.input /\ f.entry = saving.entry
        /\ f.progress = saving.progress /\ f.failed
    BY <1>0 DEF Saves
  <1> HIDE DEF s, f
  <1>6. GoesOn /\
        IF o.heard
        THEN /\ saving'.progress = p /\ saving'.tried = saving.tried
             /\ saving'.phase = IF saving.input.container = None THEN "refetch" ELSE "enter"
        ELSE saving'.phase = "refetch" /\ saving'.failed /\ saving'.progress = saving.progress
    <2>1. CASE ~o.heard
      BY <1>1, <1>5, <2>1, ReturnGoesOn
    <2>2. CASE o.heard /\ saving.input.container = None
      BY <1>1, <1>4, <2>2, ReturnGoesOn
    <2>3. CASE o.heard /\ saving.input.container # None
      <3>1. saving' = [saving EXCEPT !.phase = "enter", !.progress = p] /\ UNCHANGED entryPage
        BY <1>1, <2>3
      <3>2. GoesOn /\ saving'.phase = "enter" /\ saving'.tried = saving.tried /\ saving'.progress = p
        BY <1>0, <3>1 DEF Saves, GoesOn, entryPage
      <3> QED
        BY <2>3, <3>2
    <2> QED
      BY <2>1, <2>2, <2>3
  <1> QED
    BY <1>0, <1>1, <1>2, <1>6 DEF p

LEMMA EnterFacts ==
    ASSUME EntryTypes, EnterContainer
    PROVE  \E applied \in BOOLEAN, heard \in BOOLEAN :
        /\ saving.phase = "enter" /\ GoesOn /\ UNCHANGED <<title, born, tagged, photos>>
        /\ heard => applied
        /\ "enter" \notin Unanswered => heard = applied
        /\ packed' = IF applied
                     THEN [packed EXCEPT ![saving.progress.item] = saving.input.container] ELSE packed
        /\ saving'.phase = "refetch"
        /\ IF heard
           THEN /\ saving'.progress = [saving.progress EXCEPT !.container = saving.input.container]
                /\ saving'.tried = saving.tried
           ELSE saving'.failed /\ saving'.progress = saving.progress
  <1>0. /\ saving \in Saves /\ saving.phase = "enter" /\ UNCHANGED <<title, born, tagged, photos>>
        /\ saving.input.container \in Containers \cup {None}
    BY DEF EntryTypes, EntryTypeOK, EnterContainer, Saves, Forms
  <1> DEFINE p == [saving.progress EXCEPT !.container = saving.input.container]
             s == [saving EXCEPT !.progress = p]
             f == [saving EXCEPT !.failed = TRUE]
  <1>1. PICK o \in Outcomes("enter") :
        /\ packed' = IF o.applied
                     THEN [packed EXCEPT ![saving.progress.item] = saving.input.container] ELSE packed
        /\ Return(IF o.heard THEN s ELSE f)
    BY DEF EnterContainer
  <1>2. /\ o.applied \in BOOLEAN /\ o.heard \in BOOLEAN
        /\ o.heard => o.applied
        /\ "enter" \notin Unanswered => o.heard = o.applied
    BY OutcomeIs
  <1>3. p \in Progress
    BY <1>0 DEF Saves, Progress
  <1> HIDE DEF p
  <1>4. /\ s \in Saves /\ s.kind = saving.kind /\ s.input = saving.input /\ s.entry = saving.entry
        /\ s.progress = p /\ s.tried = saving.tried /\ s.failed = saving.failed
    BY <1>0, <1>3 DEF Saves
  <1>5. /\ f \in Saves /\ f.kind = saving.kind /\ f.input = saving.input /\ f.entry = saving.entry
        /\ f.progress = saving.progress /\ f.failed
    BY <1>0 DEF Saves
  <1> HIDE DEF s, f
  <1>6. GoesOn /\ saving'.phase = "refetch" /\
        IF o.heard
        THEN saving'.progress = p /\ saving'.tried = saving.tried
        ELSE saving'.failed /\ saving'.progress = saving.progress
    <2>1. CASE o.heard
      BY <1>1, <1>4, <2>1, ReturnGoesOn
    <2>2. CASE ~o.heard
      BY <1>1, <1>5, <2>2, ReturnGoesOn
    <2> QED
      BY <2>1, <2>2
  <1> QED
    BY <1>0, <1>1, <1>2, <1>6 DEF p

(* The end of a save: the page keeps its progress, or turns to the next    *)
(* entry.                                                                  *)
LEMMA RefetchedFacts ==
    ASSUME EntryTypes, Refetched
    PROVE  /\ saving.phase = "refetch" /\ saving'.phase = "idle" /\ UNCHANGED entryServer
           /\ \/ /\ UNCHANGED <<entry, progress, outlived>>
                 /\ dialog'.open = dialog.open /\ dialog'.exit = dialog.exit
              \/ ResetEntry(FALSE, FALSE)
  <1>1. dialog' = Completed(dialog) => dialog'.open = dialog.open /\ dialog'.exit = dialog.exit
    <2>1. dialog \in Dialogs
      BY DEF EntryTypes, EntryTypeOK
    <2> QED
      BY <2>1 DEF Completed, Dialogs
  <1> QED
    BY <1>1 DEF Refetched, entryPage, NoSave

(* What the user does besides pressing a button that saves.                *)
LEMMA UserFacts ==
    ASSUME EntryTypes,
           \/ OpenDialog \/ ToggleAssisted \/ RequestClose \/ KeepWorking \/ ExitAndKeepItem
           \/ Skip \/ Back \/ Visit \/ AddAnother \/ ViewItem
    PROVE  /\ UNCHANGED <<saving, entryServer>>
           /\ \/ /\ UNCHANGED <<entry, progress, outlived>>
                 /\ dialog.open => dialog'.open
                 /\ dialog'.open => dialog.open \/ entry <= MaxEntries
                 /\ dialog'.exit /\ ~dialog.exit => dialog'.open
              \/ ResetEntry(FALSE, FALSE)
              \/ ResetEntry(TRUE, TRUE) /\ entry < MaxEntries
  <1>0. dialog \in Dialogs
    BY DEF EntryTypes, EntryTypeOK
  <1>1. UNCHANGED <<saving, entryServer>>
    BY DEF OpenDialog, ToggleAssisted, RequestClose, KeepWorking, ExitAndKeepItem, Skip, Back,
           Visit, AddAnother, ViewItem
  <1>2. CASE OpenDialog \/ ToggleAssisted \/ KeepWorking
    BY <1>0, <1>1, <1>2 DEF OpenDialog, ToggleAssisted, KeepWorking, InDialog, Dialogs
  <1>3. CASE Skip \/ Back \/ Visit
    <2>1. UNCHANGED <<entry, progress, outlived>> /\ dialog'.open = dialog.open /\ dialog'.exit = dialog.exit
      <3>1. CASE Skip
        BY <1>0, <3>1 DEF Skip, Completed, Dialogs
      <3>2. CASE Back
        BY <1>0, <3>2 DEF Back, Dialogs
      <3>3. CASE Visit
        BY <1>0, <3>3 DEF Visit, Dialogs
      <3> QED
        BY <1>3, <3>1, <3>2, <3>3
    <2> QED
      BY <1>1, <2>1
  <1>4. CASE RequestClose
    <2>1. CASE progress.item # None
      <3>1. /\ UNCHANGED <<entry, progress, outlived>> /\ dialog.open
            /\ dialog'.open = dialog.open
        BY <1>0, <1>4, <2>1 DEF RequestClose, InDialog, Dialogs
      <3> QED
        BY <1>1, <3>1
    <2>2. CASE progress.item = None
      BY <1>1, <1>4, <2>2 DEF RequestClose
    <2> QED
      BY <2>1, <2>2
  <1>5. CASE ExitAndKeepItem \/ AddAnother \/ ViewItem
    BY <1>1, <1>5 DEF ExitAndKeepItem, AddAnother, ViewItem
  <1> QED
    BY <1>2, <1>3, <1>4, <1>5

LaterStep ==
    SaveLabels \/ CreatePhoto \/ PutPhoto \/ DeletePhoto \/ PhotosDone
    \/ LeaveContainer \/ EnterContainer

(* After the record: the item is there and stays the one of the save.      *)
LEMMA LaterFacts ==
    ASSUME EntryTypes, LaterStep
    PROVE  /\ GoesOn /\ UNCHANGED <<title, born>>
           /\ saving.phase \in {"labels", "photos", "put", "cleanup", "leave", "enter"}
           /\ saving'.phase \in {"photos", "put", "cleanup", "leave", "enter", "refetch"}
           /\ saving.progress.item \in Items /\ saving'.progress.item = saving.progress.item
  <1>0. saving.progress \in Progress
    BY DEF EntryTypes, EntryTypeOK, Saves
  <1>1. saving.phase \in {"labels", "photos", "put", "cleanup", "leave", "enter"}
    BY DEF LaterStep, SaveLabels, CreatePhoto, PutPhoto, DeletePhoto, PhotosDone, LeaveContainer,
           EnterContainer
  <1>2. saving.progress.item \in Items
    BY <1>1 DEF EntryTypes
  <1>3. \A L, F, k : /\ [saving.progress EXCEPT !.labels = L].item = saving.progress.item
                     /\ [saving.progress EXCEPT !.files = F].item = saving.progress.item
                     /\ [saving.progress EXCEPT !.container = k].item = saving.progress.item
    BY <1>0 DEF Progress
  <1>4. CASE SaveLabels
    BY <1>1, <1>2, <1>3, <1>4, LabelFacts
  <1>5. CASE CreatePhoto \/ DeletePhoto
    BY <1>1, <1>2, <1>5, CreateFacts, DeleteFacts
  <1>6. CASE PutPhoto
    BY <1>1, <1>2, <1>3, <1>6, PutFacts
  <1>7. CASE PhotosDone
    BY <1>1, <1>2, <1>7, DoneFacts DEF entryServer
  <1>8. CASE LeaveContainer
    BY <1>1, <1>2, <1>3, <1>8, LeaveFacts
  <1>9. CASE EnterContainer
    BY <1>1, <1>2, <1>3, <1>9, EnterFacts
  <1> QED
    BY <1>4, <1>5, <1>6, <1>7, <1>8, <1>9 DEF LaterStep

LEMMA StepsOfEntry ==
    EntryNext =>
        \/ OpenDialog \/ ToggleAssisted \/ RequestClose \/ KeepWorking \/ ExitAndKeepItem
        \/ Skip \/ Back \/ Visit \/ AddAnother \/ ViewItem
        \/ Submit \/ SaveRecord \/ LaterStep \/ Refetched
  BY DEF EntryNext, SaveStep, LaterStep

(* The steps that leave the server alone: the page keeps its progress or   *)
(* drops it, and a save begins from it, goes on or ends.                   *)
LEMMA AsideFacts ==
    ASSUME EntryTypes,
           \/ UNCHANGED entryVars
           \/ OpenDialog \/ ToggleAssisted \/ RequestClose \/ KeepWorking \/ ExitAndKeepItem
           \/ Skip \/ Back \/ Visit \/ AddAnother \/ ViewItem
           \/ Submit \/ Refetched
    PROVE  /\ UNCHANGED entryServer /\ progress' \in {progress, NoProgress}
           /\ \/ saving' = saving
              \/ /\ saving.phase = "idle" /\ saving'.phase = "record" /\ saving'.tried = {}
                 /\ saving'.progress = progress /\ progress' = progress
              \/ saving.phase = "refetch" /\ saving'.phase = "idle"
  <1>1. CASE UNCHANGED entryVars
    BY <1>1 DEF entryVars, entryPage
  <1>2. CASE Submit
    BY <1>2, SubmitFacts DEF entryPage, Saving
  <1>3. CASE Refetched
    BY <1>3, RefetchedFacts DEF ResetEntry
  <1>4. CASE \/ OpenDialog \/ ToggleAssisted \/ RequestClose \/ KeepWorking \/ ExitAndKeepItem
             \/ Skip \/ Back \/ Visit \/ AddAnother \/ ViewItem
    BY <1>4, UserFacts DEF ResetEntry
  <1> QED
    BY <1>1, <1>2, <1>3, <1>4

(* The requests of a save: the page gets the progress when it returns.     *)
LEMMA RequestFacts ==
    ASSUME EntryTypes, SaveRecord \/ LaterStep
    PROVE  /\ GoesOn /\ Saving /\ Saving'
           /\ saving.phase # "refetch"
           /\ saving'.phase = "refetch" => progress' = saving'.progress
  <1>1. CASE SaveRecord
    BY <1>1, RecordFacts DEF GoesOn, Saving
  <1>2. CASE LaterStep
    BY <1>2, LaterFacts DEF GoesOn, Saving
  <1> QED
    BY <1>1, <1>2
-----------------------------------------------------------------------------
(* Of which entry a save is.                                               *)

(* A save that goes on is for the entry in the dialog or for one that was  *)
(* left; what it holds, and what the page holds, is the item of that entry *)
(* or of one that was left while its save ran.                             *)
HeldIsOfEntry ==
    /\ saving.phase \notin {"idle", "refetch"} => saving.entry \in {entry} \cup outlived
    /\ Saving /\ saving.progress.item # None =>
          born[saving.progress.item] \in {saving.entry} \cup outlived
    /\ progress.item # None => born[progress.item] \in {entry} \cup outlived

ApartInv == EntryTypes /\ HeldIsOfEntry /\ EntriesStayApart

(* The dialog is left, also in the middle of a save.                       *)
LEMMA ApartLeft ==
    ASSUME HeldIsOfEntry, EntriesStayApart, UNCHANGED entryServer,
           saving' = saving \/ (saving.phase = "refetch" /\ saving'.phase = "idle"),
           NEW shown \in BOOLEAN, NEW guided \in BOOLEAN, ResetEntry(shown, guided),
           EntryTypes
    PROVE  HeldIsOfEntry' /\ EntriesStayApart'
  <1>1. /\ outlived \subseteq outlived' /\ progress'.item = None /\ UNCHANGED <<born, title>>
        /\ saving.phase \notin {"idle", "refetch"} => saving.entry \in outlived'
    BY DEF ResetEntry, Outlives, NoProgress, entryServer
  <1> QED
    BY <1>1 DEF HeldIsOfEntry, EntriesStayApart, Saving

LEMMA ApartStep ==
    ASSUME ApartInv, [EntryNext]_entryVars
    PROVE  ApartInv'
  <1> USE DEF ApartInv
  <1>0. EntryTypes'
    BY EntryTyped
  <1>1. ASSUME UNCHANGED <<saving, entryServer>>, UNCHANGED <<entry, progress, outlived>>
        PROVE  HeldIsOfEntry' /\ EntriesStayApart'
    BY <1>1 DEF HeldIsOfEntry, Saving, EntriesStayApart, entryServer
  <1>2. CASE UNCHANGED entryVars
    BY <1>0, <1>1, <1>2 DEF entryVars, entryPage
  <1>3. CASE \/ OpenDialog \/ ToggleAssisted \/ RequestClose \/ KeepWorking \/ ExitAndKeepItem
             \/ Skip \/ Back \/ Visit \/ AddAnother \/ ViewItem
    <2>1. UNCHANGED <<saving, entryServer>>
      BY <1>3, UserFacts
    <2>2. \/ UNCHANGED <<entry, progress, outlived>>
          \/ \E shown, guided \in BOOLEAN : ResetEntry(shown, guided)
      BY <1>3, UserFacts
    <2> QED
      BY <1>0, <1>1, <2>1, <2>2, ApartLeft
  <1>4. CASE Submit
    BY <1>0, <1>4, SubmitFacts
       DEF HeldIsOfEntry, Saving, EntriesStayApart, entryServer, entryPage
  <1>5. CASE SaveRecord
    <2>1. PICK i \in Items, applied \in BOOLEAN, heard \in BOOLEAN :
            /\ saving.phase = "record" /\ GoesOn
            /\ heard => applied
            /\ IF saving.progress.item = None THEN title[i] = 0 ELSE i = saving.progress.item
            /\ title' = IF applied THEN [title EXCEPT ![i] = saving.entry] ELSE title
            /\ born' = IF applied /\ saving.progress.item = None
                       THEN [born EXCEPT ![i] = saving.entry] ELSE born
            /\ IF heard
               THEN saving'.phase = "labels" /\ saving'.progress = [saving.progress EXCEPT !.item = i]
               ELSE saving'.phase = "refetch" /\ saving'.progress = saving.progress
      BY <1>5, RecordFacts
    <2>2. /\ saving.progress \in Progress /\ title \in [Items -> 0..(MaxEntries + 1)]
          /\ born \in [Items -> 0..(MaxEntries + 1)] /\ i \in Items
          /\ progress \in Progress
      BY DEF EntryTypes, EntryTypeOK, Saves
    <2>3. /\ UNCHANGED <<entry, outlived>> /\ saving'.entry = saving.entry
          /\ saving.entry \in {entry} \cup outlived
          /\ progress' = IF saving'.phase = "refetch" THEN saving'.progress ELSE progress
      BY <2>1 DEF HeldIsOfEntry, GoesOn
    <2>4. applied => title'[i] = saving.entry /\ born'[i] \in {saving.entry} \cup outlived
      BY <2>1, <2>2 DEF HeldIsOfEntry, Saving
    <2>5. EntriesStayApart'
      BY <2>1, <2>2, <2>3, <2>4 DEF EntriesStayApart
    <2>6. \A j \in Items : born[j] \in {saving.entry} \cup outlived =>
                               born'[j] \in {saving.entry} \cup outlived
      BY <2>1, <2>2
    <2>7. \A j \in Items : born[j] \in {entry} \cup outlived =>
                               born'[j] \in {entry} \cup outlived
      BY <2>1, <2>2, <2>3
    <2>8. saving'.progress.item # None =>
              born'[saving'.progress.item] \in {saving.entry} \cup outlived
      <3>1. CASE heard
        <4>1. saving'.progress.item = i
          BY <2>1, <2>2, <3>1 DEF Progress
        <4> QED
          BY <2>1, <2>4, <3>1, <4>1
      <3>2. CASE ~heard
        BY <2>1, <2>2, <2>6, <3>2 DEF HeldIsOfEntry, Saving, Progress
      <3> QED
        BY <3>1, <3>2
    <2>9. progress.item # None => born'[progress.item] \in {entry} \cup outlived
      BY <2>2, <2>7 DEF HeldIsOfEntry, Progress
    <2>10. HeldIsOfEntry'
      BY <2>3, <2>8, <2>9 DEF HeldIsOfEntry
    <2> QED
      BY <1>0, <2>5, <2>10
  <1>6. CASE LaterStep
    <2>1. /\ GoesOn /\ UNCHANGED <<title, born>> /\ Saving
          /\ saving.phase \notin {"idle", "refetch"}
          /\ saving'.progress.item = saving.progress.item
      BY <1>6, LaterFacts DEF Saving
    <2>2. /\ UNCHANGED <<entry, outlived>> /\ saving'.entry = saving.entry
          /\ saving.entry \in {entry} \cup outlived
          /\ progress' \in {progress, saving'.progress}
      BY <2>1 DEF HeldIsOfEntry, GoesOn
    <2>3. HeldIsOfEntry'
      BY <2>1, <2>2 DEF HeldIsOfEntry
    <2> QED
      BY <1>0, <2>1, <2>2, <2>3 DEF EntriesStayApart
  <1>7. CASE Refetched
    <2>1. saving.phase = "refetch" /\ saving'.phase = "idle" /\ UNCHANGED entryServer
      BY <1>7, RefetchedFacts
    <2>2. CASE UNCHANGED <<entry, progress, outlived>>
      BY <1>0, <2>1, <2>2 DEF HeldIsOfEntry, Saving, EntriesStayApart, entryServer
    <2>3. CASE ResetEntry(FALSE, FALSE)
      BY <1>0, <2>1, <2>3, ApartLeft
    <2> QED
      BY <1>7, <2>2, <2>3, RefetchedFacts
  <1> QED
    BY <1>2, <1>3, <1>4, <1>5, <1>6, <1>7, StepsOfEntry

LEMMA ApartInvariant == EntrySpec => []ApartInv
  <1>1. EntryInit => ApartInv
    <2> SUFFICES ASSUME EntryInit PROVE ApartInv
      OBVIOUS
    <2>1. ~Saving /\ saving.phase = "idle" /\ progress.item = None
      BY DEF EntryInit, Saving, NoSave, NoProgress
    <2> QED
      BY <2>1, EntryTyped DEF ApartInv, HeldIsOfEntry, EntriesStayApart, EntryInit
  <1>2. ApartInv /\ [EntryNext]_entryVars => ApartInv'
    BY ApartStep
  <1> QED
    BY <1>1, <1>2, PTL DEF EntrySpec
-----------------------------------------------------------------------------
(* How many items an entry becomes.                                        *)

Unmade(e) == \A i \in Items : born[i] # e

(* Items are made for entries up to the present one, and for an entry only *)
(* while none is held: not for one that was begun after the save was.      *)
NoItemYet ==
    /\ \A i \in Items : born[i] <= entry /\ born[i] <= MaxEntries
    /\ Saving => saving.entry <= entry /\ saving.entry <= MaxEntries
    /\ Saving /\ saving.progress.item = None => Unmade(saving.entry)
    /\ Saving /\ saving.entry # entry => Unmade(entry)
    /\ saving.phase \in {"idle", "refetch"} /\ progress.item = None => Unmade(entry)

OneItemInv ==
    /\ EntryTypes
    /\ dialog.exit => dialog.open
    /\ dialog.open => entry <= MaxEntries
    /\ NoItemYet /\ OneItemPerEntry

LEMMA OneItemStep ==
    ASSUME "record" \notin Unanswered, OneItemInv, [EntryNext]_entryVars
    PROVE  OneItemInv'
  <1> USE DEF OneItemInv
  <1>0. /\ EntryTypes' /\ MaxEntries \in Nat \ {0} /\ entry \in 1..(MaxEntries + 1)
        /\ born \in [Items -> 0..(MaxEntries + 1)] /\ saving \in Saves /\ dialog \in Dialogs
        /\ saving.progress \in Progress /\ saving.entry \in 1..(MaxEntries + 1)
    BY EntryTyped, EntryAssumption DEF EntryTypes, EntryTypeOK, Saves
  <1>1. ASSUME UNCHANGED <<born, entry, progress, saving>>,
               dialog'.exit => dialog'.open, dialog'.open => entry <= MaxEntries
        PROVE  OneItemInv'
    BY <1>0, <1>1 DEF NoItemYet, OneItemPerEntry, Unmade, Saving
  <1>2. ASSUME saving' = saving \/ saving'.phase = "idle", UNCHANGED born,
               NEW shown \in BOOLEAN, NEW guided \in BOOLEAN, ResetEntry(shown, guided),
               shown => entry < MaxEntries
        PROVE  OneItemInv'
    <2>1. entry' = (IF entry <= MaxEntries THEN entry + 1 ELSE entry)
      BY <1>2 DEF ResetEntry
    <2>2. dialog'.open = shown /\ dialog'.exit = FALSE
      BY <1>2 DEF ResetEntry, FreshDialog
    <2>3. \A i \in Items : born[i] <= entry' /\ born[i] <= MaxEntries /\ born[i] # entry'
      BY <1>0, <2>1 DEF NoItemYet
    <2>4. shown => entry' <= MaxEntries
      BY <1>0, <1>2, <2>1
    <2>5. Saving => saving.entry <= entry'
      BY <1>0, <2>1 DEF NoItemYet
    <2>6. NoItemYet'
      BY <1>2, <2>3, <2>5 DEF NoItemYet, Unmade, Saving
    <2> QED
      BY <1>0, <1>2, <2>2, <2>4, <2>6 DEF OneItemPerEntry
  <1>3. CASE UNCHANGED entryVars
    BY <1>1, <1>3 DEF entryVars, entryPage, entryServer
  <1>4. CASE \/ OpenDialog \/ ToggleAssisted \/ RequestClose \/ KeepWorking \/ ExitAndKeepItem
             \/ Skip \/ Back \/ Visit \/ AddAnother \/ ViewItem
    <2>1. UNCHANGED <<saving, born>>
      BY <1>4, UserFacts DEF entryServer
    <2>2. CASE /\ UNCHANGED <<entry, progress, outlived>>
               /\ dialog.open => dialog'.open
               /\ dialog'.open => dialog.open \/ entry <= MaxEntries
               /\ dialog'.exit /\ ~dialog.exit => dialog'.open
      BY <1>1, <2>1, <2>2
    <2>3. CASE ResetEntry(FALSE, FALSE)
      BY <1>2, <2>1, <2>3
    <2>4. CASE ResetEntry(TRUE, TRUE) /\ entry < MaxEntries
      BY <1>2, <2>1, <2>4
    <2> QED
      BY <1>4, <2>2, <2>3, <2>4, UserFacts
  <1>5. CASE Submit
    <2>1. /\ UNCHANGED <<born, entry, dialog, progress>> /\ dialog.open
          /\ saving.phase = "idle" /\ saving'.phase = "record"
          /\ saving'.progress = progress /\ saving'.entry = entry
      BY <1>5, SubmitFacts DEF entryServer, entryPage, Saving, InDialog
    <2> QED
      BY <1>0, <2>1 DEF NoItemYet, OneItemPerEntry, Unmade, Saving
  <1>6. CASE SaveRecord
    <2>1. PICK i \in Items, applied \in BOOLEAN, heard \in BOOLEAN :
            /\ saving.phase = "record" /\ GoesOn
            /\ heard = applied
            /\ born' = IF applied /\ saving.progress.item = None
                       THEN [born EXCEPT ![i] = saving.entry] ELSE born
            /\ IF heard
               THEN saving'.phase = "labels" /\ saving'.progress = [saving.progress EXCEPT !.item = i]
               ELSE saving'.phase = "refetch" /\ saving'.progress = saving.progress
      BY <1>6, RecordFacts
    <2>2. /\ Saving /\ Saving' /\ UNCHANGED <<dialog, entry, outlived>> /\ saving'.entry = saving.entry
          /\ saving'.phase = "refetch" => progress' = saving'.progress
      BY <1>6, RequestFacts DEF GoesOn
    <2>3. CASE heard
      <3>1. saving'.progress.item = i /\ i # None /\ saving'.phase = "labels"
        BY <1>0, <2>1, <2>3, EntryAssumption DEF Progress
      <3>2. CASE saving.progress.item = None
        <4>1. born'[i] = saving.entry /\ \A j \in Items \ {i} : born'[j] = born[j] /\ born[j] # saving.entry
          BY <1>0, <2>1, <2>2, <2>3, <3>2 DEF NoItemYet, Unmade
        <4>2. OneItemPerEntry'
          BY <4>1 DEF OneItemPerEntry
        <4>3. NoItemYet'
          BY <2>2, <3>1, <4>1 DEF NoItemYet, Unmade
        <4> QED
          BY <1>0, <2>2, <4>2, <4>3
      <3>3. CASE saving.progress.item # None
        BY <1>0, <2>1, <2>2, <3>1, <3>3 DEF NoItemYet, OneItemPerEntry, Unmade
      <3> QED
        BY <3>2, <3>3
    <2>4. CASE ~heard
      BY <1>0, <2>1, <2>2, <2>4 DEF NoItemYet, OneItemPerEntry, Unmade
    <2> QED
      BY <2>3, <2>4
  <1>7. CASE LaterStep
    <2>1. /\ Saving /\ Saving' /\ UNCHANGED <<born, dialog, entry>> /\ saving'.entry = saving.entry
          /\ saving'.progress.item # None
          /\ saving'.phase = "refetch" => progress' = saving'.progress
      BY <1>7, LaterFacts, RequestFacts, EntryAssumption DEF GoesOn
    <2> QED
      BY <1>0, <1>7, <2>1, LaterFacts DEF NoItemYet, OneItemPerEntry, Unmade
  <1>8. CASE Refetched
    <2>1. /\ saving.phase = "refetch" /\ saving'.phase = "idle" /\ UNCHANGED born
      BY <1>8, RefetchedFacts DEF entryServer
    <2>2. CASE /\ UNCHANGED <<entry, progress, outlived>>
               /\ dialog'.open = dialog.open /\ dialog'.exit = dialog.exit
      BY <1>0, <2>1, <2>2 DEF NoItemYet, OneItemPerEntry, Unmade, Saving
    <2>3. CASE ResetEntry(FALSE, FALSE)
      BY <1>2, <2>1, <2>3
    <2> QED
      BY <1>8, <2>2, <2>3, RefetchedFacts
  <1> QED
    BY <1>3, <1>4, <1>5, <1>6, <1>7, <1>8, StepsOfEntry

LEMMA OneItemInvariant ==
    ASSUME "record" \notin Unanswered
    PROVE  EntrySpec => []OneItemInv
  <1>1. EntryInit => OneItemInv
    <2> SUFFICES ASSUME EntryInit PROVE OneItemInv
      OBVIOUS
    <2>1. /\ ~Saving /\ dialog.open = FALSE /\ dialog.exit = FALSE /\ entry = 1
          /\ \A i \in Items : born[i] = 0 /\ 0 <= entry /\ 0 <= MaxEntries
      BY EntryAssumption DEF EntryInit, Saving, NoSave, FreshDialog
    <2> QED
      BY <2>1, EntryTyped DEF OneItemInv, NoItemYet, OneItemPerEntry, Unmade
  <1>2. OneItemInv /\ [EntryNext]_entryVars => OneItemInv'
    BY OneItemStep
  <1> QED
    BY <1>1, <1>2, PTL DEF EntrySpec
-----------------------------------------------------------------------------
(* How often a photo is uploaded.                                          *)

(* The files a progress does not list were not uploaded.                   *)
Unsent(p) ==
    p.item # None =>
        /\ title[p.item] # 0
        /\ \A f \in Files \ p.files : photos[<<p.item, f>>] = 0

UnsentLeft ==
    /\ Saving => Unsent(saving.progress)
    /\ saving.phase \in {"idle", "refetch"} => Unsent(progress)
    /\ saving.phase \in {"put", "cleanup"} => saving.file \notin saving.progress.files
    /\ saving.phase = "cleanup" => ~saving.whole

BareBefore == \A i \in Items, f \in Files : title[i] = 0 => photos[<<i, f>>] = 0

CopyInv == EntryTypes /\ UnsentLeft /\ BareBefore /\ OneCopyPerFile

LEMMA CopyAside ==
    ASSUME CopyInv,
           \/ UNCHANGED entryVars
           \/ OpenDialog \/ ToggleAssisted \/ RequestClose \/ KeepWorking \/ ExitAndKeepItem
           \/ Skip \/ Back \/ Visit \/ AddAnother \/ ViewItem
           \/ Submit \/ Refetched
    PROVE  UnsentLeft' /\ BareBefore' /\ OneCopyPerFile'
  <1>1. /\ UNCHANGED <<title, photos>> /\ progress' \in {progress, NoProgress}
        /\ \/ saving' = saving
           \/ /\ saving.phase = "idle" /\ saving'.phase = "record"
              /\ saving'.progress = progress /\ progress' = progress
           \/ saving.phase = "refetch" /\ saving'.phase = "idle"
    BY AsideFacts DEF CopyInv, entryServer
  <1>2. NoProgress.item = None
    BY DEF NoProgress
  <1> QED
    BY <1>1, <1>2 DEF CopyInv, UnsentLeft, Unsent, Saving, BareBefore, OneCopyPerFile

LEMMA CopyRecord ==
    ASSUME CopyInv, SaveRecord
    PROVE  UnsentLeft' /\ BareBefore' /\ OneCopyPerFile'
  <1>0. EntryTypes
    BY DEF CopyInv
  <1>1. PICK i \in Items, applied \in BOOLEAN, heard \in BOOLEAN :
        /\ saving.phase = "record" /\ UNCHANGED <<tagged, packed, photos>>
        /\ heard => applied
        /\ IF saving.progress.item = None THEN title[i] = 0 ELSE i = saving.progress.item
        /\ title' = IF applied THEN [title EXCEPT ![i] = saving.entry] ELSE title
        /\ IF heard
           THEN /\ saving'.phase = "labels"
                /\ saving'.progress = [saving.progress EXCEPT !.item = i]
           ELSE saving'.phase = "refetch" /\ saving'.progress = saving.progress
    BY <1>0, RecordFacts
  <1>2. /\ title \in [Items -> 0..(MaxEntries + 1)] /\ saving.entry \in 1..(MaxEntries + 1)
        /\ saving.progress \in Progress
    BY <1>0 DEF EntryTypes, EntryTypeOK, Saves
  <1>3. /\ \A j \in Items : title[j] # 0 => title'[j] # 0
        /\ applied => title'[i] # 0
    BY <1>1, <1>2
  <1>4. Unsent(saving.progress)
    BY <1>1 DEF CopyInv, UnsentLeft, Saving
  <1>5. Unsent(saving.progress)'
    <2>1. CASE heard
      <3>1. /\ saving'.progress.item = i /\ saving'.progress.files = saving.progress.files
            /\ title'[i] # 0
        BY <1>1, <1>2, <1>3, <2>1 DEF Progress
      <3>2. \A f \in Files \ saving.progress.files : photos[<<i, f>>] = 0
        BY <1>1, <1>4, EntryAssumption DEF Unsent, CopyInv, BareBefore
      <3> QED
        BY <1>1, <3>1, <3>2 DEF Unsent
    <2>2. CASE ~heard
      BY <1>1, <1>2, <1>3, <1>4, <2>2 DEF Unsent, Progress
    <2> QED
      BY <2>1, <2>2
  <1>6. saving'.phase = "refetch" => progress' = saving'.progress
    BY <1>0, RequestFacts
  <1>7. UnsentLeft'
    BY <1>1, <1>5, <1>6 DEF UnsentLeft, Unsent
  <1> QED
    BY <1>1, <1>3, <1>7 DEF CopyInv, BareBefore, OneCopyPerFile

LEMMA CopyLater ==
    ASSUME "put" \notin Unanswered, CopyInv, LaterStep
    PROVE  UnsentLeft' /\ BareBefore' /\ OneCopyPerFile'
  <1>0. /\ EntryTypes /\ saving.progress \in Progress
        /\ photos \in [Items \X Files -> 0..2]
    BY DEF CopyInv, EntryTypes, EntryTypeOK, Saves
  <1>1. /\ title' = title /\ Saving
        /\ saving.progress.item \in Items /\ saving.progress.item # None
        /\ saving'.progress.item = saving.progress.item
        /\ saving'.phase = "refetch" => progress' = saving'.progress
        /\ saving'.phase # "idle"
    BY <1>0, RequestFacts, LaterFacts, EntryAssumption
  <1>2. title[saving.progress.item] # 0 /\ Unsent(saving.progress)
    BY <1>1 DEF CopyInv, UnsentLeft, Unsent
  <1>3. ASSUME photos' = photos, saving'.progress.files = saving.progress.files,
               saving'.phase \notin {"put", "cleanup"}
        PROVE  UnsentLeft' /\ BareBefore' /\ OneCopyPerFile'
    BY <1>1, <1>2, <1>3 DEF CopyInv, UnsentLeft, Unsent, BareBefore, OneCopyPerFile
  <1>4. \A L, k : /\ [saving.progress EXCEPT !.labels = L].files = saving.progress.files
                  /\ [saving.progress EXCEPT !.container = k].files = saving.progress.files
    BY <1>0 DEF Progress
  <1>5. CASE SaveLabels
    BY <1>0, <1>3, <1>4, <1>5, LabelFacts
  <1>6. CASE CreatePhoto
    <2>1. PICK f \in Files :
            /\ photos' = photos /\ f \in FilesLeft /\ saving'.progress = saving.progress
            /\ (saving'.phase = "put" /\ saving'.file = f) \/ saving'.phase = "photos"
      BY <1>0, <1>6, CreateFacts
    <2>2. f \notin saving.progress.files
      BY <2>1 DEF FilesLeft
    <2> QED
      BY <1>1, <1>2, <2>1, <2>2 DEF CopyInv, UnsentLeft, Unsent, BareBefore, OneCopyPerFile
  <1>7. CASE PutPhoto
    <2>1. PICK applied \in BOOLEAN, heard \in BOOLEAN :
        /\ saving.phase = "put" /\ heard = applied
        /\ saving.file \in Files
        /\ photos' = IF applied
                     THEN [photos EXCEPT ![Photo] = IF photos[Photo] < 2 THEN photos[Photo] + 1 ELSE 2]
                     ELSE photos
        /\ IF heard
           THEN /\ saving'.phase = "photos"
                /\ saving'.progress = [saving.progress EXCEPT !.files = saving.progress.files \cup {saving.file}]
           ELSE /\ saving'.phase = "cleanup" /\ saving'.whole = applied
                /\ saving'.file = saving.file /\ saving'.progress = saving.progress
      BY <1>0, <1>7, PutFacts
    <2>2. saving.file \notin saving.progress.files /\ Photo \in Items \X Files /\ photos[Photo] = 0
      BY <1>1, <1>2, <2>1 DEF CopyInv, UnsentLeft, Unsent, Photo
    <2>3. CASE heard
      <3>1. photos' = [photos EXCEPT ![Photo] = 1]
        BY <2>1, <2>2, <2>3
      <3>2. saving'.progress.files = saving.progress.files \cup {saving.file}
        BY <1>0, <2>1, <2>3 DEF Progress
      <3>3. \A p \in Items \X Files : photos'[p] = IF p = Photo THEN 1 ELSE photos[p]
        BY <1>0, <2>2, <3>1
      <3>4. OneCopyPerFile'
        BY <3>3 DEF CopyInv, OneCopyPerFile
      <3>5. \A i \in Items, f \in Files :
              photos'[<<i, f>>] = IF i = saving.progress.item /\ f = saving.file
                                  THEN 1 ELSE photos[<<i, f>>]
        BY <3>3 DEF Photo
      <3>6. BareBefore'
        BY <1>1, <1>2, <3>5 DEF CopyInv, BareBefore
      <3>7. Unsent(saving.progress)'
        BY <1>1, <1>2, <3>2, <3>5 DEF Unsent
      <3> QED
        BY <1>1, <2>1, <2>3, <3>4, <3>6, <3>7 DEF UnsentLeft
    <2>4. CASE ~heard
      BY <1>1, <1>2, <2>1, <2>2, <2>4 DEF CopyInv, UnsentLeft, Unsent, BareBefore, OneCopyPerFile
    <2> QED
      BY <2>3, <2>4
  <1>8. CASE DeletePhoto
    BY <1>0, <1>3, <1>8, DeleteFacts DEF CopyInv, UnsentLeft
  <1>9. CASE PhotosDone
    BY <1>0, <1>3, <1>9, DoneFacts DEF entryServer
  <1>10. CASE LeaveContainer
    BY <1>0, <1>3, <1>4, <1>10, LeaveFacts
  <1>11. CASE EnterContainer
    BY <1>0, <1>3, <1>4, <1>11, EnterFacts
  <1> QED
    BY <1>5, <1>6, <1>7, <1>8, <1>9, <1>10, <1>11 DEF LaterStep

LEMMA CopyInvariant ==
    ASSUME "put" \notin Unanswered
    PROVE  EntrySpec => []CopyInv
  <1>1. EntryInit => CopyInv
    <2>1. NoProgress.item = None
      BY DEF NoProgress
    <2> QED
      BY <2>1, EntryTyped
         DEF EntryInit, CopyInv, UnsentLeft, Unsent, Saving, NoSave, BareBefore, OneCopyPerFile
  <1>2. CopyInv /\ [EntryNext]_entryVars => CopyInv'
    BY EntryTyped, CopyAside, CopyRecord, CopyLater, StepsOfEntry DEF CopyInv
  <1> QED
    BY <1>1, <1>2, PTL DEF EntrySpec
-----------------------------------------------------------------------------
(* What the server holds of what a save takes for done.                    *)

Stands(p) == Describes(p) /\ (p.item = None => p = NoProgress)

HeldStands ==
    /\ Saving => Stands(saving.progress)
    /\ saving.phase \in {"idle", "refetch"} => Stands(progress)
    /\ saving.phase \in {"put", "cleanup"} => saving.file \notin saving.progress.files

PlainBefore == \A i \in Items : title[i] = 0 => LabelsOf(i) = {} /\ packed[i] = None

ServedInv == EntryTypes /\ HeldStands /\ PlainBefore

LEMMA FreshStands == Stands(NoProgress) /\ Stands(NoProgress)'
  BY DEF Stands, Describes, NoProgress

LEMMA ServedAside ==
    ASSUME ServedInv,
           \/ UNCHANGED entryVars
           \/ OpenDialog \/ ToggleAssisted \/ RequestClose \/ KeepWorking \/ ExitAndKeepItem
           \/ Skip \/ Back \/ Visit \/ AddAnother \/ ViewItem
           \/ Submit \/ Refetched
    PROVE  HeldStands' /\ PlainBefore'
  <1>1. /\ UNCHANGED <<title, tagged, packed, photos>> /\ progress' \in {progress, NoProgress}
        /\ \/ saving' = saving
           \/ /\ saving.phase = "idle" /\ saving'.phase = "record"
              /\ saving'.progress = progress /\ progress' = progress
           \/ saving.phase = "refetch" /\ saving'.phase = "idle"
    BY AsideFacts DEF ServedInv, entryServer
  <1>2. PlainBefore'
    BY <1>1 DEF ServedInv, PlainBefore, LabelsOf
  <1>3. /\ Stands(progress) => Stands(progress)'
        /\ Stands(saving.progress) /\ saving' = saving => Stands(saving.progress)'
        /\ Stands(progress) /\ saving'.progress = progress => Stands(saving.progress)'
    BY <1>1, FreshStands DEF Stands, Describes, LabelsOf
  <1> QED
    BY <1>1, <1>2, <1>3 DEF ServedInv, HeldStands, Saving

LEMMA ServedRecord ==
    ASSUME ServedInv, SaveRecord
    PROVE  HeldStands' /\ PlainBefore'
  <1>0. EntryTypes
    BY DEF ServedInv
  <1>1. PICK i \in Items, applied \in BOOLEAN, heard \in BOOLEAN :
        /\ saving.phase = "record" /\ UNCHANGED <<tagged, packed, photos>>
        /\ heard => applied
        /\ IF saving.progress.item = None THEN title[i] = 0 ELSE i = saving.progress.item
        /\ title' = IF applied THEN [title EXCEPT ![i] = saving.entry] ELSE title
        /\ IF heard
           THEN /\ saving'.phase = "labels"
                /\ saving'.progress = [saving.progress EXCEPT !.item = i]
           ELSE saving'.phase = "refetch" /\ saving'.progress = saving.progress
    BY <1>0, RecordFacts
  <1>2. /\ title \in [Items -> 0..(MaxEntries + 1)] /\ saving.entry \in 1..(MaxEntries + 1)
        /\ saving.progress \in Progress
    BY <1>0 DEF EntryTypes, EntryTypeOK, Saves
  <1>3. /\ \A j \in Items : title[j] # 0 => title'[j] # 0
        /\ applied => title'[i] # 0
    BY <1>1, <1>2
  <1>4. Stands(saving.progress)
    BY <1>1 DEF ServedInv, HeldStands, Saving
  <1>5. Stands(saving.progress)'
    <2>1. CASE heard
      <3>1. /\ saving'.progress.item = i /\ saving'.progress.files = saving.progress.files
            /\ saving'.progress.labels = saving.progress.labels
            /\ saving'.progress.container = saving.progress.container /\ title'[i] # 0 /\ i # None
        BY <1>1, <1>2, <1>3, <2>1, EntryAssumption DEF Progress
      <3>2. /\ LabelsOf(i) = saving.progress.labels /\ packed[i] = saving.progress.container
            /\ \A f \in saving.progress.files : photos[<<i, f>>] > 0
        <4>1. CASE saving.progress.item = None
          <5>1. saving.progress.labels = {} /\ saving.progress.files = {} /\ saving.progress.container = None
            BY <1>4, <4>1 DEF Stands, NoProgress
          <5> QED
            BY <1>1, <4>1, <5>1 DEF ServedInv, PlainBefore
        <4>2. CASE saving.progress.item # None
          BY <1>1, <1>4, <4>2 DEF Stands, Describes
        <4> QED
          BY <4>1, <4>2
      <3>3. LabelsOf(i)' = LabelsOf(i) /\ packed' = packed /\ photos' = photos
        BY <1>1 DEF LabelsOf
      <3>4. LabelsOf(saving.progress.item)' = LabelsOf(i)
        BY <3>1, <3>3 DEF LabelsOf
      <3> QED
        BY <3>1, <3>2, <3>3, <3>4 DEF Stands, Describes
    <2>2. CASE ~heard
      BY <1>1, <1>2, <1>3, <1>4, <2>2 DEF Stands, Describes, LabelsOf, Progress
    <2> QED
      BY <2>1, <2>2
  <1>6. saving'.phase = "refetch" => progress' = saving'.progress
    BY <1>0, RequestFacts
  <1>7. HeldStands'
    BY <1>1, <1>5, <1>6 DEF HeldStands, Stands, Describes, LabelsOf
  <1>8. PlainBefore'
    BY <1>1, <1>3 DEF ServedInv, PlainBefore, LabelsOf
  <1> QED
    BY <1>7, <1>8

(* A request that changes what the server holds of the item changes the    *)
(* progress alike.                                                         *)
LEMMA ServedAlike ==
    ASSUME ServedInv, SaveRecord \/ LaterStep, UNCHANGED title,
           NEW i \in Items, saving.progress.item = i, saving'.progress.item = i, title[i] # 0,
           LabelsOf(i)' = saving'.progress.labels, packed'[i] = saving'.progress.container,
           \A f \in saving'.progress.files : photos'[<<i, f>>] > 0,
           \A j \in Items \ {i} : LabelsOf(j)' = LabelsOf(j) /\ packed'[j] = packed[j],
           saving'.phase \in {"put", "cleanup"} => saving'.file \notin saving'.progress.files
    PROVE  HeldStands' /\ PlainBefore'
  <1>1. Saving' /\ (saving'.phase = "refetch" => progress' = saving'.progress) /\ i # None
    BY RequestFacts, EntryAssumption DEF ServedInv
  <1>2. LabelsOf(saving.progress.item)' = LabelsOf(i)'
    BY DEF LabelsOf
  <1>3. Stands(saving.progress)'
    BY <1>1, <1>2 DEF Stands, Describes
  <1>4. saving'.phase = "refetch" => Stands(progress)'
    BY <1>1, <1>3 DEF Stands, Describes, LabelsOf
  <1> QED
    BY <1>1, <1>3, <1>4 DEF ServedInv, HeldStands, PlainBefore, Saving

LEMMA ServedLater ==
    ASSUME AssignmentsHeard, ServedInv, LaterStep
    PROVE  HeldStands' /\ PlainBefore'
  <1>0. /\ EntryTypes /\ saving.progress \in Progress
        /\ photos \in [Items \X Files -> 0..2] /\ packed \in [Items -> Containers \cup {None}]
    BY DEF ServedInv, EntryTypes, EntryTypeOK, Saves
  <1>01. PICK i \in Items : i = saving.progress.item
    BY <1>0, LaterFacts
  <1>1. /\ UNCHANGED title /\ Saving /\ i # None
        /\ saving.progress.item = i /\ saving'.progress.item = i
    BY <1>01,  <1>0, RequestFacts, LaterFacts, EntryAssumption
  <1>2. /\ title[i] # 0 /\ LabelsOf(i) = saving.progress.labels
        /\ packed[i] = saving.progress.container
        /\ \A f \in saving.progress.files : photos[<<i, f>>] > 0
    BY <1>1 DEF ServedInv, HeldStands, Stands, Describes
  <1>3. /\ "labels" \notin Unanswered /\ "leave" \notin Unanswered /\ "enter" \notin Unanswered
    BY DEF AssignmentsHeard
  <1>4. \A L, F, k :
          /\ [saving.progress EXCEPT !.labels = L].labels = L
          /\ [saving.progress EXCEPT !.labels = L].files = saving.progress.files
          /\ [saving.progress EXCEPT !.labels = L].container = saving.progress.container
          /\ [saving.progress EXCEPT !.files = F].labels = saving.progress.labels
          /\ [saving.progress EXCEPT !.files = F].files = F
          /\ [saving.progress EXCEPT !.files = F].container = saving.progress.container
          /\ [saving.progress EXCEPT !.container = k].labels = saving.progress.labels
          /\ [saving.progress EXCEPT !.container = k].files = saving.progress.files
          /\ [saving.progress EXCEPT !.container = k].container = k
    BY <1>0 DEF Progress
  <1>5. tagged' = tagged => \A j \in Items : LabelsOf(j)' = LabelsOf(j)
    BY DEF LabelsOf
  <1>6. CASE SaveLabels
    <2>1. PICK applied, heard :
        /\ saving'.phase = "photos" /\ UNCHANGED <<packed, photos>> /\ heard = applied
        /\ \A j \in Items : LabelsOf(j)' = IF j = i THEN Toggled(LabelsOf(j), applied) ELSE LabelsOf(j)
        /\ saving'.progress = [saving.progress EXCEPT !.labels = Toggled(saving.progress.labels, heard)]
      BY <1>0, <1>1, <1>3, <1>6, LabelFacts
    <2>2. LabelsOf(i)' = saving'.progress.labels
      BY <1>1, <1>2, <1>4, <2>1
    <2> QED
      BY <1>1, <1>2, <1>4, <2>1, <2>2, ServedAlike
  <1>7. CASE CreatePhoto
    <2>1. PICK f \in FilesLeft :
        /\ UNCHANGED <<tagged, packed, photos>> /\ saving'.progress = saving.progress
        /\ (saving'.phase = "put" /\ saving'.file = f) \/ saving'.phase = "photos"
      BY <1>0, <1>7, CreateFacts
    <2>2. f \notin saving.progress.files
      BY DEF FilesLeft
    <2> QED
      BY <1>1, <1>2, <1>5, <2>1, <2>2, ServedAlike
  <1>8. CASE PutPhoto
    <2>1. PICK applied \in BOOLEAN, heard \in BOOLEAN :
        /\ saving.phase = "put" /\ (heard => applied) /\ UNCHANGED <<tagged, packed>>
        /\ saving.file \in Files
        /\ photos' = IF applied
                     THEN [photos EXCEPT ![Photo] = IF photos[Photo] < 2 THEN photos[Photo] + 1 ELSE 2]
                     ELSE photos
        /\ IF heard
           THEN /\ saving'.phase = "photos"
                /\ saving'.progress = [saving.progress EXCEPT !.files = saving.progress.files \cup {saving.file}]
           ELSE /\ saving'.phase = "cleanup"
                /\ saving'.file = saving.file /\ saving'.progress = saving.progress
      BY <1>0, <1>8, PutFacts
    <2>2. /\ \A f \in Files : photos[<<i, f>>] > 0 => photos'[<<i, f>>] > 0
          /\ applied => photos'[<<i, saving.file>>] > 0
      <3>1. Photo = <<i, saving.file>> /\ Photo \in Items \X Files /\ photos[Photo] \in 0..2
        BY <1>0, <1>1, <2>1 DEF Photo
      <3> QED
        BY <1>0, <1>1, <2>1, <3>1
    <2>3. saving.file \notin saving.progress.files /\ saving.progress.files \subseteq Files
      BY <1>0, <2>1 DEF ServedInv, HeldStands, Progress
    <2>4. saving'.progress.labels = saving.progress.labels /\ saving'.progress.container = saving.progress.container
          /\ saving'.progress.files = IF heard THEN saving.progress.files \cup {saving.file}
                                      ELSE saving.progress.files
      <3>1. CASE heard
        BY <1>0, <2>1, <3>1 DEF Progress
      <3>2. CASE ~heard
        BY <2>1, <3>2
      <3> QED
        BY <3>1, <3>2
    <2>5. \A f \in saving'.progress.files : photos'[<<i, f>>] > 0
      BY <1>2, <2>1, <2>2, <2>3, <2>4
    <2> QED
      BY <1>1, <1>2, <1>5, <2>1, <2>3, <2>4, <2>5, ServedAlike
  <1>9. CASE DeletePhoto
    <2>1. /\ saving.phase = "cleanup" /\ saving'.phase = "photos" /\ UNCHANGED <<tagged, packed>>
          /\ saving.file \in Files /\ saving'.progress = saving.progress
          /\ photos' = photos \/ photos' = [photos EXCEPT ![Photo] = photos[Photo] - 1]
      BY <1>0, <1>9, DeleteFacts
    <2>2. saving.file \notin saving.progress.files /\ saving.progress.files \subseteq Files
      BY <1>0, <2>1 DEF ServedInv, HeldStands, Progress
    <2>3. \A f \in saving.progress.files : photos'[<<i, f>>] = photos[<<i, f>>]
      BY <1>0, <1>1, <2>1, <2>2 DEF Photo
    <2> QED
      BY <1>1, <1>2, <1>5, <2>1, <2>3, ServedAlike
  <1>10. CASE PhotosDone
    <2>1. /\ UNCHANGED <<tagged, packed, photos>> /\ saving'.progress = saving.progress
          /\ saving'.phase \notin {"put", "cleanup"}
      BY <1>0, <1>10, DoneFacts DEF entryServer
    <2> QED
      BY <1>1, <1>2, <1>5, <2>1, ServedAlike
  <1>11. CASE LeaveContainer
    <2>1. PICK applied \in BOOLEAN, heard \in BOOLEAN :
        /\ heard = applied /\ UNCHANGED <<tagged, photos>>
        /\ packed' = IF applied THEN [packed EXCEPT ![i] = None] ELSE packed
        /\ IF heard
           THEN /\ saving'.progress = [saving.progress EXCEPT !.container = None]
                /\ saving'.phase = IF saving.input.container = None THEN "refetch" ELSE "enter"
           ELSE saving'.phase = "refetch" /\ saving'.progress = saving.progress
      BY <1>0, <1>1, <1>3, <1>11, LeaveFacts
    <2>2. saving'.phase \notin {"put", "cleanup"}
      BY <2>1
    <2>3. /\ packed'[i] = saving'.progress.container
          /\ \A j \in Items \ {i} : packed'[j] = packed[j]
          /\ saving'.progress.labels = saving.progress.labels
          /\ saving'.progress.files = saving.progress.files
      <3>1. CASE heard
        <4>1. /\ packed' = [packed EXCEPT ![i] = None]
              /\ saving'.progress = [saving.progress EXCEPT !.container = None]
          BY <2>1, <3>1
        <4>2. /\ saving'.progress.container = None
              /\ saving'.progress.labels = saving.progress.labels
              /\ saving'.progress.files = saving.progress.files
          BY <1>0, <4>1 DEF Progress
        <4> QED
          BY <1>0, <4>1, <4>2
      <3>2. CASE ~heard
        BY <1>2, <2>1, <3>2
      <3> QED
        BY <3>1, <3>2
    <2> QED
      BY <1>1, <1>2, <1>5, <2>1, <2>2, <2>3, ServedAlike
  <1>12. CASE EnterContainer
    <2>1. PICK applied \in BOOLEAN :
        /\ UNCHANGED <<tagged, photos>> /\ saving'.phase = "refetch"
        /\ packed' = IF applied THEN [packed EXCEPT ![i] = saving.input.container] ELSE packed
        /\ saving'.progress = IF applied THEN [saving.progress EXCEPT !.container = saving.input.container]
                              ELSE saving.progress
      BY <1>0, <1>1, <1>3, <1>12, EnterFacts
    <2> QED
      BY <1>0, <1>1, <1>2, <1>4, <1>5, <2>1, ServedAlike
  <1> QED
    BY <1>6, <1>7, <1>8, <1>9, <1>10, <1>11, <1>12 DEF LaterStep

LEMMA ServedInvariant ==
    ASSUME AssignmentsHeard
    PROVE  EntrySpec => []ServedInv
  <1>1. EntryInit => ServedInv
    <2>1. EntryInit => ~Saving /\ saving.phase = "idle" /\ progress = NoProgress
      BY DEF EntryInit, Saving, NoSave
    <2>2. EntryInit => PlainBefore
      BY DEF EntryInit, PlainBefore, LabelsOf
    <2> QED
      BY <2>1, <2>2, EntryTyped, FreshStands DEF ServedInv, HeldStands
  <1>2. ServedInv /\ [EntryNext]_entryVars => ServedInv'
    BY EntryTyped, ServedAside, ServedRecord, ServedLater, StepsOfEntry DEF ServedInv
  <1> QED
    BY <1>1, <1>2, PTL DEF EntrySpec
-----------------------------------------------------------------------------
(* How far a save has come that has not failed.                            *)

KeepsUp ==
    /\ saving.phase = "cleanup" => saving.failed
    /\ Saving /\ ~saving.failed => saving.tried \subseteq saving.progress.files
    /\ saving.phase \in {"photos", "put", "cleanup", "leave", "enter", "refetch"} /\ ~saving.failed =>
          saving.progress.item # None /\ saving.progress.labels = saving.input.labels
    /\ saving.phase \in {"leave", "enter", "refetch"} /\ ~saving.failed /\ WithPhotos =>
          saving.input.files \subseteq saving.progress.files
    /\ saving.phase = "refetch" /\ ~saving.failed /\ WithContainer =>
          saving.progress.container = saving.input.container

KeepsUpInv == EntryTypes /\ KeepsUp

LEMMA KeepsUpAside ==
    ASSUME KeepsUpInv,
           \/ UNCHANGED entryVars
           \/ OpenDialog \/ ToggleAssisted \/ RequestClose \/ KeepWorking \/ ExitAndKeepItem
           \/ Skip \/ Back \/ Visit \/ AddAnother \/ ViewItem
           \/ Submit \/ Refetched
    PROVE  KeepsUp'
  BY AsideFacts DEF KeepsUpInv, KeepsUp, Saving, WithPhotos, WithContainer

LEMMA KeepsUpRequests ==
    ASSUME KeepsUpInv, SaveRecord \/ LaterStep
    PROVE  KeepsUp'
  <1>0. /\ EntryTypes /\ saving.progress \in Progress /\ saving.input.labels \subseteq Labels
        /\ saving.progress.labels \subseteq Labels
    BY DEF KeepsUpInv, EntryTypes, EntryTypeOK, Saves, Progress, Forms
  <1>1. /\ saving.failed => saving'.failed
        /\ saving'.kind = saving.kind /\ saving'.input = saving.input /\ Saving
        /\ WithPhotos' = WithPhotos /\ WithContainer' = WithContainer
    BY <1>0, RequestFacts DEF GoesOn, WithPhotos, WithContainer
  <1>2. \A L, F, k, i :
          /\ [saving.progress EXCEPT !.item = i].files = saving.progress.files
          /\ [saving.progress EXCEPT !.labels = L].labels = L
          /\ [saving.progress EXCEPT !.labels = L].files = saving.progress.files
          /\ [saving.progress EXCEPT !.files = F].labels = saving.progress.labels
          /\ [saving.progress EXCEPT !.files = F].files = F
          /\ [saving.progress EXCEPT !.container = k].labels = saving.progress.labels
          /\ [saving.progress EXCEPT !.container = k].files = saving.progress.files
          /\ [saving.progress EXCEPT !.container = k].container = k
    BY <1>0 DEF Progress
  <1>3. LaterStep => saving.progress.item \in Items /\ saving'.progress.item # None
    BY <1>0, LaterFacts, EntryAssumption
  <1>4. CASE saving'.failed
    BY <1>4 DEF KeepsUp
  <1>5. CASE ~saving'.failed
    <2>0. ~saving.failed /\ saving.tried \subseteq saving.progress.files
      BY <1>1, <1>5 DEF KeepsUpInv, KeepsUp
    <2>1. CASE SaveRecord
      <3>1. PICK i : /\ saving'.phase = "labels" /\ saving'.tried = saving.tried
                     /\ saving'.progress = [saving.progress EXCEPT !.item = i]
        BY <1>0, <1>5, <2>1, RecordFacts
      <3> QED
        BY <1>2, <2>0, <3>1 DEF KeepsUp
    <2>2. CASE SaveLabels
      <3>1. /\ saving'.phase = "photos" /\ saving'.tried = saving.tried
            /\ saving'.progress = [saving.progress EXCEPT
                                       !.labels = Toggled(saving.progress.labels, LabelOperations)]
        BY <1>0, <1>5, <2>2, LabelFacts
      <3>2. Toggled(saving.progress.labels, LabelOperations) = saving.input.labels
        BY <1>0 DEF Toggled, LabelOperations
      <3> QED
        BY <1>1, <1>2, <1>3, <2>0, <2>2, <3>1, <3>2 DEF KeepsUp, LaterStep
    <2>3. CASE CreatePhoto
      BY <1>0, <1>1, <1>3, <1>5, <2>0, <2>3, CreateFacts DEF KeepsUpInv, KeepsUp, LaterStep
    <2>4. CASE PutPhoto
      <3>1. /\ saving.phase = "put" /\ saving'.phase = "photos"
            /\ saving'.tried = saving.tried \cup {saving.file}
            /\ saving'.progress = [saving.progress EXCEPT !.files = saving.progress.files \cup {saving.file}]
        BY <1>0, <1>5, <2>4, PutFacts
      <3>2. /\ saving'.progress.files = saving.progress.files \cup {saving.file}
            /\ saving'.progress.labels = saving.progress.labels
        BY <1>0, <3>1 DEF Progress
      <3> QED
        BY <1>1, <1>3, <2>0, <2>4, <3>1, <3>2 DEF KeepsUpInv, KeepsUp, LaterStep
    <2>5. CASE DeletePhoto
      BY <1>0, <1>5, <2>0, <2>5, DeleteFacts DEF KeepsUpInv, KeepsUp
    <2>6. CASE PhotosDone
      <3>1. /\ saving.phase = "photos" /\ FilesLeft = {}
            /\ saving'.progress = saving.progress /\ saving'.tried = saving.tried
            /\ saving'.phase \in {"leave", "enter", "refetch"}
            /\ saving'.phase = "refetch" /\ WithContainer =>
                  saving.progress.container = saving.input.container
        BY <1>0, <2>6, DoneFacts
      <3>2. WithPhotos => saving.input.files \subseteq saving.progress.files
        BY <2>0, <3>1 DEF FilesLeft
      <3> QED
        BY <1>1, <1>3, <2>0, <2>6, <3>1, <3>2 DEF KeepsUpInv, KeepsUp, LaterStep
    <2>7. CASE LeaveContainer
      <3>1. /\ saving.phase = "leave" /\ saving'.tried = saving.tried
            /\ saving'.phase = (IF saving.input.container = None THEN "refetch" ELSE "enter")
            /\ saving'.progress = [saving.progress EXCEPT !.container = None]
        BY <1>0, <1>5, <2>7, LeaveFacts
      <3> QED
        BY <1>1, <1>2, <1>3, <2>0, <2>7, <3>1 DEF KeepsUpInv, KeepsUp, LaterStep
    <2>8. CASE EnterContainer
      <3>1. /\ saving.phase = "enter" /\ saving'.tried = saving.tried /\ saving'.phase = "refetch"
            /\ saving'.progress = [saving.progress EXCEPT !.container = saving.input.container]
        BY <1>0, <1>5, <2>8, EnterFacts
      <3> QED
        BY <1>1, <1>2, <1>3, <2>0, <2>8, <3>1 DEF KeepsUpInv, KeepsUp, LaterStep
    <2> QED
      BY <2>1, <2>2, <2>3, <2>4, <2>5, <2>6, <2>7, <2>8 DEF LaterStep
  <1> QED
    BY <1>4, <1>5

LEMMA KeepsUpInvariant == EntrySpec => []KeepsUpInv
  <1>1. EntryInit => KeepsUpInv
    BY EntryTyped DEF EntryInit, NoSave, Saving, KeepsUp, KeepsUpInv
  <1>2. KeepsUpInv /\ [EntryNext]_entryVars => KeepsUpInv'
    BY EntryTyped, KeepsUpAside, KeepsUpRequests, StepsOfEntry DEF KeepsUpInv
  <1> QED
    BY <1>1, <1>2, PTL DEF EntrySpec

(* From its record on, the item of a save bears the name of its entry.     *)
Named ==
    saving.phase \notin {"idle", "record"} /\ ~saving.failed =>
        title[saving.progress.item] = saving.entry

NamedInv == EntryTypes /\ Named

LEMMA NamedInvariant == EntrySpec => []NamedInv
  <1>1. EntryInit => NamedInv
    BY EntryTyped DEF EntryInit, NoSave, Named, NamedInv
  <1>2. ASSUME NamedInv, [EntryNext]_entryVars
        PROVE  Named'
    <2>0. EntryTypes
      BY <1>2 DEF NamedInv
    <2>1. CASE \/ UNCHANGED entryVars
               \/ OpenDialog \/ ToggleAssisted \/ RequestClose \/ KeepWorking \/ ExitAndKeepItem
               \/ Skip \/ Back \/ Visit \/ AddAnother \/ ViewItem
               \/ Submit \/ Refetched
      <3>1. /\ title' = title
            /\ saving' = saving \/ saving'.phase \in {"idle", "record"}
        BY <2>0, <2>1, AsideFacts DEF entryServer
      <3> QED
        BY <1>2, <3>1 DEF NamedInv, Named
    <2>2. CASE SaveRecord
      <3>1. PICK i \in Items, applied \in BOOLEAN, heard \in BOOLEAN :
              /\ GoesOn /\ (heard => applied)
              /\ title' = IF applied THEN [title EXCEPT ![i] = saving.entry] ELSE title
              /\ IF heard
                 THEN saving'.progress = [saving.progress EXCEPT !.item = i]
                 ELSE saving'.failed
        BY <2>0, <2>2, RecordFacts
      <3>2. saving.progress \in Progress /\ title \in [Items -> 0..(MaxEntries + 1)]
        BY <2>0 DEF EntryTypes, EntryTypeOK, Saves
      <3>3. heard => title'[i] = saving.entry /\ saving'.progress.item = i
        BY <3>1, <3>2 DEF Progress
      <3> QED
        BY <3>1, <3>3 DEF Named, GoesOn
    <2>3. CASE LaterStep
      <3>1. /\ GoesOn /\ title' = title /\ saving'.progress.item = saving.progress.item
            /\ saving.phase \notin {"idle", "record"}
        BY <2>0, <2>3, LaterFacts
      <3> QED
        BY <1>2, <3>1 DEF NamedInv, Named, GoesOn
    <2> QED
      BY <1>2, <2>1, <2>2, <2>3, StepsOfEntry
  <1>3. NamedInv /\ [EntryNext]_entryVars => NamedInv'
    BY <1>2, EntryTyped DEF NamedInv
  <1> QED
    BY <1>1, <1>3, PTL DEF EntrySpec
-----------------------------------------------------------------------------
(* The theorems, for any ids, labels, kits and files, any number of        *)
(* entries and any requests that are refused.                              *)

(* Whatever answers get lost and whenever the dialog is closed, the dialog,*)
(* the save and the server keep to the values of their variables.          *)
THEOREM EntryIsTyped == EntrySpec => []EntryTypeOK
  <1>1. EntryTypes => EntryTypeOK
    BY DEF EntryTypes
  <1> QED
    BY <1>1, EntryTyped, PTL DEF EntrySpec

(* Whichever answers get lost and whenever the dialog is closed: an item   *)
(* that bears the name of another entry than the one it was made for was   *)
(* made for an entry whose dialog was left in the middle of its save.      *)
THEOREM EntriesKeptApart == EntrySpec => []EntriesStayApart
  <1>1. ApartInv => EntriesStayApart
    BY DEF ApartInv
  <1> QED
    BY <1>1, ApartInvariant, PTL

(* Even if the dialog is closed in the middle of a save and the answers    *)
(* about the record and the photos get lost, the next save starts from     *)
(* what the server holds: its labels, its kit and its photos, if the       *)
(* requests that assign them are answered.                                 *)
THEOREM SavesStartFromWhatIsServed ==
    ASSUME AssignmentsHeard
    PROVE  EntrySpec => []ProgressIsTrue
  <1>1. ServedInv => ProgressIsTrue
    BY DEF ServedInv, HeldStands, Stands, ProgressIsTrue, Saving, EntryTypes, EntryTypeOK, Saves, Phases
  <1> QED
    BY <1>1, ServedInvariant, PTL

(* A save that reports no error has saved the form, however many saves     *)
(* failed before it and whatever they left behind, also when the dialog    *)
(* was left while it ran or when it began from the progress of an entry    *)
(* that was, if the requests that assign labels and kits are answered.     *)
THEOREM RetriesAreSafe ==
    ASSUME AssignmentsHeard
    PROVE  EntrySpec => []SuccessMeansSaved
  <1>1. ServedInv /\ KeepsUpInv /\ NamedInv => SuccessMeansSaved
    <2> SUFFICES ASSUME ServedInv, KeepsUpInv, NamedInv, saving.phase = "refetch", ~saving.failed,
                        NEW item, item = saving.progress.item
                 PROVE  /\ item # None
                        /\ title[item] = saving.entry
                        /\ LabelsOf(item) = saving.input.labels
                        /\ WithPhotos => \A f \in saving.input.files : photos[<<item, f>>] > 0
                        /\ WithContainer => packed[item] = saving.input.container
      BY DEF SuccessMeansSaved
    <2>1. /\ item # None /\ title[item] = saving.entry
          /\ saving.progress.labels = saving.input.labels
          /\ WithPhotos => saving.input.files \subseteq saving.progress.files
          /\ WithContainer => saving.progress.container = saving.input.container
      BY DEF KeepsUpInv, KeepsUp, NamedInv, Named
    <2>2. Describes(saving.progress)
      BY DEF ServedInv, HeldStands, Stands, Saving
    <2> QED
      BY <2>1, <2>2 DEF Describes
  <1> QED
    BY <1>1, ServedInvariant, KeepsUpInvariant, NamedInvariant, PTL

(* Also if the dialog is closed in the middle of a save: saving again      *)
(* makes no second item of what was entered and uploads no photo a second  *)
(* time, if the requests that create the item and upload the photos are    *)
(* answered.                                                               *)
THEOREM RetriesRepeatNothing ==
    ASSUME {"record", "put"} \cap Unanswered = {}
    PROVE  EntrySpec => []NothingTwice
  <1>1. OneItemInv /\ CopyInv => NothingTwice
    BY DEF OneItemInv, CopyInv, NothingTwice
  <1>2. "record" \notin Unanswered /\ "put" \notin Unanswered
    OBVIOUS
  <1> QED
    BY <1>1, <1>2, OneItemInvariant, CopyInvariant, PTL
=============================================================================
