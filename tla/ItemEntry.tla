----------------------------- MODULE ItemEntry -----------------------------
(***************************************************************************)
(* The dialog that enters a new item (create-item-dialog.tsx) and the      *)
(* coordinator that saves it (lib/item-entry.ts).  A save is a row, one    *)
(* request per label, three per photo and two for the kit; what succeeded  *)
(* is kept in `progress' so that the next save only sends the rest.        *)
(*                                                                         *)
(* The requests are named by the phase of the save that sends them.  The   *)
(* dialog stays mounted while it is closed and nothing keeps it from being *)
(* closed during a save, which then goes on beside the next entry.         *)
(*                                                                         *)
(* A form is what the user typed for one thing, the `entry': the name, the *)
(* description, the location and the document fields are that entry.  It   *)
(* may be edited at any time and is read when a button is pressed, so it   *)
(* is chosen there; a form that does not validate saves nothing.           *)
(* Files are told apart by photoFileKey.  Left out: photo rows that were   *)
(* left without an object, texts of errors, the percentage of an upload,   *)
(* other clients.                                                          *)
(***************************************************************************)
EXTENDS ApiClient, Naturals

CONSTANTS
    Items,              \* ids the server may give to new items
    Labels, Containers, Files,
    MaxEntries          \* bound: things the user describes

ASSUME EntryAssumption ==
    /\ None \notin Items /\ None \notin Containers
    /\ MaxEntries \in Nat \ {0}

VARIABLES
    dialog,   \* open, assisted, step, completed, exit (the question asked before leaving)
    entry,    \* the thing the user is describing
    progress, \* SaveItemProgress
    saving,   \* the running save; whole: the photo row it made has its object
    outlived, \* history: the entries that were left while their save ran
    \* the server
    title,    \* title[i]: the entry last written to item i, 0 before it exists
    born,     \* born[i]: the entry item i was created for
    tagged,   \* pairs of an item and a label
    packed,   \* packed[i]: the kit of item i
    photos    \* photos[<<i, f>>]: 0, 1, or 2 for more than one

entryPage   == <<dialog, entry, progress, outlived>>
entryServer == <<title, born, tagged, packed, photos>>
entryVars   == <<entryPage, saving, entryServer>>

Forms == [labels : SUBSET Labels, container : Containers \cup {None}, files : SUBSET Files]
EmptyForm == [labels |-> {}, container |-> None, files |-> {}]

Progress == [item : Items \cup {None}, labels : SUBSET Labels,
             files : SUBSET Files, container : Containers \cup {None}]
NoProgress == [item |-> None, labels |-> {}, files |-> {}, container |-> None]

LastStep == 7
Dialogs == [open : BOOLEAN, assisted : BOOLEAN, step : 0..LastStep,
            completed : SUBSET (0..LastStep), exit : BOOLEAN]
FreshDialog(shown, guided) ==
    [open |-> shown, assisted |-> guided, step |-> 0, completed |-> {}, exit |-> FALSE]

Phases == {"idle", "record", "labels", "photos", "put", "cleanup", "leave", "enter", "refetch"}
Kinds  == {"standard", "details", "photos", "container"}
Saves  == [phase : Phases, kind : Kinds, input : Forms, progress : Progress,
           entry : 1..(MaxEntries + 1), file : Files \cup {None},
           whole : BOOLEAN, tried : SUBSET Files, failed : BOOLEAN]
NoSave == [phase |-> "idle", kind |-> "standard", input |-> EmptyForm,
           progress |-> NoProgress, entry |-> 1, file |-> None,
           whole |-> FALSE, tried |-> {}, failed |-> FALSE]

Saving == saving.phase # "idle"
-----------------------------------------------------------------------------
(* The user.                                                               *)

InDialog == dialog.open /\ ~dialog.exit

OpenDialog ==
    /\ ~dialog.open /\ entry <= MaxEntries
    /\ dialog' = [dialog EXCEPT !.open = TRUE]
    /\ UNCHANGED <<entry, progress, outlived, saving, entryServer>>

ToggleAssisted ==
    /\ InDialog /\ progress.item = None
    /\ dialog' = [dialog EXCEPT !.assisted = ~@]
    /\ UNCHANGED <<entry, progress, outlived, saving, entryServer>>

(* A save that has yet to return its progress when the dialog is left.     *)
Outlives == outlived' = outlived \cup (IF saving.phase \in {"idle", "refetch"}
                                       THEN {} ELSE {saving.entry})

(* Mutated: the progress of the previous entry is kept.                    *)
ResetKeepsProgress(shown, guided) ==
    /\ dialog' = FreshDialog(shown, guided)
    /\ entry' = IF entry <= MaxEntries THEN entry + 1 ELSE entry
    /\ Outlives
    /\ UNCHANGED progress

(* reset, and where the dialog goes: the user turns to the next thing.     *)
ResetEntry(shown, guided) ==
    /\ dialog' = FreshDialog(shown, guided)
    /\ progress' = NoProgress
    /\ entry' = IF entry <= MaxEntries THEN entry + 1 ELSE entry
    /\ Outlives

RequestClose ==
    /\ InDialog
    /\ IF progress.item # None
       THEN /\ dialog' = [dialog EXCEPT !.exit = TRUE]
            /\ UNCHANGED <<entry, progress, outlived>>
       ELSE ResetEntry(FALSE, FALSE)
    /\ UNCHANGED <<saving, entryServer>>

KeepWorking ==
    /\ dialog.exit
    /\ dialog' = [dialog EXCEPT !.exit = FALSE]
    /\ UNCHANGED <<entry, progress, outlived, saving, entryServer>>

ExitAndKeepItem ==
    /\ dialog.exit
    /\ ResetEntry(FALSE, FALSE)
    /\ UNCHANGED <<saving, entryServer>>

(* completeAssistedStep of the step the guide shows.                       *)
Completed(d) ==
    [d EXCEPT !.completed = @ \cup {d.step},
              !.step = IF d.step < LastStep THEN d.step + 1 ELSE LastStep]

AtStep(steps) == InDialog /\ dialog.assisted /\ dialog.step \in steps

(* Skip, and Continue of the steps that save nothing.                      *)
Skip ==
    /\ AtStep(1..6) /\ ~Saving
    /\ dialog' = Completed(dialog)
    /\ UNCHANGED <<entry, progress, outlived, saving, entryServer>>

Back ==
    /\ AtStep(1..6) /\ ~Saving
    /\ dialog' = [dialog EXCEPT !.step = @ - 1]
    /\ UNCHANGED <<entry, progress, outlived, saving, entryServer>>

Reachable(i) == i = 0 \/ \E c \in dialog.completed : i <= c + 1

Visit ==
    /\ AtStep(0..LastStep) /\ ~Saving
    /\ \E i \in 0..LastStep : Reachable(i) /\ dialog' = [dialog EXCEPT !.step = i]
    /\ UNCHANGED <<entry, progress, outlived, saving, entryServer>>

AddAnother ==
    /\ AtStep({7}) /\ entry < MaxEntries
    /\ ResetEntry(TRUE, TRUE)
    /\ UNCHANGED <<saving, entryServer>>

ViewItem ==
    /\ AtStep({7})
    /\ ResetEntry(FALSE, FALSE)
    /\ UNCHANGED <<saving, entryServer>>
-----------------------------------------------------------------------------
(* The coordinator: input and progress are those of the render in which    *)
(* the button was pressed.                                                 *)

Start(kind) ==
    /\ \E form \in Forms :
        saving' = [NoSave EXCEPT !.phase = "record", !.kind = kind, !.input = form,
                                 !.progress = progress, !.entry = entry]
    /\ UNCHANGED <<entryPage, entryServer>>

Submit ==
    \/ InDialog /\ ~dialog.assisted /\ ~Saving /\ Start("standard")
    \/ AtStep({0})    /\ ~Saving /\ Start("details")
    \/ AtStep({1, 5}) /\ ~Saving /\ Start("photos")
    \/ AtStep({6})    /\ ~Saving /\ Start("container")

WithPhotos    == saving.kind \in {"standard", "photos"}
WithContainer == saving.kind \in {"standard", "container"}

(* saveItemEntry returns, save calls setProgress and refetches.            *)
Return(save) ==
    /\ saving' = [save EXCEPT !.phase = "refetch"]
    /\ progress' = save.progress
    /\ UNCHANGED <<dialog, entry, outlived>>

(* Mutated: a row is created whatever the progress says.                   *)
CreateAlways ==
    /\ saving.phase = "record"
    /\ \E o \in Outcomes("record"), i \in Items :
        /\ title[i] = 0
        /\ title' = IF o.applied THEN [title EXCEPT ![i] = saving.entry] ELSE title
        /\ born' = IF o.applied THEN [born EXCEPT ![i] = saving.entry] ELSE born
        /\ IF o.heard
           THEN /\ saving' = [saving EXCEPT !.phase = "labels",
                                           !.progress = [saving.progress EXCEPT !.item = i]]
                /\ UNCHANGED entryPage
           ELSE Return([saving EXCEPT !.failed = TRUE])
    /\ UNCHANGED <<tagged, packed, photos>>

SaveRecord ==
    /\ saving.phase = "record"
    /\ \E o \in Outcomes("record"), i \in Items :
        /\ IF saving.progress.item # None
           THEN i = saving.progress.item /\ UNCHANGED born
           ELSE /\ title[i] = 0
                /\ born' = IF o.applied THEN [born EXCEPT ![i] = saving.entry] ELSE born
        /\ title' = IF o.applied THEN [title EXCEPT ![i] = saving.entry] ELSE title
        /\ IF o.heard
           THEN /\ saving' = [saving EXCEPT !.phase = "labels",
                                           !.progress = [saving.progress EXCEPT !.item = i]]
                /\ UNCHANGED entryPage
           ELSE Return([saving EXCEPT !.failed = TRUE])
    /\ UNCHANGED <<tagged, packed, photos>>

LabelOperations ==
    (saving.input.labels \ saving.progress.labels)
    \cup (saving.progress.labels \ saving.input.labels)

(* Which of S is in after the operations done went through: those of done  *)
(* that the input chooses are in, those it does not are out.               *)
Toggled(S, done) == (S \ done) \cup (done \cap saving.input.labels)

LabelsOf(i) == {l \in Labels : <<i, l>> \in tagged}

Retagged(i, S) == {p \in tagged : p[1] # i} \cup ({i} \X S)

(* Mutated: the operations are taken for done once they were sent.         *)
SaveLabelsTrusting ==
    /\ saving.phase = "labels"
    /\ \E applied \in SUBSET LabelOperations :
       \E heard \in IF "labels" \in Unanswered THEN SUBSET applied ELSE {applied} :
        /\ tagged' = Retagged(saving.progress.item, Toggled(LabelsOf(saving.progress.item), applied))
        /\ saving' = [saving EXCEPT !.phase = "photos",
                                    !.progress = [saving.progress EXCEPT !.labels = saving.input.labels],
                                    !.failed = @ \/ heard # LabelOperations]
    /\ UNCHANGED <<entryPage, title, born, packed, photos>>

(* Promise.allSettled of one request per label; the requests touch         *)
(* different labels, so their order does not matter.                       *)
SaveLabels ==
    /\ saving.phase = "labels"
    /\ \E applied \in SUBSET LabelOperations :
       \E heard \in IF "labels" \in Unanswered THEN SUBSET applied ELSE {applied} :
        /\ tagged' = Retagged(saving.progress.item, Toggled(LabelsOf(saving.progress.item), applied))
        /\ saving' = [saving EXCEPT !.phase = "photos",
                                    !.progress = [saving.progress EXCEPT !.labels = Toggled(@, heard)],
                                    !.failed = @ \/ heard # LabelOperations]
    /\ UNCHANGED <<entryPage, title, born, packed, photos>>

FilesLeft ==
    IF WithPhotos THEN saving.input.files \ (saving.progress.files \cup saving.tried) ELSE {}

(* createPhotoUpload: the row of the next file.                            *)
CreatePhoto ==
    /\ saving.phase = "photos"
    /\ \E f \in FilesLeft, o \in Outcomes("photos") :
        /\ saving' = IF o.heard
                     THEN [saving EXCEPT !.phase = "put", !.file = f, !.whole = FALSE]
                     ELSE [saving EXCEPT !.tried = @ \cup {f}, !.failed = TRUE]
    /\ UNCHANGED <<entryPage, entryServer>>

Photo == <<saving.progress.item, saving.file>>

(* uploadFileToPresignedUrl: the object.                                   *)
PutPhoto ==
    /\ saving.phase = "put"
    /\ \E o \in Outcomes("put") :
        /\ photos' = IF o.applied
                     THEN [photos EXCEPT ![Photo] = IF @ < 2 THEN @ + 1 ELSE 2]
                     ELSE photos
        /\ saving' = IF o.heard
                     THEN [saving EXCEPT !.phase = "photos", !.tried = @ \cup {saving.file},
                                         !.progress = [saving.progress EXCEPT !.files = @ \cup {saving.file}]]
                     ELSE [saving EXCEPT !.phase = "cleanup", !.whole = o.applied, !.failed = TRUE]
    /\ UNCHANGED <<entryPage, title, born, tagged, packed>>

(* deleteItemPhoto of the row whose upload failed, object and row.         *)
DeletePhoto ==
    /\ saving.phase = "cleanup"
    /\ \E o \in Outcomes("cleanup") :
        /\ photos' = IF o.applied /\ saving.whole
                     THEN [photos EXCEPT ![Photo] = @ - 1] ELSE photos
    /\ saving' = [saving EXCEPT !.phase = "photos", !.tried = @ \cup {saving.file}]
    /\ UNCHANGED <<entryPage, title, born, tagged, packed>>

(* Mutated: the save ends with the photos.                                 *)
PhotosDoneAtOnce ==
    /\ saving.phase = "photos" /\ FilesLeft = {}
    /\ Return(saving)
    /\ UNCHANGED entryServer

PhotosDone ==
    /\ saving.phase = "photos" /\ FilesLeft = {}
    /\ IF WithContainer /\ saving.progress.container # saving.input.container
       THEN /\ saving' = [saving EXCEPT
                             !.phase = IF saving.progress.container # None THEN "leave" ELSE "enter"]
            /\ UNCHANGED entryPage
       ELSE Return(saving)
    /\ UNCHANGED entryServer

(* The server refuses to take an item out of a kit it is not in.           *)
LeaveContainer ==
    /\ saving.phase = "leave"
    /\ \E o \in Outcomes("leave") :
        /\ o.applied => packed[saving.progress.item] = saving.progress.container
        /\ packed' = IF o.applied THEN [packed EXCEPT ![saving.progress.item] = None] ELSE packed
        /\ IF ~o.heard THEN Return([saving EXCEPT !.failed = TRUE])
           ELSE IF saving.input.container = None
           THEN Return([saving EXCEPT !.progress = [saving.progress EXCEPT !.container = None]])
           ELSE /\ saving' = [saving EXCEPT !.phase = "enter",
                                           !.progress = [saving.progress EXCEPT !.container = None]]
                /\ UNCHANGED entryPage
    /\ UNCHANGED <<title, born, tagged, photos>>

(* The server refuses to put an item into a kit while it is in one.        *)
EnterContainer ==
    /\ saving.phase = "enter"
    /\ \E o \in Outcomes("enter") :
        /\ o.applied => packed[saving.progress.item] = None
        /\ packed' = IF o.applied
                     THEN [packed EXCEPT ![saving.progress.item] = saving.input.container]
                     ELSE packed
        /\ Return(IF o.heard
                  THEN [saving EXCEPT !.progress =
                            [saving.progress EXCEPT !.container = saving.input.container]]
                  ELSE [saving EXCEPT !.failed = TRUE])
    /\ UNCHANGED <<title, born, tagged, photos>>

(* The queries are refetched and onSuccess runs: it closes the dialog, or  *)
(* completes the step the guide then shows.                                *)
Refetched ==
    /\ saving.phase = "refetch"
    /\ saving' = NoSave
    /\ IF saving.failed
       THEN UNCHANGED entryPage
       ELSE IF saving.kind = "standard"
       THEN ResetEntry(FALSE, FALSE)
       ELSE /\ dialog' = Completed(dialog)
            /\ UNCHANGED <<entry, progress, outlived>>
    /\ UNCHANGED entryServer

SaveStep == \/ SaveRecord \/ SaveLabels \/ CreatePhoto \/ PutPhoto \/ DeletePhoto
        \/ PhotosDone \/ LeaveContainer \/ EnterContainer \/ Refetched
-----------------------------------------------------------------------------
EntryInit ==
    /\ dialog = FreshDialog(FALSE, FALSE)
    /\ entry = 1 /\ progress = NoProgress
    /\ saving = NoSave /\ outlived = {}
    /\ title = [i \in Items |-> 0] /\ born = [i \in Items |-> 0]
    /\ tagged = {} /\ packed = [i \in Items |-> None]
    /\ photos = [p \in Items \X Files |-> 0]

EntryNext ==
    \/ OpenDialog \/ ToggleAssisted \/ RequestClose \/ KeepWorking \/ ExitAndKeepItem
    \/ Skip \/ Back \/ Visit \/ AddAnother \/ ViewItem
    \/ Submit \/ SaveStep

EntrySpec == EntryInit /\ [][EntryNext]_entryVars
-----------------------------------------------------------------------------
(* The values of the variables.                                            *)
EntryTypeOK ==
    /\ dialog \in Dialogs /\ entry \in 1..(MaxEntries + 1)
    /\ progress \in Progress /\ saving \in Saves /\ outlived \subseteq 1..(MaxEntries + 1)
    /\ title \in [Items -> 0..(MaxEntries + 1)] /\ born \in [Items -> 0..(MaxEntries + 1)]
    /\ tagged \subseteq Items \X Labels /\ packed \in [Items -> Containers \cup {None}]
    /\ photos \in [Items \X Files -> 0..2]

Describes(p) ==
    p.item # None =>
        /\ title[p.item] # 0
        /\ LabelsOf(p.item) = p.labels
        /\ packed[p.item] = p.container
        /\ \A f \in p.files : photos[<<p.item, f>>] > 0

(* What a save starts from is what the server holds: the requests it does  *)
(* not repeat are done, the ones it undoes are there to be undone.         *)
ProgressIsTrue == ~Saving => Describes(progress)

(* A save that reports no error has saved the form it was given: the       *)
(* record, exactly its labels, its photos and its kit; also one whose      *)
(* dialog was left, and that started from the progress of another entry.   *)
SuccessMeansSaved ==
    saving.phase = "refetch" /\ ~saving.failed =>
        LET item == saving.progress.item
        IN  /\ item # None
            /\ title[item] = saving.entry
            /\ LabelsOf(item) = saving.input.labels
            /\ WithPhotos => \A f \in saving.input.files : photos[<<item, f>>] > 0
            /\ WithContainer => packed[item] = saving.input.container

(* However often a failed save is retried, one thing is one item.          *)
OneItemPerEntry ==
    \A i, j \in Items : born[i] # 0 /\ born[i] = born[j] => i = j

(* An item keeps the name of the thing it was made for, whatever is saved, *)
(* retried, left and entered after it, unless the dialog was left while a  *)
(* save of that thing ran: then, and only then, its progress may land in   *)
(* the next entry, whose save renames it (create-item-dialog.tsx:96).      *)
EntriesStayApart == \A i \in Items : title[i] = born[i] \/ born[i] \in outlived

(* A retry does not upload a photo a second time.                          *)
OneCopyPerFile == \A p \in Items \X Files : photos[p] <= 1

(* Saving again does nothing a second time that was done.                  *)
NothingTwice == OneItemPerEntry /\ OneCopyPerFile
=============================================================================
