---------------------------- MODULE TargetForm ----------------------------
(***************************************************************************)
(* The credentials of a backup target on their way between the form        *)
(* (app/settings/backups/page.tsx), which never sees them, and the row,    *)
(* which keeps them encrypted (internal/backup/httpapi/handlers.go).       *)
(*                                                                         *)
(* A secret is blank, only spaces, or one of Secrets.  What the page reads *)
(* back is Mask.  The row is modelled decrypted: EncryptConfig and         *)
(* DecryptConfig undo each other on every read and write of it.            *)
(*                                                                         *)
(* Left out: the fields that are no credentials, which are validated,      *)
(* trimmed and overwritten as typed.                                       *)
(***************************************************************************)
EXTENDS ApiClient

CONSTANTS Secrets, Blank, Spaces, Mask

ASSUME TargetFormAssumption ==
    /\ {Blank, Spaces, Mask, None} \cap Secrets = {}
    /\ Blank # Spaces /\ Blank # Mask /\ Spaces # Mask
    /\ None \notin {Blank, Spaces, Mask}

VARIABLES
    stored,   \* the credentials in the row, None before it exists
    draft,    \* the form, None while it is closed
    touched,  \* fields the user typed in since it opened
    last      \* last[k]: the secret k as the user last gave it, None if never

targetVars == <<stored, draft, touched, last>>

Typed  == Secrets \cup {Blank, Spaces}
Fields == {"password", "private_key", "passphrase"}
Modes  == {"password", "private_key"}
(* The fields the form shows for a mode of authentication.                 *)
Visible(mode) == IF mode = "password" THEN {"password"} ELSE {"private_key", "passphrase"}

Configurations == [Fields -> Typed \cup {None, Mask}]
Drafts == [mode : Modes, value : [Fields -> Typed \cup {Mask}]]
EmptyDraft == [mode |-> "password", value |-> [k \in Fields |-> Blank]]

(* RedactConfig: what the page is given of a row.                          *)
Redacted(row) == [k \in Fields |-> IF row[k] \in {None, Blank} THEN row[k] ELSE Mask]

(* Mutated: the form is filled with what the page was given.               *)
DraftFromAll(configuration) ==
    [mode  |-> IF configuration["private_key"] \in {None, Blank}
               THEN "password" ELSE "private_key",
     value |-> [k \in Fields |-> IF configuration[k] = None THEN Blank ELSE configuration[k]]]

DraftFromTarget(configuration) ==
    [mode  |-> IF configuration["private_key"] \in {None, Blank}
               THEN "password" ELSE "private_key",
     value |-> [k \in Fields |-> Blank]]

(* buildTargetConfiguration: None where the field is left out of the body. *)
Built(d, preserve) ==
    [k \in Fields |->
        IF k \notin Visible(d.mode) THEN None
        ELSE IF d.value[k] = Blank /\ (preserve \/ k = "passphrase") THEN None
        ELSE d.value[k]]

(* validateTargetDraft, of a new target.                                   *)
Complete(d) ==
    IF d.mode = "password" THEN d.value["password"] # Blank
                           ELSE d.value["private_key"] \notin {Blank, Spaces}

(* mergeTargetConfiguration: blanks preserve what is there.                *)
Merged(row, patch) ==
    [k \in Fields |-> IF patch[k] \in {None, Blank, Spaces} THEN row[k] ELSE patch[k]]

(* authMethods: what the driver offers to the server, the key first.       *)
Methods(row) == {k \in Modes : row[k] \notin {None, Blank}}
-----------------------------------------------------------------------------
OpenCreate ==
    /\ stored = None /\ draft = None
    /\ draft' = EmptyDraft /\ touched' = {}
    /\ UNCHANGED <<stored, last>>

OpenEdit ==
    /\ stored # None /\ draft = None
    /\ draft' = DraftFromTarget(Redacted(stored)) /\ touched' = {}
    /\ UNCHANGED <<stored, last>>

TypeField ==
    /\ draft # None
    /\ \/ \E m \in Modes : draft' = [mode |-> m, value |-> draft.value] /\ UNCHANGED touched
       \/ \E k \in Visible(draft.mode), v \in Typed :
            /\ draft' = [mode |-> draft.mode, value |-> [draft.value EXCEPT ![k] = v]]
            /\ touched' = touched \cup {k}
    /\ UNCHANGED <<stored, last>>

CloseForm ==
    /\ draft # None
    /\ draft' = None /\ touched' = {}
    /\ UNCHANGED <<stored, last>>

(* A refused request leaves the form open.                                 *)
SubmitCreate ==
    /\ stored = None /\ draft # None /\ Complete(draft)
    /\ stored' = Built(draft, FALSE)
    /\ last' = [k \in Fields |->
                    IF k \in Visible(draft.mode) /\ k \in touched
                       /\ (k = "passphrase" => draft.value[k] # Blank)
                    THEN draft.value[k] ELSE None]
    /\ draft' = None /\ touched' = {}

(* Applied, and answered or not: unanswered, the form stays open.          *)
SubmitEdit ==
    /\ stored # None /\ draft # None
    /\ \E o \in Outcomes("target") :
        /\ o.applied
        /\ stored' = Merged(stored, Built(draft, TRUE))
        /\ last' = [k \in Fields |->
                        IF k \in Visible(draft.mode) /\ k \in touched
                           /\ draft.value[k] \notin {Blank, Spaces}
                        THEN draft.value[k] ELSE last[k]]
        /\ IF o.heard THEN draft' = None /\ touched' = {} ELSE UNCHANGED <<draft, touched>>
-----------------------------------------------------------------------------
TargetInit ==
    stored = None /\ draft = None /\ touched = {} /\ last = [k \in Fields |-> None]

TargetNext ==
    OpenCreate \/ OpenEdit \/ TypeField \/ CloseForm \/ SubmitCreate \/ SubmitEdit

TargetSpec == TargetInit /\ [][TargetNext]_targetVars
-----------------------------------------------------------------------------
(* The values of the variables.                                            *)
TargetTypeOK ==
    /\ stored \in Configurations \cup {None}
    /\ draft \in Drafts \cup {None}
    /\ touched \subseteq Fields /\ last \in [Fields -> Typed \cup {None}]

(* Whatever is edited, a row keeps the secret the user last gave for each  *)
(* field: a blank field, a field of the mode not chosen and the mask the   *)
(* page was given change nothing, and a target that could log in still can.*)
SecretsStand == stored # None => (stored = last /\ Methods(stored) # {})
=============================================================================
