------------------------------ MODULE Inventory ------------------------------
(***************************************************************************)
(* Items, kits (containers), locations, reusable labels and scan codes:    *)
(* the tables and the requests that read and write them (the handlers,     *)
(* services and repositories of internal/).                                *)
(*                                                                         *)
(* A request is a sequence of statements, and the statements of different  *)
(* requests interleave; there is no transaction around a request.  What a  *)
(* statement checks and writes is one step, because PostgreSQL locks the   *)
(* rows, except for the membership of an item: AddItem looks for another   *)
(* membership in the snapshot its statement begins with, and no key of     *)
(* item_container stops a second one.                                      *)
(*                                                                         *)
(* Names, values and conditions are one `detail' of a row, the fields an   *)
(* update may leave out.  Left out: validation, the uniqueness of package  *)
(* codes and of label names, photos, and what an answer carries beside its *)
(* outcome (the row as read afterwards, the printed label of a scan).      *)
(***************************************************************************)
EXTENDS Naturals, FiniteSets

CONSTANTS
    Items, Kits, Places, Labels,  \* the ids that uuid.New may give
    Codes,                        \* scan codes that may be printed
    Details,                      \* values of the other columns
    None,                         \* NULL, or left out
    Requests,                     \* bound: requests served at a time
    Offered                       \* bound: the kinds of requests that come

Owners == Items \cup Kits
Ids    == Owners \cup Places \cup Labels

Kinds == {"CreateItem", "CreateKit", "CreateLocation", "CreateLabel", "Update", "Delete",
          "AddItem", "RemoveItem", "AttachLabel", "DetachLabel", "Scan"}

Outcomes == {"ok", "not_found", "conflict", "error"}

(* The fields of a request, whatever its kind.                             *)
Questions == [kind : Kinds, of : Ids \cup {None}, with : Ids \cup {None},
              place : Places \cup {None}, code : Codes \cup Owners \cup {None},
              detail : Details \cup {None}]

(* A code is no id: nobody prints the id of one thing on another.          *)
ASSUME InventoryAssumption ==
    /\ None \notin Ids \cup Codes \cup Details \cup Outcomes \cup Questions
    /\ Codes \cap Ids = {} /\ Items \cap Kits = {}
    /\ Owners \cap (Places \cup Labels) = {} /\ Places \cap Labels = {}

VARIABLES
    live, gone,    \* ids of rows that exist, and that were deleted
    place,         \* location_id of items and kits
    detail,        \* the other columns of items and kits
    contents,      \* item_container: pairs of an item and a kit
    tagged,        \* item_labels, container_labels: pairs of an owner and a label
    codes,         \* scan_labels: what a code is printed on
    pc, ask,       \* where a request is and what it asks for
    seen,          \* what it read: a detail, or what a code was printed on
    answer,        \* what it was answered
    observed,      \* history: what was true of its subject while it ran
    entered        \* history: memberships of its item made since it looked

tables   == <<live, gone, place, detail, contents, tagged, codes>>
requests == <<pc, ask, seen, answer>>
vars == <<tables, requests, observed, entered>>

-----------------------------------------------------------------------------
(* What clients ask for.  An id they name is one they were given.          *)

Known == live \cup gone

Ask(kind, of, with, to, code, value) ==
    [kind |-> kind, of |-> of, with |-> with, place |-> to, code |-> code, detail |-> value]

Asks ==
    {Ask(kind, None, None, to, code, value) :
        kind \in {"CreateItem", "CreateKit"}, to \in (Places \cap Known) \cup {None},
        code \in Codes \cup {None}, value \in Details}
    \cup {Ask(kind, None, None, None, None, None) : kind \in {"CreateLocation", "CreateLabel"}}
    \cup {Ask("Update", of, None, to, None, value) :
             of \in Owners \cap Known, to \in (Places \cap Known) \cup {None},
             value \in Details \cup {None}}
    \cup {Ask("Delete", of, None, None, None, None) : of \in Known}
    \cup {Ask(kind, of, with, None, None, None) :
             kind \in {"AddItem", "RemoveItem"}, of \in Kits \cap Known, with \in Items \cap Known}
    \cup {Ask(kind, of, with, None, None, None) :
             kind \in {"AttachLabel", "DetachLabel"}, of \in Owners \cap Known,
             with \in Labels \cap Known}
    \cup {Ask("Scan", None, None, None, code, None) : code \in Codes \cup (Owners \cap Known)}

(* The first statement of a request.                                       *)
FirstStep(kind) ==
    CASE kind \in {"CreateItem", "CreateKit", "CreateLocation", "CreateLabel"} -> "create"
      [] kind = "Update"      -> "read"
      [] kind = "Delete"      -> "delete"
      [] kind = "AddItem"     -> "snapshot"
      [] kind = "RemoveItem"  -> "remove"
      [] kind = "AttachLabel" -> "attach"
      [] kind = "DetachLabel" -> "exists"
      [] kind = "Scan"        -> "item_by_code"

Goto(q, location) == pc' = [pc EXCEPT ![q] = location] /\ UNCHANGED <<ask, answer>>

Answer(q, value) ==
    /\ pc' = [pc EXCEPT ![q] = "answered"]
    /\ answer' = [answer EXCEPT ![q] = value]
    /\ UNCHANGED <<ask, seen>>

Receive(q) ==
    /\ pc[q] = "idle"
    /\ \E a \in Asks : /\ a.kind \in Offered
                       /\ ask' = [ask EXCEPT ![q] = a]
                       /\ pc' = [pc EXCEPT ![q] = FirstStep(a.kind)]
    /\ UNCHANGED <<tables, seen, answer>>

(* A statement fails, or the five seconds of a request are over; also the  *)
(* statement that reads the row back, after the write has taken effect.    *)
Abort(q) ==
    /\ pc[q] # "idle" /\ answer[q] \in {None, "ok"}
    /\ Answer(q, "error")
    /\ UNCHANGED tables

Close(q) ==
    /\ pc[q] = "answered"
    /\ pc' = [pc EXCEPT ![q] = "idle"]
    /\ ask' = [ask EXCEPT ![q] = None] /\ seen' = [seen EXCEPT ![q] = None]
    /\ answer' = [answer EXCEPT ![q] = None]
    /\ UNCHANGED tables

-----------------------------------------------------------------------------
(* Creating, updating and deleting rows.                                   *)

ClassOf(kind) == CASE kind = "CreateItem"     -> Items
                   [] kind = "CreateKit"      -> Kits
                   [] kind = "CreateLocation" -> Places
                   [] kind = "CreateLabel"    -> Labels

(* A foreign key may be NULL or name a row.                                *)
Refers(id) == id = None \/ id \in live

(* One transaction inserts the row and its scan code.                      *)
Create(q) ==
    /\ pc[q] = "create"
    /\ LET a == ask[q]
       IN  IF Refers(a.place) /\ (a.code # None => codes[a.code] = None)
           THEN \E id \in ClassOf(a.kind) \ Known :
                   /\ live' = live \cup {id}
                   /\ place' = IF id \in Owners THEN [place EXCEPT ![id] = a.place] ELSE place
                   /\ detail' = IF id \in Owners THEN [detail EXCEPT ![id] = a.detail] ELSE detail
                   /\ codes' = IF a.code # None THEN [codes EXCEPT ![a.code] = id] ELSE codes
                   /\ Answer(q, "ok")
           ELSE Answer(q, "error") /\ UNCHANGED <<live, place, detail, codes>>
    /\ UNCHANGED <<gone, contents, tagged>>

Read(q) ==
    /\ pc[q] = "read"
    /\ \/ /\ ask[q].of \in live
          /\ seen' = [seen EXCEPT ![q] = detail[ask[q].of]]
          /\ Goto(q, "write")
       \/ ask[q].of \notin live /\ Answer(q, "not_found")
    /\ UNCHANGED tables

(* Mutated: what is left out is reset.                                     *)
AppliedReset(q) == ask[q].detail

(* applyItemUpdate, applyContainerUpdate: what is left out stays as read.  *)
Applied(q) == IF ask[q].detail = None THEN seen[q] ELSE ask[q].detail

(* The whole row is written.                                               *)
Write(q) ==
    /\ pc[q] = "write"
    /\ LET a == ask[q]
       IN  \/ /\ a.of \in live /\ Refers(a.place)
              /\ place' = [place EXCEPT ![a.of] = a.place]
              /\ detail' = [detail EXCEPT ![a.of] = Applied(q)]
              /\ Answer(q, "ok")
           \/ /\ a.of \in live /\ ~Refers(a.place)
              /\ Answer(q, "error") /\ UNCHANGED <<place, detail>>
           \/ /\ a.of \notin live
              /\ Answer(q, "not_found") /\ UNCHANGED <<place, detail>>
    /\ UNCHANGED <<live, gone, contents, tagged, codes>>

(* ON DELETE CASCADE and ON DELETE SET NULL of the schema.                 *)
Cascade(id) ==
    /\ contents' = {c \in contents : id \notin {c[1], c[2]}}
    /\ tagged' = {t \in tagged : id \notin {t[1], t[2]}}
    /\ place' = [o \in Owners |-> IF place[o] = id THEN None ELSE place[o]]
    /\ codes' = [c \in Codes |-> IF codes[c] = id THEN None ELSE codes[c]]

Delete(q) ==
    /\ pc[q] = "delete"
    /\ LET id == ask[q].of
       IN  \/ /\ id \in live
              /\ live' = live \ {id} /\ gone' = gone \cup {id}
              /\ Cascade(id)
              /\ Answer(q, "ok")
           \/ /\ id \notin live
              /\ Answer(q, "not_found")
              /\ UNCHANGED <<live, gone, contents, tagged, place, codes>>
    /\ UNCHANGED detail

-----------------------------------------------------------------------------
(* The membership of items in kits.                                        *)

InSomeKit(item) == \E kit \in Kits : <<item, kit>> \in contents

(* Mutated: only the kit itself is looked at.                              *)
SnapshotThisKit(q) ==
    /\ pc[q] = "snapshot"
    /\ IF <<ask[q].with, ask[q].of>> \in contents
       THEN Answer(q, "conflict")
       ELSE Goto(q, "insert") /\ UNCHANGED seen
    /\ UNCHANGED tables

(* WHERE NOT EXISTS of AddItem.                                            *)
Snapshot(q) ==
    /\ pc[q] = "snapshot"
    /\ IF InSomeKit(ask[q].with)
       THEN Answer(q, "conflict")
       ELSE Goto(q, "insert") /\ UNCHANGED seen
    /\ UNCHANGED tables

(* Mutated: a row that is gone may be put into a kit.                      *)
InsertAnyway(q) ==
    /\ pc[q] = "insert"
    /\ contents' = contents \cup {<<ask[q].with, ask[q].of>>}
    /\ Answer(q, "ok")
    /\ UNCHANGED <<live, gone, place, detail, tagged, codes>>

(* The foreign keys and the primary key of item_container.                 *)
Insert(q) ==
    /\ pc[q] = "insert"
    /\ LET pair == <<ask[q].with, ask[q].of>>
       IN  IF {ask[q].with, ask[q].of} \subseteq live /\ pair \notin contents
           THEN contents' = contents \cup {pair} /\ Answer(q, "ok")
           ELSE Answer(q, "error") /\ UNCHANGED contents
    /\ UNCHANGED <<live, gone, place, detail, tagged, codes>>

Remove(q) ==
    /\ pc[q] = "remove"
    /\ LET pair == <<ask[q].with, ask[q].of>>
       IN  /\ contents' = contents \ {pair}
           /\ Answer(q, IF pair \in contents THEN "ok" ELSE "not_found")
    /\ UNCHANGED <<live, gone, place, detail, tagged, codes>>

-----------------------------------------------------------------------------
(* Reusable labels.                                                        *)

BothLive(q) == {ask[q].of, ask[q].with} \subseteq live
Pair(q) == <<ask[q].of, ask[q].with>>

(* INSERT ... WHERE EXISTS ... ON CONFLICT DO NOTHING.                     *)
Attach(q) ==
    /\ pc[q] = "attach"
    /\ \/ /\ BothLive(q) /\ Pair(q) \notin tagged
          /\ tagged' = tagged \cup {Pair(q)}
          /\ Answer(q, "ok")
       \/ /\ ~BothLive(q) \/ Pair(q) \in tagged
          /\ Goto(q, "exists")
          /\ UNCHANGED <<seen, tagged>>
    /\ UNCHANGED <<live, gone, place, detail, contents, codes>>

(* Mutated: whether the owner and the label exist is not looked at.        *)
ExistsAnyway(q) ==
    /\ pc[q] = "exists"
    /\ \/ ask[q].kind = "AttachLabel" /\ Answer(q, "ok")
       \/ ask[q].kind = "DetachLabel" /\ Goto(q, "detach") /\ UNCHANGED seen
    /\ UNCHANGED tables

Exists(q) ==
    /\ pc[q] = "exists"
    /\ \/ ~BothLive(q) /\ Answer(q, "not_found")
       \/ BothLive(q) /\ ask[q].kind = "AttachLabel" /\ Answer(q, "ok")
       \/ BothLive(q) /\ ask[q].kind = "DetachLabel" /\ Goto(q, "detach") /\ UNCHANGED seen
    /\ UNCHANGED tables

Detach(q) ==
    /\ pc[q] = "detach"
    /\ tagged' = tagged \ {Pair(q)}
    /\ Answer(q, "ok")
    /\ UNCHANGED <<live, gone, place, detail, contents, codes>>

-----------------------------------------------------------------------------
(* Scanning: the code of an item, the code of a kit, the id of an item and *)
(* the id of a kit, each looked up by statements of its own.               *)

(* Mutated: the handler returns without an answer.                         *)
FoundSilently(q, owner) ==
    /\ pc' = [pc EXCEPT ![q] = "answered"]
    /\ seen' = [seen EXCEPT ![q] = owner]
    /\ UNCHANGED <<ask, answer, tables>>

Found(q, owner) ==
    /\ pc' = [pc EXCEPT ![q] = "answered"]
    /\ answer' = [answer EXCEPT ![q] = "ok"]
    /\ seen' = [seen EXCEPT ![q] = owner]
    /\ UNCHANGED <<ask, tables>>

NextLookup(q, location) ==
    /\ Goto(q, location)
    /\ seen' = [seen EXCEPT ![q] = None]
    /\ UNCHANGED tables

(* GetByLabelCode: the code is looked up, then the row.                    *)
ByCode(q, here, class, there, other) ==
    /\ pc[q] = here
    /\ LET code  == ask[q].code
           owner == IF code \in Codes THEN codes[code] ELSE None
       IN  \/ /\ owner \in class
              /\ Goto(q, there)
              /\ seen' = [seen EXCEPT ![q] = owner] /\ UNCHANGED tables
           \/ owner \notin class /\ NextLookup(q, other)

GetSeen(q, here, other) ==
    /\ pc[q] = here
    /\ \/ seen[q] \in live /\ Found(q, seen[q])
       \/ seen[q] \notin live /\ NextLookup(q, other)

ItemById(q) ==
    /\ pc[q] = "item_by_id"
    /\ \/ ask[q].code \in Items \cap live /\ Found(q, ask[q].code)
       \/ ask[q].code \notin Items \cap live /\ NextLookup(q, "kit_by_id")

KitById(q) ==
    /\ pc[q] = "kit_by_id"
    /\ \/ ask[q].code \in Kits \cap live /\ Found(q, ask[q].code)
       \/ ask[q].code \notin Kits \cap live /\ Answer(q, "not_found") /\ UNCHANGED tables

Scan(q) ==
    \/ ByCode(q, "item_by_code", Items, "get_item", "kit_by_code")
    \/ GetSeen(q, "get_item", "kit_by_code")
    \/ ByCode(q, "kit_by_code", Kits, "get_kit", "item_by_id")
    \/ GetSeen(q, "get_kit", "item_by_id")
    \/ ItemById(q) \/ KitById(q)

-----------------------------------------------------------------------------
(* What is true of the subject of a request.                               *)

Names(code) == CASE code \in Codes        -> codes[code]
                 [] code \in Owners \cap live -> code
                 [] OTHER                 -> None

Yes(condition) == IF condition THEN "yes" ELSE "no"

Truth(q) ==
    CASE ask[q].kind = "Scan"       -> Names(ask[q].code)
      [] ask[q].kind \in {"AttachLabel", "DetachLabel"} -> Yes(Pair(q) \in tagged)
      [] ask[q].kind = "AddItem"    -> Yes(InSomeKit(ask[q].with))
      [] ask[q].kind = "RemoveItem" -> Yes(<<ask[q].with, ask[q].of>> \in contents)
      [] ask[q].kind = "Update" /\ ask[q].detail = None -> detail[ask[q].of]
      [] OTHER                      -> None

(* The memberships of its item that this step makes under an AddItem that  *)
(* has looked and has not inserted yet.                                    *)
MadeUnder(q) == {m \in contents' \ contents : pc[q] = "insert" /\ m[1] = ask[q].with}

Observe ==
    /\ observed' = [q \in Requests |->
          IF pc'[q] = "idle" THEN {} ELSE observed[q] \cup {Truth(q)'}]
    /\ entered' = [q \in Requests |->
          IF pc'[q] = "insert" THEN entered[q] \cup MadeUnder(q) ELSE {}]

-----------------------------------------------------------------------------
Init ==
    /\ live = {} /\ gone = {}
    /\ place = [o \in Owners |-> None]
    /\ detail = [o \in Owners |-> None]
    /\ contents = {} /\ tagged = {}
    /\ codes = [c \in Codes |-> None]
    /\ pc = [q \in Requests |-> "idle"]
    /\ ask = [q \in Requests |-> None]
    /\ seen = [q \in Requests |-> None]
    /\ answer = [q \in Requests |-> None]
    /\ observed = [q \in Requests |-> {}]
    /\ entered = [q \in Requests |-> {}]

Step(q) ==
    \/ Receive(q) \/ Abort(q) \/ Close(q)
    \/ Create(q) \/ Read(q) \/ Write(q) \/ Delete(q)
    \/ Snapshot(q) \/ Insert(q) \/ Remove(q)
    \/ Attach(q) \/ Exists(q) \/ Detach(q)
    \/ Scan(q)

Next == (\E q \in Requests : Step(q)) /\ Observe

Spec == Init /\ [][Next]_vars
-----------------------------------------------------------------------------
TypeOK ==
    /\ live \subseteq Ids /\ gone \subseteq Ids
    /\ place \in [Owners -> Places \cup {None}]
    /\ detail \in [Owners -> Details \cup {None}]
    /\ contents \subseteq Items \X Kits
    /\ tagged \subseteq Owners \X Labels
    /\ codes \in [Codes -> Owners \cup {None}]
    /\ pc \in [Requests -> {"idle", "create", "read", "write", "delete", "snapshot", "insert",
                            "remove", "attach", "exists", "detach", "item_by_code", "get_item",
                            "kit_by_code", "get_kit", "item_by_id", "kit_by_id", "answered"}]
    /\ \A q \in Requests :
          /\ pc[q] = "idle" <=> ask[q] = None
          /\ ask[q] \in Questions \cup {None}
          /\ answer[q] \in Outcomes \cup {None}
          /\ pc[q] = "answered" <=> answer[q] # None
          /\ seen[q] \in Owners \cup Details \cup {None}
          /\ entered[q] \subseteq Items \X Kits

(* No membership, assignment, scan code or location outlives what it names *)
(* (AddItem and AttachLabel, whose rows may be deleted at any moment, and  *)
(* the ON DELETE clauses of the schema).                                   *)
NothingDangles ==
    /\ \A c \in contents : {c[1], c[2]} \subseteq live
    /\ \A t \in tagged : {t[1], t[2]} \subseteq live
    /\ \A c \in Codes : codes[c] # None => codes[c] \in live
    /\ \A o \in live \cap Owners : place[o] # None => place[o] \in live

(* What a request was told was so at some moment between its arrival and   *)
(* its answer, whatever the other requests did between its statements: a   *)
(* scan finds what its code was on, and finds nothing only if there was    *)
(* nothing; a label was attached, or was not; an item was in a kit.        *)
AnswersWereTrue ==
    \A q \in Requests :
        LET told(kind, value) == pc[q] = "answered" /\ ask[q].kind = kind /\ answer[q] = value
        IN  /\ told("Scan", "ok")        => seen[q] \in observed[q]
            /\ told("Scan", "not_found") => None \in observed[q]
            /\ told("AttachLabel", "ok") => "yes" \in observed[q]
            /\ told("DetachLabel", "ok") => "no" \in observed[q]
            /\ told("AddItem", "ok")     => {"yes", "no"} \subseteq observed[q]
            /\ told("AddItem", "conflict") => "yes" \in observed[q]
            /\ told("RemoveItem", "ok")  => {"yes", "no"} \subseteq observed[q]

(* An item is in one kit at most, as the answer "item is already assigned  *)
(* to a kit" of AddItem says.                                              *)
ItemInOneKit ==
    \A item \in Items : Cardinality({kit \in Kits : <<item, kit>> \in contents}) <= 1

(* An item gets a second kit in one way only: AddItem inserts it although  *)
(* it is in another kit when that membership was made after this AddItem   *)
(* had looked for one, whatever else happened between its two steps.       *)
SecondKitIsRaced ==
    [][\A q \in Requests :
          pc[q] = "insert" /\ pc'[q] = "answered" /\ answer'[q] = "ok"
            => \A kit \in Kits : <<ask[q].with, kit>> \in contents
                                    => <<ask[q].with, kit>> \in entered[q]]_vars

(* A field that an update leaves out gets a value that the row held while  *)
(* the update ran, although other updates and deletions come between its   *)
(* reading and its writing of the row.                                     *)
OmittedFieldIsKept ==
    [][\A q \in Requests :
          (/\ pc[q] = "write" /\ ask[q].detail = None
           /\ pc'[q] = "answered" /\ answer'[q] = "ok")
            => detail'[ask[q].of] \in observed[q]]_vars
=============================================================================
