-------------------------- MODULE Inventory_proofs --------------------------
(***************************************************************************)
(* Proofs about Inventory, for every set of ids, codes, values, requests   *)
(* and kinds of requests.                                                  *)
(***************************************************************************)
EXTENDS Inventory, TLAPS

(* The tables that are functions have a value for every key.               *)
Columns ==
    /\ place = [o \in Owners |-> place[o]]
    /\ codes = [c \in Codes |-> codes[c]]

(* The inductive invariant: the code checks what a row refers to when it   *)
(* writes the row, and the schema drops the references when it goes.       *)
ReferenceInv == Columns /\ NothingDangles

(* Initially the tables are empty.                                         *)
LEMMA InitReference == Init => ReferenceInv
BY DEF Init, ReferenceInv, Columns, NothingDangles

(* A step that leaves the tables alone leaves every reference alone.       *)
LEMMA TablesStay == ASSUME ReferenceInv, UNCHANGED tables
                    PROVE  ReferenceInv'
BY DEF ReferenceInv, Columns, NothingDangles, tables

(* Create refers to a live location, and its code to the row it inserts.   *)
LEMMA CreateKeepsReferences ==
    ASSUME ReferenceInv, NEW q \in Requests, Create(q)
    PROVE  ReferenceInv'
<1> DEFINE a == ask[q]
<1>1. CASE UNCHANGED tables
  BY <1>1, TablesStay
<1>2. CASE ~UNCHANGED tables
  <2>1. Refers(a.place) /\ contents' = contents /\ tagged' = tagged
    BY <1>2 DEF Create, tables
  <2>2. PICK id \in ClassOf(a.kind) \ Known :
           /\ live' = live \cup {id}
           /\ place' = IF id \in Owners THEN [place EXCEPT ![id] = a.place] ELSE place
           /\ codes' = IF a.code # None THEN [codes EXCEPT ![a.code] = id] ELSE codes
    BY <1>2 DEF Create, tables
  <2>3. Columns'
    BY <2>2 DEF Columns, ReferenceInv
  <2>4. \A c \in Codes : codes'[c] # None => codes'[c] \in live'
    BY <2>2 DEF ReferenceInv, Columns, NothingDangles
  <2>5. \A o \in live' \cap Owners : place'[o] # None => place'[o] \in live'
    BY <2>1, <2>2 DEF ReferenceInv, Columns, NothingDangles, Refers
  <2>6. /\ \A c \in contents' : {c[1], c[2]} \subseteq live'
        /\ \A t \in tagged' : {t[1], t[2]} \subseteq live'
    BY <2>1, <2>2 DEF ReferenceInv, NothingDangles
  <2> QED
    BY <2>3, <2>4, <2>5, <2>6 DEF ReferenceInv, NothingDangles
<1> QED
  BY <1>1, <1>2

(* The write of an update refers to a live location.                       *)
LEMMA WriteKeepsReferences ==
    ASSUME ReferenceInv, NEW q \in Requests, Write(q)
    PROVE  ReferenceInv'
<1> DEFINE a == ask[q]
<1>1. live' = live /\ contents' = contents /\ tagged' = tagged /\ codes' = codes
  BY DEF Write
<1>2. \/ place' = [place EXCEPT ![a.of] = a.place] /\ Refers(a.place)
      \/ place' = place
  BY DEF Write
<1>3. Columns'
  BY <1>1, <1>2 DEF Columns, ReferenceInv
<1>4. \A o \in live' \cap Owners : place'[o] # None => place'[o] \in live'
  BY <1>1, <1>2 DEF ReferenceInv, Columns, NothingDangles, Refers
<1> QED
  BY <1>1, <1>3, <1>4 DEF ReferenceInv, NothingDangles

(* A deleted row takes every reference to it along.                        *)
LEMMA DeleteKeepsReferences ==
    ASSUME ReferenceInv, NEW q \in Requests, Delete(q)
    PROVE  ReferenceInv'
<1> DEFINE id == ask[q].of
<1>1. CASE id \notin live
  BY <1>1, TablesStay DEF Delete, tables
<1>2. CASE id \in live
  <2>1. live' = live \ {id} /\ Cascade(id)
    BY <1>2 DEF Delete
  <2>2. Columns'
    BY <2>1 DEF Cascade, Columns
  <2>3. \A c \in contents' : {c[1], c[2]} \subseteq live'
    BY <2>1 DEF Cascade, ReferenceInv, NothingDangles
  <2>4. \A t \in tagged' : {t[1], t[2]} \subseteq live'
    BY <2>1 DEF Cascade, ReferenceInv, NothingDangles
  <2>5. \A c \in Codes : codes'[c] # None => codes'[c] \in live'
    BY <2>1 DEF Cascade, ReferenceInv, NothingDangles
  <2>6. \A o \in live' \cap Owners : place'[o] # None => place'[o] \in live'
    BY <2>1 DEF Cascade, ReferenceInv, NothingDangles
  <2> QED
    BY <2>2, <2>3, <2>4, <2>5, <2>6 DEF ReferenceInv, NothingDangles
<1> QED
  BY <1>1, <1>2

(* Memberships and assignments are added between live rows only.           *)
LEMMA PairsKeepReferences ==
    ASSUME ReferenceInv, NEW q \in Requests,
           Insert(q) \/ Remove(q) \/ Attach(q) \/ Detach(q)
    PROVE  ReferenceInv'
<1> USE DEF ReferenceInv, Columns, NothingDangles
<1>1. CASE Insert(q)
  <2>1. /\ live' = live /\ place' = place /\ tagged' = tagged /\ codes' = codes
        /\ \/ contents' = contents
           \/ /\ contents' = contents \cup {<<ask[q].with, ask[q].of>>}
              /\ {ask[q].with, ask[q].of} \subseteq live
    BY <1>1 DEF Insert
  <2> QED
    BY <2>1
<1>2. CASE Remove(q)
  BY <1>2 DEF Remove
<1>3. CASE Attach(q)
  <2>1. /\ live' = live /\ place' = place /\ contents' = contents /\ codes' = codes
        /\ \/ tagged' = tagged
           \/ /\ tagged' = tagged \cup {<<ask[q].of, ask[q].with>>}
              /\ {ask[q].of, ask[q].with} \subseteq live
    BY <1>3 DEF Attach, BothLive, Pair
  <2> QED
    BY <2>1
<1>4. CASE Detach(q)
  BY <1>4 DEF Detach
<1> QED
  BY <1>1, <1>2, <1>3, <1>4

(* Every step keeps the references.                                        *)
LEMMA NextReference == ReferenceInv /\ [Next]_vars => ReferenceInv'
<1> SUFFICES ASSUME ReferenceInv, [Next]_vars
             PROVE  ReferenceInv'
  OBVIOUS
<1>1. CASE UNCHANGED vars
  BY <1>1, TablesStay DEF vars
<1>2. CASE Next
  <2>1. PICK q \in Requests : Step(q)
    BY <1>2 DEF Next
  <2>2. CASE Receive(q) \/ Abort(q) \/ Close(q) \/ Read(q) \/ Snapshot(q) \/ Exists(q)
    BY <2>2, TablesStay DEF Receive, Abort, Close, Read, Snapshot, Exists
  <2>3. CASE Scan(q)
    BY <2>3, TablesStay DEF Scan, ByCode, GetSeen, ItemById, KitById, Found, NextLookup
  <2>4. CASE Create(q)
    BY <2>4, CreateKeepsReferences
  <2>5. CASE Write(q)
    BY <2>5, WriteKeepsReferences
  <2>6. CASE Delete(q)
    BY <2>6, DeleteKeepsReferences
  <2>7. CASE Insert(q) \/ Remove(q) \/ Attach(q) \/ Detach(q)
    BY <2>7, PairsKeepReferences
  <2> QED
    BY <2>1, <2>2, <2>3, <2>4, <2>5, <2>6, <2>7 DEF Step
<1> QED
  BY <1>1, <1>2

(* No row, code or assignment refers to a deleted row, whatever requests   *)
(* interleave and fail.                                                    *)
THEOREM ReferencesAreLive == Spec => []NothingDangles
<1>1. ReferenceInv => NothingDangles
  BY DEF ReferenceInv
<1> QED
  BY <1>1, InitReference, NextReference, PTL DEF Spec

-----------------------------------------------------------------------------
(* Answers.  What a request asks for fits its kind and its statement.      *)

LookingUp == {"item_by_code", "get_item", "kit_by_code", "get_kit", "item_by_id", "kit_by_id"}

KindFits(location, kind) ==
    /\ location = "create" => kind \in {"CreateItem", "CreateKit", "CreateLocation", "CreateLabel"}
    /\ location \in {"read", "write"} => kind = "Update"
    /\ location = "delete" => kind = "Delete"
    /\ location \in {"snapshot", "insert"} => kind = "AddItem"
    /\ location = "remove" => kind = "RemoveItem"
    /\ location = "attach" => kind = "AttachLabel"
    /\ location = "exists" => kind \in {"AttachLabel", "DetachLabel"}
    /\ location = "detach" => kind = "DetachLabel"
    /\ location \in LookingUp => kind = "Scan"

WellAsked(a) ==
    /\ a.kind = "Scan" => a.code \in Codes \cup Owners
    /\ a.kind \in {"CreateLocation", "CreateLabel"} => a.code = None
    /\ a.kind = "Update" => a.of \in Owners
    /\ a.kind \in {"AddItem", "RemoveItem"} => a.of \in Kits /\ a.with \in Items
    /\ a.kind \in {"AttachLabel", "DetachLabel"} =>
          {a.of, a.with} \subseteq Known /\ a.of \in Owners /\ a.with \in Labels
    /\ a.kind = "Delete" => a.of \in Known

Asked(q) == KindFits(pc[q], ask[q].kind) /\ WellAsked(ask[q])

(* What a scan has learnt so far: a code that is on something else by now  *)
(* was on nothing in between.                                              *)
Looked(q) ==
    LET code  == ask[q].code
        blank == None \in observed[q]
    IN  /\ pc[q] = "get_item" => /\ code \in Codes /\ seen[q] \in Items \cap observed[q]
                                 /\ blank \/ codes[code] = seen[q]
        /\ pc[q] = "kit_by_code" /\ code \in Codes => blank \/ codes[code] \in Kits
        /\ pc[q] = "get_kit" => /\ code \in Codes /\ seen[q] \in Kits \cap observed[q]
                                /\ blank \/ codes[code] = seen[q]
        /\ pc[q] = "item_by_id" /\ code \in Codes => blank
        /\ pc[q] = "kit_by_id" => blank \/ code \in Kits

(* What the first statement of two has found.                              *)
Checked(q) ==
    /\ pc[q] = "insert" => "no" \in observed[q]
    /\ pc[q] = "exists" /\ ask[q].kind = "AttachLabel" => "yes" \in observed[q] \/ ~BothLive(q)

Told(q, kind, value) == pc[q] = "answered" /\ ask[q].kind = kind /\ answer[q] = value

ToldTrue(q) ==
    /\ Told(q, "Scan", "ok")        => seen[q] \in observed[q]
    /\ Told(q, "Scan", "not_found") => None \in observed[q]
    /\ Told(q, "AttachLabel", "ok") => "yes" \in observed[q]
    /\ Told(q, "DetachLabel", "ok") => "no" \in observed[q]
    /\ Told(q, "AddItem", "ok")     => {"yes", "no"} \subseteq observed[q]
    /\ Told(q, "AddItem", "conflict") => "yes" \in observed[q]
    /\ Told(q, "RemoveItem", "ok")  => {"yes", "no"} \subseteq observed[q]

Witnessed(q) ==
    pc[q] # "idle" =>
        /\ Truth(q) \in observed[q]
        /\ Asked(q) /\ Looked(q) /\ Checked(q) /\ ToldTrue(q)

Mappings ==
    /\ codes \in [Codes -> Owners \cup {None}]
    /\ pc = [q \in Requests |-> pc[q]] /\ ask = [q \in Requests |-> ask[q]]
    /\ seen = [q \in Requests |-> seen[q]] /\ answer = [q \in Requests |-> answer[q]]

AnswerInv == ReferenceInv /\ Mappings /\ \A q \in Requests : Witnessed(q)

(* What any step does to the codes and the rows.                           *)
World ==
    /\ codes' \in [Codes -> Owners \cup {None}]
    /\ \A c \in Codes : codes[c] = None \/ codes'[c] \in {codes[c], None}
    /\ \A id \in Known : id \in Known' /\ (id \in live' => id \in live)

(* What a request has seen of its subject after a step.                    *)
Learnt(q) == pc'[q] # "idle" => observed'[q] = observed[q] \cup {Truth(q)'}

(* A request that arrives asks for something its first statement can serve.*)
LEMMA AskFits ==
    ASSUME NEW a \in Asks
    PROVE  WellAsked(a) /\ KindFits(FirstStep(a.kind), a.kind)
<1>1. WellAsked(a)
  BY InventoryAssumption DEF Asks, Ask, WellAsked, Owners
<1>2. a.kind \in Kinds
  BY DEF Asks, Ask, Kinds
<1>3. KindFits(FirstStep(a.kind), a.kind)
  BY <1>2 DEF Kinds, FirstStep, KindFits, LookingUp
<1> QED
  BY <1>1, <1>3

(* A code moves from one row to another only by being on nothing, and a    *)
(* row that was deleted does not return.                                   *)
LEMMA WorldMoves ==
    ASSUME AnswerInv, NEW p \in Requests, Step(p)
    PROVE  World
<1>1. codes \in [Codes -> Owners \cup {None}]
  BY DEF AnswerInv, Mappings
<1>2. CASE Create(p)
  <2>1. CASE codes' = codes /\ live' = live /\ gone' = gone
    BY <1>1, <2>1 DEF World, Known
  <2>2. CASE ~(codes' = codes /\ live' = live /\ gone' = gone)
    <3> DEFINE a == ask[p]
    <3>1. (a.code # None => codes[a.code] = None) /\ gone' = gone
      BY <1>2, <2>2 DEF Create
    <3>2. PICK id \in ClassOf(a.kind) \ Known :
             /\ live' = live \cup {id}
             /\ codes' = IF a.code # None THEN [codes EXCEPT ![a.code] = id] ELSE codes
      BY <1>2, <2>2 DEF Create
    <3>3. a.code # None => id \in Owners
      BY <1>2, <3>2 DEF Create, AnswerInv, Witnessed, Asked, KindFits, WellAsked, ClassOf, Owners
    <3>4. codes' \in [Codes -> Owners \cup {None}]
      BY <1>1, <3>2, <3>3
    <3>5. \A c \in Codes : codes[c] = None \/ codes'[c] \in {codes[c], None}
      BY <1>1, <3>1, <3>2
    <3> QED
      BY <3>1, <3>2, <3>4, <3>5 DEF World, Known
  <2> QED
    BY <2>1, <2>2
<1>3. CASE Delete(p)
  BY <1>1, <1>3 DEF Delete, Cascade, World, Known
<1>4. CASE codes' = codes /\ live' = live /\ gone' = gone
  BY <1>1, <1>4 DEF World, Known
<1>5. CASE Scan(p)
  BY <1>4, <1>5 DEF Scan, ByCode, GetSeen, ItemById, KitById, Found, NextLookup, tables
<1>6. CASE \/ Receive(p) \/ Abort(p) \/ Close(p) \/ Read(p) \/ Write(p) \/ Snapshot(p)
           \/ Insert(p) \/ Remove(p) \/ Attach(p) \/ Exists(p) \/ Detach(p)
  BY <1>4, <1>6 DEF Receive, Abort, Close, Read, Write, Snapshot, Insert, Remove, Attach,
                    Exists, Detach, tables
<1> QED
  BY <1>2, <1>3, <1>5, <1>6 DEF Step

(* What is true of the subject of a request, kind by kind.                 *)
TruthByKind(q) ==
    LET a == ask[q]
    IN  /\ a.kind = "Scan" => Truth(q) = Names(a.code)
        /\ a.kind \in {"AttachLabel", "DetachLabel"} => Truth(q) = Yes(Pair(q) \in tagged)
        /\ a.kind = "AddItem" => Truth(q) = Yes(InSomeKit(a.with))
        /\ a.kind = "RemoveItem" => Truth(q) = Yes(<<a.with, a.of>> \in contents)
        /\ a.kind = "Update" /\ a.detail = None => Truth(q) = detail[a.of]

NamesByClass(code) ==
    /\ code \in Codes => Names(code) = codes[code]
    /\ code \in Owners => Names(code) = IF code \in live THEN code ELSE None

LEMMA TruthIs == \A q \in Requests : TruthByKind(q) /\ TruthByKind(q)'
<1> TAKE q \in Requests
<1>1. TruthByKind(q)
  BY DEF TruthByKind, Truth
<1>2. TruthByKind(q)'
  BY DEF TruthByKind, Truth
<1> QED
  BY <1>1, <1>2

LEMMA NamesAre == ASSUME NEW code PROVE NamesByClass(code) /\ NamesByClass(code)'
<1>1. Codes \cap Owners = {}
  BY InventoryAssumption DEF Ids
<1>2. NamesByClass(code)
  BY <1>1 DEF NamesByClass, Names
<1>3. NamesByClass(code)'
  BY <1>1 DEF NamesByClass, Names
<1> QED
  BY <1>2, <1>3

(* What a request knows stays true while others act.                       *)
LEMMA OthersKeep ==
    ASSUME AnswerInv, World, NEW q \in Requests, Learnt(q),
           pc'[q] = pc[q], ask'[q] = ask[q], seen'[q] = seen[q], answer'[q] = answer[q]
    PROVE  Witnessed(q)'
<1> SUFFICES ASSUME pc[q] # "idle"
             PROVE  /\ (Truth(q) \in observed[q])'
                    /\ Asked(q)' /\ Looked(q)' /\ Checked(q)' /\ ToldTrue(q)'
  BY DEF Witnessed
<1>1. observed'[q] = observed[q] \cup {Truth(q)'}
  BY DEF Learnt
<1>2. Asked(q) /\ Looked(q) /\ Checked(q) /\ ToldTrue(q) /\ Truth(q) \in observed[q]
  BY DEF AnswerInv, Witnessed
<1>3. Asked(q)'
  BY <1>2 DEF Asked, KindFits, WellAsked, World
<1>4. Looked(q)'
  <2> DEFINE code == ask[q].code
  <2>1. pc[q] \in LookingUp /\ code \in Codes => Truth(q)' = codes'[code]
    BY <1>2, TruthIs, NamesAre DEF Asked, KindFits, LookingUp, TruthByKind, NamesByClass
  <2>2. /\ codes \in [Codes -> Owners \cup {None}] /\ codes' \in [Codes -> Owners \cup {None}]
        /\ Items \cap Kits = {} /\ None \notin Items \cup Kits
    BY InventoryAssumption DEF AnswerInv, Mappings, World, Ids, Owners
  <2>3. \A c \in Codes : codes[c] = None \/ codes'[c] \in {codes[c], None}
    BY DEF World
  <2>4. ASSUME pc[q] \in LookingUp, code \in Codes
        PROVE  None \in observed'[q] \/ (None \notin observed[q] /\ codes'[code] = codes[code])
    <3>1. Truth(q) = codes[code]
      BY <1>2, <2>4, TruthIs, NamesAre DEF Asked, KindFits, TruthByKind, NamesByClass
    <3> QED
      BY <1>1, <1>2, <2>1, <2>3, <2>4, <3>1
  <2> QED
    BY <1>1, <1>2, <2>2, <2>4 DEF Looked, LookingUp
<1>5. Checked(q)'
  BY <1>1, <1>2 DEF Checked, BothLive, World, Asked, KindFits, WellAsked
<1>6. ToldTrue(q)'
  BY <1>1, <1>2 DEF ToldTrue, Told
<1> QED
  BY <1>1, <1>3, <1>4, <1>5, <1>6

(* A request that ends, or that goes on with a statement that finds rows   *)
(* only, has made no claim about its subject.                              *)
LEMMA RowsWitnessed ==
    ASSUME AnswerInv, World, NEW q \in Requests, Learnt(q),
           Receive(q) \/ Abort(q) \/ Close(q) \/ Create(q) \/ Read(q) \/ Write(q) \/ Delete(q)
    PROVE  Witnessed(q)'
<1>1. Mappings /\ (pc[q] # "idle" => Asked(q))
  BY DEF AnswerInv, Witnessed
<1>2. CASE Receive(q)
  <2>1. PICK a \in Asks : ask'[q] = a /\ pc'[q] = FirstStep(a.kind)
    BY <1>1, <1>2 DEF Receive, Mappings
  <2>2. Asked(q)'
    BY <2>1, <1>2, AskFits DEF Asked, WellAsked, KindFits, Receive, tables, Known
  <2>3. a.kind \in Kinds /\ (a.kind = "Scan" => a.code \in Codes \cup Owners)
    BY <2>1, AskFits DEF Asks, Ask, Kinds, WellAsked
  <2>4. pc'[q] \in {"create", "read", "delete", "snapshot", "remove", "attach", "exists",
                    "item_by_code"} /\ (pc'[q] = "exists" => a.kind # "AttachLabel")
    BY <2>1, <2>3 DEF Kinds, FirstStep
  <2> QED
    BY <2>1, <2>2, <2>4 DEF Witnessed, Learnt, Looked, Checked, ToldTrue, Told
<1>3. CASE Close(q)
  BY <1>1, <1>3 DEF Close, Witnessed, Mappings
<1>4. CASE Abort(q)
  <2>1. pc'[q] = "answered" /\ answer'[q] = "error" /\ ask'[q] = ask[q] /\ Asked(q)
    BY <1>1, <1>4 DEF Abort, Answer, Mappings
  <2> QED
    BY <2>1 DEF Witnessed, Learnt, Asked, WellAsked, KindFits, LookingUp, Looked, Checked,
                ToldTrue, Told, World
<1>5. CASE Create(q) \/ Read(q) \/ Write(q) \/ Delete(q)
  <2>1. /\ pc'[q] \in {"answered", "write"} /\ (pc'[q] = "write" => pc[q] = "read")
        /\ ask'[q] = ask[q] /\ Asked(q)
        /\ pc[q] \in {"create", "read", "write", "delete"}
    BY <1>1, <1>5 DEF Create, Read, Write, Delete, Answer, Goto, Mappings
  <2> QED
    BY <2>1 DEF Witnessed, Learnt, Asked, WellAsked, KindFits, LookingUp, Looked, Checked,
                ToldTrue, Told, World
<1> QED
  BY <1>2, <1>3, <1>4, <1>5

(* An item was in no kit, then in one; or in one, then in none.            *)
LEMMA MembershipWitnessed ==
    ASSUME AnswerInv, World, NEW q \in Requests, Learnt(q),
           Snapshot(q) \/ Insert(q) \/ Remove(q)
    PROVE  Witnessed(q)'
<1> DEFINE a == ask[q]
<1>1. Mappings /\ Witnessed(q)
  BY DEF AnswerInv
<1>2. /\ pc'[q] \in {"answered", "insert"} /\ (pc'[q] = "insert" => pc[q] = "snapshot")
      /\ ask'[q] = a /\ pc[q] \in {"snapshot", "insert", "remove"}
  BY <1>1 DEF Snapshot, Insert, Remove, Answer, Goto, Mappings
<1>3. /\ Asked(q) /\ Truth(q) \in observed[q] /\ (pc[q] = "insert" => "no" \in observed[q])
      /\ observed'[q] = observed[q] \cup {Truth(q)'}
  BY <1>1, <1>2 DEF Witnessed, Checked, Learnt
<1>4. Asked(q)'
  BY <1>2, <1>3 DEF Asked, WellAsked, KindFits, LookingUp, World
<1>5. CASE Snapshot(q)
  <2>1. Truth(q) = Yes(InSomeKit(a.with)) /\ a.kind = "AddItem"
    BY <1>3, <1>5, TruthIs DEF TruthByKind, Snapshot, Asked, KindFits
  <2>2. IF InSomeKit(a.with)
        THEN pc'[q] = "answered" /\ answer'[q] = "conflict" ELSE pc'[q] = "insert"
    BY <1>1, <1>5 DEF Snapshot, Answer, Goto, Mappings
  <2> QED
    BY <1>2, <1>3, <1>4, <2>1, <2>2
    DEF Witnessed, Looked, Checked, ToldTrue, Told, Yes
<1>6. CASE Insert(q)
  <2>1. a.kind = "AddItem" /\ Truth(q)' = Yes(InSomeKit(a.with))' /\ a.of \in Kits
    BY <1>2, <1>3, <1>6, TruthIs DEF TruthByKind, Insert, Asked, KindFits, WellAsked
  <2>2. /\ pc'[q] = "answered" /\ answer'[q] \in {"ok", "error"}
        /\ answer'[q] = "ok" => <<a.with, a.of>> \in contents'
    BY <1>1, <1>6 DEF Insert, Answer, Mappings
  <2>3. answer'[q] = "ok" => Yes(InSomeKit(a.with))' = "yes"
    BY <1>2, <2>1, <2>2 DEF InSomeKit, Yes
  <2> QED
    BY <1>2, <1>3, <1>4, <1>6, <2>1, <2>2, <2>3
    DEF Witnessed, Insert, Looked, Checked, ToldTrue, Told
<1>7. CASE Remove(q)
  <2>1. /\ a.kind = "RemoveItem" /\ Truth(q) = Yes(<<a.with, a.of>> \in contents)
        /\ Truth(q)' = Yes(<<a.with, a.of>> \in contents')
    BY <1>2, <1>3, <1>7, TruthIs DEF TruthByKind, Remove, Asked, KindFits
  <2>2. /\ pc'[q] = "answered" /\ <<a.with, a.of>> \notin contents'
        /\ answer'[q] = "ok" => <<a.with, a.of>> \in contents
    BY <1>1, <1>7 DEF Remove, Answer, Mappings
  <2> QED
    BY <1>2, <1>3, <1>4, <2>1, <2>2 DEF Witnessed, Looked, Checked, ToldTrue, Told, Yes
<1> QED
  BY <1>5, <1>6, <1>7

(* A label that is attached or not when the first statement runs: what the *)
(* second one reports was so then, or is so now.                           *)
LEMMA LabelWitnessed ==
    ASSUME AnswerInv, World, NEW q \in Requests, Learnt(q),
           Attach(q) \/ Exists(q) \/ Detach(q)
    PROVE  Witnessed(q)'
<1> DEFINE a == ask[q]
<1>1. Mappings /\ Witnessed(q)
  BY DEF AnswerInv
<1>2. /\ pc'[q] \in {"answered", "exists", "detach"} /\ ask'[q] = a
      /\ pc'[q] = "exists" => pc[q] = "attach"
      /\ pc'[q] = "detach" => pc[q] = "exists" /\ a.kind = "DetachLabel"
      /\ pc[q] \in {"attach", "exists", "detach"}
  BY <1>1 DEF Attach, Exists, Detach, Answer, Goto, Mappings
<1>3. /\ Asked(q) /\ Truth(q) \in observed[q] /\ Checked(q)
      /\ observed'[q] = observed[q] \cup {Truth(q)'}
  BY <1>1, <1>2 DEF Witnessed, Learnt
<1>4. Asked(q)'
  BY <1>2, <1>3 DEF Asked, WellAsked, KindFits, LookingUp, World
<1>5. /\ a.kind \in {"AttachLabel", "DetachLabel"}
      /\ Truth(q) = Yes(Pair(q) \in tagged) /\ Truth(q)' = Yes(Pair(q) \in tagged)'
      /\ Pair(q)' = Pair(q)
  BY <1>2, <1>3, TruthIs DEF TruthByKind, Asked, KindFits, Pair
<1>6. CASE Attach(q)
  <2>1. a.kind = "AttachLabel"
    BY <1>3, <1>6 DEF Attach, Asked, KindFits
  <2>2. \/ pc'[q] = "answered" /\ answer'[q] = "ok" /\ Pair(q) \in tagged'
        \/ pc'[q] = "exists" /\ live' = live /\ (~BothLive(q) \/ Pair(q) \in tagged)
    BY <1>1, <1>6 DEF Attach, Answer, Goto, Mappings
  <2>3. live' = live => BothLive(q)' = BothLive(q)
    BY <1>2 DEF BothLive
  <2> QED
    BY <1>2, <1>3, <1>4, <1>5, <2>1, <2>2, <2>3
    DEF Witnessed, Looked, Checked, ToldTrue, Told, Yes
<1>7. CASE Exists(q)
  <2>1. \/ pc'[q] = "answered" /\ answer'[q] = "not_found"
        \/ /\ pc'[q] = "answered" /\ answer'[q] = "ok" /\ a.kind = "AttachLabel"
           /\ BothLive(q) /\ pc[q] = "exists"
        \/ pc'[q] = "detach" /\ a.kind = "DetachLabel"
    BY <1>1, <1>7 DEF Exists, Answer, Goto, Mappings
  <2> QED
    BY <1>2, <1>3, <1>4, <1>5, <2>1 DEF Witnessed, Looked, Checked, ToldTrue, Told
<1>8. CASE Detach(q)
  <2>1. /\ a.kind = "DetachLabel" /\ pc'[q] = "answered" /\ Pair(q) \notin tagged'
    BY <1>1, <1>3, <1>8 DEF Detach, Answer, Asked, KindFits, Mappings
  <2> QED
    BY <1>2, <1>3, <1>4, <1>5, <2>1 DEF Witnessed, Looked, Checked, ToldTrue, Told, Yes
<1> QED
  BY <1>6, <1>7, <1>8

(* A scan: what it carries from one lookup to the next is what the code    *)
(* was on, or that it was on nothing.                                      *)
LEMMA ScanWitnessed ==
    ASSUME AnswerInv, World, NEW q \in Requests, Learnt(q), Scan(q)
    PROVE  Witnessed(q)'
<1> DEFINE a == ask[q]
           code == a.code
<1>1. Mappings /\ Witnessed(q) /\ NothingDangles
  BY DEF AnswerInv, ReferenceInv
<1>2. /\ pc[q] \in LookingUp /\ pc'[q] \in LookingUp \cup {"answered"}
      /\ ask'[q] = a /\ UNCHANGED tables
  BY <1>1 DEF Scan, ByCode, GetSeen, ItemById, KitById, Found, NextLookup, Answer, Goto,
              Mappings, LookingUp
<1>3. /\ Asked(q) /\ Truth(q) \in observed[q] /\ Looked(q)
      /\ observed'[q] = observed[q] \cup {Truth(q)'}
  BY <1>1, <1>2 DEF Witnessed, Learnt, LookingUp
<1>4. Asked(q)' /\ a.kind = "Scan" /\ code \in Codes \cup Owners
  BY <1>2, <1>3 DEF Asked, WellAsked, KindFits, LookingUp, World
<1>5. /\ code \in Codes => Truth(q) = codes[code] /\ codes[code] \in Items \cup Kits \cup {None}
      /\ code \in Owners => Truth(q) = IF code \in live THEN code ELSE None
  BY <1>1, <1>4, TruthIs, NamesAre DEF TruthByKind, NamesByClass, Mappings, Owners
<1>6. /\ Codes \cap (Items \cup Kits) = {} /\ Items \cap Kits = {}
      /\ None \notin Items \cup Kits /\ Owners = Items \cup Kits
  BY InventoryAssumption DEF Ids, Owners
<1>7. codes' = codes /\ live' = live
  BY <1>2 DEF tables
<1>8. Checked(q)' /\ (Truth(q) \in observed[q])'
  BY <1>2, <1>3 DEF Checked, LookingUp
<1>9. SUFFICES Looked(q)' /\ ToldTrue(q)'
  BY <1>4, <1>8 DEF Witnessed
<1>10. CASE ByCode(q, "item_by_code", Items, "get_item", "kit_by_code")
  <2>1. \/ /\ code \in Codes /\ codes[code] \in Items
           /\ pc'[q] = "get_item" /\ seen'[q] = codes[code]
        \/ /\ code \in Codes => codes[code] \notin Items
           /\ pc'[q] = "kit_by_code"
    BY <1>1, <1>6, <1>10 DEF ByCode, NextLookup, Goto, Mappings
  <2> QED
    BY <1>2, <1>3, <1>5, <1>6, <1>7, <2>1 DEF Looked, ToldTrue, Told
<1>11. CASE GetSeen(q, "get_item", "kit_by_code")
  <2>1. \/ seen[q] \in live /\ pc'[q] = "answered" /\ answer'[q] = "ok" /\ seen'[q] = seen[q]
        \/ seen[q] \notin live /\ pc'[q] = "kit_by_code"
    BY <1>1, <1>11 DEF GetSeen, Found, NextLookup, Goto, Mappings
  <2>2. /\ pc[q] = "get_item" /\ code \in Codes
        /\ codes[code] # None => codes[code] \in live
    BY <1>1, <1>3, <1>11 DEF GetSeen, Looked, NothingDangles
  <2>3. seen[q] \in Items \cap observed[q] /\ (seen[q] \notin live => None \in observed[q])
    BY <1>3, <1>5, <1>6, <2>2 DEF Looked
  <2> QED
    BY <1>2, <1>3, <1>4, <1>7, <2>1, <2>2, <2>3 DEF Looked, ToldTrue, Told
<1>12. CASE ByCode(q, "kit_by_code", Kits, "get_kit", "item_by_id")
  <2>1. \/ /\ code \in Codes /\ codes[code] \in Kits
           /\ pc'[q] = "get_kit" /\ seen'[q] = codes[code]
        \/ /\ code \in Codes => codes[code] \notin Kits
           /\ pc'[q] = "item_by_id"
    BY <1>1, <1>6, <1>12 DEF ByCode, NextLookup, Goto, Mappings
  <2>2. pc[q] = "kit_by_code"
    BY <1>12 DEF ByCode
  <2> QED
    BY <1>2, <1>3, <1>5, <1>6, <1>7, <2>1, <2>2 DEF Looked, ToldTrue, Told
<1>13. CASE GetSeen(q, "get_kit", "item_by_id")
  <2>1. \/ seen[q] \in live /\ pc'[q] = "answered" /\ answer'[q] = "ok" /\ seen'[q] = seen[q]
        \/ seen[q] \notin live /\ pc'[q] = "item_by_id"
    BY <1>1, <1>13 DEF GetSeen, Found, NextLookup, Goto, Mappings
  <2>2. /\ pc[q] = "get_kit" /\ code \in Codes
        /\ codes[code] # None => codes[code] \in live
    BY <1>1, <1>3, <1>13 DEF GetSeen, Looked, NothingDangles
  <2>3. seen[q] \in Kits \cap observed[q] /\ (seen[q] \notin live => None \in observed[q])
    BY <1>3, <1>5, <1>6, <2>2 DEF Looked
  <2> QED
    BY <1>2, <1>3, <1>4, <1>7, <2>1, <2>2, <2>3 DEF Looked, ToldTrue, Told
<1>14. CASE ItemById(q)
  <2>1. \/ /\ code \in Items \cap live
           /\ pc'[q] = "answered" /\ answer'[q] = "ok" /\ seen'[q] = code
        \/ code \notin Items \cap live /\ pc'[q] = "kit_by_id"
    BY <1>1, <1>14 DEF ItemById, Found, NextLookup, Goto, Mappings
  <2>2. pc[q] = "item_by_id"
    BY <1>14 DEF ItemById
  <2> QED
    BY <1>2, <1>3, <1>4, <1>5, <1>6, <2>1, <2>2 DEF Looked, ToldTrue, Told
<1>15. CASE KitById(q)
  <2>1. \/ /\ code \in Kits \cap live
           /\ pc'[q] = "answered" /\ answer'[q] = "ok" /\ seen'[q] = code
        \/ code \notin Kits \cap live /\ pc'[q] = "answered" /\ answer'[q] = "not_found"
    BY <1>1, <1>15 DEF KitById, Found, Answer, Mappings
  <2>2. pc[q] = "kit_by_id"
    BY <1>15 DEF KitById
  <2> QED
    BY <1>2, <1>3, <1>4, <1>5, <1>6, <2>1, <2>2 DEF Looked, ToldTrue, Told
<1> QED
  BY <1>10, <1>11, <1>12, <1>13, <1>14, <1>15 DEF Scan

(* A request is changed by its own steps only.                             *)
LEMMA OneMoves ==
    ASSUME Mappings, World, NEW p \in Requests, Step(p)
    PROVE  /\ Mappings'
           /\ \A q \in Requests \ {p} : /\ pc'[q] = pc[q] /\ ask'[q] = ask[q]
                                        /\ seen'[q] = seen[q] /\ answer'[q] = answer[q]
<1> DEFINE Moves(f, g) == \/ g = f
                          \/ \E value : g = [f EXCEPT ![p] = value]
<1>1. Moves(pc, pc') /\ Moves(ask, ask') /\ Moves(seen, seen') /\ Moves(answer, answer')
  <2>1. CASE Receive(p) \/ Abort(p) \/ Close(p)
    BY <2>1 DEF Receive, Abort, Close, Answer
  <2>2. CASE Create(p) \/ Read(p) \/ Write(p) \/ Delete(p)
    BY <2>2 DEF Create, Read, Write, Delete, Answer, Goto
  <2>3. CASE Snapshot(p) \/ Insert(p) \/ Remove(p) \/ Attach(p) \/ Exists(p) \/ Detach(p)
    BY <2>3 DEF Snapshot, Insert, Remove, Attach, Exists, Detach, Answer, Goto
  <2>4. CASE Scan(p)
    BY <2>4 DEF Scan, ByCode, GetSeen, ItemById, KitById, Found, NextLookup, Answer, Goto
  <2> QED
    BY <2>1, <2>2, <2>3, <2>4 DEF Step
<1>2. ASSUME NEW f, NEW g, f = [q \in Requests |-> f[q]], Moves(f, g)
      PROVE  g = [q \in Requests |-> g[q]] /\ \A q \in Requests \ {p} : g[q] = f[q]
  BY <1>2
<1> HIDE DEF Moves
<1>3. codes' \in [Codes -> Owners \cup {None}]
  BY DEF World
<1> QED
  BY <1>1, <1>2, <1>3 DEF Mappings

(* A step makes true what each request has to know afterwards.             *)
LEMMA NextAnswers == AnswerInv /\ [Next]_vars => AnswerInv'
<1> SUFFICES ASSUME AnswerInv, [Next]_vars
             PROVE  AnswerInv'
  OBVIOUS
<1>1. ReferenceInv'
  BY NextReference DEF AnswerInv
<1>2. CASE UNCHANGED vars
  <2>1. UNCHANGED <<live, gone, detail, contents, tagged, codes, pc, ask, seen, answer, observed>>
    BY <1>2 DEF vars, tables, requests
  <2>2. World /\ Mappings'
    BY <2>1 DEF World, Known, AnswerInv, Mappings
  <2>3. ASSUME NEW q \in Requests, pc[q] # "idle"
        PROVE  Truth(q)' = Truth(q) /\ Truth(q) \in observed[q]
    <3>1. \A code : Names(code)' = Names(code)
      BY <2>1 DEF Names
    <3>2. InSomeKit(ask[q].with)' = InSomeKit(ask[q].with)
      BY <2>1 DEF InSomeKit
    <3>3. Truth(q)' = Truth(q)
      BY <2>1, <3>1, <3>2 DEF Truth, Pair, Yes
    <3> QED
      BY <2>3, <3>3 DEF AnswerInv, Witnessed
  <2>4. \A q \in Requests : Learnt(q)
    BY <2>1, <2>3 DEF Learnt
  <2>5. \A q \in Requests : Witnessed(q)'
    BY <2>1, <2>2, <2>4, OthersKeep
  <2> QED
    BY <1>1, <2>2, <2>5 DEF AnswerInv
<1>3. CASE Next
  <2>1. PICK p \in Requests : Step(p)
    BY <1>3 DEF Next
  <2>2. World
    BY <2>1, WorldMoves
  <2>3. /\ Mappings'
        /\ \A q \in Requests \ {p} : /\ pc'[q] = pc[q] /\ ask'[q] = ask[q]
                                     /\ seen'[q] = seen[q] /\ answer'[q] = answer[q]
    BY <2>1, <2>2, OneMoves DEF AnswerInv
  <2>4. \A q \in Requests : Learnt(q)
    BY <1>3 DEF Next, Observe, Learnt
  <2>5. ASSUME NEW q \in Requests
        PROVE  Witnessed(q)'
    <3>1. CASE q # p
      BY <2>2, <2>3, <2>4, <3>1, OthersKeep
    <3>2. CASE q = p
      BY <2>1, <2>2, <2>4, <3>2, RowsWitnessed, MembershipWitnessed, LabelWitnessed,
         ScanWitnessed DEF Step
    <3> QED
      BY <3>1, <3>2
  <2> QED
    BY <1>1, <2>3, <2>5 DEF AnswerInv
<1> QED
  BY <1>2, <1>3

(* Whatever requests interleave and fail, an answer was true at a moment   *)
(* between the arrival of its request and the answer.                      *)
THEOREM AnswersAreTrue == Spec => []AnswersWereTrue
<1>1. Init => AnswerInv
  BY InitReference DEF Init, AnswerInv, Mappings, Witnessed
<1>2. AnswerInv => AnswersWereTrue
  BY DEF AnswerInv, Witnessed, ToldTrue, Told, AnswersWereTrue
<1> QED
  BY <1>1, <1>2, NextAnswers, PTL DEF Spec

-----------------------------------------------------------------------------
(* Types.                                                                  *)

(* An update has read the fields of a row, and not a row.                  *)
FieldsRead(q) == pc[q] = "write" => seen[q] \in Details \cup {None}

TypeInv == AnswerInv /\ TypeOK /\ \A q \in Requests : FieldsRead(q)

(* The rows and what refers to them.                                       *)
TablesTyped ==
    /\ live \subseteq Ids /\ gone \subseteq Ids
    /\ place \in [Owners -> Places \cup {None}]
    /\ detail \in [Owners -> Details \cup {None}]
    /\ contents \subseteq Items \X Kits
    /\ tagged \subseteq Owners \X Labels

EnteredTyped == \A q \in Requests : entered[q] \subseteq Items \X Kits

RequestTyped(q) ==
    /\ pc[q] \in {"idle", "create", "read", "write", "delete", "snapshot", "insert",
                  "remove", "attach", "exists", "detach", "answered"} \cup LookingUp
    /\ pc[q] = "idle" <=> ask[q] = None
    /\ ask[q] \in Questions \cup {None}
    /\ answer[q] \in Outcomes \cup {None}
    /\ pc[q] = "answered" <=> answer[q] # None
    /\ seen[q] \in Owners \cup Details \cup {None}

LEMMA TypesAre ==
    /\ Mappings => (TypeOK <=> /\ TablesTyped /\ EnteredTyped
                               /\ \A q \in Requests : RequestTyped(q))
    /\ Mappings' => (TypeOK' <=> /\ TablesTyped' /\ EnteredTyped'
                                 /\ \A q \in Requests : RequestTyped(q)')
BY DEF Mappings, TypeOK, TablesTyped, EnteredTyped, RequestTyped, LookingUp

(* None is none of the other things a request or a row may hold.           *)
LEMMA NoneIsNothingElse ==
    /\ None \notin Questions /\ None \notin Outcomes /\ None \notin Owners
    /\ Owners \subseteq Ids /\ Labels \subseteq Ids /\ Places \subseteq Ids
BY InventoryAssumption DEF Owners, Ids

(* What clients ask for has the fields of a request.                       *)
LEMMA AsksAreQuestions == ASSUME live \subseteq Ids, gone \subseteq Ids
                          PROVE  Asks \subseteq Questions
BY DEF Asks, Ask, Questions, Kinds, Known, Owners, Ids

(* What is written to a row was asked for, or read from it.                *)
LEMMA TablesKeepTypes ==
    ASSUME TypeInv, NEW p \in Requests, Step(p)
    PROVE  TablesTyped'
<1> DEFINE a == ask[p]
<1>1. TablesTyped /\ FieldsRead(p) /\ (pc[p] # "idle" => Asked(p) /\ a \in Questions)
  BY TypesAre DEF TypeInv, AnswerInv, Witnessed, RequestTyped
<1>2. CASE UNCHANGED tables
  BY <1>1, <1>2 DEF TablesTyped, tables
<1>3. CASE Create(p)
  <2>1. a \in Questions /\ gone' = gone /\ contents' = contents /\ tagged' = tagged
    BY <1>1, <1>3 DEF Create
  <2>2. ClassOf(a.kind) \subseteq Ids
    BY <1>1, <1>3 DEF Create, Asked, KindFits, ClassOf, Ids, Owners
  <2>3. \/ UNCHANGED <<live, place, detail>>
        \/ \E id \in ClassOf(a.kind) :
              /\ live' = live \cup {id}
              /\ place' = IF id \in Owners THEN [place EXCEPT ![id] = a.place] ELSE place
              /\ detail' = IF id \in Owners THEN [detail EXCEPT ![id] = a.detail] ELSE detail
    BY <1>3 DEF Create
  <2>4. a.place \in Places \cup {None} /\ a.detail \in Details \cup {None}
    BY <2>1 DEF Questions
  <2> QED
    BY <1>1, <2>1, <2>2, <2>3, <2>4 DEF TablesTyped
<1>4. CASE Write(p)
  <2>1. /\ a \in Questions /\ a.of \in Owners
        /\ a.detail = None => seen[p] \in Details \cup {None}
    BY <1>1, <1>4 DEF Write, FieldsRead, Asked, KindFits, WellAsked
  <2>2. /\ UNCHANGED <<live, gone, contents, tagged>>
        /\ \/ UNCHANGED <<place, detail>>
           \/ /\ place' = [place EXCEPT ![a.of] = a.place]
              /\ detail' = [detail EXCEPT ![a.of] = Applied(p)]
    BY <1>4 DEF Write
  <2>3. a.place \in Places \cup {None} /\ Applied(p) \in Details \cup {None}
    BY <2>1 DEF Questions, Applied
  <2> QED
    BY <1>1, <2>2, <2>3 DEF TablesTyped
<1>5. CASE Delete(p)
  <2>1. a.of \in Ids
    BY <1>1, <1>5 DEF Delete, Asked, KindFits, WellAsked, Known, TablesTyped
  <2> QED
    BY <1>1, <1>5, <2>1 DEF Delete, Cascade, TablesTyped
<1>6. CASE Insert(p) \/ Remove(p)
  <2>1. a.with \in Items /\ a.of \in Kits
    BY <1>1, <1>6 DEF Insert, Remove, Asked, KindFits, WellAsked
  <2> QED
    BY <1>1, <1>6, <2>1 DEF Insert, Remove, TablesTyped
<1>7. CASE Attach(p) \/ Detach(p)
  <2>1. a.of \in Owners /\ a.with \in Labels
    BY <1>1, <1>7 DEF Attach, Detach, Asked, KindFits, WellAsked
  <2> QED
    BY <1>1, <1>7, <2>1 DEF Attach, Detach, Pair, TablesTyped
<1>8. CASE Scan(p)
  BY <1>2, <1>8 DEF Scan, ByCode, GetSeen, ItemById, KitById, Found, NextLookup
<1>9. CASE Receive(p) \/ Abort(p) \/ Close(p) \/ Read(p) \/ Snapshot(p) \/ Exists(p)
  BY <1>2, <1>9 DEF Receive, Abort, Close, Read, Snapshot, Exists
<1> QED
  BY <1>3, <1>4, <1>5, <1>6, <1>7, <1>8, <1>9 DEF Step

(* A request has a question from its arrival on, and an outcome at its end.*)
LEMMA RequestsKeepTypes ==
    ASSUME TypeInv, NEW p \in Requests, Step(p), Mappings'
    PROVE  RequestTyped(p)' /\ FieldsRead(p)'
<1> USE DEF Mappings
<1>1. /\ TablesTyped /\ RequestTyped(p) /\ Mappings
      /\ pc[p] # "idle" => Asked(p) /\ Looked(p)
  BY TypesAre DEF TypeInv, AnswerInv, Witnessed
<1>2. None \notin Questions /\ None \notin Outcomes
  BY NoneIsNothingElse
<1>3. CASE Receive(p)
  <2>1. PICK b \in Asks : ask'[p] = b /\ pc'[p] = FirstStep(b.kind)
    BY <1>1, <1>3 DEF Receive
  <2>2. b \in Questions
    BY <1>1, AsksAreQuestions DEF TablesTyped
  <2>3. FirstStep(b.kind) \in {"create", "read", "delete", "snapshot", "remove", "attach",
                               "exists", "item_by_code"}
    <3>1. b.kind \in Kinds
      BY <2>2 DEF Questions
    <3> QED
      BY <3>1 DEF Kinds, FirstStep
  <2>4. seen' = seen /\ answer' = answer /\ pc[p] = "idle"
    BY <1>3 DEF Receive
  <2> QED
    BY <1>1, <1>2, <2>1, <2>2, <2>3, <2>4 DEF RequestTyped, FieldsRead, LookingUp
<1>4. CASE Abort(p)
  BY <1>1, <1>2, <1>4 DEF Abort, Answer, RequestTyped, FieldsRead, Outcomes
<1>5. CASE Close(p)
  BY <1>1, <1>5 DEF Close, RequestTyped, FieldsRead
<1>6. CASE Read(p)
  <2>1. ask[p].of \in Owners
    BY <1>1, <1>6 DEF Read, Asked, KindFits, WellAsked
  <2> QED
    BY <1>1, <1>2, <1>6, <2>1 DEF Read, Answer, Goto, RequestTyped, FieldsRead, TablesTyped,
       Outcomes
<1>7. CASE Create(p) \/ Write(p) \/ Delete(p) \/ Insert(p) \/ Remove(p) \/ Detach(p)
  <2>1. \E value \in Outcomes : Answer(p, value)
    BY <1>7 DEF Create, Write, Delete, Insert, Remove, Detach, Outcomes
  <2>2. pc[p] # "idle"
    BY <1>7 DEF Create, Write, Delete, Insert, Remove, Detach
  <2> QED
    BY <1>1, <1>2, <2>1, <2>2 DEF Answer, RequestTyped, FieldsRead
<1>8. CASE Snapshot(p) \/ Attach(p) \/ Exists(p)
  <2>1. \/ \E value \in Outcomes : Answer(p, value)
        \/ \E location \in {"insert", "exists", "detach"} : Goto(p, location) /\ UNCHANGED seen
    BY <1>8 DEF Snapshot, Attach, Exists, Outcomes
  <2>2. pc[p] # "idle" /\ pc[p] # "answered"
    BY <1>8 DEF Snapshot, Attach, Exists
  <2> QED
    BY <1>1, <1>2, <2>1, <2>2 DEF Answer, Goto, RequestTyped, FieldsRead
<1>9. CASE Scan(p)
  <2>1. pc[p] \in LookingUp /\ ask'[p] = ask[p]
    BY <1>9 DEF Scan, ByCode, GetSeen, ItemById, KitById, Found, NextLookup, Answer, Goto,
                LookingUp
  <2>2. \/ pc'[p] = "answered" /\ answer'[p] \in Outcomes
        \/ pc'[p] \in LookingUp /\ answer'[p] = answer[p]
    BY <1>1, <1>9 DEF Scan, ByCode, GetSeen, ItemById, KitById, Found, NextLookup, Answer,
                      Goto, LookingUp, Outcomes
  <2>3. seen'[p] \in Owners \cup Details \cup {None}
    BY <1>1, <1>9 DEF Scan, ByCode, GetSeen, ItemById, KitById, Found, NextLookup, Answer,
                      Goto, RequestTyped, Owners
  <2> QED
    BY <1>1, <1>2, <2>1, <2>2, <2>3 DEF RequestTyped, FieldsRead, LookingUp
<1> QED
  BY <1>3, <1>4, <1>5, <1>6, <1>7, <1>8, <1>9 DEF Step

LEMMA InitTypes == Init => TypeInv
BY InitReference DEF Init, TypeInv, TypeOK, AnswerInv, Mappings, Witnessed, FieldsRead

LEMMA NextTypes == TypeInv /\ [Next]_vars => TypeInv'
<1> SUFFICES ASSUME TypeInv, [Next]_vars
             PROVE  TypeInv'
  OBVIOUS
<1>1. AnswerInv /\ AnswerInv' /\ Mappings /\ Mappings'
  BY NextAnswers DEF TypeInv, AnswerInv
<1>2. CASE UNCHANGED vars
  BY <1>1, <1>2 DEF vars, tables, requests, TypeInv, TypeOK, FieldsRead
<1>3. CASE Next
  <2>1. PICK p \in Requests : Step(p)
    BY <1>3 DEF Next
  <2>2. \A q \in Requests \ {p} : /\ pc'[q] = pc[q] /\ ask'[q] = ask[q]
                                  /\ seen'[q] = seen[q] /\ answer'[q] = answer[q]
    BY <1>1, <2>1, WorldMoves, OneMoves
  <2>3. \A q \in Requests \ {p} : RequestTyped(q)' /\ FieldsRead(q)'
    BY <1>1, <2>2, TypesAre DEF TypeInv, RequestTyped, FieldsRead
  <2>4. TablesTyped' /\ RequestTyped(p)' /\ FieldsRead(p)'
    BY <1>1, <2>1, TablesKeepTypes, RequestsKeepTypes
  <2>5. EnteredTyped'
    BY <1>1, <1>3, <2>4, TypesAre DEF TypeInv, Next, Observe, MadeUnder, TablesTyped, EnteredTyped
  <2> QED
    BY <1>1, <2>3, <2>4, <2>5, TypesAre DEF TypeInv
<1> QED
  BY <1>2, <1>3

(* Every row, reference, request and answer has its type.                  *)
THEOREM TypeCorrect == Spec => []TypeOK
<1>1. TypeInv => TypeOK
  BY DEF TypeInv
<1> QED
  BY <1>1, InitTypes, NextTypes, PTL DEF Spec

-----------------------------------------------------------------------------
(* What overlapping requests do to each other between two statements.      *)

(* Every membership of its item that an AddItem could not see was made     *)
(* after it had looked.                                                    *)
UnseenEntered(q) ==
    pc[q] = "insert" =>
        \A kit \in Kits : <<ask[q].with, kit>> \in contents => <<ask[q].with, kit>> \in entered[q]

(* What an update has read was the field of its row while it ran.          *)
ReadObserved(q) == pc[q] = "write" /\ ask[q].detail = None => seen[q] \in observed[q]

OverlapInv == TypeInv /\ \A q \in Requests : UnseenEntered(q) /\ ReadObserved(q)

LEMMA InitOverlap == Init => OverlapInv
BY InitTypes DEF Init, OverlapInv, UnseenEntered, ReadObserved

(* A membership made by another request is noticed, and a field that       *)
(* another request writes does not take back what was read.                *)
LEMMA OthersOverlap ==
    ASSUME OverlapInv, Next, NEW q \in Requests, Learnt(q),
           pc'[q] = pc[q], ask'[q] = ask[q], seen'[q] = seen[q]
    PROVE  UnseenEntered(q)' /\ ReadObserved(q)'
<1>1. UnseenEntered(q)'
  <2> SUFFICES ASSUME pc[q] = "insert", NEW kit \in Kits, <<ask[q].with, kit>> \in contents'
               PROVE  <<ask[q].with, kit>> \in entered'[q]
    BY DEF UnseenEntered
  <2>1. entered'[q] = entered[q] \cup MadeUnder(q)
    BY DEF Next, Observe
  <2>2. CASE <<ask[q].with, kit>> \in contents
    BY <2>1, <2>2 DEF OverlapInv, UnseenEntered
  <2>3. CASE <<ask[q].with, kit>> \notin contents
    BY <2>1, <2>3 DEF MadeUnder
  <2> QED
    BY <2>2, <2>3
<1>2. ReadObserved(q)'
  BY DEF OverlapInv, ReadObserved, Learnt
<1> QED
  BY <1>1, <1>2

(* A request comes to its insertion from a snapshot without a membership,  *)
(* and to its write from reading the row.                                  *)
LEMMA OwnOverlap ==
    ASSUME OverlapInv, NEW p \in Requests, Step(p), Learnt(p)
    PROVE  UnseenEntered(p)' /\ ReadObserved(p)'
<1>1. Mappings /\ Witnessed(p)
  BY DEF OverlapInv, TypeInv, AnswerInv
<1>2. CASE Receive(p)
  <2>1. PICK b \in Asks : pc' = [pc EXCEPT ![p] = FirstStep(b.kind)]
    BY <1>2 DEF Receive
  <2>2. b.kind \in Kinds
    BY DEF Asks, Ask, Kinds
  <2>3. FirstStep(b.kind) \notin {"insert", "write"}
    BY <2>2 DEF Kinds, FirstStep
  <2>4. pc'[p] = FirstStep(b.kind)
    BY <1>1, <2>1 DEF Mappings
  <2> QED
    BY <2>3, <2>4 DEF UnseenEntered, ReadObserved
<1>3. CASE Snapshot(p)
  <2>1. \/ pc'[p] = "answered"
        \/ /\ pc'[p] = "insert" /\ ask'[p] = ask[p] /\ contents' = contents
           /\ ~InSomeKit(ask[p].with)
    BY <1>1, <1>3 DEF Snapshot, Answer, Goto, Mappings, tables
  <2> QED
    BY <2>1 DEF UnseenEntered, ReadObserved, InSomeKit
<1>4. CASE Read(p)
  <2>1. \/ pc'[p] = "answered"
        \/ pc'[p] = "write" /\ ask'[p] = ask[p] /\ seen'[p] = detail[ask[p].of]
    BY <1>1, <1>4 DEF Read, Answer, Goto, Mappings
  <2>2. ask[p].kind = "Update" /\ Truth(p) \in observed[p]
    BY <1>1, <1>4 DEF Read, Witnessed, Asked, KindFits
  <2>3. ask[p].detail = None => detail[ask[p].of] \in observed[p]
    BY <2>2, TruthIs DEF TruthByKind
  <2> QED
    BY <2>1, <2>3 DEF UnseenEntered, ReadObserved, Learnt
<1>5. CASE Scan(p)
  <2>1. pc'[p] \in LookingUp \cup {"answered"}
    BY <1>1, <1>5 DEF Scan, ByCode, GetSeen, ItemById, KitById, Found, NextLookup, Answer,
                      Goto, Mappings, LookingUp
  <2> QED
    BY <2>1 DEF LookingUp, UnseenEntered, ReadObserved
<1>6. CASE \/ Abort(p) \/ Close(p) \/ Create(p) \/ Write(p) \/ Delete(p) \/ Insert(p)
           \/ Remove(p) \/ Attach(p) \/ Exists(p) \/ Detach(p)
  <2>1. pc'[p] \in {"answered", "idle", "exists", "detach"}
    BY <1>1, <1>6 DEF Abort, Close, Create, Write, Delete, Insert, Remove, Attach, Exists,
                      Detach, Answer, Goto, Mappings
  <2> QED
    BY <2>1 DEF UnseenEntered, ReadObserved
<1> QED
  BY <1>2, <1>3, <1>4, <1>5, <1>6 DEF Step

LEMMA NextOverlap == OverlapInv /\ [Next]_vars => OverlapInv'
<1> SUFFICES ASSUME OverlapInv, [Next]_vars
             PROVE  OverlapInv'
  OBVIOUS
<1>1. TypeInv'
  BY NextTypes DEF OverlapInv
<1>2. CASE UNCHANGED vars
  BY <1>1, <1>2 DEF vars, tables, requests, OverlapInv, UnseenEntered, ReadObserved
<1>3. CASE Next
  <2>1. PICK p \in Requests : Step(p)
    BY <1>3 DEF Next
  <2>2. \A q \in Requests \ {p} : /\ pc'[q] = pc[q] /\ ask'[q] = ask[q]
                                  /\ seen'[q] = seen[q] /\ answer'[q] = answer[q]
    BY <2>1, WorldMoves, OneMoves DEF OverlapInv, TypeInv, AnswerInv
  <2>3. \A q \in Requests : Learnt(q)
    BY <1>3 DEF Next, Observe, Learnt
  <2>4. \A q \in Requests : UnseenEntered(q)' /\ ReadObserved(q)'
    BY <1>3, <2>1, <2>2, <2>3, OthersOverlap, OwnOverlap
  <2> QED
    BY <1>1, <2>4 DEF OverlapInv
<1> QED
  BY <1>2, <1>3

(* However many requests overlap, AddItem puts an item into a second kit   *)
(* only if every other membership of the item was made after it had looked.*)
THEOREM SecondKitsAreRaced == Spec => SecondKitIsRaced
<1>1. ASSUME OverlapInv, [Next]_vars, NEW q \in Requests,
             pc[q] = "insert", NEW kit \in Kits, <<ask[q].with, kit>> \in contents
      PROVE  <<ask[q].with, kit>> \in entered[q]
  BY <1>1 DEF OverlapInv, UnseenEntered
<1>2. OverlapInv /\ [Next]_vars =>
        [\A q \in Requests :
            pc[q] = "insert" /\ pc'[q] = "answered" /\ answer'[q] = "ok"
              => \A kit \in Kits : <<ask[q].with, kit>> \in contents
                                      => <<ask[q].with, kit>> \in entered[q]]_vars
  BY <1>1
<1> QED
  BY <1>2, InitOverlap, NextOverlap, PTL DEF Spec, SecondKitIsRaced

(* However many updates and deletions overlap, a field that an update      *)
(* leaves out gets a value that the row held while the update ran.         *)
THEOREM OmittedFieldsAreKept == Spec => OmittedFieldIsKept
<1> DEFINE Kept(q) == (/\ pc[q] = "write" /\ ask[q].detail = None
                       /\ pc'[q] = "answered" /\ answer'[q] = "ok")
                         => detail'[ask[q].of] \in observed[q]
<1>1. ASSUME OverlapInv, [Next]_vars
      PROVE  [\A q \in Requests : Kept(q)]_vars
  <2> SUFFICES ASSUME Next, NEW q \in Requests, pc[q] = "write", ask[q].detail = None,
                      pc'[q] = "answered", answer'[q] = "ok"
               PROVE  detail'[ask[q].of] \in observed[q]
    BY <1>1
  <2>1. /\ AnswerInv /\ Mappings /\ ask[q].of \in Owners
        /\ detail \in [Owners -> Details \cup {None}]
    <3>1. Mappings /\ Asked(q) /\ TypeOK /\ AnswerInv
      BY <1>1 DEF OverlapInv, TypeInv, AnswerInv, Witnessed
    <3> QED
      BY <3>1 DEF Asked, KindFits, WellAsked, TypeOK
  <2>2. Step(q)
    <3>1. PICK p \in Requests : Step(p)
      BY DEF Next
    <3>2. p = q
      BY <2>1, <3>1, WorldMoves, OneMoves
    <3> QED
      BY <3>1, <3>2
  <2>3. Write(q) \/ Abort(q)
    BY <2>2 DEF Step, Receive, Close, Create, Read, Delete, Snapshot, Insert, Remove, Attach,
       Exists, Detach, Scan, ByCode, GetSeen, ItemById, KitById
  <2>4. Write(q)
    BY <2>1, <2>3 DEF Abort, Answer, Mappings
  <2>5. detail' = [detail EXCEPT ![ask[q].of] = seen[q]]
    BY <2>1, <2>4 DEF Write, Answer, Applied, Mappings
  <2>6. seen[q] \in observed[q]
    BY <1>1 DEF OverlapInv, ReadObserved
  <2> QED
    BY <2>1, <2>5, <2>6
<1> QED
  BY <1>1, InitOverlap, NextOverlap, PTL DEF Spec, OmittedFieldIsKept
=============================================================================
