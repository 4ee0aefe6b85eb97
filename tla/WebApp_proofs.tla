---------------------------- MODULE WebApp_proofs ----------------------------
(***************************************************************************)
(* Proofs about WebApp: each page of the application behaves as its own    *)
(* module says, so what is proved of the pages one by one holds of the     *)
(* application, whichever page is visited.                                 *)
(***************************************************************************)
EXTENDS WebApp, ItemEntry_proofs, Pages_proofs

(* A step of the application is one of the page visited; the others stay   *)
(* as they are.                                                            *)
LEMMA EachPageSteps ==
    ASSUME [WebNext]_webVars
    PROVE  /\ [EntryNext]_entryVars /\ [BackupsNext]_backupsVars /\ [TargetNext]_targetVars
           /\ [ItemsNext]_itemsVars /\ [KitNext]_kitVars /\ [EditNext]_editVars
           /\ [ReportsNext]_reportsVars /\ [ScanNext]_scanVars
  <1>1. CASE UNCHANGED webVars
    BY <1>1 DEF webVars
  <1>2. CASE Entry \/ Administration \/ Credentials \/ ItemList
    BY <1>2 DEF Entry, Administration, Credentials, ItemList
  <1>3. CASE Kit \/ Edit \/ Reports \/ Scan
    BY <1>3 DEF Kit, Edit, Reports, Scan
  <1> QED
    BY <1>1, <1>2, <1>3 DEF WebNext

LEMMA EachPageStarts ==
    WebInit => /\ EntryInit /\ BackupsInit /\ TargetInit /\ ItemsInit
               /\ KitInit /\ EditInit /\ ReportsInit /\ ScanInit
  BY DEF WebInit

(* Whatever pages there are, each is used as its module describes: the     *)
(* composition adds no step to a page and takes none of its guards away.   *)
THEOREM EachPageIsItsModule ==
    WebSpec => /\ EntrySpec /\ BackupsSpec /\ TargetSpec /\ ItemsSpec
               /\ KitSpec /\ EditSpec /\ ReportsSpec /\ ScanSpec
  BY EachPageSteps, EachPageStarts, PTL
     DEF WebSpec, EntrySpec, BackupsSpec, TargetSpec, ItemsSpec, KitSpec, EditSpec,
         ReportsSpec, ScanSpec

(* The variables of every page keep to their types, whichever requests go  *)
(* unanswered.                                                             *)
THEOREM WebAppIsTyped == WebSpec => []WebTypeOK
  <1>1. WebSpec => []EditTypeOK
    BY EachPageIsItsModule, EditTypes, PTL DEF EditSpec
  <1>2. WebSpec => []DialogTypes
    BY EachPageIsItsModule, DialogsTyped, PTL DEF BackupsSpec
  <1>3. DialogTypes => BackupsTypeOK
    BY DEF DialogTypes
  <1>4. WebSpec => /\ []EntryTypeOK /\ [](TargetTypeOK /\ SecretsStand)
                   /\ []ItemsTypeOK /\ []KitTypeOK
                   /\ [](ReportsTypeOK /\ ReadyIsLatest) /\ [](ScanTypeOK /\ ScansAreOrderly)
    BY EachPageIsItsModule, EntryIsTyped, SecretsAreKept, DeletionsAccounted, KitIsTyped,
       ReadyIsTheLast, ScansOneByOne
  <1>5. /\ EntryTypeOK /\ BackupsTypeOK /\ (TargetTypeOK /\ SecretsStand)
        /\ ItemsTypeOK /\ KitTypeOK /\ EditTypeOK
        /\ (ReportsTypeOK /\ ReadyIsLatest) /\ (ScanTypeOK /\ ScansAreOrderly)
        => WebTypeOK
    BY DEF WebTypeOK
  <1> QED
    BY <1>1, <1>2, <1>3, <1>4, <1>5, PTL

(* Whatever pages there are and whichever requests go unanswered: what the *)
(* pages promise without a condition on answers.                           *)
THEOREM PagesKeepTheirPromises ==
    WebSpec => /\ [](EntriesStayApart /\ SecretsStand /\ ReadyIsLatest /\ ScansAreOrderly)
               /\ NoAdditionIsLost /\ NoDeletionIsLost
  <1>1. WebSpec => /\ []EntriesStayApart /\ [](TargetTypeOK /\ SecretsStand)
                   /\ [](ReportsTypeOK /\ ReadyIsLatest) /\ [](ScanTypeOK /\ ScansAreOrderly)
                   /\ NoAdditionIsLost /\ NoDeletionIsLost
    BY EachPageIsItsModule, EntriesKeptApart, SecretsAreKept, DeletionsAccounted,
       ReadyIsTheLast, ScansOneByOne, AdditionsAccounted
  <1> QED
    BY <1>1, PTL

(* What they promise if those requests are answered which the promises are *)
(* about: the pages keep to it in the application as each does alone, and  *)
(* a save that was refused, be it retried, repeats nothing and says what   *)
(* is so.                                                                  *)
THEOREM AnsweredPagesKeepTheirs ==
    ASSUME AssignmentsHeard, {"record", "put"} \cap Unanswered = {},
           "dialog" \notin Unanswered, "refetch" \notin Unanswered
    PROVE  WebSpec => [](/\ ProgressIsTrue /\ SuccessMeansSaved /\ NothingTwice
                         /\ ConfirmedOnce /\ SavedAsShown)
  <1>1. EntrySpec => []ProgressIsTrue /\ []SuccessMeansSaved /\ []NothingTwice
    BY SavesStartFromWhatIsServed, RetriesAreSafe, RetriesRepeatNothing
  <1>2. (BackupsSpec => [](BackupsTypeOK /\ ConfirmedOnce)) /\ (EditSpec => []SavedAsShown)
    BY ConfirmedWithTheWord, SavesAsShown, PTL
  <1> QED
    BY <1>1, <1>2, EachPageIsItsModule, PTL
=============================================================================
