------------------------------- MODULE WebApp -------------------------------
(***************************************************************************)
(* The pages of the web application.  A browser shows one page at a time   *)
(* and the pages share no state but the server's, of which each module has *)
(* the part its page works on: a behaviour visits one of Pages, and the    *)
(* others stay as they are.                                                *)
(***************************************************************************)
EXTENDS ItemEntry, BackupsPage, TargetForm, ItemsPage, KitPage, EditRecord,
        ReportsPage, ScanPage

CONSTANT Pages

VARIABLE visited

webVars == <<visited, entryVars, backupsVars, targetVars, itemsVars, kitVars, editVars,
             reportsVars, scanVars>>

WebInit ==
    /\ visited \in Pages
    /\ EntryInit /\ BackupsInit /\ TargetInit /\ ItemsInit /\ ReportsInit /\ ScanInit
    /\ IF visited = "kit" THEN KitInit ELSE KitInit /\ \A i \in Goods : place[i] = None
    /\ IF visited = "edit" THEN EditInit
       ELSE EditInit /\ record.tags = {} /\ record.text = CHOOSE x \in Texts : TRUE

Entry   == visited = "entry" /\ EntryNext
           /\ UNCHANGED <<backupsVars, targetVars, itemsVars, kitVars, editVars, reportsVars, scanVars>>
Administration == visited = "backups" /\ BackupsNext
           /\ UNCHANGED <<entryVars, targetVars, itemsVars, kitVars, editVars, reportsVars, scanVars>>
Credentials == visited = "target" /\ TargetNext
           /\ UNCHANGED <<entryVars, backupsVars, itemsVars, kitVars, editVars, reportsVars, scanVars>>
ItemList == visited = "items" /\ ItemsNext
           /\ UNCHANGED <<entryVars, backupsVars, targetVars, kitVars, editVars, reportsVars, scanVars>>
Kit     == visited = "kit" /\ KitNext
           /\ UNCHANGED <<entryVars, backupsVars, targetVars, itemsVars, editVars, reportsVars, scanVars>>
Edit    == visited = "edit" /\ EditNext
           /\ UNCHANGED <<entryVars, backupsVars, targetVars, itemsVars, kitVars, reportsVars, scanVars>>
Reports == visited = "reports" /\ ReportsNext
           /\ UNCHANGED <<entryVars, backupsVars, targetVars, itemsVars, kitVars, editVars, scanVars>>
Scan    == visited = "scan" /\ ScanNext
           /\ UNCHANGED <<entryVars, backupsVars, targetVars, itemsVars, kitVars, editVars, reportsVars>>

WebNext ==
    /\ Entry \/ Administration \/ Credentials \/ ItemList \/ Kit \/ Edit \/ Reports \/ Scan
    /\ UNCHANGED visited

WebSpec == WebInit /\ [][WebNext]_webVars

(* The type invariants of the pages.                                       *)
WebTypeOK ==
    /\ EntryTypeOK /\ BackupsTypeOK /\ TargetTypeOK /\ ItemsTypeOK /\ KitTypeOK
    /\ EditTypeOK /\ ReportsTypeOK /\ ScanTypeOK
=============================================================================
