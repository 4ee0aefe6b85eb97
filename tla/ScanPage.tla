------------------------------ MODULE ScanPage ------------------------------
(***************************************************************************)
(* The page that scans codes with the camera (app/scan/page.tsx).  The     *)
(* camera calls back for every frame it decodes; the page pauses it and    *)
(* looks the code up; Resume starts over at any time, also while a lookup  *)
(* runs.  Leaving the page does not stop a lookup: its answer still goes   *)
(* to the record it found.                                                 *)
(*                                                                         *)
(* The camera library is modelled by its states: starting, scanning,       *)
(* paused, off.  A pause may fail, and the failure is ignored.  Left out:  *)
(* the page that opens a link with a code (app/scan/[code]/page.tsx), one  *)
(* lookup and one redirection; the words of camera errors.                 *)
(***************************************************************************)
EXTENDS ApiClient, Naturals

CONSTANTS
    Known, Unknown,   \* codes of records, and of nothing
    MaxLookups        \* bound: lookups of a visit

ASSUME ScanAssumption == MaxLookups \in Nat /\ None \notin Known \cup Unknown

VARIABLES
    camera,   \* the state of the scanner
    here,     \* the page is shown
    lastCode, \* lastCodeRef
    pending,  \* pendingScanRef
    lookups,  \* lookups on their way: lookups[c] of code c
    cameraError,
    opened,   \* the record gone to last, None before
    begun,    \* lookups begun
    resumed   \* times Resume was pressed during a lookup

scanVars == <<camera, here, lastCode, pending, lookups, cameraError, opened, begun, resumed>>

QrCodes == Known \cup Unknown
AnyLookup == \E c \in QrCodes : lookups[c] > 0
-----------------------------------------------------------------------------
(* The camera starts, or is refused; started after the page is left, it    *)
(* stays on.                                                               *)
StartCamera ==
    /\ camera = "starting"
    /\ \/ camera' = "scanning" /\ UNCHANGED cameraError
       \/ camera' = "off" /\ cameraError' = TRUE
    /\ UNCHANGED <<here, lastCode, pending, lookups, opened, begun, resumed>>

(* Mutated: a code is looked up while another lookup is pending.           *)
DecodeAny ==
    /\ camera = "scanning" /\ here
    /\ \E c \in QrCodes :
        /\ c # lastCode /\ begun < MaxLookups
        /\ lastCode' = c /\ pending' = TRUE
        /\ lookups' = [lookups EXCEPT ![c] = @ + 1] /\ begun' = begun + 1
    /\ camera' \in {"paused", "scanning"}
    /\ UNCHANGED <<here, cameraError, opened, resumed>>

(* A frame is decoded.                                                     *)
Decode ==
    /\ camera = "scanning" /\ here /\ ~pending
    /\ \E c \in QrCodes :
        /\ c # lastCode /\ begun < MaxLookups
        /\ lastCode' = c /\ pending' = TRUE
        /\ lookups' = [lookups EXCEPT ![c] = @ + 1] /\ begun' = begun + 1
    /\ camera' \in {"paused", "scanning"}
    /\ UNCHANGED <<here, cameraError, opened, resumed>>

(* Going to a record leaves the page; the camera is stopped.               *)
AnswerScan ==
    /\ \E c \in QrCodes, o \in Outcomes("scan") :
        /\ lookups[c] > 0
        /\ lookups' = [lookups EXCEPT ![c] = @ - 1]
        /\ pending' = FALSE
        /\ IF o.heard /\ c \in Known
           THEN /\ opened' = c /\ here' = FALSE
                /\ camera' = IF camera = "starting" THEN camera ELSE "off"
                /\ UNCHANGED cameraError
           ELSE cameraError' = TRUE /\ UNCHANGED <<opened, here, camera>>
    /\ UNCHANGED <<lastCode, begun, resumed>>

(* resume throws unless the camera is paused.                              *)
handleResume ==
    /\ here
    /\ lastCode' = None /\ pending' = FALSE
    /\ camera' = IF camera = "paused" THEN "scanning" ELSE camera
    /\ cameraError' = (camera # "paused")
    /\ resumed' = IF AnyLookup /\ resumed < MaxLookups THEN resumed + 1 ELSE resumed
    /\ UNCHANGED <<here, lookups, opened, begun>>

(* The user goes elsewhere.                                                *)
LeaveScan ==
    /\ here
    /\ here' = FALSE
    /\ camera' = IF camera = "starting" THEN camera ELSE "off"
    /\ UNCHANGED <<lastCode, pending, lookups, cameraError, opened, begun, resumed>>
-----------------------------------------------------------------------------
ScanInit ==
    /\ camera = "starting" /\ here = TRUE /\ lastCode = None /\ pending = FALSE
    /\ lookups = [c \in QrCodes |-> 0] /\ cameraError = FALSE
    /\ opened = None /\ begun = 0 /\ resumed = 0

ScanNext == StartCamera \/ Decode \/ AnswerScan \/ handleResume \/ LeaveScan

ScanSpec == ScanInit /\ [][ScanNext]_scanVars
-----------------------------------------------------------------------------
(* The values of the variables.                                            *)
ScanTypeOK ==
    /\ camera \in {"starting", "scanning", "paused", "off"}
    /\ {here, pending, cameraError} \subseteq BOOLEAN
    /\ lastCode \in QrCodes \cup {None} /\ opened \in QrCodes \cup {None}
    /\ lookups \in [QrCodes -> 0..MaxLookups]
    /\ begun \in 0..MaxLookups /\ resumed \in 0..MaxLookups

(* Unless Resume is pressed during a lookup there is one at a time, though *)
(* frames keep coming in: one scan opens one record.                       *)
OneLookupAtATime ==
    resumed = 0 => \A c, e \in QrCodes : lookups[c] > 0 /\ lookups[e] > 0
                                     => c = e /\ lookups[c] = 1

(* While the page is shown, a camera that stands still waits for an answer *)
(* or the page says what went wrong.                                       *)
StillnessIsExplained ==
    here /\ camera \in {"paused", "off"} => AnyLookup \/ cameraError

(* Frames, answers and Resume, in whatever order, leave no second lookup   *)
(* and no page that hangs without a word.                                  *)
ScansAreOrderly == OneLookupAtATime /\ StillnessIsExplained
=============================================================================
