----------------------------- MODULE ApiClient -----------------------------
(***************************************************************************)
(* A request of the web application as its callers see it (`request' of    *)
(* lib/api.ts through the proxy of lib/api-proxy.ts): applied and          *)
(* confirmed, refused, or applied without an answer.  The last is what the *)
(* deadline of ten seconds, a proxy that answers 502 or a connection that  *)
(* breaks leave behind; nothing sends a mutation twice by itself.          *)
(***************************************************************************)

CONSTANTS
    None,
    Unanswered   \* the kinds of requests whose answers may get lost

Answered == [applied |-> TRUE, heard |-> TRUE]
Refused  == [applied |-> FALSE, heard |-> FALSE]
Lost     == [applied |-> TRUE, heard |-> FALSE]

Outcomes(kind) == {Answered, Refused} \cup (IF kind \in Unanswered THEN {Lost} ELSE {})
=============================================================================
