----------------------------- MODULE CallStatus -----------------------------
(***************************************************************************)
(* The status vocabularies of a call and the pure maps between them, shared *)
(* by every module about calls.  A call has two rows: a CallLog and a       *)
(* CallSession, whose vocabularies differ in one spelling (canceled /       *)
(* cancelled) and in "hangup", which only a session can be in.              *)
(***************************************************************************)

(* "no status": what _resolve_status returns for an event that changes none. *)
NoStatus == "none"

(* What the code writes to CallLog.status and to CallSession.status.        *)
LogStatuses ==
  {"queued", "ringing", "answered",
   "completed", "failed", "no_answer", "busy", "canceled"}

SessionStatuses == (LogStatuses \ {"canceled"}) \cup {"cancelled", "hangup"}

(* The statuses the capacity counts look for.  Nothing ever writes          *)
(* "initiating".                                                            *)
ActiveSessionStatuses ==
  {"queued", "initiating", "ringing", "answered", "hangup"}

(* The statuses a session must have to be retried.                          *)
RetryableStatuses == {"failed", "busy", "no_answer", "cancelled"}

ToSessionStatus(logStatus) ==
  IF logStatus = "canceled" THEN "cancelled" ELSE logStatus

(***************************************************************************)
(* _resolve_status.  The detail of an event is the class its Response and   *)
(* Reason (OriginateResponse), DialStatus (DialEnd) or cause (Hangup) falls *)
(* into; the other events have none.                                        *)
(***************************************************************************)
OriginateOutcome ==
  [success |-> "ringing", busy |-> "busy", cancel |-> "canceled",
   no_answer |-> "no_answer", other |-> "failed"]

DialOutcome ==
  [ANSWER |-> "answered", BUSY |-> "busy", NOANSWER |-> "no_answer",
   CANCEL |-> "failed", CHANUNAVAIL |-> "failed", CONGESTION |-> "failed",
   UNLISTED |-> NoStatus]

HangupOutcome ==
  [busy |-> "busy", no_answer |-> "no_answer", normal |-> "completed",
   cancel |-> "canceled", other |-> "failed"]

ResolveStatus(name, detail) ==
  CASE name = "OriginateResponse" -> OriginateOutcome[detail]
    [] name = "DialBegin" -> "ringing"
    [] name \in {"BridgeEnter", "BridgeCreate"} -> "answered"
    [] name = "DialEnd" -> DialOutcome[detail]
    [] name = "Hangup" -> HangupOutcome[detail]
    [] OTHER -> NoStatus

(* The session statuses an event other than Hangup, and a Hangup, can set.  *)
ProgressStatuses ==
  {"ringing", "answered", "busy", "cancelled", "no_answer", "failed"}

HangupStatuses == {"busy", "no_answer", "completed", "cancelled", "failed"}
=============================================================================
