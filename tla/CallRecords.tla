------------------------------ MODULE CallRecords ------------------------------
(***************************************************************************)
(* What is known of calls once they were dialled: the rows that the events   *)
(* of CallEvents and the records of CallReconciliation tell of, and the      *)
(* numbers of CallMetrics made of them.  Each of the three has the columns   *)
(* of these rows that it is about, as variables of its own, so that a        *)
(* behaviour of this module is one of each.                                 *)
(***************************************************************************)
EXTENDS CallEvents, CallMetrics

CONSTANTS Cdrs, CdrCall, Leg, Disposition, Number, Near, HasLinked, Hangups, Writers, MaxEvents

VARIABLES call_logs, call_sessions, cdr, reader, batch, overlapped, crossed, guessed, events

Cdr == INSTANCE CallReconciliation
         WITH log <- call_logs, ses <- call_sessions, handler <- reader, CallOf <- CdrCall

ASSUME RecordsAreOfCalls == Cdr!ConstantsOK

-----------------------------------------------------------------------------
(* The two rows of a call tell one story, with ids of that call: see          *)
(* CallReconciliation.                                                      *)
RowsTellOneStory == Cdr!RowsTellOneStory

(* What events have recorded stands, whatever the command does: see           *)
(* CallReconciliation.                                                      *)
EventsStand == Cdr!EventsStand

(* A call the command was applied to tells what its record tells: see         *)
(* CallReconciliation.                                                      *)
RecordIsTold == Cdr!RecordIsTold
=============================================================================
