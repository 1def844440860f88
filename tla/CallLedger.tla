----------------------------- MODULE CallLedger -----------------------------
(***************************************************************************)
(* What the rest of the platform may rely on about a call session row,      *)
(* whichever threads wrote it and however their transactions interleaved:   *)
(* a session is created queued, its status then only takes values an        *)
(* Asterisk event or a hangup request stands for, and its end is recorded   *)
(* once and for all.  CallAdmission and CallEvents implement it.            *)
(***************************************************************************)
EXTENDS CallStatus

CONSTANT Calls

VARIABLES status,   \* [Calls -> session status, or "absent" before the insert]
          ended     \* [Calls -> BOOLEAN]: is ended_at set?

ledger == <<status, ended>>

Init ==
  /\ status \in [Calls -> {"absent", "queued"}]
  /\ ended = [c \in Calls |-> FALSE]

Create(c) ==
  /\ status[c] = "absent"
  /\ status' = [status EXCEPT ![c] = "queued"]
  /\ UNCHANGED ended

(* An event reports progress.  It may do so late, when the call has ended.  *)
Progress(c) ==
  /\ status[c] # "absent"
  /\ \E st \in ProgressStatuses : status' = [status EXCEPT ![c] = st]
  /\ UNCHANGED ended

(* A Hangup event.  Its handler writes the status only when it read another *)
(* one, so a status written in between can survive it.                      *)
End(c) ==
  /\ status[c] # "absent"
  /\ \E st \in HangupStatuses \cup {status[c]} :
       status' = [status EXCEPT ![c] = st]
  /\ ended' = [ended EXCEPT ![c] = TRUE]

(* A hangup request is accepted.                                            *)
MarkHangup(c) ==
  /\ status[c] # "absent"
  /\ status' = [status EXCEPT ![c] = "hangup"]
  /\ UNCHANGED ended

Next == \E c \in Calls : Create(c) \/ Progress(c) \/ End(c) \/ MarkHangup(c)

Spec == Init /\ [][Next]_ledger
=============================================================================
