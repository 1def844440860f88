------------------------ MODULE MCCallReconciliation ------------------------
(***************************************************************************)
(* CallReconciliation and CallMetrics for TLC.  In a behaviour either the   *)
(* records of two calls are reconciled, or logs accumulate over which the   *)
(* number of calls at a time is computed, for a window chosen at first.     *)
(* There are no events of CallEvents, whose part stays at rest.             *)
(***************************************************************************)
EXTENDS CallRecords, TLC

CONSTANTS n1, w1, w2,
          Times      \* times at which calls begin and end

(* Two calls to one number; the second has a record for each of its two      *)
(* channels, of which the other one began long after the calls.              *)
SomeNumbers == <<n1, n1>>
TheirCalls == <<1, 2, 2>>
TheirLegs == <<1, 1, 2>>
TheirDispositions == <<"ANSWERED", "BUSY", "CANCEL">>
SomeNear == <<Calls, Calls, {}>>

OfNoEvent == <<>>

WritersAreAlike == Permutations(Writers)

(* A call begins, and ends, or is said to have lasted, or is going on.       *)
SomeLogs ==
  {l \in [started : Times, ended : Times \cup {None}, duration : {None, 0, 1}] :
     l.ended # None => l.ended >= l.started /\ l.duration = None}
SomeWindows == [from : Times \cup {None}, to : Times \cup {None}]

-----------------------------------------------------------------------------
rows == <<call_logs, call_sessions, cdr, reader, batch, overlapped, crossed, guessed, events>>

mcvars == <<vars, rows, metricsVars>>

MCInit == Init /\ Cdr!Init /\ NoLogs

(* Which of the two a behaviour is about is decided by its first step.       *)
MCNext ==
  \/ Cdr!Init /\ AddLog /\ UNCHANGED <<vars, rows>>
  \/ /\ logs = <<>> /\ window = [from |-> None, to |-> None]
     /\ Cdr!Next
     /\ UNCHANGED <<vars, metricsVars>>

MCSpec == MCInit /\ [][MCNext]_mcvars
=============================================================================
