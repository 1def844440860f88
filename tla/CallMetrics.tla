----------------------------- MODULE CallMetrics -----------------------------
(***************************************************************************)
(* How many calls were going on at once: the estimate in the answer of      *)
(* GET /calls/metrics, computed from the logs by sweeping over the times    *)
(* at which calls begin and end.  Logs of calls accumulate, and whatever    *)
(* logs there are, the estimate could be asked for.                         *)
(***************************************************************************)
EXTENDS Integers, Sequences, FiniteSets, FiniteSetsExt

CONSTANTS
  NoTime,   \* a time that is not known, or not asked for
  Logs,     \* the logs there may be
  Windows,  \* the windows that may be asked for
  TheTime,  \* the time at which it is asked
  MaxLogs   \* bound: logs that accumulate

ASSUME LogsHaveTimes ==
  /\ Logs \subseteq [started : Nat, ended : Nat \cup {NoTime}, duration : Int \cup {NoTime}]
  /\ Windows \subseteq [from : Nat \cup {NoTime}, to : Nat \cup {NoTime}]
  /\ TheTime \in Nat /\ MaxLogs \in Nat

VARIABLES
  logs,     \* the rows of call_logs, as the query returns them
  window    \* date_from and date_to

metricsVars == <<logs, window>>

NoLogs == logs = <<>> /\ window \in Windows

(* What becomes of a row is not followed: any log may be there.             *)
AddLog ==
  /\ Len(logs) < MaxLogs
  /\ \E l \in Logs : logs' = Append(logs, l)
  /\ UNCHANGED window

MetricsSpec == NoLogs /\ [][AddLog]_metricsVars

-----------------------------------------------------------------------------
(* The logs the query finds: those of calls that began in the window.       *)
Selected ==
  {i \in DOMAIN logs : /\ window.from # NoTime => logs[i].started >= window.from
                       /\ window.to # NoTime => logs[i].started <= window.to}

WindowStart ==
  IF window.from # NoTime THEN window.from
  ELSE IF Selected = {} THEN TheTime ELSE Min({logs[i].started : i \in Selected})

WindowEnd == IF window.to # NoTime THEN window.to ELSE TheTime

(* A call without an end ended when it had lasted as long as it did, or is  *)
(* still going on.                                                          *)
EndOf(l) ==
  IF l.ended # NoTime THEN l.ended
  ELSE IF l.duration # NoTime THEN l.started + Max({0, l.duration}) ELSE TheTime

(* Where a call begins and ends, cut to the window.                         *)
BeginOf(i) == Max({logs[i].started, WindowStart})
CutEnd(i) == Min({EndOf(logs[i]), WindowEnd})

Overlapping ==
  {i \in Selected : /\ EndOf(logs[i]) >= WindowStart
                    /\ logs[i].started <= WindowEnd
                    /\ CutEnd(i) >= BeginOf(i)}

BeginMark(i) == [at |-> BeginOf(i), delta |-> 1, log |-> i]
EndMark(i) == [at |-> CutEnd(i), delta |-> -1, log |-> i]

Marks == {BeginMark(i) : i \in Overlapping} \cup {EndMark(i) : i \in Overlapping}

(* Slip: calls that begin are counted before those that end just then.      *)
GreatestFirst(x, y) ==
  \/ x.at < y.at
  \/ x.at = y.at /\ x.delta > y.delta
  \/ x.at = y.at /\ x.delta = y.delta /\ x.log < y.log

(* The sort is stable.                                                      *)
Before(x, y) ==
  \/ x.at < y.at
  \/ x.at = y.at /\ x.delta < y.delta
  \/ x.at = y.at /\ x.delta = y.delta /\ x.log < y.log

(* The sum of what has been passed, once the sweep has come to x.           *)
CountAt(x) ==
  LET passed(d) == {y \in Marks : y.delta = d /\ (y = x \/ Before(y, x))}
  IN  Cardinality(passed(1)) - Cardinality(passed(-1))

(* _compute_peak_concurrency                                                *)
PeakConcurrency == Max({0} \cup {CountAt(x) : x \in Marks})

-----------------------------------------------------------------------------
(* The calls, of those that began in the window, that are going on at a      *)
(* time: from their begin until just before their end.                      *)
GoingOn(t) == {i \in Selected : logs[i].started <= t /\ t < EndOf(logs[i])}

(* The sweep finds the greatest number of calls at one time, of calls that   *)
(* touch, begin together, last no time, end before they begin or are going   *)
(* on, and for windows that cut them.                                       *)
PeakIsFound ==
  PeakConcurrency = Max({0} \cup {Cardinality(GoingOn(t)) : t \in 0 .. WindowEnd - 1})
=============================================================================
