--------------------------- MODULE CallEvents_proofs ---------------------------
(***************************************************************************)
(* Theorems about CallEvents, for any number of calls, events and threads;   *)
(* about CallReconciliation, for any number of calls, records and events; and *)
(* about CallMetrics, for any logs and window.                                *)
(***************************************************************************)
EXTENDS CallRecords, FiniteSetTheorems, TLAPS

(* What one row has marked, the other has as well.                          *)
Within(row, other) ==
  /\ row.answered => other.answered
  /\ row.ended => other.ended
  /\ row.uniqueid => other.uniqueid
  /\ row.linkedid => other.linkedid

RowsHold ==
  \A c \in Calls :
    /\ Within(log[c], ses[c])
    /\ c \notin raced => /\ SameStory(c)
                         /\ ses[c].uniqueid => log[c].uniqueid
                         /\ ses[c].linkedid => log[c].linkedid

RecordsHold ==
  \A e \in Events :
    /\ record[e].state = "none" => record[e].id < MaxRecords
    /\ e \in clean => /\ record[e].state # "failed"
                      /\ applied[e] = IF record[e].state = "processed" THEN 1 ELSE 0

(* What is known of a handler: what it is about, ...                        *)
Located(r) ==
  /\ r.pc # "idle" => r.call \in Calls
  /\ r.pc \in {"delete", "dedupe", "log", "session", "commit"} =>
       r.event \in Events /\ r.call = CallOf[r.event]
  /\ r.pc = "delete" => r.seen.id < MaxRecords
  /\ r.pc = "hangup" => r.ses # NotFound

(* ... that what it has read has not been unset, and that whoever found the *)
(* log finds the session, ...                                               *)
Current(r) ==
  /\ r.pc \in {"session", "commit", "hangup"} /\ r.log # NotFound => Within(r.log, log[r.call])
  /\ r.pc \in {"commit", "hangup"} /\ r.ses # NotFound => Within(r.ses, ses[r.call])
  /\ r.pc = "session" /\ r.log # NotFound => Finds(r.event, ses[r.call])
  /\ r.pc = "commit" /\ r.log # NotFound => r.ses # NotFound

(* ... that it has read what is there, unless the call has raced, ...       *)
Fresh(r) ==
  r.pc \in {"session", "commit", "hangup"} /\ r.call \notin raced =>
    /\ r.log # NotFound => r.log = log[r.call]
    /\ r.pc # "session" /\ r.ses # NotFound => r.ses = ses[r.call]
    /\ r.pc = "session" /\ r.log = NotFound => ~ Finds(r.event, log[r.call])
    /\ r.pc = "commit" /\ r.log = NotFound => r.ses = NotFound

(* ... and that it has seen no record of an event that is clean.            *)
Unrecorded(r) ==
  r.event \in clean =>
    /\ r.pc # "dedupe"
    /\ r.pc \in {"log", "session", "commit"} => r.seen.state = "none"

Claims(r) == Located(r) /\ Current(r) /\ Fresh(r) /\ Unrecorded(r)

HandlersHold == \A h \in Handlers : \A r : r = handler[h] => Claims(r)

IInv == TypeOK /\ RowsHold /\ RecordsHold /\ HandlersHold

-----------------------------------------------------------------------------
(* What the ORM writes.                                                     *)
LEMMA OverlayIsRow ==
  ASSUME NEW S, NEW cur \in Row(S), NEW read \in Row(S), NEW new \in Row(S)
  PROVE  /\ Overlay(cur, read, new) \in Row(S)
         /\ Overlay(cur, read, new).status =
              IF new.status = read.status THEN cur.status ELSE new.status
         /\ Overlay(cur, read, new).answered =
              IF new.answered = read.answered THEN cur.answered ELSE new.answered
         /\ Overlay(cur, read, new).ended =
              IF new.ended = read.ended THEN cur.ended ELSE new.ended
         /\ Overlay(cur, read, new).uniqueid =
              IF new.uniqueid = read.uniqueid THEN cur.uniqueid ELSE new.uniqueid
         /\ Overlay(cur, read, new).linkedid =
              IF new.linkedid = read.linkedid THEN cur.linkedid ELSE new.linkedid
<1> DEFINE o == Overlay(cur, read, new)
           r == [status |-> IF new.status = read.status THEN cur.status ELSE new.status,
                 answered |-> IF new.answered = read.answered THEN cur.answered ELSE new.answered,
                 ended |-> IF new.ended = read.ended THEN cur.ended ELSE new.ended,
                 uniqueid |-> IF new.uniqueid = read.uniqueid THEN cur.uniqueid ELSE new.uniqueid,
                 linkedid |-> IF new.linkedid = read.linkedid THEN cur.linkedid ELSE new.linkedid]
<1>1. DOMAIN cur = {"status", "answered", "ended", "uniqueid", "linkedid"}
  BY DEF Row
<1>2. DOMAIN o = {"status", "answered", "ended", "uniqueid", "linkedid"}
  BY <1>1 DEF Overlay
<1>3. /\ o.status = r.status /\ o.answered = r.answered /\ o.ended = r.ended
      /\ o.uniqueid = r.uniqueid /\ o.linkedid = r.linkedid
  BY <1>1 DEF Overlay
<1>4. r \in Row(S)
  BY DEF Row
<1>5. o = r
  BY <1>1, <1>2, <1>3 DEF Overlay
<1>6. QED
  BY <1>3, <1>4, <1>5

LEMMA OutcomesAreKnown ==
  ASSUME NEW e \in Events
  PROVE  /\ Outcome(e) \in (LogStatuses \ {"queued"}) \cup {NoStatus}
         /\ Name[e] = "Hangup" => ToSessionStatus(Outcome(e)) \in HangupStatuses
         /\ Name[e] # "Hangup" /\ Outcome(e) # NoStatus =>
              ToSessionStatus(Outcome(e)) \in ProgressStatuses
<1> DEFINE n == Name[e]
           d == Detail[e]
<1>1. CASE n = "OriginateResponse"
  BY <1>1, EventsHaveDetails
  DEF Outcome, ResolveStatus, OriginateOutcome, LogStatuses, NoStatus, ToSessionStatus, ProgressStatuses
<1>2. CASE n = "DialEnd"
  BY <1>2, EventsHaveDetails
  DEF Outcome, ResolveStatus, DialOutcome, LogStatuses, NoStatus, ToSessionStatus, ProgressStatuses
<1>3. CASE n = "Hangup"
  BY <1>3, EventsHaveDetails
  DEF Outcome, ResolveStatus, HangupOutcome, LogStatuses, NoStatus, ToSessionStatus, HangupStatuses
<1>4. CASE n \notin {"OriginateResponse", "DialEnd", "Hangup"}
  BY <1>4
  DEF Outcome, ResolveStatus, LogStatuses, NoStatus, ToSessionStatus, ProgressStatuses
<1>5. QED
  BY <1>1, <1>2, <1>3, <1>4

LEMMA AppliedIsRow ==
  ASSUME NEW S, NEW row \in Row(S), NEW e \in Events, NEW st, Outcome(e) # NoStatus => st \in S
  PROVE  /\ Applied(row, e, st) \in Row(S)
         /\ Applied(row, e, st).status = IF Outcome(e) = NoStatus THEN row.status ELSE st
         /\ Within(row, Applied(row, e, st))
         /\ Applied(row, e, st).uniqueid
         /\ Applied(row, e, st).answered <=> row.answered \/ Outcome(e) = "answered"
         /\ Applied(row, e, st).ended <=> row.ended \/ Name[e] = "Hangup"
         /\ Applied(row, e, st).linkedid <=> row.linkedid \/ Name[e] # "OriginateResponse"
  BY DEF Applied, Row, Within

(* A handler writes a mark that is there, or that the event sets.           *)
LEMMA WrittenIsRow ==
  ASSUME NEW S, NEW cur \in Row(S), NEW read \in Row(S), Within(read, cur),
         NEW e \in Events, NEW st, Outcome(e) # NoStatus => st \in S,
         NEW w, w = Overlay(cur, read, Applied(read, e, st))
  PROVE  /\ w \in Row(S)
         /\ w.uniqueid
         /\ w.answered <=> cur.answered \/ Outcome(e) = "answered"
         /\ w.ended <=> cur.ended \/ Name[e] = "Hangup"
         /\ w.linkedid <=> cur.linkedid \/ Name[e] # "OriginateResponse"
         /\ w.status = cur.status \/ (Outcome(e) # NoStatus /\ w.status = st)
         /\ read = cur => w.status = IF Outcome(e) = NoStatus THEN cur.status ELSE st
<1> DEFINE a == Applied(read, e, st)
<1>1. /\ a \in Row(S)
      /\ a.status = IF Outcome(e) = NoStatus THEN read.status ELSE st
      /\ a.uniqueid
      /\ a.answered <=> read.answered \/ Outcome(e) = "answered"
      /\ a.ended <=> read.ended \/ Name[e] = "Hangup"
      /\ a.linkedid <=> read.linkedid \/ Name[e] # "OriginateResponse"
  BY AppliedIsRow
<1> HIDE DEF a
<1>2. w = Overlay(cur, read, a)
  BY DEF a
<1>3. /\ w \in Row(S)
      /\ w.status = IF a.status = read.status THEN cur.status ELSE a.status
      /\ w.answered = IF a.answered = read.answered THEN cur.answered ELSE a.answered
      /\ w.ended = IF a.ended = read.ended THEN cur.ended ELSE a.ended
      /\ w.uniqueid = IF a.uniqueid = read.uniqueid THEN cur.uniqueid ELSE a.uniqueid
      /\ w.linkedid = IF a.linkedid = read.linkedid THEN cur.linkedid ELSE a.linkedid
  <2>1. a \in Row(S)
    BY <1>1
  <2>2. QED
    BY <1>2, <2>1, OverlayIsRow, cur \in Row(S), read \in Row(S)
<1>4. /\ read.answered \in BOOLEAN /\ read.ended \in BOOLEAN
      /\ read.uniqueid \in BOOLEAN /\ read.linkedid \in BOOLEAN
      /\ cur.answered \in BOOLEAN /\ cur.ended \in BOOLEAN
      /\ cur.uniqueid \in BOOLEAN /\ cur.linkedid \in BOOLEAN
      /\ a.answered \in BOOLEAN /\ a.ended \in BOOLEAN
      /\ a.uniqueid \in BOOLEAN /\ a.linkedid \in BOOLEAN
  BY <1>1 DEF Row
<1>5. w.uniqueid
  BY <1>1, <1>3, <1>4 DEF Within
<1>6. w.answered <=> cur.answered \/ Outcome(e) = "answered"
  BY <1>1, <1>3, <1>4 DEF Within
<1>7. w.ended <=> cur.ended \/ Name[e] = "Hangup"
  BY <1>1, <1>3, <1>4 DEF Within
<1>8. w.linkedid <=> cur.linkedid \/ Name[e] # "OriginateResponse"
  BY <1>1, <1>3, <1>4 DEF Within
<1>9. /\ w.status = cur.status \/ (Outcome(e) # NoStatus /\ w.status = st)
      /\ read = cur => w.status = IF Outcome(e) = NoStatus THEN cur.status ELSE st
  BY <1>1, <1>3
<1>10. QED
  BY <1>3, <1>5, <1>6, <1>7, <1>8, <1>9

(* A hangup request writes a status and no marks.                           *)
LEMMA MarkedIsRow ==
  ASSUME NEW S, NEW cur \in Row(S), NEW read \in Row(S), NEW st \in S,
         NEW w, w = Overlay(cur, read, [read EXCEPT !.status = st])
  PROVE  /\ w \in Row(S)
         /\ w.answered = cur.answered
         /\ w.ended = cur.ended
         /\ w.uniqueid = cur.uniqueid
         /\ w.linkedid = cur.linkedid
         /\ w.status \in {cur.status, st}
         /\ read = cur => w.status = st
<1> DEFINE a == [read EXCEPT !.status = st]
<1>1. /\ a \in Row(S)
      /\ a.status = st
      /\ a.answered = read.answered
      /\ a.ended = read.ended
      /\ a.uniqueid = read.uniqueid
      /\ a.linkedid = read.linkedid
  BY DEF Row
<1> HIDE DEF a
<1>2. w = Overlay(cur, read, a)
  BY DEF a
<1>3. QED
  BY <1>1, <1>2, OverlayIsRow

LEMMA NotFoundIsNoRow ==
  NotFound \notin Row(LogStatuses) \cup Row(SessionStatuses)
<1>1. NotFound.status = "none"
  BY DEF NotFound, Queued
<1>2. "none" \notin LogStatuses \cup SessionStatuses
  BY DEF LogStatuses, SessionStatuses
<1>3. QED
  BY <1>1, <1>2 DEF Row

-----------------------------------------------------------------------------
LEMMA ClaimsOfIdle ==
  ASSUME TypeOK
  PROVE  Claims(Idle)
  BY EventsAreOfCalls DEF TypeOK, Claims, Located, Current, Fresh, Unrecorded, Idle

LEMMA IdleIsTyped == Idle \in HandlerState
  BY EventsAreOfCalls DEF Idle, HandlerState, NoRecord, Records, NotFound

(* What is known of a handler stays known while the rows stay and no event  *)
(* becomes clean.                                                           *)
LEMMA ClaimsStay ==
  ASSUME NEW x, Claims(x), UNCHANGED <<log, ses, raced>>, clean' \subseteq clean
  PROVE  Claims(x)'
<1>1. Located(x)'
  BY DEF Claims, Located
<1>2. Current(x)'
  BY DEF Claims, Current
<1>3. Fresh(x)'
  BY DEF Claims, Fresh
<1>4. Unrecorded(x)'
  BY DEF Claims, Unrecorded
<1>5. QED
  BY <1>1, <1>2, <1>3, <1>4 DEF Claims

(* A step of one handler that writes no row.                                *)
LEMMA OneHandlerMoves ==
  ASSUME TypeOK, HandlersHold, NEW h \in Handlers, NEW r, Claims(r)',
         handler' = [handler EXCEPT ![h] = r],
         UNCHANGED <<log, ses, raced>>, clean' \subseteq clean
  PROVE  HandlersHold'
<1> SUFFICES ASSUME NEW g \in Handlers, NEW x, x = handler'[g]
             PROVE  Claims(x)'
  BY DEF HandlersHold
<1>1. CASE g = h
  <2>1. x = r
    BY <1>1 DEF TypeOK
  <2>2. QED
    BY <2>1
<1>2. CASE g # h
  <2>1. x = handler[g]
    BY <1>2 DEF TypeOK
  <2>2. Claims(x)
    BY <2>1 DEF HandlersHold
  <2>3. QED
    BY <2>2, ClaimsStay
<1>3. QED
  BY <1>1, <1>2

LEMMA RowsStay ==
  ASSUME RowsHold, UNCHANGED <<log, ses, raced>>
  PROVE  RowsHold'
  BY DEF RowsHold, SameStory

LEMMA RecordsStay ==
  ASSUME RecordsHold, UNCHANGED <<record, applied, clean>>
  PROVE  RecordsHold'
  BY DEF RecordsHold

(* A step that only moves a handler.                                        *)
LEMMA OnlyOneMoves ==
  ASSUME IInv, NEW h \in Handlers, NEW r \in HandlerState, Claims(r),
         handler' = [handler EXCEPT ![h] = r], poisoned' \in BOOLEAN,
         UNCHANGED <<log, ses, record, applied, raced, clean>>
  PROVE  IInv'
<1> USE DEF IInv
<1>1. TypeOK'
  BY DEF TypeOK
<1>2. Claims(r)'
  BY ClaimsStay
<1>3. HandlersHold'
  BY <1>2, OneHandlerMoves
<1>4. QED
  BY <1>1, <1>3, RowsStay, RecordsStay

-----------------------------------------------------------------------------
LEMMA InitHolds == Init => IInv
<1> SUFFICES ASSUME Init PROVE IInv
  OBVIOUS
<1>1. Queued \in Row(LogStatuses) /\ Queued \in Row(SessionStatuses)
  BY DEF Queued, Row, LogStatuses, SessionStatuses
<1>2. NoRecord(0) \in Records
  BY EventsAreOfCalls DEF NoRecord, Records
<1>3. TypeOK
  <2>1. log \in [Calls -> Row(LogStatuses)] /\ ses \in [Calls -> Row(SessionStatuses)]
    BY <1>1 DEF Init
  <2>2. record \in [Events -> Records]
    BY <1>2 DEF Init
  <2>3. handler \in [Handlers -> HandlerState]
    BY IdleIsTyped DEF Init
  <2>4. applied \in [Events -> 0 .. 2]
    BY DEF Init
  <2>5. QED
    BY <2>1, <2>2, <2>3, <2>4 DEF Init, TypeOK
<1>4. RowsHold
  BY DEF Init, RowsHold, Within, SameStory, Queued, ToSessionStatus
<1>5. RecordsHold
  BY EventsAreOfCalls DEF Init, RecordsHold, NoRecord
<1>6. HandlersHold
  BY <1>3, ClaimsOfIdle DEF Init, HandlersHold
<1>7. QED
  BY <1>3, <1>4, <1>5, <1>6 DEF IInv

-----------------------------------------------------------------------------
(* The steps that only move a handler.                                      *)
LEMMA ReceiveHolds ==
  ASSUME IInv, NEW h \in Handlers, NEW e \in Events, Receive(h, e)
  PROVE  IInv'
<1>1. PICK rec \in Records : rec = record[e]
  BY DEF IInv, TypeOK
<1> DEFINE s == [Idle EXCEPT !.pc = "log", !.event = e, !.call = CallOf[e], !.seen = rec]
<1>2. s \in HandlerState
  BY <1>1, IdleIsTyped, EventsAreOfCalls DEF HandlerState
<1>3. /\ s.pc = "log" /\ s.event = e /\ s.call = CallOf[e] /\ s.seen = rec
      /\ s.log = NotFound /\ s.ses = NotFound
  BY IdleIsTyped DEF Idle
<1>4. e \in clean => rec.state = "none"
  <2>1. rec.state # "processed"
    BY <1>1 DEF Receive
  <2>2. e \in clean => rec.state # "failed"
    BY <1>1 DEF IInv, RecordsHold
  <2>3. QED
    BY <1>1, <2>1, <2>2 DEF Records
<1>5. handler' = [handler EXCEPT ![h] = s]
  BY <1>1 DEF Receive
<1> HIDE DEF s
<1>6. Claims(s)
  <2>1. Located(s)
    BY <1>3, EventsAreOfCalls DEF Located
  <2>2. Current(s) /\ Fresh(s)
    BY <1>3 DEF Current, Fresh
  <2>3. Unrecorded(s)
    BY <1>3, <1>4 DEF Unrecorded
  <2>4. QED
    BY <2>1, <2>2, <2>3 DEF Claims
<1>7. poisoned' \in BOOLEAN
  BY DEF Receive, IInv, TypeOK
<1>8. QED
  BY <1>2, <1>5, <1>6, <1>7, OnlyOneMoves DEF Receive

(* What is known of a handler, of the rows it reads, and of its claims.     *)
LEMMA HandlerIsTyped ==
  ASSUME IInv, NEW h \in Handlers
  PROVE  /\ handler[h] \in HandlerState
         /\ Claims(handler[h])
         /\ \A c \in Calls : log[c] \in Row(LogStatuses) /\ ses[c] \in Row(SessionStatuses)
         /\ \A e \in Events : record[e] \in Records
<1>1. PICK x : x = handler[h]
  OBVIOUS
<1>2. Claims(x)
  BY <1>1 DEF IInv, HandlersHold
<1>3. QED
  BY <1>1, <1>2 DEF IInv, TypeOK

LEMMA FindLogHolds ==
  ASSUME IInv, NEW h \in Handlers, FindLog(h)
  PROVE  IInv'
<1>1. PICK x : x = handler[h]
  OBVIOUS
<1>2. x \in HandlerState /\ Claims(x) /\ x.pc = "log"
  BY <1>1, HandlerIsTyped DEF FindLog
<1>3. PICK e, c : e = x.event /\ c = x.call
  OBVIOUS
<1>4. e \in Events /\ c \in Calls
  BY <1>2, <1>3 DEF Claims, Located
<1>5. PICK row : row = log[c]
  OBVIOUS
<1>6. row \in Row(LogStatuses) /\ row # NotFound
  BY <1>4, <1>5, NotFoundIsNoRow DEF IInv, TypeOK
<1> DEFINE s == [x EXCEPT !.pc = "session", !.log = IF Finds(e, row) THEN row ELSE NotFound]
<1>7. /\ s \in HandlerState
      /\ s.pc = "session" /\ s.event = e /\ s.call = c /\ s.seen = x.seen
      /\ s.log = IF Finds(e, row) THEN row ELSE NotFound
  BY <1>2, <1>3, <1>6 DEF HandlerState
<1>8. handler' = [handler EXCEPT ![h] = s]
  <2>1. handler \in [Handlers -> HandlerState]
    BY DEF IInv, TypeOK
  <2>2. handler' = [handler EXCEPT ![h] = [@ EXCEPT !.pc = "session",
                      !.log = IF Finds(e, row) THEN row ELSE NotFound]]
    BY <1>1, <1>3, <1>5, <2>1 DEF FindLog
  <2>3. QED
    BY <1>1, <2>1, <2>2
<1> HIDE DEF s
<1>9. Claims(s)
  <2>1. Located(s)
    BY <1>2, <1>3, <1>7 DEF Claims, Located
  <2>2. Finds(e, row) => Finds(e, ses[c])
    BY <1>4, <1>5 DEF IInv, RowsHold, Within, Finds
  <2>3. Within(row, row)
    BY DEF Within
  <2>4. Current(s)
    BY <1>5, <1>7, <2>2, <2>3 DEF Current
  <2>5. Fresh(s)
    BY <1>5, <1>6, <1>7 DEF Fresh
  <2>6. Unrecorded(s)
    BY <1>2, <1>3, <1>7 DEF Claims, Unrecorded
  <2>7. QED
    BY <2>1, <2>4, <2>5, <2>6 DEF Claims
<1>10. poisoned' \in BOOLEAN
  BY DEF FindLog, IInv, TypeOK
<1>11. QED
  BY <1>7, <1>8, <1>9, <1>10, OnlyOneMoves DEF FindLog

LEMMA FindSessionHolds ==
  ASSUME IInv, NEW h \in Handlers, FindSession(h)
  PROVE  IInv'
<1>1. PICK x : x = handler[h]
  OBVIOUS
<1>2. x \in HandlerState /\ Claims(x) /\ x.pc = "session"
  BY <1>1, HandlerIsTyped DEF FindSession
<1>3. PICK e, c : e = x.event /\ c = x.call
  OBVIOUS
<1>4. e \in Events /\ c \in Calls
  BY <1>2, <1>3 DEF Claims, Located
<1>5. PICK row : row = ses[c]
  OBVIOUS
<1>6. row \in Row(SessionStatuses) /\ row # NotFound
  BY <1>4, <1>5, NotFoundIsNoRow DEF IInv, TypeOK
<1> DEFINE s == [x EXCEPT !.pc = "commit", !.ses = IF Finds(e, row) THEN row ELSE NotFound]
<1>7. /\ s \in HandlerState
      /\ s.pc = "commit" /\ s.event = e /\ s.call = c /\ s.seen = x.seen /\ s.log = x.log
      /\ s.ses = IF Finds(e, row) THEN row ELSE NotFound
  BY <1>2, <1>3, <1>6 DEF HandlerState
<1>8. handler' = [handler EXCEPT ![h] = s]
  <2>1. handler \in [Handlers -> HandlerState]
    BY DEF IInv, TypeOK
  <2>2. handler' = [handler EXCEPT ![h] = [@ EXCEPT !.pc = "commit",
                      !.ses = IF Finds(e, row) THEN row ELSE NotFound]]
    BY <1>1, <1>3, <1>5, <2>1 DEF FindSession
  <2>3. QED
    BY <1>1, <2>1, <2>2
<1> HIDE DEF s
<1>9. Claims(s)
  <2>1. Located(s)
    BY <1>2, <1>3, <1>7 DEF Claims, Located
  <2>2. s.log # NotFound => s.ses # NotFound
    BY <1>2, <1>3, <1>5, <1>6, <1>7 DEF Claims, Current
  <2>3. Within(row, row)
    BY DEF Within
  <2>4. s.log # NotFound => Within(s.log, log[c])
    BY <1>2, <1>3, <1>7 DEF Claims, Current
  <2>5. Current(s)
    BY <1>5, <1>7, <2>2, <2>3, <2>4 DEF Current
  <2>6. c \notin raced /\ s.log = NotFound => s.ses = NotFound
    <3>1. c \notin raced /\ s.log = NotFound => ~ Finds(e, log[c])
      BY <1>2, <1>3, <1>7 DEF Claims, Fresh
    <3>2. c \notin raced /\ Finds(e, row) => Finds(e, log[c])
      BY <1>4, <1>5 DEF IInv, RowsHold, Finds
    <3>3. QED
      BY <1>7, <3>1, <3>2
  <2>7. c \notin raced /\ s.log # NotFound => s.log = log[c]
    BY <1>2, <1>3, <1>7 DEF Claims, Fresh
  <2>8. Fresh(s)
    BY <1>5, <1>7, <2>6, <2>7 DEF Fresh
  <2>9. Unrecorded(s)
    BY <1>2, <1>3, <1>7 DEF Claims, Unrecorded
  <2>10. QED
    BY <2>1, <2>5, <2>8, <2>9 DEF Claims
<1>10. poisoned' \in BOOLEAN
  BY DEF FindSession, IInv, TypeOK
<1>11. QED
  BY <1>7, <1>8, <1>9, <1>10, OnlyOneMoves DEF FindSession

LEMMA BeginReprocessHolds ==
  ASSUME IInv, NEW h \in Handlers, NEW e \in Events, BeginReprocess(h, e)
  PROVE  IInv'
<1>1. PICK rec \in Records : rec = record[e]
  BY DEF IInv, TypeOK
<1> DEFINE s == [Idle EXCEPT !.pc = "delete", !.event = e, !.call = CallOf[e], !.seen = rec]
<1>2. s \in HandlerState
  BY <1>1, IdleIsTyped, EventsAreOfCalls DEF HandlerState
<1>3. /\ s.pc = "delete" /\ s.event = e /\ s.call = CallOf[e] /\ s.seen = rec
      /\ s.log = NotFound /\ s.ses = NotFound
  BY IdleIsTyped DEF Idle
<1>4. rec.id < MaxRecords
  BY <1>1 DEF BeginReprocess
<1>5. handler' = [handler EXCEPT ![h] = s]
  BY <1>1 DEF BeginReprocess
<1> HIDE DEF s
<1>6. Claims(s)
  BY <1>3, <1>4, EventsAreOfCalls DEF Claims, Located, Current, Fresh, Unrecorded
<1>7. poisoned' \in BOOLEAN
  BY DEF BeginReprocess, IInv, TypeOK
<1>8. QED
  BY <1>2, <1>5, <1>6, <1>7, OnlyOneMoves DEF BeginReprocess

LEMMA DedupeHolds ==
  ASSUME IInv, NEW h \in Handlers, Dedupe(h)
  PROVE  IInv'
<1>1. PICK x : x = handler[h]
  OBVIOUS
<1>2. x \in HandlerState /\ Claims(x) /\ x.pc = "dedupe"
  BY <1>1, HandlerIsTyped DEF Dedupe
<1>3. PICK e : e = x.event
  OBVIOUS
<1>4. e \in Events /\ x.call = CallOf[e]
  BY <1>2, <1>3 DEF Claims, Located
<1>5. e \notin clean
  BY <1>2, <1>3 DEF Claims, Unrecorded
<1>6. poisoned' \in BOOLEAN
  BY DEF Dedupe, IInv, TypeOK
<1>7. CASE record[e].state = "processed"
  <2>1. handler' = [handler EXCEPT ![h] = Idle]
    BY <1>1, <1>3, <1>7 DEF Dedupe, Release
  <2>2. QED
    BY <1>6, <2>1, IdleIsTyped, ClaimsOfIdle, OnlyOneMoves DEF Dedupe, IInv
<1>8. CASE record[e].state # "processed"
  <2>1. PICK rec \in Records : rec = record[e]
    BY <1>4 DEF IInv, TypeOK
  <2> DEFINE s == [x EXCEPT !.pc = "log", !.seen = rec]
  <2>2. s \in HandlerState /\ s.pc = "log" /\ s.event = e /\ s.call = x.call
    BY <1>2, <1>3, <2>1 DEF HandlerState
  <2>3. handler' = [handler EXCEPT ![h] = s]
    <3>1. handler \in [Handlers -> HandlerState]
      BY DEF IInv, TypeOK
    <3>2. handler' = [handler EXCEPT ![h] = [@ EXCEPT !.pc = "log", !.seen = rec]]
      BY <1>1, <1>3, <1>8, <2>1, <3>1 DEF Dedupe
    <3>3. QED
      BY <1>1, <3>1, <3>2
  <2> HIDE DEF s
  <2>4. Claims(s)
    BY <1>4, <1>5, <2>2, EventsAreOfCalls DEF Claims, Located, Current, Fresh, Unrecorded
  <2>5. QED
    BY <1>6, <2>2, <2>3, <2>4, OnlyOneMoves DEF Dedupe
<1>9. QED
  BY <1>7, <1>8

LEMMA BeginHangupHolds ==
  ASSUME IInv, NEW h \in Handlers, NEW c \in Calls, BeginHangup(h, c)
  PROVE  IInv'
<1>1. PICK row \in {log[c], NotFound} :
        handler' = [handler EXCEPT ![h] =
                      [Idle EXCEPT !.pc = "hangup", !.call = c, !.log = row, !.ses = ses[c]]]
  BY DEF BeginHangup
<1>2. PICK read : read = ses[c]
  OBVIOUS
<1>3. /\ read \in Row(SessionStatuses) /\ read # NotFound
      /\ row \in Row(LogStatuses) \cup {NotFound}
  BY <1>2, NotFoundIsNoRow DEF IInv, TypeOK
<1> DEFINE s == [Idle EXCEPT !.pc = "hangup", !.call = c, !.log = row, !.ses = read]
<1>4. s \in HandlerState
  BY <1>3, IdleIsTyped DEF HandlerState
<1>5. s.pc = "hangup" /\ s.event = None /\ s.call = c /\ s.log = row /\ s.ses = read
  BY IdleIsTyped DEF Idle
<1>6. handler' = [handler EXCEPT ![h] = s]
  BY <1>1, <1>2
<1> HIDE DEF s
<1>7. Claims(s)
  <2>1. Located(s)
    BY <1>3, <1>5 DEF Located
  <2>2. \A w : Within(w, w)
    BY DEF Within
  <2>3. Current(s)
    BY <1>2, <1>5, <2>2 DEF Current
  <2>4. Fresh(s)
    BY <1>2, <1>5 DEF Fresh
  <2>5. Unrecorded(s)
    BY <1>5 DEF Unrecorded
  <2>6. QED
    BY <2>1, <2>3, <2>4, <2>5 DEF Claims
<1>8. poisoned' \in BOOLEAN
  BY DEF BeginHangup, IInv, TypeOK
<1>9. QED
  BY <1>4, <1>6, <1>7, <1>8, OnlyOneMoves DEF BeginHangup

LEMMA CommitFailsHolds ==
  ASSUME IInv, NEW h \in Handlers, CommitFails(h)
  PROVE  IInv'
<1>1. FailFlush(h)
  BY DEF CommitFails
<1>2. handler' = [handler EXCEPT ![h] = Idle] /\ poisoned' \in BOOLEAN
  BY <1>1 DEF FailFlush, Release
<1>3. QED
  BY <1>1, <1>2, IdleIsTyped, ClaimsOfIdle, OnlyOneMoves DEF FailFlush, IInv

LEMMA RestartHolds ==
  ASSUME IInv, Restart
  PROVE  IInv'
<1> USE DEF Restart, IInv
<1>1. TypeOK'
  BY IdleIsTyped DEF TypeOK
<1>2. Claims(Idle)'
  BY ClaimsOfIdle, ClaimsStay
<1>3. HandlersHold'
  BY <1>2 DEF HandlersHold
<1>4. QED
  BY <1>1, <1>3, RowsStay, RecordsStay

(* A record is left behind, or deleted, and the event is no longer clean.   *)
LEMMA CommitUncorrelatedHolds ==
  ASSUME IInv, NEW h \in Handlers, CommitUncorrelated(h)
  PROVE  IInv'
<1>1. PICK x : x = handler[h]
  OBVIOUS
<1>2. x \in HandlerState /\ Claims(x) /\ x.pc = "commit"
  BY <1>1, HandlerIsTyped DEF CommitUncorrelated
<1>3. PICK e \in Events : e = x.event
  BY <1>2 DEF Claims, Located
<1>4. PICK rec : rec = [state |-> "failed", id |-> record[e].id + 1, owned |-> h # Listener]
  OBVIOUS
<1>5. record' = [record EXCEPT ![e] = rec] /\ clean' = clean \ {e}
  BY <1>1, <1>3, <1>4 DEF CommitUncorrelated
<1>6. rec \in Records /\ rec.state = "failed"
  BY <1>1, <1>3, <1>4, EventsAreOfCalls DEF CommitUncorrelated, IInv, TypeOK, RecordsHold, Records
<1>7. handler' = [handler EXCEPT ![h] = Idle]
  BY DEF CommitUncorrelated, Release
<1>8. TypeOK'
  <2>1. record' \in [Events -> Records]
    BY <1>5, <1>6 DEF IInv, TypeOK
  <2>2. handler' \in [Handlers -> HandlerState]
    BY <1>7, IdleIsTyped DEF IInv, TypeOK
  <2>3. QED
    BY <1>5, <2>1, <2>2 DEF CommitUncorrelated, IInv, TypeOK
<1>9. RecordsHold'
  BY <1>5, <1>6 DEF CommitUncorrelated, IInv, TypeOK, RecordsHold
<1>10. Claims(Idle)'
  BY <1>5, ClaimsOfIdle, ClaimsStay DEF CommitUncorrelated, IInv
<1>11. HandlersHold'
  BY <1>5, <1>7, <1>10, OneHandlerMoves DEF CommitUncorrelated, IInv
<1>12. QED
  BY <1>8, <1>9, <1>11, RowsStay DEF CommitUncorrelated, IInv

LEMMA DeleteRecordHolds ==
  ASSUME IInv, NEW h \in Handlers, DeleteRecord(h)
  PROVE  IInv'
<1>1. PICK x : x = handler[h]
  OBVIOUS
<1>2. x \in HandlerState /\ Claims(x) /\ x.pc = "delete"
  BY <1>1, HandlerIsTyped DEF DeleteRecord
<1>3. PICK e \in Events : e = x.event
  BY <1>2 DEF Claims, Located
<1>4. x.call = CallOf[e] /\ x.seen.id < MaxRecords
  BY <1>2, <1>3 DEF Claims, Located
<1>5. clean' = clean \ {e}
  BY <1>1, <1>3 DEF DeleteRecord
<1>6. \/ record' = record
      \/ /\ record[e].id < MaxRecords
         /\ record' = [record EXCEPT ![e] = NoRecord(record[e].id)]
  BY <1>1, <1>3, <1>4 DEF DeleteRecord
<1>7. \A id \in 0 .. MaxRecords : /\ NoRecord(id) \in Records
                                  /\ NoRecord(id).id = id
  BY DEF NoRecord, Records
<1>8. record' \in [Events -> Records]
  BY <1>6, <1>7 DEF IInv, TypeOK, Records
<1> DEFINE s == [x EXCEPT !.pc = "dedupe"]
<1>9. s \in HandlerState /\ s.pc = "dedupe" /\ s.event = e /\ s.call = x.call
  BY <1>2, <1>3 DEF HandlerState
<1>10. handler' = [handler EXCEPT ![h] = s]
  BY <1>1 DEF DeleteRecord, Goto, IInv, TypeOK
<1> HIDE DEF s
<1>11. TypeOK'
  BY <1>5, <1>8, <1>9, <1>10 DEF DeleteRecord, IInv, TypeOK
<1>12. RecordsHold'
  <2> SUFFICES ASSUME NEW d \in Events
               PROVE  /\ record'[d].state = "none" => record'[d].id < MaxRecords
                      /\ d \in clean' =>
                           /\ record'[d].state # "failed"
                           /\ applied[d] = IF record'[d].state = "processed" THEN 1 ELSE 0
    BY DEF RecordsHold, DeleteRecord
  <2>1. CASE d # e
    <3>1. record'[d] = record[d]
      BY <1>6, <2>1 DEF IInv, TypeOK
    <3>2. QED
      BY <1>5, <3>1 DEF IInv, RecordsHold
  <2>2. CASE d = e
    <3>1. d \notin clean'
      BY <1>5, <2>2
    <3>2. CASE record' = record
      BY <3>1, <3>2 DEF IInv, RecordsHold
    <3>3. CASE record[e].id < MaxRecords /\ record'[e] = NoRecord(record[e].id)
      BY <1>7, <2>2, <3>1, <3>3 DEF IInv, TypeOK, Records
    <3>4. QED
      BY <1>6, <3>2, <3>3 DEF IInv, TypeOK
  <2>3. QED
    BY <2>1, <2>2
<1>13. Claims(s)'
  BY <1>4, <1>5, <1>9, EventsAreOfCalls DEF Claims, Located, Current, Fresh, Unrecorded
<1>14. HandlersHold'
  BY <1>5, <1>10, <1>13, OneHandlerMoves DEF DeleteRecord, IInv
<1>15. QED
  BY <1>11, <1>12, <1>14, RowsStay DEF DeleteRecord, IInv

-----------------------------------------------------------------------------
(* The steps that write the rows of a call: handlers that read them and     *)
(* commit later have their claims kept, for the rows only grow and the call *)
(* has raced.                                                               *)
Write(h, c) ==
  /\ log' \in [Calls -> Row(LogStatuses)]
  /\ ses' \in [Calls -> Row(SessionStatuses)]
  /\ \A k \in Calls \ {c} : log'[k] = log[k] /\ ses'[k] = ses[k]
  /\ Within(log[c], log'[c]) /\ Within(ses[c], ses'[c])
  /\ raced' = IF ReadByOthers(h, c) THEN raced \cup {c} ELSE raced

(* The rows written agree.                                                  *)
Agree(c) ==
  /\ Within(log'[c], ses'[c])
  /\ c \notin raced' => /\ SameStory(c)'
                        /\ ses'[c].uniqueid => log'[c].uniqueid
                        /\ ses'[c].linkedid => log'[c].linkedid

LEMMA WritingKeepsClaims ==
  ASSUME TypeOK, HandlersHold, NEW h \in Handlers, NEW c \in Calls, Write(h, c),
         handler' = [handler EXCEPT ![h] = Idle], clean' = clean
  PROVE  HandlersHold'
<1> SUFFICES ASSUME NEW g \in Handlers, NEW x, x = handler'[g]
             PROVE  Claims(x)'
  BY DEF HandlersHold
<1>1. CASE g = h
  <2>1. x = Idle
    BY <1>1 DEF TypeOK
  <2>2. QED
    BY <2>1, EventsAreOfCalls
    DEF TypeOK, Claims, Located, Current, Fresh, Unrecorded, Idle
<1>2. CASE g # h
  <2>1. x = handler[g]
    BY <1>2 DEF TypeOK
  <2>2. Claims(x)
    BY <2>1 DEF HandlersHold
  <2>3. \A k \in Calls : Within(log[k], log'[k]) /\ Within(ses[k], ses'[k])
    BY DEF Write, Within
  <2>4. \A u, v, w : Within(u, v) /\ Within(v, w) => Within(u, w)
    BY DEF Within
  <2>5. x.pc # "idle" => x.call \in Calls
    BY <2>2 DEF Claims, Located
  <2>6. Located(x)'
    BY <2>2 DEF Claims, Located
  <2>7. Current(x)'
    <3>1. x.pc \in {"session", "commit", "hangup"} /\ x.log # NotFound =>
            Within(x.log, log'[x.call])
      BY <2>2, <2>3, <2>4, <2>5 DEF Claims, Current
    <3>2. x.pc \in {"commit", "hangup"} /\ x.ses # NotFound => Within(x.ses, ses'[x.call])
      BY <2>2, <2>3, <2>4, <2>5 DEF Claims, Current
    <3>3. x.pc = "session" /\ x.log # NotFound => Finds(x.event, ses'[x.call])
      BY <2>2, <2>3, <2>5 DEF Claims, Current, Within, Finds
    <3>4. x.pc = "commit" /\ x.log # NotFound => x.ses # NotFound
      BY <2>2 DEF Claims, Current
    <3>5. QED
      BY <3>1, <3>2, <3>3, <3>4 DEF Current
  <2>8. Fresh(x)'
    <3> SUFFICES ASSUME x.pc \in {"session", "commit", "hangup"}, x.call \notin raced'
                 PROVE  /\ x.log # NotFound => x.log = log'[x.call]
                        /\ x.pc # "session" /\ x.ses # NotFound => x.ses = ses'[x.call]
                        /\ x.pc = "session" /\ x.log = NotFound => ~ Finds(x.event, log'[x.call])
                        /\ x.pc = "commit" /\ x.log = NotFound => x.ses = NotFound
      BY DEF Fresh
    <3>1. x.call # c
      BY <1>2, <2>1 DEF Write, ReadByOthers
    <3>2. x.call \notin raced
      BY DEF Write
    <3>3. log'[x.call] = log[x.call] /\ ses'[x.call] = ses[x.call]
      BY <2>5, <3>1 DEF Write
    <3>4. QED
      BY <2>2, <3>2, <3>3 DEF Claims, Fresh
  <2>9. Unrecorded(x)'
    BY <2>2 DEF Claims, Unrecorded
  <2>10. QED
    BY <2>6, <2>7, <2>8, <2>9 DEF Claims
<1>3. QED
  BY <1>1, <1>2

LEMMA WritingKeepsRows ==
  ASSUME TypeOK, RowsHold, NEW h \in Handlers, NEW c \in Calls, Write(h, c), Agree(c)
  PROVE  RowsHold'
<1> SUFFICES ASSUME NEW k \in Calls
             PROVE  /\ Within(log'[k], ses'[k])
                    /\ k \notin raced' => /\ SameStory(k)'
                                          /\ ses'[k].uniqueid => log'[k].uniqueid
                                          /\ ses'[k].linkedid => log'[k].linkedid
  BY DEF RowsHold
<1>1. CASE k = c
  BY <1>1 DEF Agree
<1>2. CASE k # c
  <2>1. log'[k] = log[k] /\ ses'[k] = ses[k] /\ (k \in raced => k \in raced')
    BY <1>2 DEF Write
  <2>2. QED
    BY <2>1 DEF RowsHold, SameStory
<1>3. QED
  BY <1>1, <1>2

(* What an event leaves on a row.                                           *)
Marked(new, cur, e) ==
  /\ new.uniqueid
  /\ new.answered <=> cur.answered \/ Outcome(e) = "answered"
  /\ new.ended <=> cur.ended \/ Name[e] = "Hangup"
  /\ new.linkedid <=> cur.linkedid \/ Name[e] # "OriginateResponse"

LEMMA CommitEventWrites ==
  ASSUME IInv, NEW h \in Handlers, CommitEvent(h)
  PROVE  \E e \in Events, c \in Calls :
           /\ e = handler[h].event
           /\ Write(h, c)
           /\ Agree(c)
           /\ Marked(ses'[c], ses[c], e)
           /\ \/ ses'[c].status = ses[c].status
              \/ Outcome(e) # NoStatus /\ ses'[c].status = ToSessionStatus(Outcome(e))
<1>1. PICK x : x = handler[h]
  OBVIOUS
<1>2. x \in HandlerState /\ Claims(x) /\ x.pc = "commit"
  BY <1>1, HandlerIsTyped DEF CommitEvent
<1>3. PICK e \in Events, c \in Calls : e = x.event /\ c = x.call
  BY <1>2 DEF Claims, Located
<1>4. PICK l, s : l = log[c] /\ s = ses[c]
  OBVIOUS
<1>5. PICK lst, sst : lst = Outcome(e) /\ sst = ToSessionStatus(lst)
  OBVIOUS
<1>6. l \in Row(LogStatuses) /\ s \in Row(SessionStatuses)
  BY <1>3, <1>4 DEF IInv, TypeOK
<1>7. PICK rl, rs : rl = x.log /\ rs = x.ses
  OBVIOUS
<1>8. /\ rs # NotFound
      /\ rl # NotFound => rl \in Row(LogStatuses) /\ Within(rl, l)
      /\ rs \in Row(SessionStatuses) /\ Within(rs, s)
  <2>1. ~ (rl = NotFound /\ rs = NotFound)
    BY <1>1, <1>7 DEF CommitEvent, Uncorrelated
  <2>2. rs # NotFound
    BY <1>2, <1>7, <2>1 DEF Claims, Current
  <2>3. rl \in Row(LogStatuses) \cup {NotFound} /\ rs \in Row(SessionStatuses) \cup {NotFound}
    BY <1>2, <1>7 DEF HandlerState
  <2>4. QED
    BY <1>2, <1>3, <1>4, <1>7, <2>2, <2>3 DEF Claims, Current
<1>9. c \notin raced => rl = l /\ rs = s
  <2>1. c \notin raced => rl # NotFound
    BY <1>2, <1>3, <1>7, <1>8 DEF Claims, Fresh
  <2>2. QED
    BY <1>2, <1>3, <1>4, <1>7, <1>8, <2>1 DEF Claims, Fresh
<1>10. /\ lst # NoStatus => lst \in LogStatuses /\ lst # "queued"
       /\ lst # NoStatus => sst \in SessionStatuses
  BY <1>5, OutcomesAreKnown DEF ToSessionStatus, LogStatuses, SessionStatuses
<1>11. PICK ws : ws = Overlay(s, rs, Applied(rs, e, sst))
  OBVIOUS
<1>12. /\ ws \in Row(SessionStatuses)
       /\ Marked(ws, s, e)
       /\ ws.status = s.status \/ (lst # NoStatus /\ ws.status = sst)
       /\ rs = s => ws.status = IF lst = NoStatus THEN s.status ELSE sst
  BY <1>5, <1>6, <1>8, <1>10, <1>11, WrittenIsRow DEF Marked
<1>13. PICK wl : wl = IF rl = NotFound THEN l ELSE Overlay(l, rl, Applied(rl, e, lst))
  OBVIOUS
<1>14. /\ wl \in Row(LogStatuses)
       /\ wl = l \/ Marked(wl, l, e)
       /\ rl = l => Marked(wl, l, e) /\ wl.status = IF lst = NoStatus THEN l.status ELSE lst
  <2>1. CASE rl = NotFound
    BY <1>6, <1>13, <2>1, NotFoundIsNoRow
  <2>2. CASE rl # NotFound
    <3>1. wl = Overlay(l, rl, Applied(rl, e, lst)) /\ rl \in Row(LogStatuses) /\ Within(rl, l)
      BY <1>8, <1>13, <2>2
    <3>2. QED
      BY <1>5, <1>6, <1>10, <3>1, WrittenIsRow DEF Marked
  <2>3. QED
    BY <2>1, <2>2
<1>15. log \in [Calls -> Row(LogStatuses)] /\ ses \in [Calls -> Row(SessionStatuses)]
  BY DEF IInv, TypeOK
<1>16. ses' = [ses EXCEPT ![c] = ws]
  BY <1>1, <1>3, <1>4, <1>5, <1>7, <1>8, <1>11, <1>15 DEF CommitEvent
<1>17. log' = [log EXCEPT ![c] = wl]
  <2>1. CASE rl = NotFound
    <3>1. log' = log
      BY <1>1, <1>7, <2>1 DEF CommitEvent
    <3>2. QED
      BY <1>4, <1>13, <1>15, <2>1, <3>1
  <2>2. CASE rl # NotFound
    BY <1>1, <1>3, <1>4, <1>5, <1>7, <1>13, <1>15, <2>2 DEF CommitEvent
  <2>3. QED
    BY <2>1, <2>2
<1>18. log'[c] = wl /\ ses'[c] = ws
  BY <1>15, <1>16, <1>17
<1>19. raced' = IF ReadByOthers(h, c) THEN raced \cup {c} ELSE raced
  BY <1>1, <1>3 DEF CommitEvent
<1>20. Write(h, c)
  <2>1. log' \in [Calls -> Row(LogStatuses)] /\ ses' \in [Calls -> Row(SessionStatuses)]
    BY <1>12, <1>14, <1>15, <1>16, <1>17
  <2>2. \A k \in Calls \ {c} : log'[k] = log[k] /\ ses'[k] = ses[k]
    BY <1>15, <1>16, <1>17
  <2>3. Within(l, wl) /\ Within(s, ws)
    BY <1>12, <1>14 DEF Within, Marked
  <2>4. QED
    BY <1>4, <1>18, <1>19, <2>1, <2>2, <2>3 DEF Write
<1>21. Agree(c)
  <2>1. Within(l, s)
    BY <1>3, <1>4 DEF IInv, RowsHold
  <2>2. Within(wl, ws)
    BY <1>12, <1>14, <2>1 DEF Within, Marked
  <2>3. ASSUME c \notin raced'
        PROVE  /\ ws.status = ToSessionStatus(wl.status)
                  \/ (ws.status = "hangup" /\ wl.status = "canceled")
               /\ ws.uniqueid => wl.uniqueid
               /\ ws.linkedid => wl.linkedid
    <3>1. c \notin raced
      BY <1>19, <2>3
    <3>2. rl = l /\ rs = s
      BY <1>9, <3>1
    <3>3. /\ Marked(wl, l, e) /\ Marked(ws, s, e)
          /\ wl.status = IF lst = NoStatus THEN l.status ELSE lst
          /\ ws.status = IF lst = NoStatus THEN s.status ELSE sst
      BY <1>12, <1>14, <3>2
    <3>4. /\ s.status = ToSessionStatus(l.status)
             \/ (s.status = "hangup" /\ l.status = "canceled")
          /\ s.linkedid => l.linkedid
      BY <1>3, <1>4, <3>1 DEF IInv, RowsHold, SameStory
    <3>5. QED
      BY <1>5, <3>3, <3>4 DEF Marked
  <2>4. QED
    BY <1>18, <2>2, <2>3 DEF Agree, SameStory
<1>22. QED
  BY <1>1, <1>3, <1>4, <1>5, <1>12, <1>18, <1>20, <1>21

LEMMA CommitEventHolds ==
  ASSUME IInv, NEW h \in Handlers, CommitEvent(h)
  PROVE  IInv'
<1>1. PICK e \in Events, c \in Calls : e = handler[h].event /\ Write(h, c) /\ Agree(c)
  BY CommitEventWrites
<1>2. handler' = [handler EXCEPT ![h] = Idle]
  BY DEF CommitEvent, Release
<1>3. PICK x : x = handler[h]
  OBVIOUS
<1>4. x \in HandlerState /\ Claims(x) /\ x.pc = "commit" /\ e = x.event
  BY <1>1, <1>3, HandlerIsTyped DEF CommitEvent
<1>5. PICK rec \in Records : record' = [record EXCEPT ![e] = rec] /\ rec.state = "processed"
  <2>1. record[e] \in Records /\ record \in [Events -> Records]
    BY DEF IInv, TypeOK
  <2>2. CASE x.seen.state = "none"
    <3>1. /\ record[e].state = "none"
          /\ record' = [record EXCEPT ![e] =
                          [state |-> "processed", id |-> record[e].id + 1, owned |-> TRUE]]
      BY <1>3, <1>4, <2>2 DEF CommitEvent, RecordProcessed
    <3>2. [state |-> "processed", id |-> record[e].id + 1, owned |-> TRUE] \in Records
      BY <2>1, <3>1, EventsAreOfCalls DEF IInv, RecordsHold, Records
    <3>3. QED
      BY <3>1, <3>2
  <2>3. CASE x.seen.state # "none"
    <3>1. record' = [record EXCEPT ![e].state = "processed"]
      BY <1>3, <1>4, <2>3 DEF CommitEvent, RecordProcessed
    <3>2. record' = [record EXCEPT ![e] = [record[e] EXCEPT !.state = "processed"]]
      BY <2>1, <3>1
    <3>3. [record[e] EXCEPT !.state = "processed"] \in Records
      BY <2>1 DEF Records
    <3>4. [record[e] EXCEPT !.state = "processed"].state = "processed"
      BY <2>1 DEF Records
    <3>5. QED
      BY <3>2, <3>3, <3>4
  <2>4. QED
    BY <2>2, <2>3
<1>6. e \in clean => record[e].state = "none"
  <2>1. e \in clean => x.seen.state = "none"
    BY <1>4 DEF Claims, Unrecorded
  <2>2. e \in clean => RecordProcessed(h, e) /\ handler[h].seen.state = "none"
    BY <1>3, <1>4, <2>1 DEF CommitEvent
  <2>3. QED
    BY <2>2 DEF RecordProcessed
<1>7. applied' = [applied EXCEPT ![e] = IF applied[e] < 2 THEN applied[e] + 1 ELSE applied[e]]
  BY <1>1 DEF CommitEvent, IInv, TypeOK
<1>8. TypeOK'
  <2>1. record' \in [Events -> Records]
    BY <1>5 DEF IInv, TypeOK
  <2>2. handler' \in [Handlers -> HandlerState]
    BY <1>2, IdleIsTyped DEF IInv, TypeOK
  <2>3. applied' \in [Events -> 0 .. 2]
    BY <1>7 DEF IInv, TypeOK
  <2>4. raced' \subseteq Calls
    BY <1>1 DEF Write, IInv, TypeOK
  <2>5. QED
    BY <1>1, <2>1, <2>2, <2>3, <2>4 DEF CommitEvent, Write, IInv, TypeOK
<1>9. RecordsHold'
  <2> SUFFICES ASSUME NEW d \in Events
               PROVE  /\ record'[d].state = "none" => record'[d].id < MaxRecords
                      /\ d \in clean =>
                           /\ record'[d].state # "failed"
                           /\ applied'[d] = IF record'[d].state = "processed" THEN 1 ELSE 0
    BY DEF RecordsHold, CommitEvent
  <2>1. CASE d = e
    <3>1. record'[d].state = "processed"
      BY <1>5, <2>1 DEF IInv, TypeOK
    <3>2. d \in clean => applied[d] = 0
      BY <1>6, <2>1 DEF IInv, RecordsHold
    <3>3. QED
      BY <1>7, <2>1, <3>1, <3>2 DEF IInv, TypeOK
  <2>2. CASE d # e
    <3>1. record'[d] = record[d] /\ applied'[d] = applied[d]
      BY <1>5, <1>7, <2>2 DEF IInv, TypeOK
    <3>2. QED
      BY <3>1 DEF IInv, RecordsHold
  <2>3. QED
    BY <2>1, <2>2
<1>10. HandlersHold'
  BY <1>1, <1>2, WritingKeepsClaims DEF CommitEvent, IInv
<1>11. RowsHold'
  BY <1>1, WritingKeepsRows DEF IInv
<1>12. QED
  BY <1>8, <1>9, <1>10, <1>11 DEF IInv

LEMMA MarkHangupWrites ==
  ASSUME IInv, NEW h \in Handlers, MarkHangup(h)
  PROVE  \E c \in Calls :
           /\ Write(h, c)
           /\ Agree(c)
           /\ ses'[c].answered = ses[c].answered
           /\ ses'[c].ended = ses[c].ended
           /\ ses'[c].status \in {ses[c].status, "hangup"}
<1>1. PICK x : x = handler[h]
  OBVIOUS
<1>2. x \in HandlerState /\ Claims(x) /\ x.pc = "hangup"
  BY <1>1, HandlerIsTyped DEF MarkHangup
<1>3. PICK c \in Calls : c = x.call
  BY <1>2 DEF Claims, Located
<1>4. PICK l, s : l = log[c] /\ s = ses[c]
  OBVIOUS
<1>5. l \in Row(LogStatuses) /\ s \in Row(SessionStatuses)
  BY <1>3, <1>4 DEF IInv, TypeOK
<1>6. PICK rl, rs : rl = (IF x.log = NotFound THEN l ELSE x.log) /\ rs = x.ses
  OBVIOUS
<1>7. rl \in Row(LogStatuses) /\ rs \in Row(SessionStatuses)
  BY <1>2, <1>5, <1>6 DEF HandlerState, Claims, Located
<1>8. c \notin raced => rl = l /\ rs = s
  BY <1>2, <1>3, <1>4, <1>6 DEF Claims, Located, Fresh
<1>9. "hangup" \in SessionStatuses /\ "canceled" \in LogStatuses
  BY DEF SessionStatuses, LogStatuses
<1>10. PICK wl, ws : /\ wl = Overlay(l, rl, [rl EXCEPT !.status = "canceled"])
                     /\ ws = Overlay(s, rs, [rs EXCEPT !.status = "hangup"])
  OBVIOUS
<1>11. /\ wl \in Row(LogStatuses)
       /\ wl.answered = l.answered /\ wl.ended = l.ended
       /\ wl.uniqueid = l.uniqueid /\ wl.linkedid = l.linkedid
       /\ rl = l => wl.status = "canceled"
  BY <1>5, <1>7, <1>9, <1>10, MarkedIsRow
<1>12. /\ ws \in Row(SessionStatuses)
       /\ ws.answered = s.answered /\ ws.ended = s.ended
       /\ ws.uniqueid = s.uniqueid /\ ws.linkedid = s.linkedid
       /\ ws.status \in {s.status, "hangup"}
       /\ rs = s => ws.status = "hangup"
  BY <1>5, <1>7, <1>9, <1>10, MarkedIsRow
<1>13. log \in [Calls -> Row(LogStatuses)] /\ ses \in [Calls -> Row(SessionStatuses)]
  BY DEF IInv, TypeOK
<1>14. log' = [log EXCEPT ![c] = wl] /\ ses' = [ses EXCEPT ![c] = ws]
  BY <1>1, <1>3, <1>4, <1>6, <1>10, <1>13 DEF MarkHangup
<1>15. log'[c] = wl /\ ses'[c] = ws
  BY <1>13, <1>14
<1>16. raced' = IF ReadByOthers(h, c) THEN raced \cup {c} ELSE raced
  BY <1>1, <1>3 DEF MarkHangup
<1>17. Write(h, c)
  <2>1. log' \in [Calls -> Row(LogStatuses)] /\ ses' \in [Calls -> Row(SessionStatuses)]
    BY <1>11, <1>12, <1>13, <1>14
  <2>2. \A k \in Calls \ {c} : log'[k] = log[k] /\ ses'[k] = ses[k]
    BY <1>13, <1>14
  <2>3. Within(l, wl) /\ Within(s, ws)
    BY <1>11, <1>12 DEF Within
  <2>4. QED
    BY <1>4, <1>15, <1>16, <2>1, <2>2, <2>3 DEF Write
<1>18. Agree(c)
  <2>1. Within(wl, ws)
    BY <1>3, <1>4, <1>11, <1>12 DEF IInv, RowsHold, Within
  <2>2. ASSUME c \notin raced'
        PROVE  /\ ws.status = "hangup" /\ wl.status = "canceled"
               /\ ws.uniqueid => wl.uniqueid
               /\ ws.linkedid => wl.linkedid
    <3>1. c \notin raced
      BY <1>16, <2>2
    <3>2. (s.uniqueid => l.uniqueid) /\ (s.linkedid => l.linkedid)
      BY <1>3, <1>4, <3>1 DEF IInv, RowsHold
    <3>3. QED
      BY <1>8, <1>11, <1>12, <3>1, <3>2
  <2>3. QED
    BY <1>15, <2>1, <2>2 DEF Agree, SameStory
<1>19. QED
  BY <1>3, <1>4, <1>12, <1>15, <1>17, <1>18

LEMMA MarkHangupHolds ==
  ASSUME IInv, NEW h \in Handlers, MarkHangup(h)
  PROVE  IInv'
<1>1. PICK c \in Calls : Write(h, c) /\ Agree(c)
  BY MarkHangupWrites
<1>2. handler' = [handler EXCEPT ![h] = Idle]
  BY DEF MarkHangup, Release
<1>3. TypeOK'
  <2>1. handler' \in [Handlers -> HandlerState]
    BY <1>2, IdleIsTyped DEF IInv, TypeOK
  <2>2. raced' \subseteq Calls
    BY <1>1 DEF Write, IInv, TypeOK
  <2>3. QED
    BY <1>1, <2>1, <2>2 DEF MarkHangup, Write, IInv, TypeOK
<1>4. HandlersHold'
  BY <1>1, <1>2, WritingKeepsClaims DEF MarkHangup, IInv
<1>5. RowsHold'
  BY <1>1, WritingKeepsRows DEF IInv
<1>6. QED
  BY <1>3, <1>4, <1>5, RecordsStay DEF MarkHangup, IInv

-----------------------------------------------------------------------------
LEMMA StepHolds == IInv /\ [Next]_vars => IInv'
<1> SUFFICES ASSUME IInv, [Next]_vars PROVE IInv'
  OBVIOUS
<1>1. ASSUME NEW h \in Handlers, Process(h) PROVE IInv'
  BY <1>1, ReceiveHolds, FindLogHolds, FindSessionHolds, CommitUncorrelatedHolds,
     CommitEventHolds, CommitFailsHolds DEF Process
<1>2. ASSUME NEW w \in Workers, Request(w) PROVE IInv'
  <2>1. w \in Handlers
    BY DEF Handlers
  <2>2. QED
    BY <1>2, <2>1, BeginReprocessHolds, DeleteRecordHolds, DedupeHolds, BeginHangupHolds,
       MarkHangupHolds DEF Request
<1>3. CASE UNCHANGED vars
  <2>1. TypeOK'
    BY <1>3 DEF vars, IInv, TypeOK
  <2>2. HandlersHold'
    <3> SUFFICES ASSUME NEW h \in Handlers, NEW x, x = handler'[h]
                 PROVE  Claims(x)'
      BY DEF HandlersHold
    <3>1. Claims(x)
      BY <1>3 DEF vars, IInv, HandlersHold
    <3>2. QED
      BY <1>3, <3>1, ClaimsStay DEF vars
  <2>3. QED
    BY <1>3, <2>1, <2>2, RowsStay, RecordsStay DEF vars, IInv
<1>4. QED
  BY <1>1, <1>2, <1>3, RestartHolds DEF Next

LEMMA Inductive == Spec => []IInv
  BY InitHolds, StepHolds, PTL DEF Spec

(* RowsAgree holds: the log is never ahead of the session, and the rows tell*)
(* the same story of every call that did not race.                          *)
THEOREM RowsDoAgree == Spec => []RowsAgree
<1>1. IInv => RowsAgree
  BY DEF IInv, RowsHold, Within, RowsAgree, LogIsNotAhead, SameStories
<1>2. QED
  BY <1>1, Inductive, PTL

(* TakesEffectOnce holds, for any number of deliveries and threads.         *)
THEOREM EventsTakeEffectOnce == Spec => []TakesEffectOnce
<1>1. IInv => TakesEffectOnce
  BY DEF IInv, TypeOK, RecordsHold, TakesEffectOnce
<1>2. QED
  BY <1>1, Inductive, PTL

-----------------------------------------------------------------------------
(* Only an event committed and a hangup request write rows.                 *)
LEMMA OnlyTwoWrite ==
  ASSUME IInv, [Next]_vars
  PROVE  \/ UNCHANGED <<log, ses>>
         \/ \E h \in Handlers : CommitEvent(h) \/ MarkHangup(h)
<1>1. ASSUME NEW h \in Handlers, Process(h), ~ CommitEvent(h) PROVE UNCHANGED <<log, ses>>
  BY <1>1 DEF Process, Receive, FindLog, FindSession, CommitUncorrelated, CommitFails, FailFlush
<1>2. ASSUME NEW w \in Workers, Request(w), ~ MarkHangup(w) PROVE UNCHANGED <<log, ses>>
  BY <1>2 DEF Request, BeginReprocess, DeleteRecord, Dedupe, BeginHangup
<1>3. CASE Restart \/ UNCHANGED vars
  BY <1>3 DEF Restart, vars
<1>4. QED
  BY <1>1, <1>2, <1>3 DEF Next, Handlers

(* No step unsets a mark of a row.                                          *)
LEMMA MarksStay ==
  ASSUME IInv, [Next]_vars, NEW c \in Calls
  PROVE  Within(log[c], log'[c]) /\ Within(ses[c], ses'[c])
<1>1. CASE UNCHANGED <<log, ses>>
  BY <1>1 DEF Within
<1>2. ASSUME NEW h \in Handlers, CommitEvent(h) \/ MarkHangup(h)
      PROVE  Within(log[c], log'[c]) /\ Within(ses[c], ses'[c])
  <2>1. PICK d \in Calls : Write(h, d)
    BY <1>2, CommitEventWrites, MarkHangupWrites
  <2>2. QED
    BY <2>1 DEF Write, Within
<1>3. QED
  BY <1>1, <1>2, OnlyTwoWrite

(* MarksAreKept holds: what a handler set, no later handler unsets, though  *)
(* it writes on the strength of what it read before.                        *)
THEOREM MarksStaySet == Spec => MarksAreKept
<1>1. IInv /\ [Next]_vars =>
        [\A c \in Calls : /\ ses[c].answered => ses'[c].answered
                          /\ log[c].answered => log'[c].answered
                          /\ log[c].ended => log'[c].ended
                          /\ log[c].linkedid => log'[c].linkedid]_vars
  BY MarksStay DEF Within
<1>2. QED
  BY <1>1, Inductive, PTL DEF Spec, MarksAreKept

-----------------------------------------------------------------------------
LEMMA LedgerInit == Init => Ledger!Init
<1> SUFFICES ASSUME Init PROVE Ledger!Init
  OBVIOUS
<1>1. \A c \in Calls : ses[c].status = "queued" /\ ses[c].ended = FALSE
  BY DEF Init, Queued
<1>2. QED
  BY <1>1 DEF Ledger!Init

LEMMA LedgerStep ==
  ASSUME IInv, [Next]_vars
  PROVE  [Ledger!Next]_(Ledger!ledger)
<1> DEFINE status == [c \in Calls |-> ses[c].status]
           ended == [c \in Calls |-> ses[c].ended]
<1>1. CASE UNCHANGED <<log, ses>>
  BY <1>1 DEF Ledger!ledger
<1>2. ASSUME NEW h \in Handlers, NEW c \in Calls, Write(h, c), NEW st, ses'[c].status = st
      PROVE  /\ status' = [status EXCEPT ![c] = st]
             /\ ses'[c].ended = ses[c].ended => ended' = ended
             /\ ses'[c].ended = TRUE => ended' = [ended EXCEPT ![c] = TRUE]
  <2>1. \A k \in Calls : k # c => ses'[k] = ses[k]
    BY <1>2 DEF Write
  <2>2. status' = [status EXCEPT ![c] = st]
    BY <1>2, <2>1
  <2>3. ses'[c].ended = ses[c].ended => ended' = ended
    BY <2>1
  <2>4. ses'[c].ended = TRUE => ended' = [ended EXCEPT ![c] = TRUE]
    BY <2>1
  <2>5. QED
    BY <2>2, <2>3, <2>4
<1>3. ASSUME NEW c \in Calls PROVE status[c] # "absent" /\ status[c] = ses[c].status
  BY DEF IInv, TypeOK, Row, SessionStatuses, LogStatuses
<1>4. ASSUME NEW h \in Handlers, CommitEvent(h)
      PROVE  [Ledger!Next]_(Ledger!ledger)
  <2>1. PICK e \in Events, c \in Calls :
          /\ Write(h, c)
          /\ Marked(ses'[c], ses[c], e)
          /\ \/ ses'[c].status = ses[c].status
             \/ Outcome(e) # NoStatus /\ ses'[c].status = ToSessionStatus(Outcome(e))
    BY <1>4, CommitEventWrites
  <2>2. PICK st : st = ses'[c].status
    OBVIOUS
  <2>3. ses[c].ended \in BOOLEAN /\ ses'[c].ended \in BOOLEAN
    <3>1. ses[c] \in Row(SessionStatuses) /\ ses'[c] \in Row(SessionStatuses)
      BY <2>1 DEF Write, IInv, TypeOK
    <3>2. QED
      BY <3>1 DEF Row
  <2>4. CASE Name[e] = "Hangup"
    <3>1. st \in HangupStatuses \cup {status[c]}
      BY <1>3, <2>1, <2>2, <2>4, OutcomesAreKnown
    <3>2. ses'[c].ended = TRUE
      BY <2>1, <2>3, <2>4 DEF Marked
    <3>3. status' = [status EXCEPT ![c] = st] /\ ended' = [ended EXCEPT ![c] = TRUE]
      BY <1>2, <2>1, <2>2, <3>2
    <3>4. Ledger!End(c)
      BY <1>3, <3>1, <3>3 DEF Ledger!End, Ledger!HangupStatuses, HangupStatuses
    <3>5. QED
      BY <3>4 DEF Ledger!Next
  <2>5. CASE Name[e] # "Hangup"
    <3>1. ses'[c].ended = ses[c].ended
      BY <2>1, <2>3, <2>5 DEF Marked
    <3>2. status' = [status EXCEPT ![c] = st] /\ ended' = ended
      BY <1>2, <2>1, <2>2, <3>1
    <3>3. CASE st = ses[c].status
      <4>1. status' = status
        BY <1>3, <3>2, <3>3
      <4>2. QED
        BY <3>2, <4>1 DEF Ledger!ledger
    <3>4. CASE st \in ProgressStatuses
      <4>1. Ledger!Progress(c)
        BY <1>3, <3>2, <3>4 DEF Ledger!Progress, Ledger!ProgressStatuses, ProgressStatuses
      <4>2. QED
        BY <4>1 DEF Ledger!Next
    <3>5. QED
      BY <2>1, <2>2, <2>5, <3>3, <3>4, OutcomesAreKnown
  <2>6. QED
    BY <2>4, <2>5
<1>5. ASSUME NEW h \in Handlers, MarkHangup(h)
      PROVE  [Ledger!Next]_(Ledger!ledger)
  <2>1. PICK c \in Calls : /\ Write(h, c)
                           /\ ses'[c].ended = ses[c].ended
                           /\ ses'[c].status \in {ses[c].status, "hangup"}
    BY <1>5, MarkHangupWrites
  <2>2. PICK st : st = ses'[c].status
    OBVIOUS
  <2>3. status' = [status EXCEPT ![c] = st] /\ ended' = ended
    BY <1>2, <2>1, <2>2
  <2>4. CASE st = ses[c].status
    <3>1. status' = status
      BY <1>3, <2>3, <2>4
    <3>2. QED
      BY <2>3, <3>1 DEF Ledger!ledger
  <2>5. CASE st = "hangup"
    <3>1. Ledger!MarkHangup(c)
      BY <1>3, <2>3, <2>5 DEF Ledger!MarkHangup
    <3>2. QED
      BY <3>1 DEF Ledger!Next
  <2>6. QED
    BY <2>1, <2>2, <2>4, <2>5
<1>6. QED
  BY <1>1, <1>4, <1>5, OnlyTwoWrite

(* The rows of the sessions behave as CallLedger promises, whatever handlers*)
(* read and write in between.                                               *)
THEOREM LedgerIsImplemented == Spec => ImplementsLedger
<1>1. IInv /\ [Next]_vars => [Ledger!Next]_(Ledger!ledger)
  BY LedgerStep
<1>2. QED
  BY <1>1, LedgerInit, Inductive, PTL DEF Spec, ImplementsLedger, Ledger!Spec

-----------------------------------------------------------------------------
(* CallReconciliation                                                       *)
LEMMA CdrsAreOfCalls ==
  /\ Calls \subseteq Nat /\ None \notin Calls /\ None \notin Calls \X Nat
  /\ None \notin Cdr!Row(Cdr!LogStatuses)
  /\ CdrCall \in [Cdrs -> Calls] /\ Leg \in [Cdrs -> Nat]
  /\ Near \in [Cdrs -> SUBSET Calls]
  /\ Disposition \in [Cdrs -> {"ANSWERED", "BUSY", "NO ANSWER", "CANCEL", "FAILED", ""}]
  /\ Hangups \subseteq Cdr!LogStatuses
BY RecordsAreOfCalls DEF Cdr!ConstantsOK

(* CallReconciliation counts as everybody does.                              *)
LEMMA SizesAgree == \A S : Cdr!Cardinality(S) = Cardinality(S)
BY DEF Cdr!Cardinality, Cardinality

RowPairs == [log : Cdr!Row(Cdr!LogStatuses), ses : Cdr!Row(Cdr!SessionStatuses)]

Batches ==
  [pc : {"idle", "log", "session"}, todo : Seq(Cdrs), call : Calls \cup {None},
   known : SUBSET Calls, flushed : SUBSET Calls, read : [Calls -> RowPairs],
   set : [Calls -> RowPairs], tx : [Calls -> RowPairs], by : [Calls -> SUBSET Cdrs]]

Readers ==
  [call : Calls \cup {None}, status : {None, "answered", "hangup"} \cup Hangups,
   log : Cdr!Row(Cdr!LogStatuses) \cup {None}, ses : Cdr!Row(Cdr!SessionStatuses)]

RecordTypes ==
  /\ call_logs \in [Calls -> Cdr!Row(Cdr!LogStatuses)] /\ call_sessions \in [Calls -> Cdr!Row(Cdr!SessionStatuses)]
  /\ cdr \in SUBSET Cdrs /\ IsFiniteSet(cdr)
  /\ reader \in [Writers -> Readers]
  /\ \A w \in Writers : reader[w].call # None /\ reader[w].status # "hangup" => reader[w].log # None
  /\ batch \in Batches
  /\ batch.call # None <=> batch.pc = "session"
  /\ batch.pc = "session" => batch.todo # <<>>
  /\ batch.flushed \subseteq batch.known

Own(c, row) == (row.uid # None => row.uid[1] = c) /\ row.linked \in {None, c}

(* What is written to a call is written to both its rows at their ends, and   *)
(* what has been locked stays.                                              *)
EndsHold(c) ==
  /\ c \in batch.known => /\ batch.by[c] # {}
                          /\ batch.set[c].log.ended = batch.read[c].log.ended
                          /\ batch.set[c].ses.ended = batch.read[c].ses.ended
  /\ c \notin batch.known => batch.by[c] = {}
  /\ c \in batch.flushed => /\ batch.tx[c].log.ended = call_logs[c].ended
                            /\ batch.tx[c].ses.ended = call_sessions[c].ended
  /\ c \notin batch.known /\ c = batch.call => batch.set[c].log = batch.read[c].log

IdsHold(c) ==
  c \notin guessed =>
    /\ Own(c, call_logs[c])
    /\ c \in batch.known \cup {batch.call} => Own(c, batch.set[c].log)
    /\ c \in batch.flushed => Own(c, batch.tx[c].log)
    /\ c = batch.call => CdrCall[batch.todo[1]] = c

(* A record has been told, if it is the only one.                            *)
Told(c, row) ==
  \A x \in Cdrs : batch.by[c] = {x} =>
    /\ row.uid = Cdr!Uid(x)
    /\ Cdr!Outcome(x) # Cdr!NoStatus => row.status = Cdr!Outcome(x)

(* What the command has read of a call no writer wrote to meanwhile is what   *)
(* is there, and what it has set is what it will write.                     *)
Undisturbed(c) ==
  c \notin overlapped =>
    /\ c \notin batch.known /\ c = batch.call => batch.read[c].log = call_logs[c]
    /\ c \in batch.known =>
         /\ Cdr!Visible(c) = batch.read[c]
         /\ IF Cdr!DoneWith(c) THEN batch.set[c] = Cdr!Rows(call_logs[c], call_sessions[c]) ELSE Told(c, batch.set[c].log)

(* Two rows that tell one story.                                             *)
Alike(l, s) ==
  \/ s.status = Cdr!ToSessionStatus(l.status)
  \/ s.status = "hangup" /\ l.status = "canceled"

(* Whoever is on a call of which nobody wrote what another had read has read  *)
(* what is there, and has set rows that tell one story.                     *)
TalesHold(c) ==
  c \notin overlapped \cup crossed =>
    /\ Alike(call_logs[c], call_sessions[c])
    /\ \A w \in Writers : reader[w].call = c =>
         reader[w].log \in {None, call_logs[c]} /\ reader[w].ses = call_sessions[c]
    /\ c \in batch.known => Alike(batch.set[c].log, batch.set[c].ses)

CallHolds(c) == EndsHold(c) /\ IdsHold(c) /\ Undisturbed(c) /\ TalesHold(c)

CdrRecordsHold == RecordTypes /\ \A c \in Calls : CallHolds(c)

-----------------------------------------------------------------------------
LEMMA WrittenKeeps ==
  ASSUME NEW S, NEW now \in Cdr!Row(S), NEW old \in Cdr!Row(S), NEW new \in Cdr!Row(S),
         NEW w, w = Cdr!Written(now, old, new)
  PROVE  /\ w \in Cdr!Row(S)
         /\ now = old => w = new
         /\ new.ended = old.ended => w.ended = now.ended
         /\ new.ended # old.ended => w.ended = new.ended
         /\ new.uid = old.uid => w.uid = now.uid
         /\ new.linked = old.linked => w.linked = now.linked
         /\ w.uid \in {new.uid, now.uid} /\ w.linked \in {new.linked, now.linked}
<1>1. /\ now = [uid |-> now.uid, linked |-> now.linked, status |-> now.status, ended |-> now.ended]
      /\ new = [uid |-> new.uid, linked |-> new.linked, status |-> new.status, ended |-> new.ended]
  BY DEF Cdr!Row
<1>2. w = [uid |-> IF new.uid # old.uid THEN new.uid ELSE now.uid,
           linked |-> IF new.linked # old.linked THEN new.linked ELSE now.linked,
           status |-> IF new.status # old.status THEN new.status ELSE now.status,
           ended |-> IF new.ended # old.ended THEN new.ended ELSE now.ended]
  BY <1>1 DEF Cdr!Written
<1>3. QED
  BY <1>1, <1>2 DEF Cdr!Row

LEMMA DialledIsRow == Cdr!Dialled \in Cdr!Row(Cdr!LogStatuses) /\ Cdr!Dialled \in Cdr!Row(Cdr!SessionStatuses)
BY DEF Cdr!Dialled, Cdr!Row, Cdr!LogStatuses, Cdr!SessionStatuses

LEMMA SessionStatusOf ==
  ASSUME NEW s \in Cdr!LogStatuses
  PROVE  Cdr!ToSessionStatus(s) \in Cdr!SessionStatuses
BY DEF Cdr!ToSessionStatus, Cdr!LogStatuses, Cdr!SessionStatuses

LEMMA NoBatchIsBatch == Cdr!NoBatch \in Batches
<1>1. Cdr!Rows(Cdr!Dialled, Cdr!Dialled) \in RowPairs
  BY DialledIsRow DEF Cdr!Rows, RowPairs
<1>2. QED
  BY <1>1 DEF Cdr!NoBatch, Batches

LEMMA HeadAndTail ==
  ASSUME NEW s \in Seq(Cdrs), s # <<>>
  PROVE  s[1] \in Cdrs /\ Tail(s) \in Seq(Cdrs)
OBVIOUS

LEMMA FlushedIs ==
  ASSUME RecordTypes
  PROVE  /\ Cdr!Flushed =
              [pc |-> batch.pc, todo |-> batch.todo, call |-> batch.call, known |-> batch.known,
               flushed |-> batch.flushed \cup Cdr!Dirty, read |-> batch.set, set |-> batch.set,
               tx |-> [c \in Calls |-> IF c \in Cdr!Dirty THEN Cdr!Flush(c) ELSE batch.tx[c]],
               by |-> batch.by]
         /\ Cdr!Flushed \in Batches
<1>1. /\ batch \in Batches /\ call_logs \in [Calls -> Cdr!Row(Cdr!LogStatuses)]
      /\ call_sessions \in [Calls -> Cdr!Row(Cdr!SessionStatuses)]
  BY DEF RecordTypes
<1>2. Cdr!Flushed =
        [pc |-> batch.pc, todo |-> batch.todo, call |-> batch.call, known |-> batch.known,
         flushed |-> batch.flushed \cup Cdr!Dirty, read |-> batch.set, set |-> batch.set,
         tx |-> [c \in Calls |-> IF c \in Cdr!Dirty THEN Cdr!Flush(c) ELSE batch.tx[c]], by |-> batch.by]
  <2>1. PICK f, t : /\ f = batch.flushed \cup Cdr!Dirty
                    /\ t = [c \in Calls |-> IF c \in Cdr!Dirty THEN Cdr!Flush(c) ELSE batch.tx[c]]
    OBVIOUS
  <2>2. PICK r : r = [batch EXCEPT !.flushed = f, !.read = batch.set, !.tx = t]
    OBVIOUS
  <2>3. r = [pc |-> batch.pc, todo |-> batch.todo, call |-> batch.call, known |-> batch.known,
             flushed |-> f, read |-> batch.set, set |-> batch.set, tx |-> t, by |-> batch.by]
    BY <1>1, <2>2 DEF Batches
  <2>4. Cdr!Flushed = r
    BY <2>1, <2>2 DEF Cdr!Flushed
  <2>5. QED
    BY <2>1, <2>3, <2>4
<1>3. Cdr!Dirty \subseteq Calls
  BY <1>1 DEF Cdr!Dirty, Batches
<1>4. ASSUME NEW c \in Calls
      PROVE  Cdr!Flush(c) \in RowPairs
  <2>1. Cdr!Visible(c) \in RowPairs
    BY <1>1 DEF Cdr!Visible, Cdr!Rows, RowPairs, Batches
  <2>2. batch.read[c] \in RowPairs /\ batch.set[c] \in RowPairs
    BY <1>1 DEF Batches
  <2>3. QED
    <3>1. PICK now, old, new, l, s :
            /\ now = Cdr!Visible(c) /\ old = batch.read[c] /\ new = batch.set[c]
            /\ l = Cdr!Written(now.log, old.log, new.log) /\ s = Cdr!Written(now.ses, old.ses, new.ses)
      OBVIOUS
    <3>2. l \in Cdr!Row(Cdr!LogStatuses) /\ s \in Cdr!Row(Cdr!SessionStatuses)
      BY <2>1, <2>2, <3>1, WrittenKeeps DEF RowPairs
    <3>3. QED
      BY <3>1, <3>2 DEF Cdr!Flush, Cdr!Rows, RowPairs
<1>5. [c \in Calls |-> IF c \in Cdr!Dirty THEN Cdr!Flush(c) ELSE batch.tx[c]] \in [Calls -> RowPairs]
  BY <1>1, <1>4 DEF Batches
<1>6. QED
  BY <1>1, <1>2, <1>3, <1>5 DEF Batches

(* The rows of a call once the transaction has been flushed.                 *)
LEMMA FlushKeeps ==
  ASSUME RecordTypes, NEW c \in Calls, CallHolds(c)
  PROVE  /\ c \in Cdr!Flushed.flushed => /\ Cdr!Flushed.tx[c].log.ended = call_logs[c].ended
                                         /\ Cdr!Flushed.tx[c].ses.ended = call_sessions[c].ended
                                         /\ c \notin guessed => Own(c, Cdr!Flushed.tx[c].log)
         /\ c \in batch.known /\ c \notin overlapped =>
              batch.set[c] = IF c \in Cdr!Flushed.flushed THEN Cdr!Flushed.tx[c] ELSE Cdr!Rows(call_logs[c], call_sessions[c])
         /\ Cdr!Flushed.tx[c] \in RowPairs
<1>1. /\ batch \in Batches /\ call_logs[c] \in Cdr!Row(Cdr!LogStatuses) /\ call_sessions[c] \in Cdr!Row(Cdr!SessionStatuses)
      /\ Cdr!Dirty \subseteq batch.known /\ batch.flushed \subseteq batch.known
  BY DEF RecordTypes, Cdr!Dirty
<1>2. /\ Cdr!Flushed.flushed = batch.flushed \cup Cdr!Dirty
      /\ Cdr!Flushed.tx[c] = IF c \in Cdr!Dirty THEN Cdr!Flush(c) ELSE batch.tx[c]
      /\ Cdr!Flushed.tx[c] \in RowPairs
  BY FlushedIs DEF Batches
<1>3. PICK now, old, new : now = Cdr!Visible(c) /\ old = batch.read[c] /\ new = batch.set[c]
  OBVIOUS
<1>4. now \in RowPairs /\ old \in RowPairs /\ new \in RowPairs
  BY <1>1, <1>3 DEF Cdr!Visible, Cdr!Rows, RowPairs, Batches
<1>5. /\ now.log.ended = call_logs[c].ended /\ now.ses.ended = call_sessions[c].ended
      /\ c \notin guessed => Own(c, now.log)
  BY <1>1, <1>3 DEF CallHolds, EndsHold, IdsHold, Cdr!Visible, Cdr!Rows
<1>6. ASSUME c \in Cdr!Dirty
      PROVE  /\ Cdr!Flush(c).log.ended = call_logs[c].ended /\ Cdr!Flush(c).ses.ended = call_sessions[c].ended
             /\ c \notin guessed => Own(c, Cdr!Flush(c).log)
             /\ now = old => Cdr!Flush(c) = new
  <2>1. Cdr!Flush(c) = Cdr!Rows(Cdr!Written(now.log, old.log, new.log), Cdr!Written(now.ses, old.ses, new.ses))
    BY <1>3 DEF Cdr!Flush
  <2>2. /\ new.log.ended = old.log.ended /\ new.ses.ended = old.ses.ended
        /\ c \notin guessed => Own(c, new.log)
    BY <1>1, <1>3, <1>6 DEF CallHolds, EndsHold, IdsHold
  <2>3. /\ now.log \in Cdr!Row(Cdr!LogStatuses) /\ old.log \in Cdr!Row(Cdr!LogStatuses) /\ new.log \in Cdr!Row(Cdr!LogStatuses)
        /\ now.ses \in Cdr!Row(Cdr!SessionStatuses) /\ old.ses \in Cdr!Row(Cdr!SessionStatuses)
        /\ new.ses \in Cdr!Row(Cdr!SessionStatuses) /\ new = Cdr!Rows(new.log, new.ses)
    BY <1>4 DEF RowPairs, Cdr!Rows
  <2>4. PICK l, s : l = Cdr!Written(now.log, old.log, new.log) /\ s = Cdr!Written(now.ses, old.ses, new.ses)
    OBVIOUS
  <2>5. Cdr!Flush(c).log = l /\ Cdr!Flush(c).ses = s
    BY <2>1, <2>4 DEF Cdr!Rows
  <2>6. /\ l.ended = now.log.ended /\ s.ended = now.ses.ended
        /\ l.uid \in {new.log.uid, now.log.uid} /\ l.linked \in {new.log.linked, now.log.linked}
        /\ now = old => l = new.log /\ s = new.ses
    <3>1. /\ l.ended = now.log.ended
          /\ l.uid \in {new.log.uid, now.log.uid} /\ l.linked \in {new.log.linked, now.log.linked}
          /\ now = old => l = new.log
      BY <2>2, <2>3, <2>4, WrittenKeeps
    <3>2. s.ended = now.ses.ended /\ (now = old => s = new.ses)
      BY <2>2, <2>3, <2>4, WrittenKeeps
    <3>3. QED
      BY <3>1, <3>2
  <2>7. QED
    BY <1>5, <2>1, <2>2, <2>3, <2>4, <2>5, <2>6 DEF Own
<1>7. c \in batch.known /\ c \notin overlapped => now = old
  BY <1>3 DEF CallHolds, Undisturbed
<1>8. c \in batch.known /\ c \notin Cdr!Dirty => old = new
  BY <1>3 DEF Cdr!Dirty
<1>9. QED
  BY <1>1, <1>2, <1>3, <1>5, <1>6, <1>7, <1>8 DEF CallHolds, EndsHold, IdsHold, Cdr!Visible

-----------------------------------------------------------------------------
(* While no command is under way there is nothing but the rows.              *)
LEMMA RestHolds ==
  ASSUME RecordTypes, NEW c \in Calls,
         batch'.call = None, batch'.known = {}, batch'.flushed = {}, batch'.by[c] = {},
         c \notin guessed' => Own(c, call_logs'[c]),
         c \notin overlapped' \cup crossed' =>
           /\ Alike(call_logs'[c], call_sessions'[c])
           /\ \A w \in Writers : reader'[w].call = c =>
                reader'[w].log \in {None, call_logs'[c]} /\ reader'[w].ses = call_sessions'[c]
  PROVE  CallHolds(c)'
<1>1. c # None
  BY CdrsAreOfCalls
<1>2. EndsHold(c)'
  BY <1>1 DEF EndsHold
<1>3. IdsHold(c)'
  BY <1>1 DEF IdsHold
<1>4. Undisturbed(c)'
  BY <1>1 DEF Undisturbed
<1>5. TalesHold(c)'
  BY <1>1 DEF TalesHold
<1>6. QED
  BY <1>2, <1>3, <1>4, <1>5 DEF CallHolds

LEMMA WriteCdrKeeps ==
  ASSUME CdrRecordsHold, NEW x \in Cdrs, Cdr!WriteCdr(x)
  PROVE  CdrRecordsHold'
<1>1. RecordTypes'
  BY FS_AddElement DEF CdrRecordsHold, RecordTypes, Cdr!WriteCdr
<1>2. ASSUME NEW c \in Calls
      PROVE  CallHolds(c)'
  BY DEF CdrRecordsHold, Cdr!WriteCdr, CallHolds, EndsHold, IdsHold, Undisturbed, TalesHold, Cdr!Visible, Cdr!DoneWith, Told
<1>3. QED
  BY <1>1, <1>2 DEF CdrRecordsHold

(* A writer has read the rows of a call.                                     *)
LEMMA StartsKeeps ==
  ASSUME CdrRecordsHold, NEW w \in Writers, NEW d \in Calls,
         NEW st \in {"answered", "hangup"} \cup Hangups, NEW row \in {call_logs[d], None},
         st # "hangup" => row = call_logs[d],
         Cdr!Starts(w, d, st, row)
  PROVE  CdrRecordsHold'
<1>1. PICK r : r = [call |-> d, status |-> st, log |-> row, ses |-> call_sessions[d]]
  OBVIOUS
<1>2. /\ reader' = [reader EXCEPT ![w] = r]
      /\ UNCHANGED <<call_logs, call_sessions, cdr, batch, overlapped, crossed, guessed>>
  BY <1>1 DEF Cdr!Starts, Cdr!Reads
<1>3. RecordTypes
  BY DEF CdrRecordsHold
<1>4. r \in Readers /\ (r.status # "hangup" => r.log # None)
  <2>1. call_logs[d] \in Cdr!Row(Cdr!LogStatuses) /\ call_sessions[d] \in Cdr!Row(Cdr!SessionStatuses)
    BY <1>3 DEF RecordTypes
  <2>2. call_logs[d] # None
    BY <2>1, CdrsAreOfCalls
  <2>3. row \in Cdr!Row(Cdr!LogStatuses) \cup {None} /\ (st # "hangup" => row # None)
    BY <2>1, <2>2
  <2>4. QED
    BY <1>1, <2>1, <2>3 DEF Readers
<1>5. RecordTypes'
  BY <1>2, <1>3, <1>4 DEF RecordTypes
<1>6. ASSUME NEW c \in Calls
      PROVE  CallHolds(c)'
  <2>1. CallHolds(c)
    BY DEF CdrRecordsHold
  <2>2. (EndsHold(c) /\ IdsHold(c) /\ Undisturbed(c))'
    BY <1>2, <2>1 DEF CallHolds, EndsHold, IdsHold, Undisturbed, Cdr!Visible, Cdr!DoneWith, Told
  <2>3. TalesHold(c)'
    <3>1. ASSUME NEW v \in Writers, c \notin overlapped \cup crossed, reader'[v].call = c
          PROVE  reader'[v].log \in {None, call_logs[c]} /\ reader'[v].ses = call_sessions[c]
      <4>1. CASE v = w
        BY <1>1, <1>2, <1>3, <3>1, <4>1 DEF RecordTypes
      <4>2. CASE v # w
        BY <1>2, <1>3, <2>1, <3>1, <4>2 DEF CallHolds, TalesHold, RecordTypes
      <4>3. QED
        BY <4>1, <4>2
    <3>2. QED
      BY <1>2, <2>1, <3>1 DEF CallHolds, TalesHold
  <2>4. QED
    BY <2>2, <2>3 DEF CallHolds
<1>7. QED
  BY <1>5, <1>6 DEF CdrRecordsHold

LEMMA ReadEventKeeps ==
  ASSUME CdrRecordsHold, NEW w \in Writers, NEW d \in Calls,
         NEW st \in {"answered"} \cup Hangups, Cdr!ReadEvent(w, d, st)
  PROVE  CdrRecordsHold'
BY StartsKeeps DEF Cdr!ReadEvent

LEMMA BeginHangupKeeps ==
  ASSUME CdrRecordsHold, NEW w \in Writers, NEW d \in Calls, Cdr!BeginHangup(w, d)
  PROVE  CdrRecordsHold'
BY StartsKeeps DEF Cdr!BeginHangup

LEMMA GiveUpKeeps ==
  ASSUME CdrRecordsHold, NEW w \in Writers, Cdr!GiveUp(w)
  PROVE  CdrRecordsHold'
<1>1. PICK r : r = Cdr!Rest
  OBVIOUS
<1>2. /\ reader' = [reader EXCEPT ![w] = r] /\ r.call = None /\ None \notin Calls
      /\ UNCHANGED <<call_logs, call_sessions, cdr, batch, overlapped, crossed, guessed>>
  BY <1>1, CdrsAreOfCalls DEF Cdr!GiveUp, Cdr!Rest
<1>3. RecordTypes /\ r \in Readers
  BY <1>1, DialledIsRow DEF CdrRecordsHold, Cdr!Rest, Readers
<1>4. RecordTypes'
  BY <1>2, <1>3 DEF RecordTypes
<1>5. ASSUME NEW c \in Calls
      PROVE  CallHolds(c)'
  <2>1. CallHolds(c)
    BY DEF CdrRecordsHold
  <2>2. (EndsHold(c) /\ IdsHold(c) /\ Undisturbed(c))'
    BY <1>2, <2>1 DEF CallHolds, EndsHold, IdsHold, Undisturbed, Cdr!Visible, Cdr!DoneWith, Told
  <2>3. \A v \in Writers : reader'[v].call = c => reader'[v] = reader[v]
    BY <1>2, <1>3 DEF RecordTypes
  <2>4. TalesHold(c)'
    BY <1>2, <2>1, <2>3 DEF CallHolds, TalesHold
  <2>5. QED
    BY <2>2, <2>4 DEF CallHolds
<1>6. QED
  BY <1>4, <1>5 DEF CdrRecordsHold

LEMMA BeginKeeps ==
  ASSUME CdrRecordsHold, Cdr!Begin
  PROVE  CdrRecordsHold'
<1>1. PICK s \in [1 .. Cardinality(cdr) -> cdr] :
        batch' = [Cdr!NoBatch EXCEPT !.pc = "log", !.todo = s]
  BY SizesAgree DEF Cdr!Begin
<1>2. UNCHANGED <<call_logs, call_sessions, cdr, reader, overlapped, crossed, guessed>>
  BY DEF Cdr!Begin
<1>3. s \in Seq(Cdrs)
  <2>1. Cardinality(cdr) \in Nat /\ cdr \subseteq Cdrs
    BY FS_CardinalityType DEF CdrRecordsHold, RecordTypes
  <2>2. QED
    BY <1>1, <2>1
<1>4. /\ batch' \in Batches
      /\ batch' = [pc |-> "log", todo |-> s, call |-> None, known |-> {}, flushed |-> {},
                   read |-> Cdr!NoBatch.read, set |-> Cdr!NoBatch.set, tx |-> Cdr!NoBatch.tx,
                   by |-> [c \in Calls |-> {}]]
  BY <1>1, <1>3, NoBatchIsBatch DEF Cdr!NoBatch, Batches
<1>5. RecordTypes'
  BY <1>2, <1>4 DEF CdrRecordsHold, RecordTypes
<1>6. ASSUME NEW c \in Calls
      PROVE  CallHolds(c)'
  <2>1. CallHolds(c) /\ RecordTypes
    BY DEF CdrRecordsHold
  <2>2. QED
    BY <1>2, <1>4, <2>1, RestHolds DEF CallHolds, IdsHold, TalesHold
<1>7. QED
  BY <1>5, <1>6 DEF CdrRecordsHold

LEMMA RollBackKeeps ==
  ASSUME CdrRecordsHold, Cdr!RollBack
  PROVE  CdrRecordsHold'
<1>1. batch' = Cdr!NoBatch /\ UNCHANGED <<call_logs, call_sessions, cdr, reader, overlapped, crossed, guessed>>
  BY DEF Cdr!RollBack
<1>2. RecordTypes'
  BY <1>1, NoBatchIsBatch DEF CdrRecordsHold, RecordTypes, Cdr!NoBatch
<1>3. ASSUME NEW c \in Calls
      PROVE  CallHolds(c)'
  <2>1. CallHolds(c) /\ RecordTypes
    BY DEF CdrRecordsHold
  <2>2. QED
    BY <1>1, <2>1, RestHolds DEF CallHolds, IdsHold, TalesHold, Cdr!NoBatch
<1>4. QED
  BY <1>2, <1>3 DEF CdrRecordsHold

(* What writer w writes to the rows of its call.                             *)
Stored(w) ==
  \E d \in Calls, l \in Cdr!Row(Cdr!LogStatuses), s \in Cdr!Row(Cdr!SessionStatuses) :
    /\ d = reader[w].call /\ d \notin batch.flushed
    /\ call_logs' = [call_logs EXCEPT ![d] = l] /\ call_sessions' = [call_sessions EXCEPT ![d] = s]
    /\ call_logs[d].ended => l.ended
    /\ call_sessions[d].ended => s.ended
    /\ Own(d, call_logs[d]) => Own(d, l)
    /\ d \notin overlapped \cup crossed => Alike(l, s)
    /\ reader' = [reader EXCEPT ![w] = Cdr!Rest] /\ UNCHANGED <<cdr, batch, guessed>>
    /\ overlapped' = IF d \in batch.known \cup {batch.call} THEN overlapped \cup {d} ELSE overlapped
    /\ crossed' = IF \E v \in Writers \ {w} : reader[v].call = d THEN crossed \cup {d} ELSE crossed

LEMMA StoredIs ==
  ASSUME CdrRecordsHold, NEW w \in Writers,
         NEW nl \in Cdr!Row(Cdr!LogStatuses), NEW ns \in Cdr!Row(Cdr!SessionStatuses), NEW ol,
         ol = IF reader[w].log = None THEN call_logs[reader[w].call] ELSE reader[w].log,
         ol.ended => nl.ended, reader[w].ses.ended => ns.ended,
         nl.uid \in {ol.uid, <<reader[w].call, 1>>}, nl.linked \in {ol.linked, reader[w].call},
         Alike(nl, ns), Cdr!Stores(w, nl, ns)
  PROVE  Stored(w)
<1>1. PICK d \in Calls : d = reader[w].call
  BY DEF CdrRecordsHold, RecordTypes, Readers, Cdr!Stores
<1>2. PICK os : os = reader[w].ses
  OBVIOUS
<1>3. /\ ol \in Cdr!Row(Cdr!LogStatuses) /\ os \in Cdr!Row(Cdr!SessionStatuses)
      /\ call_logs[d] \in Cdr!Row(Cdr!LogStatuses) /\ call_sessions[d] \in Cdr!Row(Cdr!SessionStatuses)
  BY <1>1, <1>2 DEF CdrRecordsHold, RecordTypes, Readers
<1>4. PICK l, s : l = Cdr!Written(call_logs[d], ol, nl) /\ s = Cdr!Written(call_sessions[d], os, ns)
  OBVIOUS
<1>5. /\ l \in Cdr!Row(Cdr!LogStatuses)
      /\ call_logs[d] = ol => l = nl
      /\ nl.ended = ol.ended => l.ended = call_logs[d].ended
      /\ nl.ended # ol.ended => l.ended = nl.ended
      /\ nl.uid = ol.uid => l.uid = call_logs[d].uid
      /\ nl.linked = ol.linked => l.linked = call_logs[d].linked
      /\ l.uid \in {nl.uid, call_logs[d].uid} /\ l.linked \in {nl.linked, call_logs[d].linked}
  BY <1>3, <1>4, WrittenKeeps
<1>6. /\ s \in Cdr!Row(Cdr!SessionStatuses)
      /\ call_sessions[d] = os => s = ns
      /\ ns.ended = os.ended => s.ended = call_sessions[d].ended
      /\ ns.ended # os.ended => s.ended = ns.ended
  BY <1>3, <1>4, WrittenKeeps
<1>7. (call_logs[d].ended => l.ended) /\ (call_sessions[d].ended => s.ended)
  <2>1. nl.ended # ol.ended => nl.ended
    BY <1>3 DEF Cdr!Row
  <2>2. ns.ended # os.ended => ns.ended
    BY <1>2, <1>3 DEF Cdr!Row
  <2>3. QED
    BY <1>5, <1>6, <2>1, <2>2
<1>8. Own(d, call_logs[d]) => Own(d, l)
  <2>1. <<d, 1>>[1] = d
    OBVIOUS
  <2>2. QED
    BY <1>1, <1>5, <2>1 DEF Own
<1>9. d \notin overlapped \cup crossed => Alike(l, s)
  <2>1. d \notin overlapped \cup crossed => ol = call_logs[d] /\ os = call_sessions[d]
    BY <1>1, <1>2 DEF CdrRecordsHold, CallHolds, TalesHold
  <2>2. QED
    BY <1>5, <1>6, <2>1
<1>10. /\ call_logs' = [call_logs EXCEPT ![d] = l] /\ call_sessions' = [call_sessions EXCEPT ![d] = s]
       /\ d \notin batch.flushed
  BY <1>1, <1>2, <1>4 DEF Cdr!Stores
<1>11. /\ reader' = [reader EXCEPT ![w] = Cdr!Rest] /\ UNCHANGED <<cdr, batch, guessed>>
       /\ overlapped' = IF d \in batch.known \cup {batch.call} THEN overlapped \cup {d} ELSE overlapped
       /\ crossed' = IF \E v \in Writers \ {w} : reader[v].call = d THEN crossed \cup {d} ELSE crossed
  BY <1>1 DEF Cdr!Stores
<1>12. QED
  BY <1>1, <1>5, <1>6, <1>7, <1>8, <1>9, <1>10, <1>11 DEF Stored

LEMMA EventIsStored ==
  ASSUME CdrRecordsHold, NEW w \in Writers, Cdr!CommitEvent(w)
  PROVE  Stored(w)
<1>1. PICK d, st, ol, os : d = reader[w].call /\ st = reader[w].status /\ ol = reader[w].log /\ os = reader[w].ses
  OBVIOUS
<1>2. /\ d \in Calls /\ st \in Cdr!LogStatuses /\ st # "hangup"
      /\ reader[w].call # None /\ reader[w].log # None
      /\ ol \in Cdr!Row(Cdr!LogStatuses) /\ os \in Cdr!Row(Cdr!SessionStatuses)
  <2>1. /\ d # None /\ st \in {"answered"} \cup Hangups
    BY <1>1 DEF Cdr!CommitEvent, Cdr!Stores
  <2>2. st \in Cdr!LogStatuses /\ st # "hangup"
    BY <2>1, CdrsAreOfCalls DEF Cdr!LogStatuses
  <2>3. reader[w] \in Readers /\ reader[w].log # None
    BY <1>1, <2>1, <2>2 DEF CdrRecordsHold, RecordTypes
  <2>4. QED
    BY <1>1, <2>1, <2>2, <2>3 DEF Readers
<1>3. PICK nl, ns :
        /\ nl = [uid |-> <<d, 1>>, linked |-> d, status |-> st, ended |-> ol.ended \/ st # "answered"]
        /\ ns = [uid |-> <<d, 1>>, linked |-> d, status |-> Cdr!ToSessionStatus(st),
                 ended |-> os.ended \/ st # "answered"]
  OBVIOUS
<1>4. /\ nl \in Cdr!Row(Cdr!LogStatuses) /\ ns \in Cdr!Row(Cdr!SessionStatuses)
      /\ ol.ended => nl.ended
      /\ os.ended => ns.ended
      /\ nl.uid = <<d, 1>> /\ nl.linked = d /\ Alike(nl, ns)
  BY <1>2, <1>3, SessionStatusOf DEF Cdr!Row, Alike
<1>5. Cdr!Stores(w, nl, ns)
  BY <1>1, <1>3 DEF Cdr!CommitEvent
<1>6. ol = IF reader[w].log = None THEN call_logs[reader[w].call] ELSE reader[w].log
  BY <1>1, <1>2
<1>7. QED
  BY <1>1, <1>4, <1>5, <1>6, StoredIs

LEMMA HangupIsStored ==
  ASSUME CdrRecordsHold, NEW w \in Writers, Cdr!MarkHangup(w)
  PROVE  Stored(w)
<1>1. PICK ol, os :
        /\ ol = IF reader[w].log = None THEN call_logs[reader[w].call] ELSE reader[w].log
        /\ os = reader[w].ses
  OBVIOUS
<1>2. ol \in Cdr!Row(Cdr!LogStatuses) /\ os \in Cdr!Row(Cdr!SessionStatuses)
  <2>1. reader[w].call \in Calls
    BY DEF CdrRecordsHold, RecordTypes, Readers, Cdr!MarkHangup, Cdr!Stores
  <2>2. QED
    BY <1>1, <2>1 DEF CdrRecordsHold, RecordTypes, Readers
<1>3. PICK nl, ns : nl = [ol EXCEPT !.status = "canceled"] /\ ns = [os EXCEPT !.status = "hangup"]
  OBVIOUS
<1>4. /\ nl \in Cdr!Row(Cdr!LogStatuses) /\ ns \in Cdr!Row(Cdr!SessionStatuses)
      /\ nl.ended = ol.ended /\ ns.ended = os.ended /\ nl.uid = ol.uid /\ nl.linked = ol.linked
      /\ Alike(nl, ns)
  BY <1>2, <1>3 DEF Cdr!Row, Cdr!LogStatuses, Cdr!SessionStatuses, Alike
<1>5. Cdr!Stores(w, nl, ns)
  BY <1>1, <1>3 DEF Cdr!MarkHangup
<1>6. QED
  BY <1>1, <1>4, <1>5, StoredIs

LEMMA StoredKeeps ==
  ASSUME CdrRecordsHold, NEW w \in Writers, Stored(w)
  PROVE  CdrRecordsHold'
<1>1. PICK d \in Calls, l \in Cdr!Row(Cdr!LogStatuses), s \in Cdr!Row(Cdr!SessionStatuses) :
        /\ d = reader[w].call /\ d \notin batch.flushed
        /\ call_logs' = [call_logs EXCEPT ![d] = l] /\ call_sessions' = [call_sessions EXCEPT ![d] = s]
        /\ Own(d, call_logs[d]) => Own(d, l)
        /\ d \notin overlapped \cup crossed => Alike(l, s)
        /\ reader' = [reader EXCEPT ![w] = Cdr!Rest] /\ UNCHANGED <<cdr, batch, guessed>>
        /\ overlapped' = IF d \in batch.known \cup {batch.call} THEN overlapped \cup {d} ELSE overlapped
        /\ crossed' = IF \E v \in Writers \ {w} : reader[v].call = d THEN crossed \cup {d} ELSE crossed
  BY DEF Stored
<1>2. PICK rest : rest = Cdr!Rest
  OBVIOUS
<1>3. /\ call_logs \in [Calls -> Cdr!Row(Cdr!LogStatuses)] /\ call_sessions \in [Calls -> Cdr!Row(Cdr!SessionStatuses)]
      /\ rest \in Readers /\ rest.call = None /\ None \notin Calls /\ reader \in [Writers -> Readers]
      /\ reader' = [reader EXCEPT ![w] = rest] /\ batch.flushed \subseteq batch.known
  BY <1>1, <1>2, CdrsAreOfCalls, DialledIsRow DEF CdrRecordsHold, RecordTypes, Readers, Cdr!Rest
<1>4. RecordTypes'
  BY <1>1, <1>3 DEF CdrRecordsHold, RecordTypes
<1>5. \A v \in Writers : reader'[v].call \in Calls => v # w /\ reader'[v] = reader[v]
  BY <1>3
<1>6. ASSUME NEW c \in Calls
      PROVE  CallHolds(c)'
  <2>1. CallHolds(c)
    BY DEF CdrRecordsHold
  <2>2. CASE c = d
    <3>1. call_logs'[c] = l /\ call_sessions'[c] = s /\ c \notin batch.flushed
      BY <1>1, <1>3, <2>2
    <3>2. EndsHold(c)'
      BY <1>1, <2>1, <3>1 DEF CallHolds, EndsHold
    <3>3. IdsHold(c)'
      BY <1>1, <2>1, <2>2, <3>1 DEF CallHolds, IdsHold
    <3>4. Undisturbed(c)'
      BY <1>1, <2>2 DEF Undisturbed
    <3>5. TalesHold(c)'
      <4>1. c \notin overlapped' \cup crossed' =>
              /\ c \notin overlapped \cup crossed /\ c \notin batch.known
              /\ \A v \in Writers \ {w} : reader[v].call # c
        BY <1>1, <2>2
      <4>2. c \notin overlapped' \cup crossed' => \A v \in Writers : reader'[v].call # c
        BY <1>5, <4>1
      <4>3. QED
        BY <1>1, <2>2, <3>1, <4>1, <4>2 DEF TalesHold
    <3>6. QED
      BY <3>2, <3>3, <3>4, <3>5 DEF CallHolds
  <2>3. CASE c # d
    <3>1. /\ call_logs'[c] = call_logs[c] /\ call_sessions'[c] = call_sessions[c]
          /\ c \notin overlapped' => c \notin overlapped
          /\ c \notin crossed' => c \notin crossed
      BY <1>1, <1>3, <2>3
    <3>2. EndsHold(c)'
      BY <1>1, <2>1, <3>1 DEF CallHolds, EndsHold
    <3>3. IdsHold(c)'
      BY <1>1, <2>1, <3>1 DEF CallHolds, IdsHold
    <3>4. Undisturbed(c)'
      BY <1>1, <2>1, <3>1 DEF CallHolds, Undisturbed, Cdr!Visible, Cdr!DoneWith, Told
    <3>5. TalesHold(c)'
      BY <1>1, <1>5, <2>1, <3>1 DEF CallHolds, TalesHold
    <3>6. QED
      BY <3>2, <3>3, <3>4, <3>5 DEF CallHolds
  <2>4. QED
    BY <2>2, <2>3
<1>7. QED
  BY <1>4, <1>6 DEF CdrRecordsHold

LEMMA WithTodo ==
  ASSUME NEW b \in Batches, NEW q, NEW d, d = [b EXCEPT !.todo = q]
  PROVE  d = [pc |-> b.pc, todo |-> q, call |-> b.call, known |-> b.known, flushed |-> b.flushed,
              read |-> b.read, set |-> b.set, tx |-> b.tx, by |-> b.by]
BY DEF Batches

(* A record nothing matches.                                                *)
Skip ==
  /\ batch.pc = "log" /\ batch.todo # <<>>
  /\ batch' = [Cdr!Flushed EXCEPT !.todo = Tail(@)]
  /\ UNCHANGED <<call_logs, call_sessions, cdr, reader, overlapped, crossed, guessed>>

LEMMA SkipKeeps ==
  ASSUME CdrRecordsHold, Skip
  PROVE  CdrRecordsHold'
<1>1. /\ RecordTypes /\ batch \in Batches /\ batch.flushed \subseteq batch.known
      /\ batch.call = None /\ Cdr!Dirty \subseteq batch.known
      /\ batch.pc = "log" /\ batch.todo # <<>>
      /\ UNCHANGED <<call_logs, call_sessions, cdr, reader, overlapped, crossed, guessed>>
  BY DEF CdrRecordsHold, RecordTypes, Cdr!Dirty, Skip
<1>2. /\ batch.todo \in Seq(Cdrs) /\ batch.known \in SUBSET Calls /\ batch.set \in [Calls -> RowPairs]
      /\ batch.by \in [Calls -> SUBSET Cdrs]
  BY <1>1 DEF Batches
<1> PICK r, t, f : r = Cdr!Flushed /\ t = Cdr!Flushed.tx /\ f = Cdr!Flushed.flushed
  OBVIOUS
<1>3. batch' = [pc |-> "log", todo |-> Tail(batch.todo), call |-> batch.call, known |-> batch.known,
                flushed |-> f, read |-> batch.set, set |-> batch.set, tx |-> t, by |-> batch.by]
  <2>1. r = [pc |-> "log", todo |-> batch.todo, call |-> batch.call, known |-> batch.known,
             flushed |-> f, read |-> batch.set, set |-> batch.set, tx |-> t, by |-> batch.by]
    BY <1>1, FlushedIs
  <2>2. batch' = [r EXCEPT !.todo = Tail(batch.todo)]
    BY <2>1 DEF Skip
  <2>3. r \in Batches
    BY FlushedIs, <1>1
  <2>4. batch' = [pc |-> r.pc, todo |-> Tail(batch.todo), call |-> r.call, known |-> r.known,
                  flushed |-> r.flushed, read |-> r.read, set |-> r.set, tx |-> r.tx, by |-> r.by]
    BY <2>2, <2>3, WithTodo
  <2>5. QED
    BY <2>1, <2>4
<1>4. t \in [Calls -> RowPairs] /\ f \in SUBSET Calls /\ f \subseteq batch.known
  BY <1>1, <1>2, FlushedIs DEF Batches
<1>5. RecordTypes'
  <2>1. Tail(batch.todo) \in Seq(Cdrs)
    BY <1>1, <1>2, HeadAndTail
  <2>2. batch' \in Batches
    BY <1>1, <1>2, <1>3, <1>4, <2>1 DEF Batches
  <2>3. QED
    BY <1>1, <1>3, <1>4, <2>2 DEF RecordTypes
<1>6. ASSUME NEW c \in Calls
      PROVE  CallHolds(c)'
  <2>1. /\ CallHolds(c) /\ c # batch.call
        /\ c \in f => /\ t[c].log.ended = call_logs[c].ended
                      /\ t[c].ses.ended = call_sessions[c].ended
                      /\ c \notin guessed => Own(c, t[c].log)
        /\ c \in batch.known /\ c \notin overlapped =>
             batch.set[c] = IF c \in f THEN t[c] ELSE Cdr!Rows(call_logs[c], call_sessions[c])
    BY <1>1, FlushKeeps, CdrsAreOfCalls DEF CdrRecordsHold
  <2>2. EndsHold(c)'
    BY <1>1, <1>3, <2>1 DEF CallHolds, EndsHold
  <2>3. IdsHold(c)'
    BY <1>1, <1>3, <2>1 DEF CallHolds, IdsHold
  <2>4. Undisturbed(c)'
    BY <1>1, <1>3, <2>1 DEF CallHolds, Undisturbed, Cdr!Visible, Cdr!DoneWith, Told
  <2>5. TalesHold(c)'
    BY <1>1, <1>3, <2>1 DEF CallHolds, TalesHold
  <2>6. QED
    BY <2>2, <2>3, <2>4, <2>5 DEF CallHolds
<1>7. QED
  BY <1>5, <1>6 DEF CdrRecordsHold

(* A record that names the call by an id is given to a call of its own.       *)
LEMMA FoundIsOwn ==
  ASSUME CdrRecordsHold, NEW x \in Cdrs, NEW c \in Calls, c \in Cdr!Matches(x), c \notin guessed,
         Cdr!WithUid(x) \cup Cdr!WithLinked(x) # {}
  PROVE  c = CdrCall[x]
<1>1. Own(c, Cdr!Now(c))
  <2>1. RecordTypes /\ CallHolds(c) /\ batch \in Batches
    BY DEF CdrRecordsHold, RecordTypes
  <2>2. c \in Cdr!Dirty => c \in Cdr!Flushed.flushed /\ Cdr!Flushed.tx[c] = Cdr!Flush(c)
    BY <2>1, FlushedIs
  <2>3. c \in Cdr!Dirty => Own(c, Cdr!Flush(c).log)
    BY <2>1, <2>2, FlushKeeps
  <2>4. Own(c, Cdr!Visible(c).log)
    BY <2>1 DEF CallHolds, IdsHold, Cdr!Visible, Cdr!Rows
  <2>5. QED
    BY <2>3, <2>4 DEF Cdr!Now
<1>2. c \in Cdr!WithUid(x) \/ (c \in Cdr!WithLinked(x) /\ Cdr!WithUid(x) = {})
  BY DEF Cdr!Matches
<1>3. CdrCall[x] \in Calls /\ Leg[x] \in Nat /\ None \notin Calls /\ None \notin Calls \X Nat
  BY CdrsAreOfCalls
<1>4. ASSUME c \in Cdr!WithUid(x)
      PROVE  c = CdrCall[x]
  BY <1>1, <1>3, <1>4 DEF Cdr!WithUid, Cdr!Uid, Own
<1>5. ASSUME c \in Cdr!WithLinked(x)
      PROVE  c = CdrCall[x]
  BY <1>1, <1>3, <1>5 DEF Cdr!WithLinked, Own
<1>6. QED
  BY <1>2, <1>4, <1>5

(* Batch b with the row of log of call d, read once or read now.              *)
Given(b, d, row) ==
  [b EXCEPT !.pc = "session", !.call = d, !.read[d].log = row, !.set[d].log = row]

LEMMA WithCall ==
  ASSUME NEW b \in Batches, NEW d \in Calls, NEW row \in Cdr!Row(Cdr!LogStatuses), NEW e,
         e = Given(b, d, row)
  PROVE  /\ e \in Batches
         /\ e = [pc |-> "session", todo |-> b.todo, call |-> d, known |-> b.known,
                 flushed |-> b.flushed, read |-> e.read, set |-> e.set, tx |-> b.tx, by |-> b.by]
         /\ e.read[d] = Cdr!Rows(row, b.read[d].ses) /\ e.set[d] = Cdr!Rows(row, b.set[d].ses)
         /\ \A c \in Calls \ {d} : e.read[c] = b.read[c] /\ e.set[c] = b.set[c]
<1>1. PICK r, s : r = [b.read EXCEPT ![d].log = row] /\ s = [b.set EXCEPT ![d].log = row]
  OBVIOUS
<1>2. e = [b EXCEPT !.pc = "session", !.call = d, !.read = r, !.set = s]
  BY <1>1 DEF Batches, Given
<1>3. e = [pc |-> "session", todo |-> b.todo, call |-> d, known |-> b.known,
           flushed |-> b.flushed, read |-> r, set |-> s, tx |-> b.tx, by |-> b.by]
  BY <1>2 DEF Batches
<1>4. b.read \in [Calls -> RowPairs] /\ b.set \in [Calls -> RowPairs]
  BY DEF Batches
<1>5. /\ r[d] = Cdr!Rows(row, b.read[d].ses) /\ s[d] = Cdr!Rows(row, b.set[d].ses)
      /\ \A c \in Calls \ {d} : r[c] = b.read[c] /\ s[c] = b.set[c]
  BY <1>1, <1>4 DEF Cdr!Rows, RowPairs
<1>6. r \in [Calls -> RowPairs] /\ s \in [Calls -> RowPairs]
  BY <1>1, <1>4 DEF RowPairs
<1>7. e \in Batches
  BY <1>3, <1>6 DEF Batches
<1>8. e.read = r /\ e.set = s
  BY <1>3
<1>9. QED
  BY <1>3, <1>5, <1>7, <1>8

(* A record is given to call d.                                             *)
Found(x, d) ==
  /\ batch.pc = "log" /\ batch.todo # <<>> /\ x = batch.todo[1]
  /\ d \in Cdr!Matches(x)
  /\ batch' = [Cdr!Flushed EXCEPT
       !.pc = "session", !.call = d,
       !.read[d].log = IF d \in batch.known THEN @ ELSE call_logs[d],
       !.set[d].log = IF d \in batch.known THEN @ ELSE call_logs[d]]
  /\ guessed' = IF d = CdrCall[x] \/ Cdr!WithUid(x) \cup Cdr!WithLinked(x) # {}
                THEN guessed ELSE guessed \cup {d, CdrCall[x]}
  /\ UNCHANGED <<call_logs, call_sessions, cdr, reader, overlapped, crossed>>

LEMMA FoundIs ==
  ASSUME RecordTypes, NEW x, NEW d \in Calls, Found(x, d)
  PROVE  /\ batch' \in Batches
         /\ batch'.pc = "session" /\ batch'.todo = batch.todo /\ batch'.call = d
         /\ batch'.known = batch.known /\ batch'.flushed = Cdr!Flushed.flushed
         /\ batch'.tx = Cdr!Flushed.tx /\ batch'.by = batch.by
         /\ \A c \in Calls : batch'.read[c] = batch'.set[c]
         /\ \A c \in Calls : c \in batch.known => batch'.set[c] = batch.set[c]
         /\ d \notin batch.known => batch'.set[d].log = call_logs[d]
<1>1. PICK b : b = Cdr!Flushed
  OBVIOUS
<1>2. b \in Batches /\ b.read = batch.set /\ b.set = batch.set /\ b.known = batch.known
      /\ b.todo = batch.todo /\ b.by = batch.by
  BY <1>1, FlushedIs
<1>3. PICK row : row = IF d \in batch.known THEN batch.set[d].log ELSE call_logs[d]
  OBVIOUS
<1>4. batch.set \in [Calls -> RowPairs] /\ row \in Cdr!Row(Cdr!LogStatuses)
  BY <1>3 DEF RecordTypes, Batches, RowPairs
<1>5. batch' = Given(b, d, row)
  BY <1>1, <1>2, <1>3 DEF Found, Given
<1>6. PICK e : e = batch'
  OBVIOUS
<1>7. /\ e \in Batches
      /\ e = [pc |-> "session", todo |-> b.todo, call |-> d, known |-> b.known,
              flushed |-> b.flushed, read |-> e.read, set |-> e.set, tx |-> b.tx, by |-> b.by]
      /\ e.read[d] = Cdr!Rows(row, b.read[d].ses) /\ e.set[d] = Cdr!Rows(row, b.set[d].ses)
      /\ \A c \in Calls \ {d} : e.read[c] = b.read[c] /\ e.set[c] = b.set[c]
  BY <1>2, <1>4, <1>5, <1>6, WithCall
<1>8. d \in batch.known => Cdr!Rows(row, batch.set[d].ses) = batch.set[d]
  BY <1>3, <1>4 DEF Cdr!Rows, RowPairs
<1>9. /\ e.pc = "session" /\ e.todo = batch.todo /\ e.call = d /\ e.known = batch.known
      /\ e.flushed = b.flushed /\ e.tx = b.tx /\ e.by = batch.by
  BY <1>2, <1>7
<1>10. /\ \A c \in Calls : e.read[c] = e.set[c]
       /\ \A c \in Calls : c \in batch.known => e.set[c] = batch.set[c]
       /\ d \notin batch.known => e.set[d].log = call_logs[d]
  BY <1>2, <1>3, <1>7, <1>8 DEF Cdr!Rows
<1>11. QED
  BY <1>1, <1>6, <1>7, <1>9, <1>10

LEMMA FoundKeeps ==
  ASSUME CdrRecordsHold, NEW x, NEW d \in Calls, Found(x, d)
  PROVE  CdrRecordsHold'
<1>1. /\ RecordTypes /\ batch.flushed \subseteq batch.known /\ Cdr!Dirty \subseteq batch.known
      /\ batch.todo \in Seq(Cdrs) /\ batch.todo # <<>> /\ x = batch.todo[1]
      /\ UNCHANGED <<call_logs, call_sessions, cdr, reader, overlapped, crossed>>
  BY DEF CdrRecordsHold, RecordTypes, Cdr!Dirty, Batches, Found
<1>2. /\ batch' \in Batches
      /\ batch'.pc = "session" /\ batch'.todo = batch.todo /\ batch'.call = d
      /\ batch'.known = batch.known /\ batch'.flushed = Cdr!Flushed.flushed
      /\ batch'.tx = Cdr!Flushed.tx /\ batch'.by = batch.by
      /\ \A c \in Calls : batch'.read[c] = batch'.set[c]
      /\ \A c \in Calls : c \in batch.known => batch'.set[c] = batch.set[c]
      /\ d \notin batch.known => batch'.set[d].log = call_logs[d]
  BY <1>1, FoundIs
<1>3. batch'.flushed \subseteq batch.known /\ None # d /\ x \in Cdrs
  <2>1. batch'.flushed = batch.flushed \cup Cdr!Dirty
    BY <1>1, <1>2, FlushedIs
  <2>2. batch.todo[1] \in Cdrs
    BY <1>1, HeadAndTail
  <2>3. QED
    BY <1>1, <2>1, <2>2, CdrsAreOfCalls
<1>4. RecordTypes'
  BY <1>1, <1>2, <1>3 DEF RecordTypes
<1>5. guessed \subseteq guessed' /\ (d \notin guessed' => CdrCall[x] = d)
  <2>1. ASSUME d \notin guessed, Cdr!WithUid(x) \cup Cdr!WithLinked(x) # {}
        PROVE  CdrCall[x] = d
    BY <1>3, <2>1, FoundIsOwn DEF Found
  <2>2. QED
    BY <2>1 DEF Found
<1>6. ASSUME NEW c \in Calls
      PROVE  CallHolds(c)'
  <2>1. /\ CallHolds(c)
        /\ c \in batch'.flushed => /\ batch'.tx[c].log.ended = call_logs[c].ended
                                   /\ batch'.tx[c].ses.ended = call_sessions[c].ended
                                   /\ c \notin guessed => Own(c, batch'.tx[c].log)
        /\ c \in batch.known /\ c \notin overlapped =>
             batch'.set[c] = IF c \in batch'.flushed THEN batch'.tx[c] ELSE Cdr!Rows(call_logs[c], call_sessions[c])
    BY <1>1, <1>2, FlushKeeps DEF CdrRecordsHold
  <2>2. EndsHold(c)'
    BY <1>1, <1>2, <2>1 DEF CallHolds, EndsHold
  <2>3. IdsHold(c)'
    BY <1>1, <1>2, <1>5, <2>1 DEF CallHolds, IdsHold
  <2>4. Undisturbed(c)'
    BY <1>1, <1>2, <2>1 DEF CallHolds, Undisturbed, Cdr!Visible, Cdr!DoneWith, Told
  <2>5. TalesHold(c)'
    BY <1>1, <1>2, <2>1 DEF CallHolds, TalesHold
  <2>6. QED
    BY <2>2, <2>3, <2>4, <2>5 DEF CallHolds
<1>7. QED
  BY <1>4, <1>6 DEF CdrRecordsHold

LEMMA MatchesAreCalls ==
  ASSUME CdrRecordsHold, batch.todo # <<>>
  PROVE  Cdr!Matches(batch.todo[1]) \subseteq Calls
<1>1. batch.todo \in Seq(Cdrs)
  BY DEF CdrRecordsHold, RecordTypes, Batches
<1>2. Near[batch.todo[1]] \subseteq Calls
  BY <1>1, HeadAndTail, CdrsAreOfCalls
<1>3. QED
  BY <1>2 DEF Cdr!Matches, Cdr!WithUid, Cdr!WithLinked

LEMMA FindLogKeeps ==
  ASSUME CdrRecordsHold, Cdr!FindLog
  PROVE  CdrRecordsHold'
<1>1. CASE Cdr!Matches(batch.todo[1]) = {}
  BY <1>1, SkipKeeps DEF Cdr!FindLog, Skip
<1>2. CASE Cdr!Matches(batch.todo[1]) # {}
  <2>1. PICK d \in Cdr!Matches(batch.todo[1]) : Found(batch.todo[1], d)
    BY <1>2 DEF Cdr!FindLog, Found
  <2>2. d \in Calls
    BY <2>1, MatchesAreCalls DEF Found
  <2>3. QED
    BY <2>1, <2>2, FoundKeeps
<1>3. QED
  BY <1>1, <1>2

-----------------------------------------------------------------------------
LEMMA OutcomeIsFinal ==
  ASSUME NEW x \in Cdrs
  PROVE  Cdr!Outcome(x) = Cdr!NoStatus \/ (Cdr!Outcome(x) \in Cdr!LogStatuses /\ Cdr!Rank(Cdr!Outcome(x)) = 3)
BY CdrsAreOfCalls DEF Cdr!Outcome, Cdr!Rank, Cdr!LogStatuses, Cdr!NoStatus

LEMMA SetLogIs ==
  ASSUME NEW x \in Cdrs, NEW row \in Cdr!Row(Cdr!LogStatuses), NEW l, l = Cdr!SetLog(row, x)
  PROVE  /\ l \in Cdr!Row(Cdr!LogStatuses) /\ l.ended = row.ended /\ l.uid = Cdr!Uid(x)
         /\ l.linked \in {row.linked, CdrCall[x]}
         /\ l.status = IF Cdr!Outcome(x) = Cdr!NoStatus THEN row.status ELSE Cdr!Outcome(x)
<1>1. Cdr!Outcome(x) # Cdr!NoStatus => Cdr!Outcome(x) \in Cdr!LogStatuses
  BY OutcomeIsFinal
<1>2. Cdr!Changes(row.status, x) <=> Cdr!Outcome(x) # Cdr!NoStatus
  <2>1. Cdr!Rank(row.status) \in 0 .. 3
    BY DEF Cdr!Rank
  <2>2. QED
    BY <2>1, OutcomeIsFinal DEF Cdr!Changes, Cdr!Upgrades
<1>3. l = [uid |-> Cdr!Uid(x), linked |-> IF HasLinked THEN CdrCall[x] ELSE row.linked,
           status |-> IF Cdr!Changes(row.status, x) THEN Cdr!Outcome(x) ELSE row.status,
           ended |-> row.ended]
  BY DEF Cdr!SetLog, Cdr!Row
<1>4. Cdr!Uid(x) \in Calls \X Nat /\ CdrCall[x] \in Calls
  BY CdrsAreOfCalls DEF Cdr!Uid
<1>5. QED
  BY <1>1, <1>2, <1>3, <1>4 DEF Cdr!Row

LEMMA SetSessionIs ==
  ASSUME NEW x \in Cdrs, NEW row \in Cdr!Row(Cdr!SessionStatuses), NEW l \in Cdr!Row(Cdr!LogStatuses),
         NEW s, s = Cdr!SetSession(row, l, x)
  PROVE  /\ s \in Cdr!Row(Cdr!SessionStatuses) /\ s.ended = row.ended
         /\ s.status = IF Cdr!Outcome(x) = Cdr!NoStatus THEN row.status ELSE Cdr!ToSessionStatus(Cdr!Outcome(x))
<1>1. Cdr!Outcome(x) # Cdr!NoStatus => Cdr!ToSessionStatus(Cdr!Outcome(x)) \in Cdr!SessionStatuses
  BY OutcomeIsFinal, SessionStatusOf
<1>2. Cdr!Changes(l.status, x) <=> Cdr!Outcome(x) # Cdr!NoStatus
  <2>1. Cdr!Rank(l.status) \in 0 .. 3
    BY DEF Cdr!Rank
  <2>2. QED
    BY <2>1, OutcomeIsFinal DEF Cdr!Changes, Cdr!Upgrades
<1>3. s = [uid |-> l.uid, linked |-> IF l.linked = None THEN row.linked ELSE l.linked,
           status |-> IF Cdr!Changes(l.status, x) THEN Cdr!ToSessionStatus(Cdr!Outcome(x)) ELSE row.status,
           ended |-> row.ended]
  BY DEF Cdr!SetSession, Cdr!Row
<1>4. QED
  BY <1>1, <1>2, <1>3 DEF Cdr!Row

(* What a record makes of the two rows of a call.                            *)
Set(l, s, x) ==
  IF Cdr!Finalized(l, s) THEN Cdr!Rows(l, s) ELSE Cdr!Rows(Cdr!SetLog(l, x), Cdr!SetSession(s, Cdr!SetLog(l, x), x))

LEMMA SetIs ==
  ASSUME NEW x \in Cdrs, NEW l \in Cdr!Row(Cdr!LogStatuses), NEW s \in Cdr!Row(Cdr!SessionStatuses),
         NEW p, p = Set(l, s, x)
  PROVE  /\ p \in RowPairs /\ p.log.ended = l.ended /\ p.ses.ended = s.ended
         /\ \A c : Own(c, l) /\ CdrCall[x] = c => Own(c, p.log)
         /\ Alike(l, s) => Alike(p.log, p.ses)
         /\ Cdr!Finalized(l, s) => p = Cdr!Rows(l, s)
         /\ ~ Cdr!Finalized(l, s) => /\ p.log.uid = Cdr!Uid(x)
                                     /\ Cdr!Outcome(x) # Cdr!NoStatus => p.log.status = Cdr!Outcome(x)
<1>1. CASE Cdr!Finalized(l, s)
  BY <1>1 DEF Set, Cdr!Rows, RowPairs
<1>2. CASE ~ Cdr!Finalized(l, s)
  <2>1. PICK nl, ns : nl = Cdr!SetLog(l, x) /\ ns = Cdr!SetSession(s, nl, x)
    OBVIOUS
  <2>2. /\ nl \in Cdr!Row(Cdr!LogStatuses) /\ nl.ended = l.ended /\ nl.uid = Cdr!Uid(x)
        /\ nl.linked \in {l.linked, CdrCall[x]}
        /\ nl.status = IF Cdr!Outcome(x) = Cdr!NoStatus THEN l.status ELSE Cdr!Outcome(x)
    BY <2>1, SetLogIs
  <2>3. /\ ns \in Cdr!Row(Cdr!SessionStatuses) /\ ns.ended = s.ended
        /\ ns.status = IF Cdr!Outcome(x) = Cdr!NoStatus THEN s.status ELSE Cdr!ToSessionStatus(Cdr!Outcome(x))
    BY <2>1, <2>2, SetSessionIs
  <2>4. p = Cdr!Rows(nl, ns) /\ p.log = nl /\ p.ses = ns
    BY <1>2, <2>1 DEF Set, Cdr!Rows
  <2>5. Cdr!Uid(x)[1] = CdrCall[x]
    BY DEF Cdr!Uid
  <2>6. QED
    BY <1>2, <2>2, <2>3, <2>4, <2>5 DEF Own, Alike, Cdr!Rows, RowPairs
<1>3. QED
  BY <1>1, <1>2

(* Batch b with what record x, the first one left but q, makes of call d.    *)
Taken(b, d, x, q, row, pair) ==
  [b EXCEPT !.pc = "log", !.todo = q, !.call = None, !.known = @ \cup {d},
            !.by[d] = @ \cup {x}, !.read[d].ses = row, !.set[d] = pair]

LEMMA WithRows ==
  ASSUME NEW b \in Batches, NEW d \in Calls, NEW x \in Cdrs, NEW q \in Seq(Cdrs),
         NEW row \in Cdr!Row(Cdr!SessionStatuses), NEW pair \in RowPairs,
         NEW e, e = Taken(b, d, x, q, row, pair)
  PROVE  /\ e \in Batches
         /\ e = [pc |-> "log", todo |-> q, call |-> None, known |-> b.known \cup {d},
                 flushed |-> b.flushed, read |-> e.read, set |-> e.set, tx |-> b.tx, by |-> e.by]
         /\ e.read[d] = Cdr!Rows(b.read[d].log, row) /\ e.set[d] = pair /\ e.by[d] = b.by[d] \cup {x}
         /\ \A c \in Calls \ {d} :
              e.read[c] = b.read[c] /\ e.set[c] = b.set[c] /\ e.by[c] = b.by[c]
<1>1. PICK r, s, y, k : /\ r = [b.read EXCEPT ![d].ses = row] /\ s = [b.set EXCEPT ![d] = pair]
                        /\ y = [b.by EXCEPT ![d] = @ \cup {x}] /\ k = b.known \cup {d}
  OBVIOUS
<1>2. e = [b EXCEPT !.pc = "log", !.todo = q, !.call = None, !.known = k, !.by = y,
                    !.read = r, !.set = s]
  BY <1>1 DEF Batches, Taken
<1>3. e = [pc |-> "log", todo |-> q, call |-> None, known |-> k,
           flushed |-> b.flushed, read |-> r, set |-> s, tx |-> b.tx, by |-> y]
  BY <1>2 DEF Batches
<1>4. /\ b.read \in [Calls -> RowPairs] /\ b.set \in [Calls -> RowPairs]
      /\ b.by \in [Calls -> SUBSET Cdrs]
  BY DEF Batches
<1>5. /\ r[d] = Cdr!Rows(b.read[d].log, row) /\ s[d] = pair /\ y[d] = b.by[d] \cup {x}
      /\ \A c \in Calls \ {d} : r[c] = b.read[c] /\ s[c] = b.set[c] /\ y[c] = b.by[c]
  BY <1>1, <1>4 DEF Cdr!Rows, RowPairs
<1>6. /\ r \in [Calls -> RowPairs] /\ s \in [Calls -> RowPairs] /\ y \in [Calls -> SUBSET Cdrs]
      /\ k \in SUBSET Calls
  BY <1>1, <1>4 DEF RowPairs, Batches
<1>7. e \in Batches
  BY <1>3, <1>6 DEF Batches
<1>8. e.read = r /\ e.set = s /\ e.by = y
  BY <1>3
<1>9. QED
  BY <1>1, <1>3, <1>5, <1>7, <1>8

LEMMA ReconcileIs ==
  ASSUME RecordTypes, Cdr!Reconcile
  PROVE  \E d \in Calls, x \in Cdrs, s \in Cdr!Row(Cdr!SessionStatuses), p \in RowPairs :
           /\ d = batch.call /\ x = batch.todo[1]
           /\ s = IF d \in batch.known THEN batch.set[d].ses ELSE call_sessions[d]
           /\ p = Set(batch.set[d].log, s, x) /\ batch.set[d].log \in Cdr!Row(Cdr!LogStatuses)
           /\ batch' \in Batches
           /\ batch'.pc = "log" /\ batch'.call = None /\ batch'.known = batch.known \cup {d}
           /\ batch'.flushed = batch.flushed /\ batch'.tx = batch.tx
           /\ batch'.set[d] = p /\ batch'.by[d] = batch.by[d] \cup {x}
           /\ batch'.read[d] =
                Cdr!Rows(batch.read[d].log, IF d \in batch.known THEN batch.read[d].ses ELSE call_sessions[d])
           /\ \A c \in Calls \ {d} :
                batch'.read[c] = batch.read[c] /\ batch'.set[c] = batch.set[c]
                  /\ batch'.by[c] = batch.by[c]
<1>1. batch.pc = "session" /\ batch \in Batches /\ batch.call # None /\ batch.todo # <<>>
  BY DEF RecordTypes, Cdr!Reconcile
<1>2. /\ batch.todo \in Seq(Cdrs) /\ batch.call \in Calls
      /\ batch.set \in [Calls -> RowPairs] /\ batch.read \in [Calls -> RowPairs]
      /\ call_sessions \in [Calls -> Cdr!Row(Cdr!SessionStatuses)]
  BY <1>1 DEF RecordTypes, Batches
<1>3. PICK d \in Calls, x \in Cdrs, q \in Seq(Cdrs) :
        d = batch.call /\ x = batch.todo[1] /\ q = Tail(batch.todo)
  BY <1>1, <1>2, HeadAndTail
<1>4. PICK s, r, l, p : /\ s = IF d \in batch.known THEN batch.set[d].ses ELSE call_sessions[d]
                        /\ r = IF d \in batch.known THEN batch.read[d].ses ELSE call_sessions[d]
                        /\ l = batch.set[d].log /\ p = Set(l, s, x)
  OBVIOUS
<1>5. s \in Cdr!Row(Cdr!SessionStatuses) /\ r \in Cdr!Row(Cdr!SessionStatuses) /\ l \in Cdr!Row(Cdr!LogStatuses)
  BY <1>2, <1>4 DEF RowPairs
<1>6. p \in RowPairs
  BY <1>4, <1>5, SetIs
<1>7. batch' = Taken(batch, d, x, q, r, p)
  BY <1>3, <1>4 DEF Cdr!Reconcile, Taken, Set, Cdr!SessionOf
<1>8. PICK e : e = batch'
  OBVIOUS
<1>9. /\ e \in Batches
      /\ e = [pc |-> "log", todo |-> q, call |-> None, known |-> batch.known \cup {d},
              flushed |-> batch.flushed, read |-> e.read, set |-> e.set, tx |-> batch.tx,
              by |-> e.by]
      /\ e.read[d] = Cdr!Rows(batch.read[d].log, r) /\ e.set[d] = p
      /\ e.by[d] = batch.by[d] \cup {x}
      /\ \A c \in Calls \ {d} :
           e.read[c] = batch.read[c] /\ e.set[c] = batch.set[c] /\ e.by[c] = batch.by[c]
  BY <1>1, <1>5, <1>6, <1>7, <1>8, WithRows
<1>10. /\ e.pc = "log" /\ e.call = None /\ e.known = batch.known \cup {d}
       /\ e.flushed = batch.flushed /\ e.tx = batch.tx
  BY <1>9
<1>11. QED
  BY <1>3, <1>4, <1>5, <1>6, <1>8, <1>9, <1>10

LEMMA ReconcileKeeps ==
  ASSUME CdrRecordsHold, Cdr!Reconcile
  PROVE  CdrRecordsHold'
<1>1. /\ RecordTypes /\ batch.flushed \subseteq batch.known /\ None \notin Calls
      /\ UNCHANGED <<call_logs, call_sessions, cdr, reader, overlapped, crossed, guessed>>
  BY CdrsAreOfCalls DEF CdrRecordsHold, RecordTypes, Cdr!Reconcile
<1>2. PICK d \in Calls, x \in Cdrs, s \in Cdr!Row(Cdr!SessionStatuses), p \in RowPairs :
        /\ d = batch.call /\ x = batch.todo[1]
        /\ s = IF d \in batch.known THEN batch.set[d].ses ELSE call_sessions[d]
        /\ p = Set(batch.set[d].log, s, x) /\ batch.set[d].log \in Cdr!Row(Cdr!LogStatuses)
        /\ batch' \in Batches
        /\ batch'.pc = "log" /\ batch'.call = None /\ batch'.known = batch.known \cup {d}
        /\ batch'.flushed = batch.flushed /\ batch'.tx = batch.tx
        /\ batch'.set[d] = p /\ batch'.by[d] = batch.by[d] \cup {x}
        /\ batch'.read[d] =
             Cdr!Rows(batch.read[d].log, IF d \in batch.known THEN batch.read[d].ses ELSE call_sessions[d])
        /\ \A c \in Calls \ {d} :
             batch'.read[c] = batch.read[c] /\ batch'.set[c] = batch.set[c]
               /\ batch'.by[c] = batch.by[c]
  BY <1>1, ReconcileIs
<1>3. PICK l \in Cdr!Row(Cdr!LogStatuses) : l = batch.set[d].log
  BY <1>2
<1>4. /\ p.log.ended = l.ended /\ p.ses.ended = s.ended
      /\ Own(d, l) /\ CdrCall[x] = d => Own(d, p.log)
      /\ Alike(l, s) => Alike(p.log, p.ses)
      /\ Cdr!Finalized(l, s) => p = Cdr!Rows(l, s)
      /\ ~ Cdr!Finalized(l, s) => /\ p.log.uid = Cdr!Uid(x)
                                  /\ Cdr!Outcome(x) # Cdr!NoStatus => p.log.status = Cdr!Outcome(x)
  BY <1>2, <1>3, SetIs
<1>5. RecordTypes'
  BY <1>1, <1>2 DEF RecordTypes
<1>6. ASSUME NEW c \in Calls, c # d
      PROVE  CallHolds(c)'
  <2>1. /\ CallHolds(c) /\ c # batch.call /\ c # batch'.call
        /\ c \in batch'.known <=> c \in batch.known
        /\ batch'.read[c] = batch.read[c] /\ batch'.set[c] = batch.set[c]
        /\ batch'.by[c] = batch.by[c]
    BY <1>1, <1>2, <1>6 DEF CdrRecordsHold
  <2>2. EndsHold(c)'
    BY <1>1, <1>2, <2>1 DEF CallHolds, EndsHold
  <2>3. IdsHold(c)'
    BY <1>1, <1>2, <2>1 DEF CallHolds, IdsHold
  <2>4. Undisturbed(c)'
    BY <1>1, <1>2, <2>1 DEF CallHolds, Undisturbed, Cdr!Visible, Cdr!DoneWith, Told
  <2>5. TalesHold(c)'
    BY <1>1, <1>2, <2>1 DEF CallHolds, TalesHold
  <2>6. QED
    BY <2>2, <2>3, <2>4, <2>5 DEF CallHolds
<1>7. CallHolds(d) /\ d # None /\ (d \notin batch.known => d \notin batch.flushed)
  BY <1>1 DEF CdrRecordsHold
<1>8. EndsHold(d)'
  <2>1. /\ batch'.read[d].log = batch.read[d].log
        /\ batch'.read[d].ses = IF d \in batch.known THEN batch.read[d].ses ELSE call_sessions[d]
    BY <1>2 DEF Cdr!Rows
  <2>2. l.ended = batch.read[d].log.ended /\ s.ended = batch'.read[d].ses.ended
    BY <1>2, <1>3, <1>7, <2>1 DEF CallHolds, EndsHold
  <2>3. d \in batch.flushed => /\ batch.tx[d].log.ended = call_logs[d].ended
                               /\ batch.tx[d].ses.ended = call_sessions[d].ended
    BY <1>7 DEF CallHolds, EndsHold
  <2>4. d \in batch'.known /\ batch'.by[d] # {}
    BY <1>2
  <2>5. QED
    BY <1>1, <1>2, <1>4, <2>1, <2>2, <2>3, <2>4 DEF EndsHold
<1>9. IdsHold(d)'
  BY <1>1, <1>2, <1>3, <1>4, <1>7 DEF CallHolds, IdsHold
<1>10. ASSUME d \notin overlapped
       PROVE  /\ Cdr!Visible(d)' = batch'.read[d]
              /\ IF Cdr!DoneWith(d) THEN p = Cdr!Rows(call_logs[d], call_sessions[d]) ELSE Told(d, p.log)'
  <2>1. CASE d \in batch.known
    <3>1. batch.read[d] = Cdr!Rows(batch.read[d].log, batch.read[d].ses)
      BY <1>1 DEF RecordTypes, Batches, RowPairs, Cdr!Rows
    <3>2. Cdr!Visible(d) = batch.read[d]
      BY <1>2, <1>3, <1>7, <1>10, <2>1 DEF CallHolds, Undisturbed
    <3>3. CASE Cdr!DoneWith(d)
      <4>1. batch.set[d] = Cdr!Rows(call_logs[d], call_sessions[d])
        BY <1>7, <1>10, <2>1, <3>3 DEF CallHolds, Undisturbed
      <4>2. l = call_logs[d] /\ s = call_sessions[d]
        BY <1>2, <1>3, <2>1, <4>1 DEF Cdr!Rows
      <4>3. p = Cdr!Rows(call_logs[d], call_sessions[d])
        BY <1>4, <3>3, <4>2 DEF Cdr!DoneWith, Cdr!Finalized
      <4>4. QED
        BY <1>1, <1>2, <1>4, <2>1, <3>1, <3>2, <3>3, <4>3 DEF Cdr!Visible
    <3>4. CASE ~ Cdr!DoneWith(d)
      <4>1. Told(d, l) /\ batch.by[d] # {}
        BY <1>3, <1>7, <1>10, <2>1, <3>4 DEF CallHolds, Undisturbed, EndsHold
      <4>2. Told(d, p.log)'
        <5>1. \A y \in Cdrs : batch'.by[d] = {y} => y = x /\ batch.by[d] = {y}
          BY <1>2, <4>1
        <5>2. Cdr!Finalized(l, s) => p.log = l
          BY <1>4 DEF Cdr!Rows
        <5>3. QED
          BY <1>4, <4>1, <5>1, <5>2 DEF Told
      <4>3. QED
        BY <1>1, <1>2, <1>4, <2>1, <3>1, <3>2, <3>4, <4>2 DEF Cdr!Visible
    <3>5. QED
      BY <3>3, <3>4
  <2>2. CASE d \notin batch.known
    <3>1. l = call_logs[d] /\ s = call_sessions[d]
          /\ batch.read[d].log = call_logs[d] /\ batch.by[d] = {}
      BY <1>2, <1>3, <1>7, <1>10, <2>2 DEF CallHolds, Undisturbed, EndsHold
    <3>2. Cdr!Visible(d)' = batch'.read[d]
      BY <1>1, <1>2, <1>7, <2>2, <3>1 DEF Cdr!Visible
    <3>3. Cdr!DoneWith(d) <=> Cdr!Finalized(l, s)
      BY <3>1 DEF Cdr!DoneWith, Cdr!Finalized
    <3>4. ~ Cdr!Finalized(l, s) => Told(d, p.log)'
      BY <1>2, <1>4, <3>1 DEF Told
    <3>5. QED
      BY <1>4, <3>1, <3>2, <3>3, <3>4
  <2>3. QED
    BY <2>1, <2>2
<1>11. Undisturbed(d)'
  BY <1>1, <1>2, <1>7, <1>10 DEF CallHolds, Undisturbed, Cdr!DoneWith
<1>12. TalesHold(d)'
  <2>1. d \notin overlapped \cup crossed => Alike(l, s)
    <3>1. CASE d \in batch.known
      BY <1>2, <1>3, <1>7, <3>1 DEF CallHolds, TalesHold
    <3>2. CASE d \notin batch.known
      <4>1. d \notin overlapped \cup crossed => l = call_logs[d] /\ s = call_sessions[d]
        BY <1>2, <1>3, <1>7, <3>2 DEF CallHolds, EndsHold, Undisturbed
      <4>2. QED
        BY <1>7, <4>1 DEF CallHolds, TalesHold
    <3>3. QED
      BY <3>1, <3>2
  <2>2. QED
    BY <1>1, <1>2, <1>4, <1>7, <2>1 DEF CallHolds, TalesHold
<1>13. CallHolds(d)'
  BY <1>8, <1>9, <1>11, <1>12 DEF CallHolds
<1>14. QED
  BY <1>5, <1>6, <1>13 DEF CdrRecordsHold

(* The rows of a call once the command has been applied.                     *)
LEMMA ApplyIs ==
  ASSUME CdrRecordsHold, Cdr!Apply, NEW c \in Calls
  PROVE  /\ call_logs'[c] \in Cdr!Row(Cdr!LogStatuses) /\ call_sessions'[c] \in Cdr!Row(Cdr!SessionStatuses)
         /\ call_logs'[c].ended = call_logs[c].ended /\ call_sessions'[c].ended = call_sessions[c].ended
         /\ c \notin guessed => Own(c, call_logs'[c])
         /\ c \in batch.known /\ c \notin overlapped => batch.set[c] = Cdr!Rows(call_logs'[c], call_sessions'[c])
         /\ c \notin batch.known => call_logs'[c] = call_logs[c] /\ call_sessions'[c] = call_sessions[c]
         /\ c \notin overlapped' /\ (\E w \in Writers : reader[w].call = c) => call_logs'[c] = call_logs[c] /\ call_sessions'[c] = call_sessions[c]
<1>1. /\ RecordTypes /\ CallHolds(c) /\ call_logs[c] \in Cdr!Row(Cdr!LogStatuses) /\ call_sessions[c] \in Cdr!Row(Cdr!SessionStatuses)
      /\ batch.flushed \subseteq batch.known
  BY DEF CdrRecordsHold, RecordTypes
<1>2. PICK f, t : f = Cdr!Flushed.flushed /\ t = Cdr!Flushed.tx
  OBVIOUS
<1>3. f = batch.flushed \cup Cdr!Dirty /\ f \subseteq batch.known
  BY <1>1, <1>2, FlushedIs DEF Cdr!Dirty
<1>4. /\ c \in f => /\ t[c].log.ended = call_logs[c].ended
                    /\ t[c].ses.ended = call_sessions[c].ended
                    /\ c \notin guessed => Own(c, t[c].log)
      /\ c \in batch.known /\ c \notin overlapped =>
           batch.set[c] = IF c \in f THEN t[c] ELSE Cdr!Rows(call_logs[c], call_sessions[c])
      /\ t[c] \in RowPairs
  BY <1>1, <1>2, FlushKeeps
<1>5. /\ call_logs'[c] = IF c \in f THEN t[c].log ELSE call_logs[c]
      /\ call_sessions'[c] = IF c \in f THEN t[c].ses ELSE call_sessions[c]
      /\ overlapped' = overlapped \cup {e \in f : \E w \in Writers : reader[w].call = e}
  BY <1>2 DEF Cdr!Apply
<1>6. t[c] = Cdr!Rows(t[c].log, t[c].ses) /\ t[c].log \in Cdr!Row(Cdr!LogStatuses) /\ t[c].ses \in Cdr!Row(Cdr!SessionStatuses)
  BY <1>4 DEF RowPairs, Cdr!Rows
<1>7. c \notin guessed => Own(c, call_logs[c])
  BY <1>1 DEF CallHolds, IdsHold
<1>8. QED
  BY <1>1, <1>3, <1>4, <1>5, <1>6, <1>7

LEMMA ApplyKeeps ==
  ASSUME CdrRecordsHold, Cdr!Apply
  PROVE  CdrRecordsHold'
<1>1. /\ RecordTypes /\ UNCHANGED <<cdr, reader, crossed, guessed>> /\ batch' = Cdr!NoBatch
      /\ overlapped \subseteq overlapped'
  BY DEF CdrRecordsHold, Cdr!Apply
<1>2. DOMAIN call_logs' = Calls /\ DOMAIN call_sessions' = Calls
      /\ call_logs' = [c \in Calls |-> call_logs'[c]] /\ call_sessions' = [c \in Calls |-> call_sessions'[c]]
  BY DEF Cdr!Apply
<1>3. call_logs' \in [Calls -> Cdr!Row(Cdr!LogStatuses)] /\ call_sessions' \in [Calls -> Cdr!Row(Cdr!SessionStatuses)]
  BY <1>2, ApplyIs
<1>4. RecordTypes'
  BY <1>1, <1>3, NoBatchIsBatch DEF RecordTypes, Cdr!NoBatch
<1>5. ASSUME NEW c \in Calls
      PROVE  CallHolds(c)'
  <2>1. CallHolds(c)
    BY DEF CdrRecordsHold
  <2>2. c \notin guessed' => Own(c, call_logs'[c])
    BY <1>1, ApplyIs
  <2>3. ASSUME c \notin overlapped' \cup crossed'
        PROVE  /\ Alike(call_logs'[c], call_sessions'[c])
               /\ \A w \in Writers : reader'[w].call = c =>
                    reader'[w].log \in {None, call_logs'[c]} /\ reader'[w].ses = call_sessions'[c]
    <3>1. c \notin overlapped \cup crossed /\ TalesHold(c)
      BY <1>1, <2>1, <2>3 DEF CallHolds
    <3>2. \A w \in Writers : reader'[w].call = c =>
            reader'[w].log \in {None, call_logs'[c]} /\ reader'[w].ses = call_sessions'[c]
      BY <1>1, <2>3, <3>1, ApplyIs DEF TalesHold
    <3>3. CASE c \in batch.known
      <4>1. batch.set[c] = Cdr!Rows(call_logs'[c], call_sessions'[c])
        BY <1>1, <3>1, <3>3, ApplyIs
      <4>2. batch.set[c].ses = call_sessions'[c] /\ batch.set[c].log = call_logs'[c]
        BY <4>1 DEF Cdr!Rows
      <4>3. Alike(batch.set[c].log, batch.set[c].ses)
        BY <3>1, <3>3 DEF TalesHold
      <4>4. QED
        BY <3>2, <4>2, <4>3
    <3>4. CASE c \notin batch.known
      BY <3>1, <3>2, <3>4, ApplyIs DEF TalesHold
    <3>5. QED
      BY <3>3, <3>4
  <2>4. QED
    BY <1>1, <2>2, <2>3, RestHolds DEF Cdr!NoBatch
<1>6. QED
  BY <1>4, <1>5 DEF CdrRecordsHold

LEMMA CdrInitHolds == Cdr!Init => CdrRecordsHold
<1> SUFFICES ASSUME Cdr!Init PROVE CdrRecordsHold
  OBVIOUS
<1>1. RecordTypes
  BY DialledIsRow, NoBatchIsBatch, FS_EmptySet DEF Cdr!Init, RecordTypes, Readers, Cdr!Rest, Cdr!NoBatch
<1>2. ASSUME NEW c \in Calls
      PROVE  CallHolds(c)
  <2>1. /\ batch.call = None /\ batch.known = {} /\ batch.flushed = {} /\ batch.by[c] = {}
        /\ (\A w \in Writers : reader[w].call = None) /\ c # None /\ call_logs[c] = Cdr!Dialled /\ call_sessions[c] = Cdr!Dialled
    BY CdrsAreOfCalls DEF Cdr!Init, Cdr!NoBatch, Cdr!Rest
  <2>2. QED
    BY <2>1 DEF CallHolds, EndsHold, IdsHold, Undisturbed, TalesHold, Alike, Own, Cdr!Dialled, Cdr!ToSessionStatus
<1>3. QED
  BY <1>1, <1>2 DEF CdrRecordsHold

LEMMA StepKeeps ==
  ASSUME CdrRecordsHold, [Cdr!Next]_(Cdr!vars)
  PROVE  CdrRecordsHold'
<1>1. CASE UNCHANGED Cdr!vars
  BY <1>1
  DEF Cdr!vars, CdrRecordsHold, RecordTypes, CallHolds, EndsHold, IdsHold, Undisturbed, TalesHold, Cdr!Visible, Cdr!DoneWith, Told
<1>2. ASSUME NEW w \in Writers, Cdr!CommitEvent(w) \/ Cdr!MarkHangup(w) \/ Cdr!GiveUp(w)
      PROVE  CdrRecordsHold'
  BY <1>2, EventIsStored, HangupIsStored, StoredKeeps, GiveUpKeeps
<1>3. QED
  BY <1>1, <1>2, WriteCdrKeeps, ReadEventKeeps, BeginHangupKeeps, BeginKeeps, FindLogKeeps,
     ReconcileKeeps, ApplyKeeps, RollBackKeeps DEF Cdr!Next

LEMMA RecordsAreHeld == Cdr!Spec => []CdrRecordsHold
BY CdrInitHolds, StepKeeps, PTL DEF Cdr!Spec

(* For any number of calls, records, events and requests to hang up: the     *)
(* rows of a call have its own ids, unless a record was taken for one of     *)
(* another call with the same number, and tell one story, that of a request  *)
(* to hang up among them, unless one of writers and command wrote what       *)
(* another had read.                                                        *)
THEOREM RowsGoTogether == Cdr!Spec => []RowsTellOneStory
<1>1. CdrRecordsHold => RowsTellOneStory
  <2> SUFFICES ASSUME CdrRecordsHold PROVE RowsTellOneStory
    OBVIOUS
  <2>1. Cdr!TypeOK
    BY DEF CdrRecordsHold, RecordTypes, Batches, Readers, Cdr!TypeOK
  <2>2. Cdr!IdsAreOwn
    BY DEF CdrRecordsHold, CallHolds, IdsHold, Own, Cdr!IdsAreOwn
  <2>3. Cdr!StoriesAgree
    BY DEF CdrRecordsHold, CallHolds, TalesHold, Alike, Cdr!StoriesAgree, Cdr!SameStory
  <2>4. QED
    BY <2>1, <2>2, <2>3 DEF RowsTellOneStory, Cdr!RowsTellOneStory
<1>2. QED
  BY <1>1, RecordsAreHeld, PTL

LEMMA StillAtWork ==
  ASSUME CdrRecordsHold, Cdr!FindLog
  PROVE  batch'.pc # "idle"
<1>1. CASE Cdr!Matches(batch.todo[1]) = {}
  <2>1. PICK b, q : b = Cdr!Flushed /\ q = Tail(b.todo)
    OBVIOUS
  <2>2. b \in Batches /\ b.pc = "log" /\ batch' = [b EXCEPT !.todo = q]
    BY <1>1, <2>1, FlushedIs DEF CdrRecordsHold, Cdr!FindLog
  <2>3. QED
    BY <2>2, WithTodo
<1>2. CASE Cdr!Matches(batch.todo[1]) # {}
  <2>1. PICK d \in Cdr!Matches(batch.todo[1]) : Found(batch.todo[1], d)
    BY <1>2 DEF Cdr!FindLog, Found
  <2>2. d \in Calls
    BY <1>2, <2>1, MatchesAreCalls DEF Found
  <2>3. QED
    BY <2>1, <2>2, FoundIs DEF CdrRecordsHold
<1>3. QED
  BY <1>1, <1>2

(* A step that writes to a row is that of a writer or of the command.        *)
LEMMA CdrOnlyTwoWrite ==
  ASSUME CdrRecordsHold, [Cdr!Next]_(Cdr!vars)
  PROVE  (\E w \in Writers : Stored(w)) \/ Cdr!Apply \/ UNCHANGED <<call_logs, call_sessions>>
BY EventIsStored, HangupIsStored
DEF Cdr!Next, Cdr!vars, Cdr!WriteCdr, Cdr!ReadEvent, Cdr!BeginHangup, Cdr!Starts, Cdr!GiveUp, Cdr!Begin,
    Cdr!FindLog, Cdr!Reconcile, Cdr!RollBack

LEMMA EndIsKept ==
  ASSUME CdrRecordsHold, [Cdr!Next]_(Cdr!vars), NEW c \in Calls
  PROVE  (call_logs[c].ended => call_logs'[c].ended) /\ (call_sessions[c].ended => call_sessions'[c].ended)
<1>1. ASSUME NEW w \in Writers, Stored(w)
      PROVE  (call_logs[c].ended => call_logs'[c].ended) /\ (call_sessions[c].ended => call_sessions'[c].ended)
  <2>1. PICK d \in Calls, l \in Cdr!Row(Cdr!LogStatuses), s \in Cdr!Row(Cdr!SessionStatuses) :
          /\ call_logs' = [call_logs EXCEPT ![d] = l] /\ call_sessions' = [call_sessions EXCEPT ![d] = s]
          /\ call_logs[d].ended => l.ended
          /\ call_sessions[d].ended => s.ended
    BY <1>1 DEF Stored
  <2>2. QED
    BY <2>1 DEF CdrRecordsHold, RecordTypes
<1>2. CASE Cdr!Apply
  BY <1>2, ApplyIs
<1>3. QED
  BY <1>1, <1>2, CdrOnlyTwoWrite

LEMMA DoneStays ==
  ASSUME CdrRecordsHold, [Cdr!Next]_(Cdr!vars), NEW c \in Calls,
         batch.pc # "idle", batch'.pc = "idle", c \notin overlapped, Cdr!DoneWith(c)
  PROVE  call_logs'[c] = call_logs[c] /\ call_sessions'[c] = call_sessions[c]
<1>1. Cdr!Apply \/ Cdr!RollBack
  <2>1. Cdr!Reconcile => batch'.pc # "idle"
    BY ReconcileIs DEF CdrRecordsHold
  <2>2. QED
    BY <2>1, StillAtWork DEF Cdr!Next, Cdr!vars, Cdr!WriteCdr, Cdr!ReadEvent, Cdr!BeginHangup, Cdr!Starts,
       Cdr!CommitEvent, Cdr!MarkHangup, Cdr!Stores, Cdr!GiveUp, Cdr!Begin
<1>2. CASE Cdr!RollBack
  BY <1>2 DEF Cdr!RollBack
<1>3. CASE Cdr!Apply
  <2>1. CASE c \in batch.known
    <3>1. batch.set[c] = Cdr!Rows(call_logs'[c], call_sessions'[c]) /\ batch.set[c] = Cdr!Rows(call_logs[c], call_sessions[c])
      BY <1>3, <2>1, ApplyIs DEF CdrRecordsHold, CallHolds, Undisturbed
    <3>2. QED
      BY <3>1 DEF Cdr!Rows
  <2>2. CASE c \notin batch.known
    BY <1>3, <2>2, ApplyIs
  <2>3. QED
    BY <2>1, <2>2
<1>4. QED
  BY <1>1, <1>2, <1>3

(* No step takes back an end that is in a row, and the command ends with     *)
(* nothing changed of a call that is done with and that no event was applied *)
(* to meanwhile.                                                            *)
THEOREM EventsStay == Cdr!Spec => EventsStand
<1>1. CdrRecordsHold /\ [Cdr!Next]_(Cdr!vars) =>
        [\A c \in Calls :
           batch.pc # "idle" /\ batch'.pc = "idle" /\ c \notin overlapped /\ Cdr!DoneWith(c)
             => call_logs'[c] = call_logs[c] /\ call_sessions'[c] = call_sessions[c]]_(Cdr!vars)
  BY DoneStays
<1>2. CdrRecordsHold /\ [Cdr!Next]_(Cdr!vars) =>
        [\A c \in Calls : /\ call_logs[c].ended => call_logs'[c].ended
                          /\ call_sessions[c].ended => call_sessions'[c].ended]_(Cdr!vars)
  BY EndIsKept
<1>3. QED
  BY <1>1, <1>2, RecordsAreHeld, PTL DEF Cdr!Spec, EventsStand, Cdr!EventsStand, Cdr!DoneIsLeft, Cdr!EndsAreKept

(* Once the command is applied, a call that has one record and was not done  *)
(* with has the outcome and the channel of that record, unless an event was  *)
(* applied to it meanwhile.                                                 *)
THEOREM RecordsAreTold == Cdr!Spec => RecordIsTold
<1>1. ASSUME CdrRecordsHold, Cdr!Apply, NEW c \in Calls, NEW x \in Cdrs,
             batch.by[c] = {x}, c \notin overlapped, ~ Cdr!DoneWith(c)
      PROVE  /\ Cdr!Outcome(x) # Cdr!NoStatus => call_logs'[c].status = Cdr!Outcome(x)
             /\ call_logs'[c].uid = Cdr!Uid(x)
  <2>1. CallHolds(c)
    BY <1>1 DEF CdrRecordsHold
  <2>2. c \in batch.known
    BY <1>1, <2>1 DEF CallHolds, EndsHold
  <2>3. batch.set[c] = Cdr!Rows(call_logs'[c], call_sessions'[c]) /\ Told(c, batch.set[c].log)
    BY <1>1, <2>1, <2>2, ApplyIs DEF CallHolds, Undisturbed
  <2>4. QED
    BY <1>1, <2>3 DEF Cdr!Rows, Told
<1>2. CdrRecordsHold /\ [Cdr!Next]_(Cdr!vars) =>
        [\A c \in Calls, x \in Cdrs :
           Cdr!Apply /\ batch.by[c] = {x} /\ c \notin overlapped /\ ~ Cdr!DoneWith(c)
             => /\ Cdr!Outcome(x) # Cdr!NoStatus => call_logs'[c].status = Cdr!Outcome(x)
                /\ call_logs'[c].uid = Cdr!Uid(x)]_(Cdr!vars)
  BY <1>1
<1>3. QED
  BY <1>2, RecordsAreHeld, PTL DEF Cdr!Spec, RecordIsTold, Cdr!RecordIsTold

-----------------------------------------------------------------------------
(* The peak of CallMetrics                                                  *)
LogsHold == logs \in Seq(Logs) /\ window \in Windows

(* A non-empty set of natural numbers has a least element.                  *)
LEMMA LeastNat ==
  ASSUME NEW S \in SUBSET Nat, S # {}
  PROVE  \E n \in S : \A k \in S : n <= k
<1>1. PICK n \in S : \A k \in S : ~ (<<k, n>> \in OpToRel(<, Nat))
  BY NatLessThanWellFounded, WFMin
<1>2. ASSUME NEW k \in S
      PROVE  n <= k
  <2>1. <<k, n>> \in Nat \X Nat
    OBVIOUS
  <2>2. ~ (k < n)
    BY <1>1, <2>1 DEF OpToRel
  <2>3. QED
    BY <2>2
<1>3. QED
  BY <1>2

LEMMA LeastIs ==
  ASSUME NEW S \in SUBSET Nat, S # {}
  PROVE  Min(S) \in S /\ \A k \in S : Min(S) <= k
<1>1. PICK n \in S : \A k \in S : n <= k
  BY LeastNat
<1>2. QED
  BY <1>1 DEF Min

LEMMA GreatestIs ==
  ASSUME NEW S \in SUBSET Int, S # {}, NEW b \in Int, \A k \in S : k <= b
  PROVE  Max(S) \in S /\ \A k \in S : k <= Max(S)
<1> DEFINE gaps == {b - k : k \in S}
<1>1. gaps \in SUBSET Nat /\ gaps # {}
  <2>1. ASSUME NEW k \in S
        PROVE  b - k \in Nat
    <3>1. k \in Int /\ k <= b
      OBVIOUS
    <3>2. QED
      BY <3>1
  <2>2. QED
    BY <2>1
<1>2. PICK g \in gaps : \A h \in gaps : g <= h
  <2> HIDE DEF gaps
  <2>1. QED
    BY <1>1, LeastNat
<1>3. PICK n \in S : g = b - n
  OBVIOUS
<1>4. ASSUME NEW k \in S
      PROVE  n >= k
  <2>1. g <= b - k /\ n \in Int /\ k \in Int
    BY <1>2
  <2>2. QED
    BY <2>1, <1>3
<1>5. Max(S) \in S /\ \A k \in S : Max(S) >= k
  BY <1>4 DEF Max
<1>6. QED
  BY <1>5

LEMMA OfTwo ==
  ASSUME NEW a \in Int, NEW b \in Int
  PROVE  /\ Max({a, b}) = IF a >= b THEN a ELSE b
         /\ Min({a, b}) = IF a <= b THEN a ELSE b
<1>1. Max({a, b}) = IF a >= b THEN a ELSE b
  <2>1. Max({a, b}) \in {a, b} /\ \A k \in {a, b} : k <= Max({a, b})
    <3>1. PICK c \in Int : a <= c /\ b <= c
      <4>1. a <= b \/ b <= a
        OBVIOUS
      <4>2. QED
        BY <4>1
    <3>2. QED
      BY <3>1, GreatestIs
  <2>2. QED
    BY <2>1
<1>2. Min({a, b}) = IF a <= b THEN a ELSE b
  <2>1. \E x \in {a, b} : \A y \in {a, b} : x <= y
    OBVIOUS
  <2>2. Min({a, b}) \in {a, b} /\ \A y \in {a, b} : Min({a, b}) <= y
    BY <2>1 DEF Min
  <2>3. QED
    BY <2>2
<1>3. QED
  BY <1>1, <1>2

(* Two sets of numbers of which none is greater than all of the other and 0  *)
(* have one maximum.                                                        *)
LEMMA SameMaximum ==
  ASSUME NEW S \in SUBSET Int, NEW T \in SUBSET Int, NEW b \in Int,
         \A k \in S \cup T \cup {0} : k <= b,
         \A k \in S : k <= 0 \/ \E l \in T : k <= l,
         \A l \in T : l <= 0 \/ \E k \in S : l <= k
  PROVE  Max({0} \cup S) = Max({0} \cup T)
<1>1. PICK m, n : m = Max({0} \cup S) /\ n = Max({0} \cup T)
  OBVIOUS
<1>2. m \in {0} \cup S /\ \A k \in {0} \cup S : k <= m
  BY <1>1, GreatestIs
<1>3. n \in {0} \cup T /\ \A k \in {0} \cup T : k <= n
  BY <1>1, GreatestIs
<1>4. m <= n
  BY <1>2, <1>3
<1>5. n <= m
  BY <1>2, <1>3
<1>6. QED
  BY <1>1, <1>2, <1>3, <1>4, <1>5

(* What the sweep does with a call: it ends no earlier than it begins and no *)
(* later than the window, and a call that is going on before the window's    *)
(* end is one of those.                                                     *)
LEMMA CutIsRight ==
  ASSUME LogsHold
  PROVE  /\ WindowEnd \in Nat
         /\ Overlapping \subseteq Selected /\ Selected \subseteq 1 .. Len(logs)
         /\ \A i \in Selected : logs[i].started \in Nat /\ EndOf(logs[i]) \in Nat
         /\ \A i \in Overlapping : /\ BeginOf(i) = logs[i].started
                                   /\ CutEnd(i) \in Nat
                                   /\ BeginOf(i) <= CutEnd(i)
                                   /\ CutEnd(i) = IF EndOf(logs[i]) <= WindowEnd THEN EndOf(logs[i]) ELSE WindowEnd
         /\ \A i \in Selected : logs[i].started < WindowEnd /\ logs[i].started < EndOf(logs[i])
                                  => i \in Overlapping
<1>1. /\ window.from # NoTime => window.from \in Nat
      /\ WindowEnd \in Nat
  BY LogsHaveTimes DEF LogsHold, WindowEnd
<1>2. Overlapping \subseteq Selected /\ Selected \subseteq 1 .. Len(logs)
  BY DEF LogsHold, Overlapping, Selected
<1>3. ASSUME NEW i \in Selected
      PROVE  logs[i].started \in Nat /\ EndOf(logs[i]) \in Nat
  <2>1. logs[i] \in Logs
    BY <1>2 DEF LogsHold
  <2>2. PICK l : l = logs[i]
    OBVIOUS
  <2>3. l \in [started : Nat, ended : Nat \cup {NoTime}, duration : Int \cup {NoTime}]
    BY <2>1, <2>2, LogsHaveTimes
  <2>4. l.duration # NoTime => Max({0, l.duration}) \in Nat
    BY <2>3, OfTwo
  <2>5. EndOf(l) \in Nat
    BY <2>3, <2>4, LogsHaveTimes DEF EndOf
  <2>6. QED
    BY <2>2, <2>3, <2>5
<1>4. ASSUME NEW i \in Selected
      PROVE  WindowStart \in Nat /\ WindowStart <= logs[i].started
  <2>1. CASE window.from # NoTime
    BY <1>1, <1>3, <2>1 DEF WindowStart, Selected
  <2>2. CASE window.from = NoTime
    <3> DEFINE starts == {logs[j].started : j \in Selected}
    <3>1. starts \in SUBSET Nat /\ starts # {} /\ logs[i].started \in starts
      BY <1>3
    <3>2. WindowStart = Min(starts)
      BY <2>2 DEF WindowStart
    <3> HIDE DEF starts
    <3>3. QED
      BY <3>1, <3>2, LeastIs
  <2>3. QED
    BY <2>1, <2>2
<1>5. ASSUME NEW i \in Selected
      PROVE  /\ BeginOf(i) = logs[i].started
             /\ CutEnd(i) = IF EndOf(logs[i]) <= WindowEnd THEN EndOf(logs[i]) ELSE WindowEnd
  <2>1. PICK s, e, w, u : /\ s = logs[i].started /\ e = EndOf(logs[i])
                          /\ w = WindowStart /\ u = WindowEnd
    OBVIOUS
  <2>2. s \in Nat /\ e \in Nat /\ w \in Nat /\ u \in Nat /\ w <= s
    BY <1>1, <1>3, <1>4, <2>1
  <2>3. BeginOf(i) = s
    BY <2>1, <2>2, OfTwo DEF BeginOf
  <2>4. CutEnd(i) = IF e <= u THEN e ELSE u
    BY <2>1, <2>2, OfTwo DEF CutEnd
  <2>5. QED
    BY <2>1, <2>3, <2>4
<1>6. ASSUME NEW i \in Overlapping
      PROVE  CutEnd(i) \in Nat /\ BeginOf(i) <= CutEnd(i)
  BY <1>1, <1>2, <1>3, <1>5 DEF Overlapping
<1>7. ASSUME NEW i \in Selected, logs[i].started < WindowEnd, logs[i].started < EndOf(logs[i])
      PROVE  i \in Overlapping
  BY <1>1, <1>3, <1>4, <1>5, <1>7 DEF Overlapping
<1>8. QED
  BY <1>1, <1>2, <1>3, <1>5, <1>6, <1>7

LEMMA CallsAreFinite ==
  ASSUME LogsHold
  PROVE  IsFiniteSet(Overlapping) /\ Cardinality(Overlapping) \in Nat
<1>1. Overlapping \subseteq 1 .. Len(logs) /\ Len(logs) \in Nat
  BY CutIsRight DEF LogsHold
<1>2. IsFiniteSet(1 .. Len(logs))
  BY <1>1, FS_Interval
<1>3. QED
  BY <1>1, <1>2, FS_Subset, FS_CardinalityType

(* A call is counted once for its begin and once for its end.               *)
LEMMA MarksCount ==
  ASSUME NEW I, IsFiniteSet(I), NEW T, NEW mark \in [I -> T],
         \A i, j \in I : mark[i] = mark[j] => i = j,
         \A y \in T : \E i \in I : y = mark[i]
  PROVE  Cardinality(T) = Cardinality(I)
<1>1. mark \in Bijection(I, T)
  BY DEF Bijection, Injection, Surjection, IsInjective
<1>2. ExistsBijection(I, T)
  BY <1>1 DEF ExistsBijection
<1>3. QED
  BY <1>2, FS_Bijection

(* The calls that have begun, and those that have ended, when the sweep has  *)
(* come to a mark.                                                          *)
Begun(x) ==
  {i \in Overlapping : BeginOf(i) < x.at \/ (BeginOf(i) = x.at /\ x.delta = 1 /\ i <= x.log)}
Gone(x) ==
  {i \in Overlapping : CutEnd(i) < x.at \/ (CutEnd(i) = x.at /\ (x.delta = 1 \/ i <= x.log))}

LEMMA CountIs ==
  ASSUME LogsHold, NEW x \in Marks
  PROVE  /\ IsFiniteSet(Overlapping)
         /\ CountAt(x) = Cardinality(Begun(x)) - Cardinality(Gone(x))
<1>1. /\ Overlapping \subseteq 1 .. Len(logs) /\ Len(logs) \in Nat
      /\ \A i \in Overlapping : BeginOf(i) \in Nat /\ CutEnd(i) \in Nat
  BY CutIsRight DEF LogsHold
<1>2. IsFiniteSet(Overlapping) /\ IsFiniteSet(Begun(x)) /\ IsFiniteSet(Gone(x))
  <2>2. IsFiniteSet(Overlapping)
    BY CallsAreFinite
  <2>3. Begun(x) \subseteq Overlapping /\ Gone(x) \subseteq Overlapping
    BY DEF Begun, Gone
  <2>4. QED
    BY <2>2, <2>3, FS_Subset
<1>3. PICK k \in Overlapping : x = BeginMark(k) \/ x = EndMark(k)
  BY DEF Marks
<1>4. x.at \in Nat /\ x.log = k /\ x.delta \in {1, -1} /\ k \in Nat
  BY <1>1, <1>3 DEF BeginMark, EndMark
<1> DEFINE passed(d) == {y \in Marks : y.delta = d /\ (y = x \/ Before(y, x))}
           begins == [i \in Begun(x) |-> BeginMark(i)]
           ends == [i \in Gone(x) |-> EndMark(i)]
<1>5. passed(1) = {begins[i] : i \in Begun(x)}
  <2>1. ASSUME NEW i \in Overlapping
        PROVE  i \in Begun(x) <=> BeginMark(i) = x \/ Before(BeginMark(i), x)
    <3>1. i \in Nat /\ BeginOf(i) \in Nat
      BY <1>1
    <3>2. PICK m : m = BeginMark(i)
      OBVIOUS
    <3>3. m.at = BeginOf(i) /\ m.delta = 1 /\ m.log = i
      BY <3>2 DEF BeginMark
    <3>4. m = x <=> m.at = x.at /\ m.delta = x.delta /\ m.log = x.log
      BY <1>3, <3>2 DEF BeginMark, EndMark
    <3>5. QED
      BY <1>4, <3>1, <3>2, <3>3, <3>4 DEF Begun, Before
  <2>2. \A i \in Overlapping : BeginMark(i) \in Marks /\ BeginMark(i).delta = 1 /\ EndMark(i).delta = -1
    BY DEF Marks, BeginMark, EndMark
  <2>3. \A y \in Marks : y.delta = 1 => \E i \in Overlapping : y = BeginMark(i)
    BY <2>2 DEF Marks
  <2>4. Begun(x) \subseteq Overlapping
    BY DEF Begun
  <2>5. QED
    BY <2>1, <2>2, <2>3, <2>4
<1>6. passed(-1) = {ends[i] : i \in Gone(x)}
  <2>1. ASSUME NEW i \in Overlapping
        PROVE  i \in Gone(x) <=> EndMark(i) = x \/ Before(EndMark(i), x)
    <3>1. i \in Nat /\ CutEnd(i) \in Nat
      BY <1>1
    <3>2. PICK m : m = EndMark(i)
      OBVIOUS
    <3>3. m.at = CutEnd(i) /\ m.delta = -1 /\ m.log = i
      BY <3>2 DEF EndMark
    <3>4. m = x <=> m.at = x.at /\ m.delta = x.delta /\ m.log = x.log
      BY <1>3, <3>2 DEF BeginMark, EndMark
    <3>5. QED
      BY <1>4, <3>1, <3>2, <3>3, <3>4 DEF Gone, Before
  <2>2. \A i \in Overlapping : EndMark(i) \in Marks /\ BeginMark(i).delta = 1 /\ EndMark(i).delta = -1
    BY DEF Marks, BeginMark, EndMark
  <2>3. \A y \in Marks : y.delta = -1 => \E i \in Overlapping : y = EndMark(i)
    BY <2>2 DEF Marks
  <2>4. Gone(x) \subseteq Overlapping
    BY DEF Gone
  <2>5. QED
    BY <2>1, <2>2, <2>3, <2>4
<1>7. Cardinality(passed(1)) = Cardinality(Begun(x))
  <2>1. \A i \in Begun(x) : begins[i].log = i
    BY DEF BeginMark
  <2>2. begins \in [Begun(x) -> passed(1)] /\ \A y \in passed(1) : \E i \in Begun(x) : y = begins[i]
    BY <1>5
  <2> HIDE DEF begins, passed
  <2>3. \A i, j \in Begun(x) : begins[i] = begins[j] => i = j
    BY <2>1
  <2>4. QED
    BY <1>2, <2>2, <2>3, MarksCount
<1>8. Cardinality(passed(-1)) = Cardinality(Gone(x))
  <2>1. \A i \in Gone(x) : ends[i].log = i
    BY DEF EndMark
  <2>2. ends \in [Gone(x) -> passed(-1)] /\ \A y \in passed(-1) : \E i \in Gone(x) : y = ends[i]
    BY <1>6
  <2> HIDE DEF ends, passed
  <2>3. \A i, j \in Gone(x) : ends[i] = ends[j] => i = j
    BY <2>1
  <2>4. QED
    BY <1>2, <2>2, <2>3, MarksCount
<1>9. CountAt(x) = Cardinality(passed(1)) - Cardinality(passed(-1))
  BY DEF CountAt
<1> HIDE DEF passed
<1>10. QED
  BY <1>2, <1>7, <1>8, <1>9

(* Of calls that are going on at a time, those have begun that did not end.  *)
LEMMA GoingOnIs ==
  ASSUME LogsHold, NEW t \in Nat, t < WindowEnd
  PROVE  /\ IsFiniteSet(Overlapping) /\ GoingOn(t) \subseteq Overlapping
         /\ Cardinality(GoingOn(t)) = Cardinality({i \in Overlapping : BeginOf(i) <= t})
                                        - Cardinality({i \in Overlapping : CutEnd(i) <= t})
         /\ Cardinality(GoingOn(t)) \in Nat /\ Cardinality(GoingOn(t)) <= Cardinality(Overlapping)
<1> DEFINE b == {i \in Overlapping : BeginOf(i) <= t}
           e == {i \in Overlapping : CutEnd(i) <= t}
<1>1. IsFiniteSet(Overlapping)
  BY CallsAreFinite
<1>2. \A i \in Overlapping : /\ i \in Selected /\ BeginOf(i) = logs[i].started
                             /\ logs[i].started \in Nat /\ EndOf(logs[i]) \in Nat
                             /\ BeginOf(i) <= CutEnd(i) /\ CutEnd(i) \in Nat
                             /\ CutEnd(i) <= t <=> EndOf(logs[i]) <= t
  BY CutIsRight
<1>3. e \subseteq b /\ b \subseteq Overlapping
  BY <1>2
<1>4. GoingOn(t) \subseteq Overlapping
  <2>1. ASSUME NEW i \in GoingOn(t)
        PROVE  i \in Overlapping
    <3>1. i \in Selected /\ logs[i].started <= t /\ t < EndOf(logs[i])
      BY DEF GoingOn
    <3>2. logs[i].started \in Nat /\ EndOf(logs[i]) \in Nat /\ WindowEnd \in Nat
      BY <3>1, CutIsRight
    <3>3. QED
      BY <3>1, <3>2, CutIsRight
  <2>2. QED
    BY <2>1
<1>5. GoingOn(t) = b \ e
  BY <1>2, <1>4 DEF GoingOn
<1>6. IsFiniteSet(b) /\ IsFiniteSet(e)
  BY <1>1, <1>3, FS_Subset
<1> HIDE DEF b, e
<1>7. Cardinality(b \ e) = Cardinality(b) - Cardinality(e)
  <2>1. b \cap e = e
    BY <1>3
  <2>2. Cardinality(b \ e) = Cardinality(b) - Cardinality(b \cap e)
    BY <1>6, FS_Difference
  <2>3. QED
    BY <2>1, <2>2
<1>8. Cardinality(GoingOn(t)) \in Nat /\ Cardinality(GoingOn(t)) <= Cardinality(Overlapping)
  BY <1>1, <1>4, FS_Subset, FS_CardinalityType
<1>9. QED
  BY <1>1, <1>4, <1>5, <1>7, <1>8 DEF b, e

(* The sweep counts no more calls than are going on when a call begins, or    *)
(* just before one ends.                                                    *)
LEMMA NotTooMany ==
  ASSUME LogsHold, NEW x \in Marks
  PROVE  /\ CountAt(x) \in Int /\ CountAt(x) <= Cardinality(Overlapping)
         /\ CountAt(x) <= 0 \/ \E t \in 0 .. WindowEnd - 1 : CountAt(x) <= Cardinality(GoingOn(t))
<1>1. /\ IsFiniteSet(Overlapping)
      /\ CountAt(x) = Cardinality(Begun(x)) - Cardinality(Gone(x))
  BY CountIs
<1>2. WindowEnd \in Nat
  BY CutIsRight
<1>3. \A i \in Overlapping : /\ BeginOf(i) \in Nat /\ CutEnd(i) \in Nat
                             /\ BeginOf(i) <= CutEnd(i) /\ CutEnd(i) <= WindowEnd
  BY CutIsRight
<1>4. PICK k \in Overlapping : x = BeginMark(k) \/ x = EndMark(k)
  BY DEF Marks
<1>5. x.at \in Nat /\ x.at <= WindowEnd /\ x.delta \in {1, -1}
  BY <1>2, <1>3, <1>4 DEF BeginMark, EndMark
<1>6. /\ Begun(x) \subseteq Overlapping /\ Gone(x) \subseteq Overlapping
      /\ IsFiniteSet(Begun(x)) /\ IsFiniteSet(Gone(x))
  <2>1. Begun(x) \subseteq Overlapping /\ Gone(x) \subseteq Overlapping
    BY DEF Begun, Gone
  <2>2. QED
    BY <1>1, <2>1, FS_Subset
<1>7. /\ Cardinality(Begun(x)) \in Nat /\ Cardinality(Gone(x)) \in Nat /\ Cardinality(Overlapping) \in Nat
      /\ Cardinality(Begun(x)) <= Cardinality(Overlapping)
  BY <1>1, <1>6, FS_Subset, FS_CardinalityType
<1>8. ASSUME NEW t \in Nat, t < WindowEnd,
             Begun(x) \subseteq {i \in Overlapping : BeginOf(i) <= t},
             {i \in Overlapping : CutEnd(i) <= t} \subseteq Gone(x)
      PROVE  CountAt(x) <= Cardinality(GoingOn(t))
  <2> DEFINE b == {i \in Overlapping : BeginOf(i) <= t}
             e == {i \in Overlapping : CutEnd(i) <= t}
  <2>1. IsFiniteSet(b)
    BY <1>1, FS_Subset
  <2>2. Cardinality(GoingOn(t)) = Cardinality(b) - Cardinality(e)
    BY <1>8, GoingOnIs
  <2>3. Begun(x) \subseteq b /\ e \subseteq Gone(x)
    BY <1>8
  <2> HIDE DEF b, e
  <2>4. /\ Cardinality(Begun(x)) <= Cardinality(b) /\ Cardinality(e) <= Cardinality(Gone(x))
        /\ Cardinality(b) \in Nat /\ Cardinality(e) \in Nat
    BY <1>6, <2>1, <2>3, FS_Subset, FS_CardinalityType
  <2>5. QED
    BY <1>1, <1>7, <2>2, <2>4
<1>9. CASE x.delta = 1 /\ x.at < WindowEnd
  <2>1. Begun(x) \subseteq {i \in Overlapping : BeginOf(i) <= x.at}
    BY <1>3, <1>5 DEF Begun
  <2>2. {i \in Overlapping : CutEnd(i) <= x.at} \subseteq Gone(x)
    BY <1>3, <1>5, <1>9 DEF Gone
  <2>3. CountAt(x) <= Cardinality(GoingOn(x.at)) /\ x.at \in 0 .. WindowEnd - 1
    BY <1>2, <1>5, <1>8, <1>9, <2>1, <2>2
  <2>4. QED
    BY <1>1, <1>7, <2>3
<1>10. CASE x.delta = 1 /\ x.at = WindowEnd
  <2>1. Gone(x) = Overlapping
    BY <1>2, <1>3, <1>10 DEF Gone
  <2>2. QED
    BY <1>1, <1>7, <2>1
<1>11. CASE x.delta = -1 /\ x.at = 0
  <2>1. Begun(x) = {}
    BY <1>3, <1>11 DEF Begun
  <2>2. Cardinality(Begun(x)) = 0
    BY <2>1, FS_EmptySet
  <2>3. QED
    BY <1>1, <1>7, <2>2
<1>12. CASE x.delta = -1 /\ x.at > 0
  <2>1. PICK t \in Nat : x.at = t + 1
    BY <1>5, <1>12
  <2>2. Begun(x) \subseteq {i \in Overlapping : BeginOf(i) <= t}
    BY <1>3, <1>12, <2>1 DEF Begun
  <2>3. {i \in Overlapping : CutEnd(i) <= t} \subseteq Gone(x)
    BY <1>3, <2>1 DEF Gone
  <2>4. t < WindowEnd /\ t \in 0 .. WindowEnd - 1
    BY <1>2, <1>5, <2>1
  <2>5. QED
    BY <1>1, <1>7, <1>8, <2>2, <2>3, <2>4
<1>13. QED
  BY <1>2, <1>5, <1>9, <1>10, <1>11, <1>12

(* When the sweep has come to the last begin up to a time, it counts all who  *)
(* are going on then.                                                       *)
LEMMA NotTooFew ==
  ASSUME LogsHold, NEW t \in 0 .. WindowEnd - 1
  PROVE  /\ Cardinality(GoingOn(t)) \in Nat /\ Cardinality(GoingOn(t)) <= Cardinality(Overlapping)
         /\ Cardinality(GoingOn(t)) <= 0 \/ \E x \in Marks : Cardinality(GoingOn(t)) <= CountAt(x)
<1>1. WindowEnd \in Nat /\ t \in Nat /\ t < WindowEnd
  BY CutIsRight
<1> DEFINE b == {i \in Overlapping : BeginOf(i) <= t}
           e == {i \in Overlapping : CutEnd(i) <= t}
<1>2. /\ IsFiniteSet(Overlapping) /\ GoingOn(t) \subseteq Overlapping
      /\ Cardinality(GoingOn(t)) = Cardinality(b) - Cardinality(e)
      /\ Cardinality(GoingOn(t)) \in Nat /\ Cardinality(GoingOn(t)) <= Cardinality(Overlapping)
  BY <1>1, GoingOnIs
<1>3. \A i \in Overlapping : /\ BeginOf(i) \in Nat /\ CutEnd(i) \in Nat /\ i \in Nat
                             /\ BeginOf(i) <= CutEnd(i) /\ i <= Len(logs)
  BY CutIsRight DEF LogsHold
<1>4. IsFiniteSet(b) /\ IsFiniteSet(e)
  BY <1>2, FS_Subset
<1>5. CASE b = {}
  <2>1. Cardinality(b) = 0 /\ Cardinality(e) \in Nat
    BY <1>4, <1>5, FS_EmptySet, FS_CardinalityType
  <2> HIDE DEF b, e
  <2>2. QED
    BY <1>2, <2>1
<1>6. CASE b # {}
  <2> DEFINE times == {BeginOf(i) : i \in b}
  <2>1. times \in SUBSET Int /\ times # {} /\ \A n \in times : n <= t
    BY <1>3, <1>6
  <2>2. PICK last : last = Max(times)
    OBVIOUS
  <2>3. last \in times /\ \A n \in times : n <= last
    <3> HIDE DEF times
    <3>1. QED
      BY <1>1, <2>1, <2>2, GreatestIs
  <2> DEFINE those == {i \in b : BeginOf(i) = last}
  <2>4. those \in SUBSET Int /\ those # {} /\ \A i \in those : i <= Len(logs)
    BY <1>3, <2>3
  <2>5. PICK k : k = Max(those)
    OBVIOUS
  <2>6. k \in those /\ \A i \in those : i <= k
    <3>1. Len(logs) \in Int
      BY DEF LogsHold
    <3> HIDE DEF those
    <3>2. QED
      BY <2>4, <2>5, <3>1, GreatestIs
  <2>7. PICK x \in Marks : x = BeginMark(k)
    BY <2>6 DEF Marks
  <2>8. x.at = last /\ x.delta = 1 /\ x.log = k /\ last \in Nat /\ last <= t
    BY <1>3, <2>3, <2>6, <2>7 DEF BeginMark
  <2>9. b \subseteq Begun(x)
    <3>1. ASSUME NEW i \in b
          PROVE  i \in Begun(x)
      <4>1. BeginOf(i) <= last /\ BeginOf(i) \in Nat /\ i \in Overlapping
        BY <1>3, <2>3
      <4>2. BeginOf(i) = last => i <= k
        BY <2>6
      <4>3. QED
        BY <2>8, <4>1, <4>2 DEF Begun
    <3>2. QED
      BY <3>1
  <2>10. Gone(x) \subseteq e
    BY <1>1, <1>3, <2>8 DEF Gone
  <2>11. CountAt(x) = Cardinality(Begun(x)) - Cardinality(Gone(x))
    BY CountIs
  <2>12. Begun(x) \subseteq Overlapping
    BY DEF Begun
  <2>13. /\ Cardinality(b) <= Cardinality(Begun(x)) /\ Cardinality(Gone(x)) <= Cardinality(e)
         /\ Cardinality(b) \in Nat /\ Cardinality(e) \in Nat
         /\ Cardinality(Begun(x)) \in Nat /\ Cardinality(Gone(x)) \in Nat
    <3> HIDE DEF b, e
    <3>1. IsFiniteSet(Begun(x)) /\ IsFiniteSet(Gone(x))
      BY <1>2, <1>4, <2>10, <2>12, FS_Subset
    <3>2. QED
      BY <1>4, <2>9, <2>10, <3>1, FS_Subset, FS_CardinalityType
  <2> HIDE DEF b, e
  <2>14. Cardinality(GoingOn(t)) <= CountAt(x)
    BY <1>2, <2>11, <2>13
  <2>15. QED
    BY <1>2, <2>14
<1>7. QED
  BY <1>5, <1>6

LEMMA PeakIsRight ==
  ASSUME LogsHold
  PROVE  PeakIsFound
<1> DEFINE S == {CountAt(x) : x \in Marks}
           T == {Cardinality(GoingOn(t)) : t \in 0 .. WindowEnd - 1}
<1>1. PICK n \in Int : n = Cardinality(Overlapping) /\ 0 <= n
  BY CallsAreFinite
<1>2. S \in SUBSET Int /\ T \in SUBSET Int
  BY NotTooMany, NotTooFew
<1>3. \A k \in S \cup T \cup {0} : k <= n
  BY <1>1, NotTooMany, NotTooFew
<1>4. \A k \in S : k <= 0 \/ \E l \in T : k <= l
  BY NotTooMany
<1>5. \A l \in T : l <= 0 \/ \E k \in S : l <= k
  BY NotTooFew
<1>6. PeakConcurrency = Max({0} \cup S)
  BY DEF PeakConcurrency
<1>7. Max({0} \cup S) = Max({0} \cup T)
  <2> HIDE DEF S, T
  <2>1. QED
    BY <1>1, <1>2, <1>3, <1>4, <1>5, SameMaximum
<1>8. QED
  BY <1>6, <1>7 DEF PeakIsFound

(* PeakIsFound, for any number of calls, whatever their times, and for any    *)
(* window.                                                                  *)
THEOREM PeakStaysFound == MetricsSpec => []PeakIsFound
<1>1. NoLogs => LogsHold
  BY DEF NoLogs, LogsHold
<1>2. LogsHold /\ [AddLog]_metricsVars => LogsHold'
  BY DEF LogsHold, AddLog, metricsVars
<1>3. LogsHold => PeakIsFound
  BY PeakIsRight
<1>4. QED
  BY <1>1, <1>2, <1>3, PTL DEF MetricsSpec
================================================================================
