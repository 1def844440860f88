----------------------------- MODULE CallEvents -----------------------------
(***************************************************************************)
(* The events of Asterisk applied to the rows of the calls.  An event comes *)
(* through the AMI listener, a daemon thread, or through POST /call-events, *)
(* served by a thread of the web server; it is recorded under a fingerprint *)
(* that is unique in the call_events table.  A handler reads the record,    *)
(* the log and the session of the call one after the other and writes all   *)
(* three in one commit.  Other handlers, reprocess requests and hangup      *)
(* requests act between any two of those reads and the commit.              *)
(*                                                                         *)
(* The calls modelled are those of one business, already dialled.           *)
(***************************************************************************)
EXTENDS Integers, FiniteSets, CallStatus

CONSTANTS
  Calls,
  Events,      \* fingerprints
  Workers,     \* threads of the web server
  Listener,    \* the thread of the AMI listener
  CallOf,      \* [Events -> the call the event is about]
  Name,        \* [Events -> event name]
  Detail,      \* [Events -> class of its outcome, see CallStatus]
  OtherLegs,   \* events of a channel of the call other than the first one
  MaxRecords,  \* bound: records ever inserted under one fingerprint
  None

ASSUME EventsAreOfCalls ==
  /\ CallOf \in [Events -> Calls]
  /\ OtherLegs \subseteq Events
  /\ Listener \notin Workers
  /\ None \notin Calls \cup Events
  /\ MaxRecords \in Nat \ {0}

(* The classes of outcomes are those the code tells apart.                  *)
ASSUME EventsHaveDetails ==
  \A e \in Events :
    /\ Name[e] = "OriginateResponse" => Detail[e] \in DOMAIN OriginateOutcome
    /\ Name[e] = "DialEnd" => Detail[e] \in DOMAIN DialOutcome
    /\ Name[e] = "Hangup" => Detail[e] \in DOMAIN HangupOutcome

VARIABLES
  log,       \* the call_logs table
  ses,       \* the call_sessions table
  record,    \* the call_events table
  handler,   \* what each thread is doing, with its local variables
  poisoned,  \* is the ORM session of the listener in a failed transaction?
  applied,   \* history: how often the effects of an event were committed
  raced,     \* history: calls written to on the strength of stale reads
  clean      \* history: events never left uncorrelated nor reprocessed

vars == <<log, ses, record, handler, poisoned, applied, raced, clean>>

-----------------------------------------------------------------------------
Handlers == Workers \cup {Listener}

(* The log or the session row of a call; uniqueid, linkedid: is the id of   *)
(* the first channel known, and the id all channels of the call share?      *)
Row(statuses) ==
  [status : statuses, answered : BOOLEAN, ended : BOOLEAN,
   uniqueid : BOOLEAN, linkedid : BOOLEAN]

Queued ==
  [status |-> "queued", answered |-> FALSE, ended |-> FALSE,
   uniqueid |-> FALSE, linkedid |-> FALSE]

(* "no such row" among the snapshots of a handler.                          *)
NotFound == [Queued EXCEPT !.status = "none"]

(* A record; owned: does it have the business that may reprocess it?  The   *)
(* listener records an event it cannot correlate without a business.        *)
Records ==
  [state : {"none", "failed", "processed"}, id : 0 .. MaxRecords, owned : BOOLEAN]

NoRecord(id) == [state |-> "none", id |-> id, owned |-> FALSE]

Idle ==
  [pc |-> "idle", event |-> None, call |-> None, seen |-> NoRecord(0),
   log |-> NotFound, ses |-> NotFound]

HandlerState ==
  [pc : {"idle", "delete", "dedupe", "log", "session", "commit", "hangup"},
   event : Events \cup {None}, call : Calls \cup {None}, seen : Records,
   log : Row(LogStatuses) \cup {NotFound},
   ses : Row(SessionStatuses) \cup {NotFound}]

TypeOK ==
  /\ log \in [Calls -> Row(LogStatuses)]
  /\ ses \in [Calls -> Row(SessionStatuses)]
  /\ record \in [Events -> Records]
  /\ handler \in [Handlers -> HandlerState]
  /\ poisoned \in BOOLEAN
  /\ applied \in [Events -> 0 .. 2]
  /\ raced \subseteq Calls
  /\ clean \subseteq Events

Init ==
  /\ log = [c \in Calls |-> Queued]
  /\ ses = [c \in Calls |-> Queued]
  /\ record = [e \in Events |-> NoRecord(0)]
  /\ handler = [h \in Handlers |-> Idle]
  /\ poisoned = FALSE
  /\ applied = [e \in Events |-> 0]
  /\ raced = {}
  /\ clean = Events

-----------------------------------------------------------------------------
(* The events the listener does not discard.                                *)
TargetEvents ==
  {"OriginateResponse", "DialBegin", "DialEnd", "BridgeEnter", "Hangup"}

(* _find_call_log, _find_call_session.  The answer to an Originate action   *)
(* carries its ActionID, which the rows have from their insert, and the id  *)
(* of the first channel; the other events carry the id of their own channel *)
(* and the linked id.                                                       *)
Finds(e, row) ==
  \/ Name[e] = "OriginateResponse"
  \/ row.uniqueid /\ e \notin OtherLegs
  \/ row.linkedid

Outcome(e) == ResolveStatus(Name[e], Detail[e])

(* Slip: the end is recomputed from the event at hand.                      *)
AppliedForgetful(row, e, status) ==
  [status   |-> IF Outcome(e) = NoStatus THEN row.status ELSE status,
   answered |-> row.answered \/ Outcome(e) = "answered",
   ended    |-> Name[e] = "Hangup",
   uniqueid |-> TRUE,
   linkedid |-> row.linkedid \/ Name[e] # "OriginateResponse"]

(* What process_call_event makes of a row it has read.                      *)
Applied(row, e, status) ==
  [status   |-> IF Outcome(e) = NoStatus THEN row.status ELSE status,
   answered |-> row.answered \/ Outcome(e) = "answered",
   ended    |-> row.ended \/ Name[e] = "Hangup",
   uniqueid |-> TRUE,
   linkedid |-> row.linkedid \/ Name[e] # "OriginateResponse"]

(* The ORM writes the columns that differ from those read.                  *)
Overlay(current, read, new) ==
  [col \in DOMAIN current |->
     IF new[col] = read[col] THEN current[col] ELSE new[col]]

Goto(h, pc) == handler' = [handler EXCEPT ![h].pc = pc]

Release(h) == handler' = [handler EXCEPT ![h] = Idle]

(* A handler that fails in the middle of a flush is done; nothing rolls the *)
(* listener's ORM session back.                                             *)
FailFlush(h) ==
  /\ Release(h)
  /\ poisoned' = (poisoned \/ h = Listener)
  /\ UNCHANGED <<log, ses, record, applied, raced, clean>>

(* Was something of call c read by another handler that will write to it?   *)
ReadByOthers(h, c) ==
  \E g \in Handlers \ {h} :
    /\ handler[g].call = c
    /\ handler[g].pc \in {"session", "commit", "hangup"}

-----------------------------------------------------------------------------
(* process_call_event                                                       *)

(* An event arrives, for the first time or again, and is not a duplicate of *)
(* a processed one.  A poisoned ORM session fails its first read.           *)
Receive(h, e) ==
  /\ handler[h].pc = "idle"
  /\ h = Listener => Name[e] \in TargetEvents /\ ~poisoned
  /\ record[e].state # "processed"
  /\ handler' = [handler EXCEPT ![h] =
                   [Idle EXCEPT !.pc = "log", !.event = e, !.call = CallOf[e],
                                !.seen = record[e]]]
  /\ UNCHANGED <<log, ses, record, poisoned, applied, raced, clean>>

FindLog(h) ==
  LET row == log[handler[h].call] IN
  /\ handler[h].pc = "log"
  /\ handler' = [handler EXCEPT
       ![h].pc = "session",
       ![h].log = IF Finds(handler[h].event, row) THEN row ELSE NotFound]
  /\ UNCHANGED <<log, ses, record, poisoned, applied, raced, clean>>

FindSession(h) ==
  LET row == ses[handler[h].call] IN
  /\ handler[h].pc = "session"
  /\ handler' = [handler EXCEPT
       ![h].pc = "commit",
       ![h].ses = IF Finds(handler[h].event, row) THEN row ELSE NotFound]
  /\ UNCHANGED <<log, ses, record, poisoned, applied, raced, clean>>

Uncorrelated(h) == handler[h].log = NotFound /\ handler[h].ses = NotFound

(* A new record, whatever was there before: a record with the fingerprint   *)
(* violates the unique constraint.                                          *)
CommitUncorrelated(h) ==
  LET e == handler[h].event IN
  /\ handler[h].pc = "commit"
  /\ Uncorrelated(h)
  /\ record[e].state = "none"
  /\ record' = [record EXCEPT ![e] =
                  [state |-> "failed", id |-> @.id + 1, owned |-> h # Listener]]
  /\ clean' = clean \ {e}
  /\ Release(h)
  /\ UNCHANGED <<log, ses, poisoned, applied, raced>>

(* Slip: the fingerprint is not unique.                                     *)
RecordAnyway(h, e) ==
  record' = [record EXCEPT ![e] =
               [state |-> "processed", id |-> IF @.id = 0 THEN 1 ELSE @.id,
                owned |-> TRUE]]

(* The record is inserted, unless the handler saw a failed one, which it    *)
(* updates.                                                                 *)
RecordProcessed(h, e) ==
  LET seen == handler[h].seen IN
  IF seen.state = "none"
  THEN /\ record[e].state = "none"
       /\ record' = [record EXCEPT ![e] =
                       [state |-> "processed", id |-> @.id + 1, owned |-> TRUE]]
  ELSE /\ record[e].state # "none"
       /\ record[e].id = seen.id
       /\ record' = [record EXCEPT ![e].state = "processed"]

CommitEvent(h) ==
  LET e == handler[h].event
      c == handler[h].call
      readLog == handler[h].log
      readSes == handler[h].ses
  IN
  /\ handler[h].pc = "commit"
  /\ ~Uncorrelated(h)
  /\ RecordProcessed(h, e)
  /\ log' = IF readLog = NotFound THEN log
            ELSE [log EXCEPT ![c] =
                    Overlay(@, readLog, Applied(readLog, e, Outcome(e)))]
  /\ ses' = IF readSes = NotFound THEN ses
            ELSE [ses EXCEPT ![c] =
                    Overlay(@, readSes,
                            Applied(readSes, e, ToSessionStatus(Outcome(e))))]
  /\ applied' = [applied EXCEPT ![e] = IF @ < 2 THEN @ + 1 ELSE @]
  /\ raced' = IF ReadByOthers(h, c) THEN raced \cup {c} ELSE raced
  /\ Release(h)
  /\ UNCHANGED <<poisoned, clean>>

(* IntegrityError: someone else inserted the record.  StaleDataError: the   *)
(* failed record was deleted by a reprocess request.                        *)
CommitFails(h) ==
  LET e == handler[h].event IN
  /\ handler[h].pc = "commit"
  /\ \/ /\ Uncorrelated(h) \/ handler[h].seen.state = "none"
        /\ record[e].state # "none"
     \/ /\ ~Uncorrelated(h) /\ handler[h].seen.state = "failed"
        /\ record[e].state = "none" \/ record[e].id # handler[h].seen.id
  /\ FailFlush(h)

-----------------------------------------------------------------------------
(* reprocess_call_event: the record is read, deleted in a commit of its own *)
(* and the event is processed as if it had just arrived.                    *)

BeginReprocess(w, e) ==
  /\ handler[w].pc = "idle"
  /\ record[e].state # "none"
  /\ record[e].owned
  /\ record[e].id < MaxRecords
  /\ handler' = [handler EXCEPT ![w] =
                   [Idle EXCEPT !.pc = "delete", !.event = e, !.call = CallOf[e],
                                !.seen = record[e]]]
  /\ UNCHANGED <<log, ses, record, poisoned, applied, raced, clean>>

(* Deleting a record that is gone already is only a warning of the ORM.     *)
DeleteRecord(w) ==
  LET e == handler[w].event IN
  /\ handler[w].pc = "delete"
  /\ record' = IF record[e].id = handler[w].seen.id
               THEN [record EXCEPT ![e] = NoRecord(@.id)] ELSE record
  /\ clean' = clean \ {e}
  /\ Goto(w, "dedupe")
  /\ UNCHANGED <<log, ses, poisoned, applied, raced>>

Dedupe(w) ==
  LET e == handler[w].event IN
  /\ handler[w].pc = "dedupe"
  /\ IF record[e].state = "processed"
     THEN Release(w)
     ELSE handler' = [handler EXCEPT ![w].pc = "log", ![w].seen = record[e]]
  /\ UNCHANGED <<log, ses, record, poisoned, applied, raced, clean>>

-----------------------------------------------------------------------------
(* request_hangup_for_business: the session is read, the channel hung up    *)
(* through AMI, and both rows written.  The log is read before AMI is asked *)
(* when the channel has to be found by number, and otherwise after.         *)

BeginHangup(w, c) ==
  /\ handler[w].pc = "idle"
  /\ ~ses[c].ended
  /\ \E row \in {log[c], NotFound} :
       handler' = [handler EXCEPT ![w] =
                     [Idle EXCEPT !.pc = "hangup", !.call = c, !.log = row,
                                  !.ses = ses[c]]]
  /\ UNCHANGED <<log, ses, record, poisoned, applied, raced, clean>>

(* Slips: the log is forgotten; the end of the call is recorded as well.    *)
MarkSessionOnly(w) ==
  LET c == handler[w].call IN
  /\ handler[w].pc = "hangup"
  /\ ses' = [ses EXCEPT ![c].status = "hangup"]
  /\ raced' = IF ReadByOthers(w, c) THEN raced \cup {c} ELSE raced
  /\ Release(w)
  /\ UNCHANGED <<log, record, poisoned, applied, clean>>

MarkHangupAndEnd(w) ==
  LET c == handler[w].call IN
  /\ handler[w].pc = "hangup"
  /\ ses' = [ses EXCEPT ![c].status = "hangup", ![c].ended = TRUE]
  /\ log' = [log EXCEPT ![c].status = "canceled"]
  /\ raced' = IF ReadByOthers(w, c) THEN raced \cup {c} ELSE raced
  /\ Release(w)
  /\ UNCHANGED <<record, poisoned, applied, clean>>

MarkHangup(w) ==
  LET c == handler[w].call
      readLog == IF handler[w].log = NotFound THEN log[c] ELSE handler[w].log
      readSes == handler[w].ses
  IN
  /\ handler[w].pc = "hangup"
  /\ ses' = [ses EXCEPT ![c] =
               Overlay(@, readSes, [readSes EXCEPT !.status = "hangup"])]
  /\ log' = [log EXCEPT ![c] =
               Overlay(@, readLog, [readLog EXCEPT !.status = "canceled"])]
  /\ raced' = IF ReadByOthers(w, c) THEN raced \cup {c} ELSE raced
  /\ Release(w)
  /\ UNCHANGED <<record, poisoned, applied, clean>>

(* The process ends and starts again; what is not committed is lost.        *)
Restart ==
  /\ \E h \in Handlers : handler[h].pc # "idle" \/ poisoned
  /\ handler' = [h \in Handlers |-> Idle]
  /\ poisoned' = FALSE
  /\ UNCHANGED <<log, ses, record, applied, raced, clean>>

-----------------------------------------------------------------------------
Process(h) ==
  \/ \E e \in Events : Receive(h, e)
  \/ FindLog(h)
  \/ FindSession(h)
  \/ CommitUncorrelated(h)
  \/ CommitEvent(h)
  \/ CommitFails(h)

Request(w) ==
  \/ \E e \in Events : BeginReprocess(w, e)
  \/ DeleteRecord(w)
  \/ Dedupe(w)
  \/ \E c \in Calls : BeginHangup(w, c)
  \/ MarkHangup(w)

Next ==
  \/ \E h \in Handlers : Process(h)
  \/ \E w \in Workers : Request(w)
  \/ Restart

Spec == Init /\ [][Next]_vars

-----------------------------------------------------------------------------
(***************************************************************************)
(* Properties.                                                              *)
(***************************************************************************)

(* The log of a call is never ahead of its session: handlers look for the   *)
(* log first, so whoever finds the log also finds the session, and the      *)
(* capacity counts, which read sessions, see the end of every call whose    *)
(* log has one.                                                             *)
LogIsNotAhead ==
  \A c \in Calls : /\ log[c].uniqueid => ses[c].uniqueid
                   /\ log[c].linkedid => ses[c].linkedid
                   /\ log[c].answered => ses[c].answered
                   /\ log[c].ended => ses[c].ended

(* However often an event is delivered, and by however many handlers at     *)
(* once, it takes effect once and is recorded as processed if it did --     *)
(* until it is first left uncorrelated or someone asks to reprocess it.     *)
TakesEffectOnce ==
  \A e \in clean : applied[e] = IF record[e].state = "processed" THEN 1 ELSE 0

(* Log and session tell the same story about a call, the session "hangup"   *)
(* for the log's "canceled" after a hangup request, unless a handler wrote  *)
(* to the call while another was between its reads and its commit.          *)
SameStory(c) ==
  \/ ses[c].status = ToSessionStatus(log[c].status)
  \/ ses[c].status = "hangup" /\ log[c].status = "canceled"

SameStories == \A c \in Calls \ raced : SameStory(c)

(* The two rows of a call agree: each is a row, the log is not ahead of the *)
(* session, and they tell the same story.                                   *)
RowsAgree == TypeOK /\ LogIsNotAhead /\ SameStories

(* What a handler wrote once no later handler unsets, whatever it had read. *)
MarksAreKept ==
  [][\A c \in Calls :
       /\ ses[c].answered => ses'[c].answered
       /\ log[c].answered => log'[c].answered
       /\ log[c].ended => log'[c].ended
       /\ log[c].linkedid => log'[c].linkedid]_vars

(* The session rows behave as CallLedger promises.                          *)
Ledger == INSTANCE CallLedger
            WITH Calls  <- Calls,
                 status <- [c \in Calls |-> ses[c].status],
                 ended  <- [c \in Calls |-> ses[c].ended]

ImplementsLedger == Ledger!Spec
=============================================================================
