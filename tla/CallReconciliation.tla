------------------------- MODULE CallReconciliation -------------------------
(***************************************************************************)
(* `flask calls reconcile`: the call detail records that Asterisk writes    *)
(* into the cdr table are matched with the rows of the calls, and what was  *)
(* missed while the AMI listener was away is made up for.  The command      *)
(* works through the records in one transaction, which takes long: the      *)
(* handlers of call events and of requests to hang up write to the same     *)
(* rows meanwhile.  A row it has changed is locked from the next query on,  *)
(* which flushes the change.                                                *)
(*                                                                         *)
(* The calls modelled were dialled by this server within the window.  The   *)
(* database is PostgreSQL, where the table cannot have an "end" column the   *)
(* query would accept: no record tells when a call ended.                   *)
(***************************************************************************)
EXTENDS Integers, Sequences, FiniteSets, CallStatus, Orm

CONSTANTS
  Calls,      \* ids of the rows: a later call has a greater one
  Number,     \* [Calls -> the number dialled]
  Cdrs,       \* ids of the records: a later one has a greater id
  CallOf,     \* [Cdrs -> the call a record is of]
  Leg,        \* [Cdrs -> the channel of that call, 1 for the first]
  Disposition,\* [Cdrs -> what it says of the outcome]
  Near,       \* [Cdrs -> calls begun at most 10 minutes after its start]
  HasLinked,  \* does the cdr table have a linkedid column?
  Hangups,    \* statuses Hangup events give
  Writers,    \* threads that handle events and requests to hang up
  MaxEvents,  \* bound: events and such requests
  None

(* The log or the session row of a call, in the columns the command and the  *)
(* writers share.                                                           *)
Row(statuses) ==
  [uid : {None} \cup (Calls \X Nat), linked : {None} \cup Calls,
   status : statuses, ended : BOOLEAN]

(* Assumed of the constants wherever the module is instantiated.            *)
ConstantsOK ==
  /\ Calls \subseteq Nat /\ Cdrs \subseteq Nat
  /\ None \notin Calls \cup (Calls \X Nat) \cup Row(LogStatuses)
  /\ CallOf \in [Cdrs -> Calls] /\ Leg \in [Cdrs -> Nat]
  /\ Near \in [Cdrs -> SUBSET Calls]
  /\ Disposition \in [Cdrs -> {"ANSWERED", "BUSY", "NO ANSWER", "CANCEL", "FAILED", ""}]
  /\ HasLinked \in BOOLEAN /\ MaxEvents \in Nat
  /\ Hangups \subseteq LogStatuses

VARIABLES
  log, ses,    \* the rows of the calls
  cdr,         \* the records there are
  handler,     \* what each of the writers does, with what it has read
  batch,       \* the command, with its local variables
  overlapped,  \* history: calls of which a writer or the command wrote what
               \* the other had read
  crossed,     \* history: calls of which a writer wrote what another had read
  guessed,     \* history: calls a record was given to, or kept from, for its
               \* number alone
  events       \* history: how many events and requests were begun

vars == <<log, ses, cdr, handler, batch, overlapped, crossed, guessed, events>>

-----------------------------------------------------------------------------
Dialled == [uid |-> None, linked |-> None, status |-> "queued", ended |-> FALSE]

(* A writer at rest, and at work; a log of None is read by the commit.      *)
Rest == [call |-> None, status |-> None, log |-> None, ses |-> Dialled]

Reads(c, status, row) == [call |-> c, status |-> status, log |-> row, ses |-> ses[c]]

(* The two rows of a call: as they were read or flushed, as they have been  *)
(* set since, and as the open transaction has them once they were flushed.  *)
(* by: the records matched with each call.                                  *)
Rows(l, s) == [log |-> l, ses |-> s]

NoBatch ==
  [pc |-> "idle", todo |-> <<>>, call |-> None, known |-> {}, flushed |-> {},
   read |-> [c \in Calls |-> Rows(Dialled, Dialled)],
   set |-> [c \in Calls |-> Rows(Dialled, Dialled)],
   tx |-> [c \in Calls |-> Rows(Dialled, Dialled)],
   by |-> [c \in Calls |-> {}]]

Init ==
  /\ log = [c \in Calls |-> Dialled]
  /\ ses = [c \in Calls |-> Dialled]
  /\ cdr = {}
  /\ handler = [w \in Writers |-> Rest]
  /\ batch = NoBatch
  /\ overlapped = {}
  /\ crossed = {}
  /\ guessed = {}
  /\ events = 0

-----------------------------------------------------------------------------
(* Asterisk writes a record.                                                *)
WriteCdr(x) ==
  /\ x \notin cdr
  /\ cdr' = cdr \cup {x}
  /\ UNCHANGED <<log, ses, handler, batch, overlapped, crossed, guessed, events>>

(* What a writer was asked for is on a call of which it has read the rows.  *)
Starts(w, c, status, row) ==
  /\ handler[w] = Rest
  /\ events < MaxEvents
  /\ events' = events + 1
  /\ handler' = [handler EXCEPT ![w] = Reads(c, status, row)]
  /\ UNCHANGED <<log, ses, cdr, batch, overlapped, crossed, guessed>>

(* One commit of both rows, which waits for the command's locks.            *)
Stores(w, newLog, newSes) ==
  LET c == handler[w].call
      readLog == IF handler[w].log = None THEN log[c] ELSE handler[w].log
  IN
  /\ c # None
  /\ c \notin batch.flushed
  /\ log' = [log EXCEPT ![c] = Written(@, readLog, newLog)]
  /\ ses' = [ses EXCEPT ![c] = Written(@, handler[w].ses, newSes)]
  /\ handler' = [handler EXCEPT ![w] = Rest]
  /\ overlapped' = IF c \in batch.known \cup {batch.call} THEN overlapped \cup {c}
                   ELSE overlapped
  /\ crossed' = IF \E v \in Writers \ {w} : handler[v].call = c THEN crossed \cup {c}
                ELSE crossed
  /\ UNCHANGED <<cdr, batch, guessed, events>>

(* process_call_event, of which CallEvents has the detail: both rows are     *)
(* read, and written in one commit.                                         *)
ReadEvent(w, c, status) == Starts(w, c, status, log[c])

CommitEvent(w) ==
  LET c == handler[w].call
      after(row, status) ==
        [uid |-> <<c, 1>>, linked |-> c, status |-> status,
         ended |-> row.ended \/ handler[w].status # "answered"]
  IN
  /\ handler[w].status \in {"answered"} \cup Hangups
  /\ Stores(w, after(handler[w].log, handler[w].status),
               after(handler[w].ses, ToSessionStatus(handler[w].status)))

(* request_hangup_for_business: refused when the session has ended.  The log *)
(* is read before AMI is asked when the channel has to be found by number,   *)
(* and otherwise after.                                                     *)
BeginHangup(w, c) ==
  /\ ~ ses[c].ended
  /\ \E row \in {log[c], None} : Starts(w, c, "hangup", row)

(* The rows get the statuses of a call that was hung up, and nothing else.  *)
MarkHangup(w) ==
  LET row == IF handler[w].log = None THEN log[handler[w].call] ELSE handler[w].log IN
  /\ handler[w].status = "hangup"
  /\ Stores(w, [row EXCEPT !.status = "canceled"],
               [handler[w].ses EXCEPT !.status = "hangup"])

(* An event or a request fails: AMI cannot be reached, a commit fails or     *)
(* the process is stopped.                                                  *)
GiveUp(w) ==
  /\ handler[w] # Rest
  /\ handler' = [handler EXCEPT ![w] = Rest]
  /\ UNCHANGED <<log, ses, cdr, batch, overlapped, crossed, guessed, events>>

-----------------------------------------------------------------------------
(* The records, newest first, as far as there are any.                      *)
Begin ==
  /\ batch.pc = "idle"
  /\ \E s \in [1 .. Cardinality(cdr) -> cdr] :
       /\ \A i, j \in DOMAIN s : i < j => s[i] > s[j]
       /\ batch' = [NoBatch EXCEPT !.pc = "log", !.todo = s]
  /\ UNCHANGED <<log, ses, cdr, handler, overlapped, crossed, guessed, events>>

(* The rows of a call as the transaction of the command finds them.         *)
Visible(c) == IF c \in batch.flushed THEN batch.tx[c] ELSE Rows(log[c], ses[c])

(* Slip: a row is written as a whole.                                       *)
FlushWhole(c) == batch.set[c]

(* The columns that were set are written, and the row is locked.            *)
Flush(c) ==
  Rows(Written(Visible(c).log, batch.read[c].log, batch.set[c].log),
       Written(Visible(c).ses, batch.read[c].ses, batch.set[c].ses))

Dirty == {c \in batch.known : batch.read[c] # batch.set[c]}

(* Every query flushes first, and so does the commit.                       *)
Flushed ==
  [batch EXCEPT !.flushed = @ \cup Dirty, !.read = batch.set,
                !.tx = [c \in Calls |-> IF c \in Dirty THEN Flush(c) ELSE @[c]]]

Uid(x) == <<CallOf[x], Leg[x]>>

(* Slip: the ids are not asked for.                                         *)
MatchesByNumber(x) == {c \in Near[x] : Number[c] = Number[CallOf[x]]}

Now(c) == IF c \in Dirty THEN Flush(c).log ELSE Visible(c).log

WithUid(x) == {c \in Calls : Now(c).uid = Uid(x)}
WithLinked(x) == {c \in Calls : HasLinked /\ Now(c).linked = CallOf[x]}

(* _find_call_log_for_cdr: by the id of the channel, by the id of the call, *)
(* or by the number dialled.                                                *)
Matches(x) ==
  IF WithUid(x) # {} THEN WithUid(x)
  ELSE IF WithLinked(x) # {} THEN WithLinked(x)
  ELSE {c \in Near[x] : Number[c] = Number[CallOf[x]]}

(* The newest of the calls that match.  A row that has been read once keeps *)
(* the values it has been given since.                                      *)
FindLog ==
  LET x == batch.todo[1] IN
  /\ batch.pc = "log"
  /\ batch.todo # <<>>
  /\ IF Matches(x) = {}
     THEN batch' = [Flushed EXCEPT !.todo = Tail(@)] /\ UNCHANGED guessed
     ELSE \E c \in Matches(x) :
            /\ \A d \in Matches(x) : d <= c
            /\ batch' = [Flushed EXCEPT
                 !.pc = "session", !.call = c,
                 !.read[c].log = IF c \in batch.known THEN @ ELSE log[c],
                 !.set[c].log = IF c \in batch.known THEN @ ELSE log[c]]
            /\ guessed' = IF c = CallOf[x] \/ WithUid(x) \cup WithLinked(x) # {}
                          THEN guessed ELSE guessed \cup {c, CallOf[x]}
  /\ UNCHANGED <<log, ses, cdr, handler, overlapped, crossed, events>>

(* _map_disposition_to_status                                               *)
Outcome(x) ==
  CASE Disposition[x] = "ANSWERED" -> "completed"
    [] Disposition[x] = "BUSY" -> "busy"
    [] Disposition[x] = "NO ANSWER" -> "no_answer"
    [] Disposition[x] = "CANCEL" -> "canceled"
    [] Disposition[x] = "FAILED" -> "failed"
    [] OTHER -> NoStatus

Rank(status) ==
  CASE status = "queued" -> 0 [] status = "ringing" -> 1 [] status = "answered" -> 2
    [] OTHER -> 3

(* Slip: of two outcomes the first one stays.                               *)
UpgradesFrom(current, candidate) == Rank(candidate) > Rank(current)

(* _should_upgrade_status                                                   *)
Upgrades(current, candidate) == Rank(candidate) >= Rank(current)

Changes(current, x) == Outcome(x) # NoStatus /\ Upgrades(current, Outcome(x))

Final(row) == Rank(row.status) = 3 /\ row.ended

(* FINAL_STATUSES, SESSION_FINAL_STATUSES                                   *)
Finalized(l, s) == Final(l) /\ Final(s)

SetLog(row, x) ==
  [row EXCEPT !.uid = Uid(x),
              !.linked = IF HasLinked THEN CallOf[x] ELSE @,
              !.status = IF Changes(@, x) THEN Outcome(x) ELSE @]

(* The session is compared with the log as it has become.                   *)
SetSession(row, l, x) ==
  [row EXCEPT !.uid = l.uid,
              !.linked = IF l.linked = None THEN @ ELSE l.linked,
              !.status = IF Changes(l.status, x) THEN ToSessionStatus(Outcome(x)) ELSE @]

(* _find_call_session_for_call_log: by the action id, which both rows have   *)
(* from their insert.                                                       *)
SessionOf(c) == IF c \in batch.known THEN batch.set[c].ses ELSE ses[c]

(* Both rows are set, but for calls that are done with.                     *)
Reconcile ==
  LET c == batch.call
      x == batch.todo[1]
      read == IF c \in batch.known THEN batch.read[c].ses ELSE ses[c]
      s == SessionOf(c)
      l == SetLog(batch.set[c].log, x)
  IN
  /\ batch.pc = "session"
  /\ batch' = [batch EXCEPT
       !.pc = "log", !.todo = Tail(@), !.call = None, !.known = @ \cup {c},
       !.by[c] = @ \cup {x},
       !.read[c].ses = read,
       !.set[c] = IF Finalized(@.log, s) THEN Rows(@.log, s) ELSE Rows(l, SetSession(s, l, x))]
  /\ UNCHANGED <<log, ses, cdr, handler, overlapped, crossed, guessed, events>>

Apply ==
  /\ batch.pc = "log"
  /\ batch.todo = <<>>
  /\ log' = [c \in Calls |-> IF c \in Flushed.flushed THEN Flushed.tx[c].log ELSE log[c]]
  /\ ses' = [c \in Calls |-> IF c \in Flushed.flushed THEN Flushed.tx[c].ses ELSE ses[c]]
  /\ batch' = NoBatch
  /\ overlapped' = overlapped \cup {c \in Flushed.flushed : \E w \in Writers : handler[w].call = c}
  /\ UNCHANGED <<cdr, handler, crossed, guessed, events>>

(* A dry run ends, or the command fails or is stopped.                      *)
RollBack ==
  /\ batch.pc # "idle"
  /\ batch' = NoBatch
  /\ UNCHANGED <<log, ses, cdr, handler, overlapped, crossed, guessed, events>>

Next ==
  \/ \E x \in Cdrs : WriteCdr(x)
  \/ \E w \in Writers, c \in Calls :
       \/ \E status \in {"answered"} \cup Hangups : ReadEvent(w, c, status)
       \/ BeginHangup(w, c)
  \/ \E w \in Writers : CommitEvent(w) \/ MarkHangup(w) \/ GiveUp(w)
  \/ Begin \/ FindLog \/ Reconcile \/ Apply \/ RollBack

Spec == Init /\ [][Next]_vars

-----------------------------------------------------------------------------
(* Rows have their types, and what the command has locked it has changed.   *)
TypeOK ==
  /\ \A c \in Calls : log[c] \in Row(LogStatuses) /\ ses[c] \in Row(SessionStatuses)
  /\ cdr \subseteq Cdrs
  /\ \A w \in Writers : handler[w].call \in {None} \cup Calls
  /\ batch.pc \in {"idle", "log", "session"}
  /\ batch.call # None <=> batch.pc = "session"
  /\ batch.flushed \subseteq batch.known

(* A row has the ids of its own call, unless a record was taken for one of  *)
(* another call with the same number, when neither id was known.            *)
IdsAreOwn ==
  \A c \in Calls \ guessed :
    /\ log[c].uid # None => log[c].uid[1] = c
    /\ log[c].linked \in {None, c}

DoneWith(c) == Final(log[c]) /\ Final(ses[c])

(* The command does not touch a call that is done with: what the events told *)
(* of it stands.  It may if a writer wrote to it after it was read.       *)
DoneIsLeft ==
  [][\A c \in Calls :
       batch.pc # "idle" /\ batch'.pc = "idle" /\ c \notin overlapped /\ DoneWith(c)
         => log'[c] = log[c] /\ ses'[c] = ses[c]]_vars

(* Log and session go on telling the same story of a call, the session       *)
(* "hangup" for the log's "canceled" after a request to hang up, unless one  *)
(* of writers and command wrote to it what another one had read.            *)
SameStory(c) ==
  \/ ses[c].status = ToSessionStatus(log[c].status)
  \/ ses[c].status = "hangup" /\ log[c].status = "canceled"

StoriesAgree == \A c \in Calls \ (overlapped \cup crossed) : SameStory(c)

(* Once the command has been applied, a call tells what its record tells,    *)
(* whatever was in the row: only what was done with, was written to         *)
(* meanwhile, or has several records may differ.                            *)
RecordIsTold ==
  [][\A c \in Calls, x \in Cdrs :
       Apply /\ batch.by[c] = {x} /\ c \notin overlapped /\ ~ DoneWith(c)
         => /\ Outcome(x) # NoStatus => log'[c].status = Outcome(x)
            /\ log'[c].uid = Uid(x)]_vars

(* An end that an event has recorded stays, though the command may have read *)
(* the row before: it does not write what it did not set.                   *)
EndsAreKept ==
  [][\A c \in Calls : /\ log[c].ended => log'[c].ended
                      /\ ses[c].ended => ses'[c].ended]_vars

(* The two rows of a call tell one story, and it is the story of that call. *)
RowsTellOneStory == TypeOK /\ IdsAreOwn /\ StoriesAgree

(* What events have recorded stands: the ends of calls, and all that is     *)
(* said of those that are done with.                                        *)
EventsStand == DoneIsLeft /\ EndsAreKept
=============================================================================
