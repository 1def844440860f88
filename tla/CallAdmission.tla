---------------------------- MODULE CallAdmission ----------------------------
(***************************************************************************)
(* Admission of outbound calls: POST /calls/originate, /calls/<id>/retry    *)
(* and /calls/<id>/hangup, each served by a thread of the web server of its *)
(* own.  Originating a call checks the business limit, the system limit and *)
(* the load of a SIP trunk in three separate reads, then inserts the rows   *)
(* of the call in one transaction and only then asks Asterisk to dial.      *)
(* Other threads act between any two of those steps.                        *)
(*                                                                         *)
(* Asterisk is external: it has been asked to dial the calls of "placed",   *)
(* and any of them may be a live channel at any time.  The events it        *)
(* reports are applied here as CallLedger promises; CallEvents models the   *)
(* handlers that apply them.                                                *)
(***************************************************************************)
EXTENDS Integers, FiniteSets, CallStatus

CONSTANTS
  Sessions,        \* identities call session rows can get
  Workers,         \* request threads of the web server
  Businesses,
  Trunks,
  OwnTrunks,       \* [Businesses -> active business-scoped trunks]
  GlobalTrunks,    \* active global trunks
  AllowGlobal,     \* [Businesses -> allow_global_sip_fallback]
  BusinessMax,     \* [Businesses -> max_concurrent_calls], 0 for none
  SystemMax,       \* SYSTEM_MAX_CONCURRENT_CALLS, 0 for none
  TrunkMax,        \* [Trunks -> max_concurrent_calls]
  MaxAttempts,     \* CALL_RETRY_MAX_ATTEMPTS
  ProgressSeen,    \* session statuses the events before a Hangup lead to,
  HangupSeen,      \* and those a Hangup leads to: TLC takes a few of each
  None

ASSUME PoolsAreFinite ==
  /\ IsFiniteSet(Sessions)
  /\ IsFiniteSet(Workers)
  /\ None \notin Sessions \cup Workers \cup Businesses \cup Trunks

ASSUME OutcomesAreReported ==
  /\ ProgressSeen \subseteq ProgressStatuses
  /\ HangupSeen \subseteq HangupStatuses

ASSUME TrunksAreAssigned ==
  /\ OwnTrunks \in [Businesses -> SUBSET Trunks]
  /\ GlobalTrunks \subseteq Trunks
  /\ AllowGlobal \in [Businesses -> BOOLEAN]

ASSUME LimitsAreNat ==
  /\ BusinessMax \in [Businesses -> Nat]
  /\ SystemMax \in Nat
  /\ TrunkMax \in [Trunks -> Nat]
  /\ MaxAttempts \in Nat \ {0}

VARIABLES
  session,   \* the call_sessions table
  worker,    \* what each request thread is doing, with its local variables
  placed,    \* external: the calls Asterisk was asked to dial
  revived    \* history: calls counted again after not having been counted

vars == <<session, worker, placed, revived>>

-----------------------------------------------------------------------------
NoSession ==
  [status |-> "absent", ended |-> FALSE, business |-> None, trunk |-> None,
   retry |-> 0, source |-> None]

SessionRow ==
  [status : SessionStatuses, ended : BOOLEAN, business : Businesses,
   trunk : Trunks, retry : Nat, source : Sessions \cup {None}]

Idle ==
  [pc |-> "idle", business |-> None, trunk |-> None, retry |-> 0,
   source |-> None, target |-> None, marked |-> FALSE]

WorkerState ==
  [pc : {"idle", "business", "system", "trunk", "insert", "dial", "hangup"},
   business : Businesses \cup {None},
   trunk : Trunks \cup {None},       \* requested, then picked
   retry : Nat,
   source : Sessions \cup {None},    \* the session being retried
   target : Sessions \cup {None},    \* the session dialled or hung up
   marked : BOOLEAN]                 \* was the row read already "hangup"?

TypeOK ==
  /\ session \in [Sessions -> SessionRow \cup {NoSession}]
  /\ worker \in [Workers -> WorkerState]
  /\ placed \subseteq Sessions
  /\ revived \subseteq Sessions

Init ==
  /\ session = [s \in Sessions |-> NoSession]
  /\ worker = [w \in Workers |-> Idle]
  /\ placed = {}
  /\ revived = {}

-----------------------------------------------------------------------------
Exists(s) == session[s].status # "absent"

(* The rows the capacity counts of the code select.                         *)
Counted(s) ==
  /\ session[s].status \in ActiveSessionStatuses
  /\ ~session[s].ended

ActiveOf(b) == {s \in Sessions : Counted(s) /\ session[s].business = b}

Active == {s \in Sessions : Counted(s)}

(* Slip: one call too many.                                                 *)
LimitExceeded(active, max) == max > 0 /\ Cardinality(active) > max

LimitReached(active, max) == max > 0 /\ Cardinality(active) >= max

(* The number of live channels a request can read for trunk t: those of any *)
(* of its calls, and none when AMI cannot be reached.                       *)
LoadsRead(t) == 0 .. Cardinality({s \in placed : session[s].trunk = t})

RequestableTrunks(b) ==
  OwnTrunks[b] \cup (IF AllowGlobal[b] THEN GlobalTrunks ELSE {})

AutoTrunks(b) ==
  IF OwnTrunks[b] # {} THEN OwnTrunks[b]
  ELSE IF AllowGlobal[b] THEN GlobalTrunks ELSE {}

(* _pick_min_load_trunk: among the trunks with capacity left, one with the  *)
(* fewest calls, and of those one with the most capacity left.  The code    *)
(* breaks a remaining tie by row id; here either may be picked.             *)
MinLoadTrunks(pool, load) ==
  LET free == {t \in pool : load[t] < TrunkMax[t]}
  IN  {t \in free : \A u \in free :
         \/ load[t] < load[u]
         \/ load[t] = load[u] /\ TrunkMax[t] >= TrunkMax[u]}

Release(w) == worker' = [worker EXCEPT ![w] = Idle]

(* Set the status of a row, and remember a call that becomes counted again. *)
WriteStatus(s, status) ==
  /\ session' = [session EXCEPT ![s].status = status]
  /\ revived' =
       IF /\ ~session[s].ended
          /\ session[s].status \notin ActiveSessionStatuses
          /\ status \in ActiveSessionStatuses
       THEN revived \cup {s} ELSE revived

-----------------------------------------------------------------------------
(* originate_call_for_business                                              *)

BeginOriginate(w, b) ==
  /\ worker[w].pc = "idle"
  /\ \E t \in RequestableTrunks(b) \cup {None} :
       worker' = [worker EXCEPT ![w] =
                    [Idle EXCEPT !.pc = "business", !.business = b, !.trunk = t]]
  /\ UNCHANGED <<session, placed, revived>>

(* Slip: a call that failed is retried before it has ended.                 *)
BeginRetryOfLiveCall(w, s) ==
  /\ worker[w].pc = "idle"
  /\ session[s].status \in RetryableStatuses
  /\ session[s].retry < MaxAttempts
  /\ worker' = [worker EXCEPT ![w] =
                  [Idle EXCEPT !.pc = "business",
                               !.business = session[s].business,
                               !.trunk = session[s].trunk,
                               !.retry = session[s].retry + 1,
                               !.source = s]]
  /\ UNCHANGED <<session, placed, revived>>

(* retry_call_session_for_business: the new call asks for the trunk of the  *)
(* source, which is not written.                                            *)
BeginRetry(w, s) ==
  /\ worker[w].pc = "idle"
  /\ session[s].ended
  /\ session[s].status \in RetryableStatuses
  /\ session[s].retry < MaxAttempts
  /\ worker' = [worker EXCEPT ![w] =
                  [Idle EXCEPT !.pc = "business",
                               !.business = session[s].business,
                               !.trunk = session[s].trunk,
                               !.retry = session[s].retry + 1,
                               !.source = s]]
  /\ UNCHANGED <<session, placed, revived>>

CheckBusiness(w) ==
  /\ worker[w].pc = "business"
  /\ IF LimitReached(ActiveOf(worker[w].business),
                     BusinessMax[worker[w].business])
     THEN Release(w)
     ELSE worker' = [worker EXCEPT ![w].pc = "system"]
  /\ UNCHANGED <<session, placed, revived>>

CheckSystem(w) ==
  /\ worker[w].pc = "system"
  /\ IF LimitReached(Active, SystemMax)
     THEN Release(w)
     ELSE worker' = [worker EXCEPT ![w].pc = "trunk"]
  /\ UNCHANGED <<session, placed, revived>>

(* The requested trunk, when it has room.                                   *)
CheckRequestedTrunk(w) ==
  /\ worker[w].pc = "trunk"
  /\ worker[w].trunk # None
  /\ \E load \in LoadsRead(worker[w].trunk) :
       IF load >= TrunkMax[worker[w].trunk]
       THEN Release(w)
       ELSE worker' = [worker EXCEPT ![w].pc = "insert"]
  /\ UNCHANGED <<session, placed, revived>>

(* No trunk was requested: pick the least loaded one.                       *)
PickTrunk(w) ==
  LET pool == AutoTrunks(worker[w].business) IN
  /\ worker[w].pc = "trunk"
  /\ worker[w].trunk = None
  /\ \E load \in [pool -> 0 .. Cardinality(placed)] :
       /\ \A t \in pool : load[t] \in LoadsRead(t)
       /\ IF MinLoadTrunks(pool, load) = {}
          THEN Release(w)
          ELSE \E t \in MinLoadTrunks(pool, load) :
                 worker' = [worker EXCEPT ![w].pc = "insert", ![w].trunk = t]
  /\ UNCHANGED <<session, placed, revived>>

InsertRows(w, s) ==
  /\ worker[w].pc = "insert"
  /\ ~Exists(s)
  /\ session' = [session EXCEPT ![s] =
                   [status |-> "queued", ended |-> FALSE,
                    business |-> worker[w].business,
                    trunk |-> worker[w].trunk,
                    retry |-> worker[w].retry,
                    source |-> worker[w].source]]
  /\ worker' = [worker EXCEPT ![w].pc = "dial", ![w].target = s]
  /\ UNCHANGED <<placed, revived>>

(* Slip: the Originate action is sent again when its answer is missed.      *)
DialAgain(w) ==
  /\ worker[w].pc = "dial"
  /\ placed' = placed \cup {worker[w].target}
  /\ Release(w) \/ UNCHANGED worker
  /\ UNCHANGED <<session, revived>>

(* AMI takes the Originate action.  Whether the answer reaches the thread   *)
(* makes no difference to its state.                                        *)
Dial(w) ==
  /\ worker[w].pc = "dial"
  /\ placed' = placed \cup {worker[w].target}
  /\ Release(w)
  /\ UNCHANGED <<session, revived>>

-----------------------------------------------------------------------------
(* request_hangup_for_business: the row is read, the channel looked up and  *)
(* hung up through AMI, and only then is the row written.  The ORM writes   *)
(* the status when it differs from the one read.                            *)

BeginHangup(w, s) ==
  /\ worker[w].pc = "idle"
  /\ Exists(s)
  /\ ~session[s].ended
  /\ worker' = [worker EXCEPT ![w] =
                  [Idle EXCEPT !.pc = "hangup", !.target = s,
                               !.marked = (session[s].status = "hangup")]]
  /\ UNCHANGED <<session, placed, revived>>

(* Slip: the end of the call is written, too.                               *)
MarkHangupAndEnd(w) ==
  /\ worker[w].pc = "hangup"
  /\ session' = [session EXCEPT ![worker[w].target].status = "hangup",
                                ![worker[w].target].ended = TRUE]
  /\ Release(w)
  /\ UNCHANGED <<placed, revived>>

MarkHangup(w) ==
  /\ worker[w].pc = "hangup"
  /\ IF worker[w].marked
     THEN UNCHANGED <<session, revived>>
     ELSE WriteStatus(worker[w].target, "hangup")
  /\ Release(w)
  /\ UNCHANGED placed

(* The thread stops before its next write: AMI cannot be reached, another   *)
(* exception, or the process dies.  What is committed stays.                *)
Abort(w) ==
  /\ worker[w].pc # "idle"
  /\ Release(w)
  /\ UNCHANGED <<session, placed, revived>>

-----------------------------------------------------------------------------
(* Events Asterisk reports.                                                 *)

(* Slip: a late event reopens the call.                                     *)
EventReopens(s) ==
  /\ s \in placed
  /\ \E st \in ProgressSeen :
       session' = [session EXCEPT ![s].status = st, ![s].ended = FALSE]
  /\ UNCHANGED <<worker, placed, revived>>

(* process_call_event, for an event of call s other than Hangup.  Nothing   *)
(* orders the events of a call: one may arrive after the call has ended.    *)
EventProgress(s) ==
  /\ s \in placed
  /\ \E st \in ProgressSeen : WriteStatus(s, st)
  /\ UNCHANGED <<worker, placed>>

(* process_call_event, for a Hangup event of a channel correlated with s,   *)
(* which may be another leg of the call.                                    *)
EventHangup(s) ==
  /\ s \in placed
  /\ \E st \in HangupSeen \cup {session[s].status} :
       session' = [session EXCEPT ![s].status = st, ![s].ended = TRUE]
  /\ UNCHANGED <<worker, placed, revived>>

-----------------------------------------------------------------------------
Request(w) ==
  \/ \E b \in Businesses : BeginOriginate(w, b)
  \/ \E s \in Sessions : BeginRetry(w, s)
  \/ CheckBusiness(w)
  \/ CheckSystem(w)
  \/ CheckRequestedTrunk(w)
  \/ PickTrunk(w)
  \/ \E s \in Sessions : InsertRows(w, s)
  \/ Dial(w)
  \/ \E s \in Sessions : BeginHangup(w, s)
  \/ MarkHangup(w)
  \/ Abort(w)

Telephony(s) == EventProgress(s) \/ EventHangup(s)

Next ==
  \/ \E w \in Workers : Request(w)
  \/ \E s \in Sessions : Telephony(s)

Spec == Init /\ [][Next]_vars
-----------------------------------------------------------------------------
(***************************************************************************)
(* Properties.                                                              *)
(***************************************************************************)

(* Threads that have passed the business check, respectively the system     *)
(* check, of a request whose rows are not inserted yet.                     *)
PastBusinessCheck(b) ==
  {w \in Workers : /\ worker[w].pc \in {"system", "trunk", "insert"}
                   /\ worker[w].business = b}

PastSystemCheck == {w \in Workers : worker[w].pc \in {"trunk", "insert"}}

(* The concurrent-call limit of a business is a check made before the       *)
(* insert, so it is exceeded, but by no more than the other request         *)
(* threads: leaving aside the calls a late event or a hangup request made   *)
(* count again, a business never has more than its maximum plus one call    *)
(* for every other thread that could be between check and insert.           *)
BusinessOvershoot ==
  \A b \in Businesses : BusinessMax[b] > 0 =>
    Cardinality(ActiveOf(b) \ revived)
      <= BusinessMax[b] - 1 + Cardinality(Workers)

(* The same bound for SYSTEM_MAX_CONCURRENT_CALLS over all businesses,      *)
(* whose check is made after the business check, by the same threads.       *)
SystemOvershoot ==
  SystemMax > 0 =>
    Cardinality(Active \ revived) <= SystemMax - 1 + Cardinality(Workers)

(* Every retry goes back, in at most MaxAttempts steps, to a call that was  *)
(* no retry: a retried call has ended and stays ended, the retry belongs to *)
(* the same business and trunk, and its count is one more.                  *)
RetryChain ==
  \A s \in Sessions : Exists(s) =>
    LET src == session[s].source IN
    IF src = None THEN session[s].retry = 0
    ELSE /\ session[src].ended
         /\ session[s].business = session[src].business
         /\ session[s].trunk = session[src].trunk
         /\ session[s].retry = session[src].retry + 1
         /\ session[s].retry <= MaxAttempts

(* Asterisk is only asked to dial a call whose rows are committed, by the   *)
(* one thread that inserted them: an event can always find its call.        *)
DialAfterCommit ==
  /\ \A s \in placed : Exists(s)
  /\ \A w \in Workers : worker[w].pc = "dial" =>
       /\ Exists(worker[w].target)
       /\ worker[w].target \notin placed
       /\ \A v \in Workers : /\ worker[v].pc = "dial"
                              /\ worker[v].target = worker[w].target
                             => v = w

(* No step of any thread undoes the end of a call, deletes its row or       *)
(* changes whose call it is, however old the row it read is.                *)
CallIdentityIsStable ==
  [][\A s \in Sessions : Exists(s) =>
       /\ session[s].ended => session'[s].ended
       /\ session'[s].status # "absent"
       /\ session'[s].business = session[s].business
       /\ session'[s].trunk = session[s].trunk
       /\ session'[s].retry = session[s].retry
       /\ session'[s].source = session[s].source]_vars

(* The session rows behave as CallLedger promises.                          *)
Ledger == INSTANCE CallLedger
            WITH Calls  <- Sessions,
                 status <- [s \in Sessions |-> session[s].status],
                 ended  <- [s \in Sessions |-> session[s].ended]

ImplementsLedger == Ledger!Spec
=============================================================================
