------------------------ MODULE CallAdmission_proofs ------------------------
(***************************************************************************)
(* Theorems about CallAdmission, for every number of calls, threads,        *)
(* businesses and trunks and every value of the limits.                     *)
(***************************************************************************)
EXTENDS CallAdmission, FiniteSetTheorems, TLAPS

Checking == {"business", "system", "trunk", "insert"}

(* What a request thread knows between two of its steps: the locals that    *)
(* are set, that the rows it is about to dial or to mark are committed, and *)
(* that the call it retries has ended and is the one it derived its retry   *)
(* count from.                                                              *)
LocalsAreSet(w) ==
  /\ worker[w].pc \in Checking => worker[w].business \in Businesses
  /\ worker[w].pc = "insert" => worker[w].trunk \in Trunks
  /\ worker[w].pc \in {"dial", "hangup"} =>
       /\ worker[w].target \in Sessions
       /\ Exists(worker[w].target)

RetryIsDue(w) ==
  worker[w].pc \in Checking =>
    LET src == worker[w].source IN
    IF src = None THEN worker[w].retry = 0
    ELSE /\ session[src].ended
         /\ worker[w].business = session[src].business
         /\ worker[w].trunk = session[src].trunk
         /\ worker[w].retry = session[src].retry + 1
         /\ worker[w].retry <= MaxAttempts

RowIsWhole(s) == ~session[s].ended \/ Exists(s)

PlacedIsCommitted == \A s \in placed : Exists(s)

IInv ==
  /\ TypeOK
  /\ \A w \in Workers : LocalsAreSet(w)
  /\ \A w \in Workers : RetryIsDue(w)
  /\ \A s \in Sessions : RowIsWhole(s)
  /\ PlacedIsCommitted
  /\ RetryChain

-----------------------------------------------------------------------------
(* A step that gives thread w new locals, writes no session row and leaves  *)
(* w with what LocalsAreSet and RetryIsDue ask for preserves IInv.          *)
LEMMA WorkerStep ==
  ASSUME IInv,
         NEW w \in Workers, NEW r \in WorkerState,
         worker' = [worker EXCEPT ![w] = r],
         session' = session, revived' = revived,
         placed' \subseteq {s \in Sessions : Exists(s)},
         LocalsAreSet(w)', RetryIsDue(w)'
  PROVE  IInv'
<1>1. TypeOK'
  BY DEF IInv, TypeOK
<1>2. ASSUME NEW v \in Workers
      PROVE  LocalsAreSet(v)' /\ RetryIsDue(v)'
  <2>1. CASE v = w
    BY <2>1
  <2>2. CASE v # w
    <3>1. worker'[v] = worker[v]
      BY <2>2 DEF IInv, TypeOK
    <3>2. LocalsAreSet(v) /\ RetryIsDue(v)
      BY DEF IInv
    <3>3. QED
      BY <3>1, <3>2 DEF LocalsAreSet, RetryIsDue, Exists
  <2>3. QED
    BY <2>1, <2>2
<1>3. \A s \in Sessions : RowIsWhole(s)'
  BY DEF IInv, RowIsWhole, Exists
<1>4. RetryChain'
  BY DEF IInv, RetryChain, Exists
<1>5. PlacedIsCommitted'
  BY DEF PlacedIsCommitted, Exists
<1>6. QED
  BY <1>1, <1>2, <1>3, <1>4, <1>5 DEF IInv

(* The thread w is done: its locals are forgotten.                          *)
LEMMA ReleaseStep ==
  ASSUME IInv, NEW w \in Workers, Release(w),
         session' = session, revived' = revived,
         placed' \subseteq {s \in Sessions : Exists(s)}
  PROVE  IInv'
<1>1. Idle \in WorkerState
  BY DEF Idle, WorkerState
<1>2. worker'[w] = Idle
  BY DEF Release, IInv, TypeOK
<1>3. LocalsAreSet(w)' /\ RetryIsDue(w)'
  BY <1>2 DEF LocalsAreSet, RetryIsDue, Idle, Checking
<1>4. QED
  BY <1>1, <1>3, WorkerStep DEF Release

-----------------------------------------------------------------------------
(* What every write to the table keeps of the rows that are there.          *)
RowsKept ==
  \A s \in Sessions : Exists(s) =>
    /\ session'[s].status # "absent"
    /\ session[s].ended => session'[s].ended
    /\ session'[s].business = session[s].business
    /\ session'[s].trunk = session[s].trunk
    /\ session'[s].retry = session[s].retry
    /\ session'[s].source = session[s].source

(* What a thread knows of the rows stays true when rows are kept.           *)
LEMMA LocalsSurvive ==
  ASSUME IInv, RowsKept, NEW v \in Workers, worker'[v] = worker[v]
  PROVE  LocalsAreSet(v)' /\ RetryIsDue(v)'
<1>1. LocalsAreSet(v) /\ RetryIsDue(v)
  BY DEF IInv
<1>2. LocalsAreSet(v)'
  BY <1>1 DEF LocalsAreSet, RowsKept, Exists
<1>3. RetryIsDue(v)'
  <2>1. worker[v].source \in Sessions \cup {None}
    BY DEF IInv, TypeOK, WorkerState
  <2>2. \A s \in Sessions : session[s].ended => Exists(s)
    BY DEF IInv, RowIsWhole
  <2>3. QED
    BY <1>1, <2>1, <2>2 DEF RetryIsDue, RowsKept, Exists
<1>4. QED
  BY <1>2, <1>3

(* A row that was there keeps its place in its chain of retries.            *)
LEMMA ChainSurvives ==
  ASSUME IInv, RowsKept, NEW s \in Sessions, Exists(s)
  PROVE  LET src == session'[s].source IN
         IF src = None THEN session'[s].retry = 0
         ELSE /\ session'[src].ended
              /\ session'[s].business = session'[src].business
              /\ session'[s].trunk = session'[src].trunk
              /\ session'[s].retry = session'[src].retry + 1
              /\ session'[s].retry <= MaxAttempts
<1>1. session[s].source \in Sessions \cup {None}
  BY DEF IInv, TypeOK, SessionRow, NoSession
<1>2. \A u \in Sessions : session[u].ended => Exists(u)
  BY DEF IInv, RowIsWhole
<1>3. session[s].source # None =>
        /\ session[session[s].source].ended
        /\ session[s].business = session[session[s].source].business
        /\ session[s].trunk = session[session[s].source].trunk
        /\ session[s].retry = session[session[s].source].retry + 1
        /\ session[s].retry <= MaxAttempts
  BY DEF IInv, RetryChain
<1>4. session[s].source = None => session[s].retry = 0
  BY DEF IInv, RetryChain
<1>5. QED
  BY <1>1, <1>2, <1>3, <1>4 DEF RowsKept

(* A row that exists is replaced by one with the same identity.             *)
LEMMA RowWrite ==
  ASSUME IInv, NEW s \in Sessions, Exists(s), NEW r \in SessionRow,
         session[s].ended => r.ended,
         r.business = session[s].business, r.trunk = session[s].trunk,
         r.retry = session[s].retry, r.source = session[s].source,
         session' = [session EXCEPT ![s] = r]
  PROVE  /\ session' \in [Sessions -> SessionRow \cup {NoSession}]
         /\ RowsKept
         /\ \A u \in Sessions : RowIsWhole(u)'
         /\ RetryChain'
<1>1. r.status # "absent"
  BY DEF SessionRow, SessionStatuses, LogStatuses
<1>2. session'[s] = r
  BY DEF IInv, TypeOK
<1>3. \A u \in Sessions : u # s => session'[u] = session[u]
  BY DEF IInv, TypeOK
<1>4. session' \in [Sessions -> SessionRow \cup {NoSession}]
  BY DEF IInv, TypeOK
<1>5. RowsKept
  <2> SUFFICES ASSUME NEW u \in Sessions, Exists(u)
               PROVE  /\ session'[u].status # "absent"
                      /\ session[u].ended => session'[u].ended
                      /\ session'[u].business = session[u].business
                      /\ session'[u].trunk = session[u].trunk
                      /\ session'[u].retry = session[u].retry
                      /\ session'[u].source = session[u].source
    BY DEF RowsKept
  <2>1. CASE u = s
    BY <1>1, <1>2, <2>1
  <2>2. CASE u # s
    BY <1>3, <2>2 DEF Exists
  <2>3. QED
    BY <2>1, <2>2
<1>6. \A u \in Sessions : RowIsWhole(u)'
  BY <1>1, <1>2, <1>3 DEF IInv, RowIsWhole, Exists
<1>7. RetryChain'
  <2> SUFFICES ASSUME NEW u \in Sessions, Exists(u)'
               PROVE  LET src == session'[u].source IN
                      IF src = None THEN session'[u].retry = 0
                      ELSE /\ session'[src].ended
                           /\ session'[u].business = session'[src].business
                           /\ session'[u].trunk = session'[src].trunk
                           /\ session'[u].retry = session'[src].retry + 1
                           /\ session'[u].retry <= MaxAttempts
    BY DEF RetryChain, Exists
  <2>1. Exists(u)
    BY <1>3 DEF Exists
  <2>2. QED
    BY <1>5, <2>1, ChainSurvives
<1>8. QED
  BY <1>4, <1>5, <1>6, <1>7

-----------------------------------------------------------------------------
(* The steps of a request that write no row.                                *)

LEMMA BeginOriginateStep ==
  ASSUME IInv, NEW w \in Workers, NEW b \in Businesses, BeginOriginate(w, b)
  PROVE  IInv'
<1>1. PICK t \in RequestableTrunks(b) \cup {None} :
        worker' = [worker EXCEPT ![w] =
                     [Idle EXCEPT !.pc = "business", !.business = b, !.trunk = t]]
  BY DEF BeginOriginate
<1> DEFINE r == [Idle EXCEPT !.pc = "business", !.business = b, !.trunk = t]
<1>2. t \in Trunks \cup {None}
  BY TrunksAreAssigned DEF RequestableTrunks
<1>3. r \in WorkerState
  BY <1>2 DEF Idle, WorkerState
<1>4. worker'[w] = r
  BY <1>1 DEF IInv, TypeOK
<1>5. LocalsAreSet(w)' /\ RetryIsDue(w)'
  BY <1>4 DEF LocalsAreSet, RetryIsDue, Idle, Checking
<1>6. /\ session' = session /\ revived' = revived
      /\ placed' \subseteq {s \in Sessions : Exists(s)}
  BY DEF BeginOriginate, IInv, TypeOK, PlacedIsCommitted
<1>7. QED
  BY <1>1, <1>3, <1>5, <1>6, WorkerStep

LEMMA BeginRetryStep ==
  ASSUME IInv, NEW w \in Workers, NEW s \in Sessions, BeginRetry(w, s)
  PROVE  IInv'
<1> DEFINE r == [Idle EXCEPT !.pc = "business",
                             !.business = session[s].business,
                             !.trunk = session[s].trunk,
                             !.retry = session[s].retry + 1,
                             !.source = s]
<1>1. session[s] \in SessionRow
  BY DEF BeginRetry, IInv, TypeOK, RowIsWhole, Exists, NoSession
<1>2. /\ session[s].business \in Businesses
      /\ session[s].trunk \in Trunks
      /\ session[s].retry \in Nat
      /\ MaxAttempts \in Nat
      /\ s # None
  BY <1>1, LimitsAreNat, PoolsAreFinite DEF SessionRow
<1>3. /\ r.pc = "business"
      /\ r.business = session[s].business
      /\ r.trunk = session[s].trunk
      /\ r.retry = session[s].retry + 1
      /\ r.source = s
  BY DEF Idle
<1>4. session[s].retry + 1 \in Nat
  BY <1>2
<1>5. r \in WorkerState
  BY <1>2, <1>4 DEF Idle, WorkerState
<1> HIDE DEF r
<1>6. worker' = [worker EXCEPT ![w] = r] /\ worker'[w] = r
  BY DEF BeginRetry, IInv, TypeOK, r
<1>7. session[s].ended /\ session[s].retry < MaxAttempts /\ session' = session
  BY DEF BeginRetry
<1>8. LocalsAreSet(w)'
  BY <1>2, <1>3, <1>6 DEF LocalsAreSet, Checking
<1>9. session[s].retry + 1 <= MaxAttempts
  BY <1>2, <1>7
<1>10. RetryIsDue(w)'
  BY <1>2, <1>3, <1>6, <1>7, <1>9 DEF RetryIsDue
<1>11. QED
  BY <1>5, <1>6, <1>7, <1>8, <1>10, WorkerStep DEF BeginRetry, IInv, TypeOK, PlacedIsCommitted

(* A thread that passes a check keeps its locals but for its place and,     *)
(* when it picked one, its trunk.                                           *)
LEMMA AdvanceStep ==
  ASSUME IInv, NEW w \in Workers, worker[w].pc \in Checking,
         NEW pc \in Checking, NEW t \in Trunks \cup {None},
         pc = "insert" => t \in Trunks,
         t = worker[w].trunk \/ worker[w].trunk = None,
         worker' = [worker EXCEPT ![w].pc = pc, ![w].trunk = t],
         UNCHANGED <<session, placed, revived>>
  PROVE  IInv'
<1> DEFINE r == [worker[w] EXCEPT !.pc = pc, !.trunk = t]
<1>1. worker[w] \in WorkerState
  BY DEF IInv, TypeOK
<1>2. r \in WorkerState
  BY <1>1 DEF WorkerState, Checking
<1>3. worker' = [worker EXCEPT ![w] = r] /\ worker'[w] = r
  BY DEF IInv, TypeOK
<1>4. /\ r.pc = pc
      /\ r.trunk = t
      /\ r.business = worker[w].business
      /\ r.retry = worker[w].retry
      /\ r.source = worker[w].source
  BY <1>1 DEF WorkerState
<1>5. LocalsAreSet(w) /\ RetryIsDue(w)
  BY DEF IInv
<1>6. LocalsAreSet(w)'
  BY <1>3, <1>4, <1>5 DEF LocalsAreSet, Checking
<1>7. worker[w].source # None => t = worker[w].trunk
  <2> SUFFICES ASSUME worker[w].source # None
               PROVE  worker[w].trunk # None
    OBVIOUS
  <2>1. worker[w].source \in Sessions
    BY <1>1 DEF WorkerState
  <2>2. session[worker[w].source] \in SessionRow
    BY <1>5, <2>1 DEF RetryIsDue, IInv, TypeOK, NoSession, RowIsWhole, Exists
  <2>3. session[worker[w].source].trunk # None
    BY <2>2, PoolsAreFinite DEF SessionRow
  <2>4. QED
    BY <1>5, <2>3 DEF RetryIsDue
<1>8. RetryIsDue(w)'
  BY <1>3, <1>4, <1>5, <1>7 DEF RetryIsDue
<1>9. QED
  BY <1>2, <1>3, <1>6, <1>8, WorkerStep DEF IInv, TypeOK, PlacedIsCommitted

LEMMA CheckStep ==
  ASSUME IInv, NEW w \in Workers,
         CheckBusiness(w) \/ CheckSystem(w) \/ CheckRequestedTrunk(w) \/ PickTrunk(w)
  PROVE  IInv'
<1>1. UNCHANGED <<session, placed, revived>>
  BY DEF CheckBusiness, CheckSystem, CheckRequestedTrunk, PickTrunk
<1>2. worker[w] \in WorkerState /\ placed \subseteq {s \in Sessions : Exists(s)}
  BY DEF IInv, TypeOK, PlacedIsCommitted
<1>3. CASE Release(w)
  BY <1>1, <1>2, <1>3, ReleaseStep
<1>4. CASE /\ worker[w].pc \in Checking
           /\ \E pc \in {"system", "trunk"} :
                worker' = [worker EXCEPT ![w].pc = pc]
  <2>1. PICK pc \in {"system", "trunk"} : worker' = [worker EXCEPT ![w].pc = pc]
    BY <1>4
  <2>2. worker' = [worker EXCEPT ![w].pc = pc, ![w].trunk = worker[w].trunk]
    BY <1>2, <2>1 DEF IInv, TypeOK, WorkerState
  <2>3. worker[w].trunk \in Trunks \cup {None} /\ pc \in Checking /\ pc # "insert"
    BY <1>2 DEF WorkerState, Checking
  <2>4. QED
    BY <1>1, <1>4, <2>2, <2>3, AdvanceStep
<1>5. CASE /\ worker[w].pc \in Checking
           /\ worker[w].trunk # None
           /\ worker' = [worker EXCEPT ![w].pc = "insert"]
  <2>1. worker' = [worker EXCEPT ![w].pc = "insert", ![w].trunk = worker[w].trunk]
    BY <1>2, <1>5 DEF IInv, TypeOK, WorkerState
  <2>2. worker[w].trunk \in Trunks /\ "insert" \in Checking
    BY <1>2, <1>5 DEF WorkerState, Checking
  <2>3. QED
    BY <1>1, <1>5, <2>1, <2>2, AdvanceStep
<1>6. CASE /\ worker[w].pc \in Checking
           /\ worker[w].trunk = None
           /\ \E t \in AutoTrunks(worker[w].business) :
                worker' = [worker EXCEPT ![w].pc = "insert", ![w].trunk = t]
  <2>1. LocalsAreSet(w)
    BY DEF IInv
  <2>2. AutoTrunks(worker[w].business) \subseteq Trunks
    BY <1>6, <2>1, TrunksAreAssigned DEF AutoTrunks, LocalsAreSet
  <2>3. "insert" \in Checking
    BY DEF Checking
  <2>4. QED
    BY <1>1, <1>6, <2>2, <2>3, AdvanceStep
<1>7. QED
  <2>1. CASE CheckBusiness(w)
    BY <1>3, <1>4, <2>1 DEF CheckBusiness, Checking
  <2>2. CASE CheckSystem(w)
    BY <1>3, <1>4, <2>2 DEF CheckSystem, Checking
  <2>3. CASE CheckRequestedTrunk(w)
    BY <1>3, <1>5, <2>3 DEF CheckRequestedTrunk, Checking
  <2>4. CASE PickTrunk(w)
    <3>1. \A load : MinLoadTrunks(AutoTrunks(worker[w].business), load)
                      \subseteq AutoTrunks(worker[w].business)
      BY DEF MinLoadTrunks
    <3>2. QED
      BY <1>3, <1>6, <2>4, <3>1 DEF PickTrunk, Checking
  <2>5. QED
    BY <2>1, <2>2, <2>3, <2>4

LEMMA BeginHangupStep ==
  ASSUME IInv, NEW w \in Workers, NEW s \in Sessions, BeginHangup(w, s)
  PROVE  IInv'
<1> DEFINE r == [Idle EXCEPT !.pc = "hangup", !.target = s,
                             !.marked = (session[s].status = "hangup")]
<1>1. r \in WorkerState
  BY DEF Idle, WorkerState
<1>2. worker' = [worker EXCEPT ![w] = r] /\ worker'[w] = r
  BY DEF BeginHangup, IInv, TypeOK
<1>3. LocalsAreSet(w)' /\ RetryIsDue(w)'
  BY <1>2 DEF BeginHangup, LocalsAreSet, RetryIsDue, Idle, Checking, Exists
<1>4. QED
  BY <1>1, <1>2, <1>3, WorkerStep DEF BeginHangup, IInv, TypeOK, PlacedIsCommitted

(* Dial, Abort, and a hangup request that finds nothing to write.           *)
LEMMA DoneStep ==
  ASSUME IInv, NEW w \in Workers, Dial(w) \/ Abort(w)
  PROVE  IInv'
<1>1. LocalsAreSet(w)
  BY DEF IInv
<1>2. Release(w) /\ session' = session /\ revived' = revived
  BY DEF Dial, Abort
<1>3. placed' \subseteq {s \in Sessions : Exists(s)}
  BY <1>1 DEF Dial, Abort, LocalsAreSet, IInv, TypeOK, PlacedIsCommitted
<1>4. QED
  BY <1>2, <1>3, ReleaseStep

-----------------------------------------------------------------------------
(* The steps that write a row.                                              *)

LEMMA InsertStep ==
  ASSUME IInv, NEW w \in Workers, NEW s \in Sessions, InsertRows(w, s)
  PROVE  IInv' /\ RowsKept
<1> DEFINE row == [status |-> "queued", ended |-> FALSE,
                   business |-> worker[w].business,
                   trunk |-> worker[w].trunk,
                   retry |-> worker[w].retry,
                   source |-> worker[w].source]
<1> DEFINE r == [worker[w] EXCEPT !.pc = "dial", !.target = s]
<1>1. worker[w] \in WorkerState /\ LocalsAreSet(w) /\ RetryIsDue(w)
  BY DEF IInv, TypeOK
<1>2. row \in SessionRow
  BY <1>1 DEF InsertRows, LocalsAreSet, Checking, WorkerState, SessionRow,
              SessionStatuses, LogStatuses
<1>3. session' = [session EXCEPT ![s] = row] /\ session'[s] = row
  BY DEF InsertRows, IInv, TypeOK
<1>4. ~Exists(s) /\ ~session[s].ended
  BY DEF InsertRows, IInv, RowIsWhole
<1>5. \A u \in Sessions : u # s => session'[u] = session[u]
  BY <1>3 DEF IInv, TypeOK
<1>6. RowsKept
  BY <1>4, <1>5 DEF RowsKept, Exists
<1>7. TypeOK'
  <2>1. r \in WorkerState
    BY <1>1 DEF WorkerState
  <2>2. worker' = [worker EXCEPT ![w] = r]
    BY DEF InsertRows, IInv, TypeOK
  <2>3. QED
    BY <1>2, <1>3, <2>1, <2>2 DEF InsertRows, IInv, TypeOK
<1>8. ASSUME NEW v \in Workers
      PROVE  LocalsAreSet(v)' /\ RetryIsDue(v)'
  <2>1. CASE v = w
    <3>1. worker'[v].pc = "dial" /\ worker'[v].target = s
      BY <2>1, <1>1 DEF InsertRows, IInv, TypeOK, WorkerState
    <3>2. session'[s].status # "absent"
      BY <1>3
    <3>3. QED
      BY <3>1, <3>2 DEF LocalsAreSet, RetryIsDue, Checking, Exists
  <2>2. CASE v # w
    <3>1. worker'[v] = worker[v]
      BY <2>2 DEF InsertRows, IInv, TypeOK
    <3>2. QED
      BY <1>6, <3>1, LocalsSurvive
  <2>3. QED
    BY <2>1, <2>2
<1>9. \A u \in Sessions : RowIsWhole(u)'
  BY <1>3, <1>5 DEF IInv, RowIsWhole, Exists
<1>10. RetryChain'
  <2> SUFFICES ASSUME NEW u \in Sessions, Exists(u)'
               PROVE  LET src == session'[u].source IN
                      IF src = None THEN session'[u].retry = 0
                      ELSE /\ session'[src].ended
                           /\ session'[u].business = session'[src].business
                           /\ session'[u].trunk = session'[src].trunk
                           /\ session'[u].retry = session'[src].retry + 1
                           /\ session'[u].retry <= MaxAttempts
    BY DEF RetryChain, Exists
  <2>1. CASE u = s
    <3>1. /\ session'[u].source = worker[w].source
          /\ session'[u].retry = worker[w].retry
          /\ session'[u].business = worker[w].business
          /\ session'[u].trunk = worker[w].trunk
      BY <1>3, <2>1
    <3>2. worker[w].pc \in Checking
      BY DEF InsertRows, Checking
    <3>3. CASE worker[w].source = None
      BY <1>1, <3>1, <3>2, <3>3 DEF RetryIsDue
    <3>4. CASE worker[w].source # None
      <4>1. worker[w].source \in Sessions /\ session[worker[w].source].ended
        BY <1>1, <3>2, <3>4 DEF RetryIsDue, WorkerState
      <4>2. session'[worker[w].source] = session[worker[w].source]
        BY <1>4, <1>5, <4>1
      <4>3. QED
        BY <1>1, <3>1, <3>2, <3>4, <4>2 DEF RetryIsDue
    <3>5. QED
      BY <3>3, <3>4
  <2>2. CASE u # s
    <3>1. Exists(u)
      BY <1>5, <2>2 DEF Exists
    <3>2. QED
      BY <1>6, <3>1, ChainSurvives
  <2>3. QED
    BY <2>1, <2>2
<1>11. PlacedIsCommitted'
  BY <1>6 DEF InsertRows, RowsKept, PlacedIsCommitted, Exists, IInv, TypeOK
<1>12. QED
  BY <1>6, <1>7, <1>8, <1>9, <1>10, <1>11 DEF IInv

(* A row gets another status, or its end, and nothing else.                 *)
LEMMA Restatus ==
  ASSUME IInv, NEW s \in Sessions, Exists(s),
         NEW st \in SessionStatuses,
         \/ session' = [session EXCEPT ![s].status = st]
         \/ session' = [session EXCEPT ![s].status = st, ![s].ended = TRUE]
  PROVE  /\ session' \in [Sessions -> SessionRow \cup {NoSession}]
         /\ RowsKept
         /\ \A u \in Sessions : RowIsWhole(u)'
         /\ RetryChain'
<1>1. session[s] \in SessionRow
  BY DEF IInv, TypeOK, Exists, NoSession
<1>2. CASE session' = [session EXCEPT ![s].status = st]
  <2> DEFINE r == [session[s] EXCEPT !.status = st]
  <2>1. /\ r \in SessionRow
        /\ session[s].ended => r.ended
        /\ r.business = session[s].business
        /\ r.trunk = session[s].trunk
        /\ r.retry = session[s].retry
        /\ r.source = session[s].source
    BY <1>1 DEF SessionRow
  <2>2. session' = [session EXCEPT ![s] = r]
    BY <1>2
  <2> HIDE DEF r
  <2>3. QED
    BY <2>1, <2>2, RowWrite
<1>3. CASE session' = [session EXCEPT ![s].status = st, ![s].ended = TRUE]
  <2> DEFINE r == [session[s] EXCEPT !.status = st, !.ended = TRUE]
  <2>1. /\ r \in SessionRow
        /\ session[s].ended => r.ended
        /\ r.business = session[s].business
        /\ r.trunk = session[s].trunk
        /\ r.retry = session[s].retry
        /\ r.source = session[s].source
    BY <1>1 DEF SessionRow
  <2>2. session' = [session EXCEPT ![s] = r]
    BY <1>3 DEF IInv, TypeOK
  <2> HIDE DEF r
  <2>3. QED
    BY <2>1, <2>2, RowWrite
<1>4. QED
  BY <1>2, <1>3

LEMMA MarkHangupStep ==
  ASSUME IInv, NEW w \in Workers, MarkHangup(w)
  PROVE  IInv' /\ RowsKept
<1> DEFINE s == worker[w].target
<1>1. s \in Sessions /\ Exists(s)
  BY DEF MarkHangup, IInv, LocalsAreSet
<1>2. Release(w) /\ placed' = placed
  BY DEF MarkHangup
<1>3. CASE worker[w].marked
  <2>1. session' = session /\ revived' = revived
    BY <1>3 DEF MarkHangup
  <2>2. RowsKept
    BY <2>1 DEF RowsKept, Exists
  <2>3. QED
    BY <1>2, <2>1, <2>2, ReleaseStep DEF IInv, TypeOK, PlacedIsCommitted
<1>4. CASE ~worker[w].marked
  <2>1. session' = [session EXCEPT ![s].status = "hangup"]
    BY <1>4 DEF MarkHangup, WriteStatus
  <2>2. revived' \subseteq Sessions
    BY <1>1, <1>4 DEF MarkHangup, WriteStatus, IInv, TypeOK
  <2>3. "hangup" \in SessionStatuses
    BY DEF SessionStatuses
  <2>4. /\ session' \in [Sessions -> SessionRow \cup {NoSession}]
        /\ RowsKept
        /\ \A u \in Sessions : RowIsWhole(u)'
        /\ RetryChain'
    <3> HIDE DEF s
    <3>1. QED
      BY <1>1, <2>1, <2>3, Restatus
  <2>5. TypeOK'
    <3>1. Idle \in WorkerState
      BY DEF Idle, WorkerState
    <3>2. QED
      BY <1>2, <2>2, <2>4, <3>1 DEF Release, IInv, TypeOK
  <2>6. ASSUME NEW v \in Workers
        PROVE  LocalsAreSet(v)' /\ RetryIsDue(v)'
    <3>1. CASE v = w
      <4>1. worker'[v] = Idle
        BY <1>2, <3>1 DEF Release, IInv, TypeOK
      <4>2. QED
        BY <4>1 DEF LocalsAreSet, RetryIsDue, Idle, Checking
    <3>2. CASE v # w
      <4>1. worker'[v] = worker[v]
        BY <1>2, <3>2 DEF Release, IInv, TypeOK
      <4>2. QED
        BY <2>4, <4>1, LocalsSurvive
    <3>3. QED
      BY <3>1, <3>2
  <2>7. PlacedIsCommitted'
    BY <1>2, <2>4 DEF RowsKept, PlacedIsCommitted, Exists, IInv, TypeOK
  <2>8. QED
    BY <2>4, <2>5, <2>6, <2>7 DEF IInv
<1>5. QED
  BY <1>3, <1>4


LEMMA TelephonyStep ==
  ASSUME IInv, NEW s \in Sessions, Telephony(s)
  PROVE  IInv' /\ RowsKept
<1>1. Exists(s) /\ worker' = worker /\ placed' = placed
  BY DEF Telephony, EventProgress, EventHangup, IInv, PlacedIsCommitted
<1>2. PICK st \in SessionStatuses :
        \/ session' = [session EXCEPT ![s].status = st]
        \/ session' = [session EXCEPT ![s].status = st, ![s].ended = TRUE]
  <2>1. ProgressSeen \subseteq SessionStatuses /\ HangupSeen \subseteq SessionStatuses
    BY OutcomesAreReported DEF ProgressStatuses, HangupStatuses,
                               SessionStatuses, LogStatuses
  <2>2. session[s].status \in SessionStatuses
    BY <1>1 DEF IInv, TypeOK, SessionRow, NoSession, Exists
  <2>3. QED
    BY <2>1, <2>2 DEF Telephony, EventProgress, EventHangup, WriteStatus
<1>3. revived' \subseteq Sessions
  BY DEF Telephony, EventProgress, EventHangup, WriteStatus, IInv, TypeOK
<1>4. /\ session' \in [Sessions -> SessionRow \cup {NoSession}]
      /\ RowsKept
      /\ \A u \in Sessions : RowIsWhole(u)'
      /\ RetryChain'
  BY <1>1, <1>2, Restatus
<1>5. TypeOK'
  BY <1>1, <1>3, <1>4 DEF IInv, TypeOK
<1>6. \A v \in Workers : LocalsAreSet(v)' /\ RetryIsDue(v)'
  BY <1>1, <1>4, LocalsSurvive
<1>7. PlacedIsCommitted'
  BY <1>1, <1>4 DEF RowsKept, PlacedIsCommitted, Exists, IInv, TypeOK
<1>8. QED
  BY <1>4, <1>5, <1>6, <1>7 DEF IInv

-----------------------------------------------------------------------------
(* Every step preserves the invariant and keeps the rows.                   *)
LEMMA StepKeepsRows ==
  ASSUME IInv, [Next]_vars
  PROVE  IInv' /\ RowsKept
<1>1. CASE session' = session
  <2>1. RowsKept
    BY <1>1 DEF RowsKept, Exists
  <2>2. CASE UNCHANGED vars
    BY <2>1, <2>2 DEF vars, IInv, TypeOK, LocalsAreSet, RetryIsDue, RowIsWhole,
                      PlacedIsCommitted, RetryChain, Exists
  <2>3. ASSUME NEW w \in Workers, Request(w)
        PROVE  IInv'
    BY <2>3, BeginOriginateStep, BeginRetryStep, CheckStep, InsertStep,
       BeginHangupStep, MarkHangupStep, DoneStep DEF Request
  <2>4. QED
    BY <2>1, <2>2, <2>3, TelephonyStep DEF Next
<1>2. CASE session' # session
  <2>1. ASSUME NEW w \in Workers, Request(w)
        PROVE  IInv' /\ RowsKept
    <3>1. (\E s \in Sessions : InsertRows(w, s)) \/ MarkHangup(w)
      BY <1>2, <2>1 DEF Request, BeginOriginate, BeginRetry, CheckBusiness,
           CheckSystem, CheckRequestedTrunk, PickTrunk, Dial, BeginHangup, Abort
    <3>2. QED
      BY <3>1, InsertStep, MarkHangupStep
  <2>2. QED
    BY <1>2, <2>1, TelephonyStep DEF Next, vars
<1>3. QED
  BY <1>1, <1>2

LEMMA InitIsFine == Init => IInv
<1> SUFFICES ASSUME Init
             PROVE  IInv
  OBVIOUS
<1>1. TypeOK
  BY DEF Init, TypeOK, Idle, WorkerState
<1>2. \A w \in Workers : LocalsAreSet(w) /\ RetryIsDue(w)
  BY DEF Init, LocalsAreSet, RetryIsDue, Idle, Checking
<1>3. \A s \in Sessions : ~session[s].ended /\ ~Exists(s)
  BY DEF Init, NoSession, Exists
<1>4. QED
  BY <1>1, <1>2, <1>3 DEF IInv, Init, RowIsWhole, PlacedIsCommitted, RetryChain

LEMMA Invariance == Spec => []IInv
<1>1. IInv /\ [Next]_vars => IInv'
  BY StepKeepsRows
<1>2. QED
  BY <1>1, InitIsFine, PTL DEF Spec

(* Type correctness.                                                        *)
THEOREM TypeIsCorrect == Spec => []TypeOK
<1>1. IInv => TypeOK
  BY DEF IInv
<1>2. QED
  BY <1>1, Invariance, PTL

(* Retries of a call form a chain that leads back to a call that was no     *)
(* retry, through calls that have ended, of one business and one trunk.     *)
THEOREM RetriesFormChains == Spec => []RetryChain
<1>1. IInv => RetryChain
  BY DEF IInv
<1>2. QED
  BY <1>1, Invariance, PTL

(* No step undoes the end of a call or changes whose call it is.            *)
THEOREM IdentityIsKept == Spec => CallIdentityIsStable
<1>1. IInv /\ [Next]_vars =>
        [\A s \in Sessions : Exists(s) =>
           /\ session[s].ended => session'[s].ended
           /\ session'[s].status # "absent"
           /\ session'[s].business = session[s].business
           /\ session'[s].trunk = session[s].trunk
           /\ session'[s].retry = session[s].retry
           /\ session'[s].source = session[s].source]_vars
  BY StepKeepsRows DEF RowsKept
<1>2. QED
  BY <1>1, Invariance, PTL DEF Spec, CallIdentityIsStable

-----------------------------------------------------------------------------
(***************************************************************************)
(* How far a limit can be exceeded.  The bound is inductive once the        *)
(* threads that are past the check are counted as if their call existed:    *)
(* a thread passes the check only below the maximum, when at most all the   *)
(* threads are past it, and an insert turns such a thread into a call.      *)
(***************************************************************************)
Occupied == Active \ revived

BusinessReserved ==
  \A b \in Businesses : BusinessMax[b] > 0 =>
    Cardinality(ActiveOf(b) \ revived) + Cardinality(PastBusinessCheck(b))
      <= BusinessMax[b] - 1 + Cardinality(Workers)

SystemReserved ==
  SystemMax > 0 =>
    Cardinality(Occupied) + Cardinality(PastSystemCheck)
      <= SystemMax - 1 + Cardinality(Workers)

(* The three ways a step can move the count: it only shrinks, a thread      *)
(* passes the check, or thread w inserts call s.                            *)
LEMMA CountStep ==
  ASSUME NEW S, IsFiniteSet(S), NEW W, IsFiniteSet(W), NEW max \in Nat \ {0},
         NEW o1 \in SUBSET S, NEW o2 \in SUBSET S,
         NEW p1 \in SUBSET W, NEW p2 \in SUBSET W,
         Cardinality(o1) + Cardinality(p1) <= max - 1 + Cardinality(W),
         \/ o2 \subseteq o1 /\ p2 \subseteq p1
         \/ o2 \subseteq o1 /\ Cardinality(o1) < max
         \/ \E s \in S, w \in p1 : o2 \subseteq o1 \cup {s} /\ p2 \subseteq p1 \ {w}
  PROVE  Cardinality(o2) + Cardinality(p2) <= max - 1 + Cardinality(W)
<1>1. IsFiniteSet(o1) /\ IsFiniteSet(o2) /\ IsFiniteSet(p1) /\ IsFiniteSet(p2)
  BY FS_Subset
<1>2. /\ Cardinality(o1) \in Nat /\ Cardinality(o2) \in Nat
      /\ Cardinality(p1) \in Nat /\ Cardinality(p2) \in Nat
      /\ Cardinality(W) \in Nat
  BY <1>1, FS_CardinalityType
<1>3. CASE o2 \subseteq o1 /\ p2 \subseteq p1
  <2>1. Cardinality(o2) <= Cardinality(o1) /\ Cardinality(p2) <= Cardinality(p1)
    BY <1>1, <1>3, FS_Subset
  <2>2. QED
    BY <1>2, <2>1
<1>4. CASE o2 \subseteq o1 /\ Cardinality(o1) < max
  <2>1. Cardinality(o2) <= Cardinality(o1) /\ Cardinality(p2) <= Cardinality(W)
    BY <1>1, <1>4, FS_Subset
  <2>2. QED
    BY <1>2, <1>4, <2>1
<1>5. CASE \E s \in S, w \in p1 : o2 \subseteq o1 \cup {s} /\ p2 \subseteq p1 \ {w}
  <2>1. PICK s \in S, w \in p1 : o2 \subseteq o1 \cup {s} /\ p2 \subseteq p1 \ {w}
    BY <1>5
  <2>2. /\ IsFiniteSet(o1 \cup {s})
        /\ Cardinality(o1 \cup {s}) <= Cardinality(o1) + 1
        /\ Cardinality(o1 \cup {s}) \in Nat
    <3>1. /\ IsFiniteSet(o1 \cup {s})
          /\ Cardinality(o1 \cup {s}) =
               IF s \in o1 THEN Cardinality(o1) ELSE Cardinality(o1) + 1
      BY <1>1, FS_AddElement
    <3>2. QED
      BY <1>2, <3>1
  <2>3. /\ IsFiniteSet(p1 \ {w})
        /\ Cardinality(p1 \ {w}) = Cardinality(p1) - 1
    BY <1>1, FS_RemoveElement
  <2>4. /\ Cardinality(o2) <= Cardinality(o1 \cup {s})
        /\ Cardinality(p2) <= Cardinality(p1 \ {w})
    BY <2>1, <2>2, <2>3, FS_Subset
  <2>5. QED
    BY <1>2, <2>2, <2>3, <2>4
<1>6. QED
  BY <1>3, <1>4, <1>5

(* A call that counts and was not revived counted before, unless it is the  *)
(* one being inserted.                                                      *)
LEMMA OccupiedShrinks ==
  ASSUME IInv, [Next]_vars, NEW s \in Sessions, s \in Occupied'
  PROVE  \/ s \in Occupied /\ session'[s].business = session[s].business
         \/ \E w \in Workers : InsertRows(w, s)
<1>1. CASE session' = session
  <2>1. ASSUME NEW w \in Workers, Request(w)
        PROVE  revived \subseteq revived'
    BY <2>1 DEF Request, BeginOriginate, BeginRetry, CheckBusiness, CheckSystem,
         CheckRequestedTrunk, PickTrunk, InsertRows, Dial, BeginHangup,
         MarkHangup, Abort, WriteStatus
  <2>2. ASSUME NEW u \in Sessions, Telephony(u)
        PROVE  revived \subseteq revived'
    BY <2>2 DEF Telephony, EventProgress, EventHangup, WriteStatus
  <2>3. revived \subseteq revived'
    BY <2>1, <2>2 DEF Next, vars
  <2>4. QED
    BY <1>1, <2>3 DEF Occupied, Active, Counted
<1>2. CASE \E w \in Workers, u \in Sessions : InsertRows(w, u)
  <2>1. PICK w \in Workers, u \in Sessions : InsertRows(w, u)
    BY <1>2
  <2>2. CASE s # u
    <3>1. session'[s] = session[s] /\ revived' = revived
      BY <2>1, <2>2 DEF InsertRows, IInv, TypeOK
    <3>2. QED
      BY <3>1 DEF Occupied, Active, Counted
  <2>3. QED
    BY <2>1, <2>2
<1>3. ASSUME NEW u \in Sessions, NEW st, WriteStatus(u, st)
      PROVE  s \in Occupied /\ session'[s].business = session[s].business
  <2>1. session[u] \in SessionRow \cup {NoSession}
    BY DEF IInv, TypeOK
  <2>2. /\ session'[u].status = st
        /\ session'[u].ended = session[u].ended
        /\ session'[u].business = session[u].business
    BY <1>3, <2>1 DEF WriteStatus, IInv, TypeOK, SessionRow, NoSession
  <2>3. CASE s = u
    <3>1. st \in ActiveSessionStatuses /\ ~session[u].ended /\ s \notin revived'
      BY <2>2, <2>3 DEF Occupied, Active, Counted
    <3>2. session[u].status \in ActiveSessionStatuses /\ s \notin revived
      BY <1>3, <2>3, <3>1 DEF WriteStatus
    <3>3. QED
      BY <2>2, <2>3, <3>1, <3>2 DEF Occupied, Active, Counted
  <2>4. CASE s # u
    <3>1. session'[s] = session[s] /\ s \notin revived
      BY <1>3, <2>4 DEF WriteStatus, IInv, TypeOK, Occupied
    <3>2. QED
      BY <3>1 DEF Occupied, Active, Counted
  <2>5. QED
    BY <2>3, <2>4
<1>4. ASSUME NEW u \in Sessions, EventHangup(u)
      PROVE  s \in Occupied /\ session'[s].business = session[s].business
  <2>1. s # u
    <3>1. session[u] \in SessionRow \cup {NoSession}
      BY DEF IInv, TypeOK
    <3>2. session'[u].ended
      BY <1>4, <3>1 DEF EventHangup, IInv, TypeOK, SessionRow, NoSession
    <3>3. QED
      BY <3>2 DEF Occupied, Active, Counted
  <2>2. session'[s] = session[s] /\ revived' = revived
    BY <1>4, <2>1 DEF EventHangup, IInv, TypeOK
  <2>3. QED
    BY <2>2 DEF Occupied, Active, Counted
<1>5. ASSUME NEW w \in Workers, Request(w)
      PROVE  \/ session' = session
             \/ \E u \in Sessions : InsertRows(w, u)
             \/ \E u \in Sessions : WriteStatus(u, "hangup")
  <2>1. ASSUME MarkHangup(w)
        PROVE  session' = session \/ \E u \in Sessions : WriteStatus(u, "hangup")
    BY <2>1 DEF MarkHangup, IInv, LocalsAreSet
  <2>2. QED
    BY <1>5, <2>1 DEF Request, BeginOriginate, BeginRetry, CheckBusiness,
         CheckSystem, CheckRequestedTrunk, PickTrunk, Dial, BeginHangup, Abort
<1>6. CASE \E w \in Workers : Request(w)
  BY <1>1, <1>2, <1>3, <1>5, <1>6
<1>7. CASE \E u \in Sessions : Telephony(u)
  BY <1>3, <1>4, <1>7 DEF Telephony, EventProgress
<1>8. QED
  BY <1>1, <1>6, <1>7 DEF Next, vars

(* A thread found past a check was past it before the step, or passed it    *)
(* now, below the limit.                                                    *)
LEMMA ThreadsAdvance ==
  ASSUME IInv, NEW w \in Workers, Request(w), NEW v \in Workers
  PROVE  /\ worker'[v].pc \in {"system", "trunk", "insert"} =>
              /\ worker'[v].business = worker[v].business
              /\ \/ worker[v].pc \in {"system", "trunk", "insert"}
                 \/ ~LimitReached(ActiveOf(worker[v].business),
                                  BusinessMax[worker[v].business])
         /\ worker'[v].pc \in {"trunk", "insert"} =>
              \/ worker[v].pc \in {"trunk", "insert"}
              \/ ~LimitReached(Active, SystemMax)
<1>1. worker[w] \in WorkerState /\ worker \in [Workers -> WorkerState]
  BY DEF IInv, TypeOK
<1>2. CASE Release(w)
  BY <1>1, <1>2 DEF Release, Idle
<1>3. CASE CheckBusiness(w)
  BY <1>1, <1>2, <1>3 DEF CheckBusiness, WorkerState
<1>4. CASE CheckSystem(w)
  BY <1>1, <1>2, <1>4 DEF CheckSystem, WorkerState
<1>5. CASE CheckRequestedTrunk(w)
  BY <1>1, <1>2, <1>5 DEF CheckRequestedTrunk, WorkerState
<1>6. CASE PickTrunk(w)
  <2>1. CASE \E t : worker' = [worker EXCEPT ![w].pc = "insert", ![w].trunk = t]
    <3>1. worker[w].pc = "trunk"
      BY <1>6 DEF PickTrunk
    <3>2. /\ worker'[w].business = worker[w].business
          /\ \A u \in Workers : u # w => worker'[u] = worker[u]
      BY <1>1, <2>1 DEF WorkerState
    <3>3. QED
      BY <3>1, <3>2
  <2>2. QED
    BY <1>2, <1>6, <2>1 DEF PickTrunk
<1>7. CASE \E s \in Sessions : InsertRows(w, s)
  BY <1>1, <1>7 DEF InsertRows, WorkerState
<1>8. CASE \E r \in WorkerState : /\ r.pc \in {"business", "hangup"}
                                   /\ worker' = [worker EXCEPT ![w] = r]
  BY <1>1, <1>8
<1>9. CASE \E b \in Businesses : BeginOriginate(w, b)
  <2>1. worker'[w].pc = "business"
    BY <1>1, <1>9 DEF BeginOriginate, Idle
  <2>2. \A u \in Workers : u # w => worker'[u] = worker[u]
    BY <1>1, <1>9 DEF BeginOriginate
  <2>3. QED
    BY <2>1, <2>2
<1>10. CASE \E s \in Sessions : BeginRetry(w, s)
  <2>1. worker'[w].pc = "business"
    BY <1>1, <1>10 DEF BeginRetry, Idle
  <2>2. \A u \in Workers : u # w => worker'[u] = worker[u]
    BY <1>1, <1>10 DEF BeginRetry
  <2>3. QED
    BY <2>1, <2>2
<1>11. CASE \E s \in Sessions : BeginHangup(w, s)
  <2>1. worker'[w].pc = "hangup"
    BY <1>1, <1>11 DEF BeginHangup, Idle
  <2>2. \A u \in Workers : u # w => worker'[u] = worker[u]
    BY <1>1, <1>11 DEF BeginHangup
  <2>3. QED
    BY <2>1, <2>2
<1>12. CASE Dial(w) \/ MarkHangup(w) \/ Abort(w)
  BY <1>2, <1>12 DEF Dial, MarkHangup, Abort
<1>13. QED
  BY <1>3, <1>4, <1>5, <1>6, <1>7, <1>9, <1>10, <1>11, <1>12 DEF Request

(* The thread that inserts is no longer past a check; the others stay.      *)
LEMMA InsertSpends ==
  ASSUME IInv, NEW w \in Workers, NEW s \in Sessions, InsertRows(w, s)
  PROVE  /\ worker[w].pc = "insert" /\ worker'[w].pc = "dial"
         /\ \A v \in Workers : v # w => worker'[v] = worker[v]
         /\ session'[s].business = worker[w].business
         /\ \A u \in Sessions : u # s => session'[u] = session[u]
         /\ revived' = revived
  BY DEF InsertRows, IInv, TypeOK, WorkerState

LEMMA BusinessReservedStep ==
  ASSUME IInv, BusinessReserved, [Next]_vars
  PROVE  BusinessReserved'
<1> SUFFICES ASSUME NEW b \in Businesses, BusinessMax[b] > 0
             PROVE  Cardinality((ActiveOf(b) \ revived)') + Cardinality(PastBusinessCheck(b)')
                      <= BusinessMax[b] - 1 + Cardinality(Workers)
  BY DEF BusinessReserved
<1> DEFINE o1 == ActiveOf(b) \ revived
           o2 == (ActiveOf(b) \ revived)'
           p1 == PastBusinessCheck(b)
           p2 == PastBusinessCheck(b)'
<1>1. BusinessMax[b] \in Nat \ {0}
  BY LimitsAreNat
<1>2. /\ o1 \in SUBSET Sessions /\ o2 \in SUBSET Sessions
      /\ p1 \in SUBSET Workers /\ p2 \in SUBSET Workers
  BY DEF ActiveOf, PastBusinessCheck
<1>3. IsFiniteSet(Sessions) /\ IsFiniteSet(Workers)
  BY PoolsAreFinite
<1>4. Cardinality(o1) + Cardinality(p1) <= BusinessMax[b] - 1 + Cardinality(Workers)
  BY DEF BusinessReserved
<1>5. \/ o2 \subseteq o1 /\ p2 \subseteq p1
      \/ o2 \subseteq o1 /\ Cardinality(o1) < BusinessMax[b]
      \/ \E s \in Sessions, w \in p1 : o2 \subseteq o1 \cup {s} /\ p2 \subseteq p1 \ {w}
  <2>1. CASE \E w \in Workers, s \in Sessions : InsertRows(w, s)
    <3>1. PICK w \in Workers, s \in Sessions : InsertRows(w, s)
      BY <2>1
    <3>2. /\ worker[w].pc = "insert" /\ worker'[w].pc = "dial"
          /\ \A v \in Workers : v # w => worker'[v] = worker[v]
          /\ session'[s].business = worker[w].business
          /\ \A u \in Sessions : u # s => session'[u] = session[u]
          /\ revived' = revived
      BY <3>1, InsertSpends
    <3>3. p2 \subseteq p1 \ {w}
      BY <3>2 DEF PastBusinessCheck
    <3>4. o2 \subseteq o1 \cup {s}
      BY <3>2 DEF ActiveOf, Counted
    <3>5. CASE worker[w].business = b
      BY <3>2, <3>3, <3>4, <3>5 DEF PastBusinessCheck
    <3>6. CASE worker[w].business # b
      <4>1. s \notin o2
        BY <3>2, <3>6 DEF ActiveOf
      <4>2. QED
        BY <3>3, <3>4, <4>1
    <3>7. QED
      BY <3>5, <3>6
  <2>2. CASE ~ \E w \in Workers, s \in Sessions : InsertRows(w, s)
    <3>1. o2 \subseteq o1
      <4> SUFFICES ASSUME NEW s \in o2
                   PROVE  s \in o1
        OBVIOUS
      <4>1. s \in Sessions /\ s \in Occupied' /\ session'[s].business = b
        BY DEF ActiveOf, Occupied, Active
      <4>2. s \in Occupied /\ session'[s].business = session[s].business
        BY <2>2, <4>1, OccupiedShrinks
      <4>3. QED
        BY <4>1, <4>2 DEF ActiveOf, Occupied, Active
    <3>2. CASE worker' = worker
      BY <3>1, <3>2 DEF PastBusinessCheck
    <3>3. CASE \E w \in Workers : Request(w)
      <4>1. CASE p2 \subseteq p1
        BY <3>1, <4>1
      <4>2. CASE \E v \in Workers : v \in p2 /\ v \notin p1
        <5>1. ~LimitReached(ActiveOf(b), BusinessMax[b])
          BY <3>3, <4>2, ThreadsAdvance DEF PastBusinessCheck
        <5>2. ActiveOf(b) \in SUBSET Sessions /\ o1 \in SUBSET ActiveOf(b)
          BY DEF ActiveOf
        <5>3. IsFiniteSet(ActiveOf(b))
          BY <1>3, <5>2, FS_Subset
        <5>4. /\ Cardinality(o1) <= Cardinality(ActiveOf(b))
              /\ IsFiniteSet(o1)
          BY <5>2, <5>3, FS_Subset
        <5>5. Cardinality(o1) \in Nat /\ Cardinality(ActiveOf(b)) \in Nat
          BY <5>3, <5>4, FS_CardinalityType
        <5>6. QED
          BY <1>1, <3>1, <5>1, <5>4, <5>5 DEF LimitReached
      <4>3. QED
        BY <1>2, <4>1, <4>2
    <3>4. QED
      BY <3>2, <3>3 DEF Next, vars, Telephony, EventProgress, EventHangup
  <2>3. QED
    BY <2>1, <2>2
<1> HIDE DEF o1, o2, p1, p2
<1>6. Cardinality(o2) + Cardinality(p2) <= BusinessMax[b] - 1 + Cardinality(Workers)
  BY <1>1, <1>2, <1>3, <1>4, <1>5, CountStep
<1>7. QED
  BY <1>6 DEF o2, p2

LEMMA SystemReservedStep ==
  ASSUME IInv, SystemReserved, [Next]_vars
  PROVE  SystemReserved'
<1> SUFFICES ASSUME SystemMax > 0
             PROVE  Cardinality(Occupied') + Cardinality(PastSystemCheck')
                      <= SystemMax - 1 + Cardinality(Workers)
  BY DEF SystemReserved
<1> DEFINE o1 == Occupied
           o2 == Occupied'
           p1 == PastSystemCheck
           p2 == PastSystemCheck'
<1>1. SystemMax \in Nat \ {0}
  BY LimitsAreNat
<1>2. /\ o1 \in SUBSET Sessions /\ o2 \in SUBSET Sessions
      /\ p1 \in SUBSET Workers /\ p2 \in SUBSET Workers
  BY DEF Occupied, Active, PastSystemCheck
<1>3. IsFiniteSet(Sessions) /\ IsFiniteSet(Workers)
  BY PoolsAreFinite
<1>4. Cardinality(o1) + Cardinality(p1) <= SystemMax - 1 + Cardinality(Workers)
  BY DEF SystemReserved
<1>5. \/ o2 \subseteq o1 /\ p2 \subseteq p1
      \/ o2 \subseteq o1 /\ Cardinality(o1) < SystemMax
      \/ \E s \in Sessions, w \in p1 : o2 \subseteq o1 \cup {s} /\ p2 \subseteq p1 \ {w}
  <2>1. CASE \E w \in Workers, s \in Sessions : InsertRows(w, s)
    <3>1. PICK w \in Workers, s \in Sessions : InsertRows(w, s)
      BY <2>1
    <3>2. /\ worker[w].pc = "insert" /\ worker'[w].pc = "dial"
          /\ \A v \in Workers : v # w => worker'[v] = worker[v]
          /\ \A u \in Sessions : u # s => session'[u] = session[u]
          /\ revived' = revived
      BY <3>1, InsertSpends
    <3>3. p2 \subseteq p1 \ {w} /\ w \in p1
      BY <3>2 DEF PastSystemCheck
    <3>4. o2 \subseteq o1 \cup {s}
      BY <3>2 DEF Occupied, Active, Counted
    <3>5. QED
      BY <3>3, <3>4
  <2>2. CASE ~ \E w \in Workers, s \in Sessions : InsertRows(w, s)
    <3>1. o2 \subseteq o1
      BY <1>2, <2>2, OccupiedShrinks
    <3>2. CASE worker' = worker
      BY <3>1, <3>2 DEF PastSystemCheck
    <3>3. CASE \E w \in Workers : Request(w)
      <4>1. CASE p2 \subseteq p1
        BY <3>1, <4>1
      <4>2. CASE \E v \in Workers : v \in p2 /\ v \notin p1
        <5>1. ~LimitReached(Active, SystemMax)
          BY <3>3, <4>2, ThreadsAdvance DEF PastSystemCheck
        <5>2. Active \in SUBSET Sessions /\ o1 \in SUBSET Active
          BY DEF Active, Occupied
        <5>3. IsFiniteSet(Active)
          BY <1>3, <5>2, FS_Subset
        <5>4. /\ Cardinality(o1) <= Cardinality(Active)
              /\ IsFiniteSet(o1)
          BY <5>2, <5>3, FS_Subset
        <5>5. Cardinality(o1) \in Nat /\ Cardinality(Active) \in Nat
          BY <5>3, <5>4, FS_CardinalityType
        <5>6. QED
          BY <1>1, <3>1, <5>1, <5>4, <5>5 DEF LimitReached
      <4>3. QED
        BY <1>2, <4>1, <4>2
    <3>4. QED
      BY <3>2, <3>3 DEF Next, vars, Telephony, EventProgress, EventHangup
  <2>3. QED
    BY <2>1, <2>2
<1> HIDE DEF o1, o2, p1, p2
<1>6. Cardinality(o2) + Cardinality(p2) <= SystemMax - 1 + Cardinality(Workers)
  BY <1>1, <1>2, <1>3, <1>4, <1>5, CountStep
<1>7. QED
  BY <1>6 DEF o2, p2

(* Initially no call counts and no thread is past a check.                  *)
LEMMA InitIsReserved == Init => BusinessReserved /\ SystemReserved
<1> SUFFICES ASSUME Init
             PROVE  BusinessReserved /\ SystemReserved
  OBVIOUS
<1>1. /\ \A b \in Businesses : ActiveOf(b) \ revived = {} /\ PastBusinessCheck(b) = {}
      /\ Occupied = {} /\ PastSystemCheck = {}
  BY DEF Init, Occupied, Active, ActiveOf, Counted, NoSession, Idle,
         PastBusinessCheck, PastSystemCheck, ActiveSessionStatuses
<1>2. Cardinality({}) = 0 /\ Cardinality(Workers) \in Nat
  BY FS_EmptySet, FS_CardinalityType, PoolsAreFinite
<1>3. BusinessReserved
  <2> SUFFICES ASSUME NEW b \in Businesses, BusinessMax[b] > 0
               PROVE  Cardinality(ActiveOf(b) \ revived) + Cardinality(PastBusinessCheck(b))
                        <= BusinessMax[b] - 1 + Cardinality(Workers)
    BY DEF BusinessReserved
  <2>1. BusinessMax[b] \in Nat
    BY LimitsAreNat
  <2>2. Cardinality(ActiveOf(b) \ revived) = 0 /\ Cardinality(PastBusinessCheck(b)) = 0
    BY <1>1, <1>2
  <2>3. QED
    BY <1>2, <2>1, <2>2
<1>4. SystemReserved
  <2>1. Cardinality(Occupied) = 0 /\ Cardinality(PastSystemCheck) = 0
    BY <1>1, <1>2
  <2>2. QED
    BY <1>2, <2>1, LimitsAreNat DEF SystemReserved
<1>5. QED
  BY <1>3, <1>4

(* However the requests of the threads interleave, a business exceeds its   *)
(* maximum by fewer calls than there are threads, revived calls aside.      *)
THEOREM BusinessLimitHolds == Spec => []BusinessOvershoot
<1>1. IInv /\ BusinessReserved /\ [Next]_vars => BusinessReserved'
  BY BusinessReservedStep
<1>2. BusinessReserved => BusinessOvershoot
  <2> SUFFICES ASSUME BusinessReserved, NEW b \in Businesses, BusinessMax[b] > 0
               PROVE  Cardinality(ActiveOf(b) \ revived)
                        <= BusinessMax[b] - 1 + Cardinality(Workers)
    BY DEF BusinessOvershoot
  <2>1. /\ ActiveOf(b) \ revived \in SUBSET Sessions
        /\ PastBusinessCheck(b) \in SUBSET Workers
    BY DEF ActiveOf, PastBusinessCheck
  <2>2. IsFiniteSet(ActiveOf(b) \ revived) /\ IsFiniteSet(PastBusinessCheck(b))
    BY <2>1, PoolsAreFinite, FS_Subset
  <2>3. /\ Cardinality(ActiveOf(b) \ revived) \in Nat
        /\ Cardinality(PastBusinessCheck(b)) \in Nat
        /\ Cardinality(Workers) \in Nat
    BY <2>2, PoolsAreFinite, FS_CardinalityType
  <2>4. QED
    BY <2>3, LimitsAreNat DEF BusinessReserved
<1>3. QED
  BY <1>1, <1>2, Invariance, InitIsReserved, PTL DEF Spec

(* The same for the system-wide maximum.                                    *)
THEOREM SystemLimitHolds == Spec => []SystemOvershoot
<1>1. IInv /\ SystemReserved /\ [Next]_vars => SystemReserved'
  BY SystemReservedStep
<1>2. SystemReserved => SystemOvershoot
  <2> SUFFICES ASSUME SystemReserved, SystemMax > 0
               PROVE  Cardinality(Occupied) <= SystemMax - 1 + Cardinality(Workers)
    BY DEF SystemOvershoot, Occupied
  <2>1. Occupied \in SUBSET Sessions /\ PastSystemCheck \in SUBSET Workers
    BY DEF Occupied, Active, PastSystemCheck
  <2>2. IsFiniteSet(Occupied) /\ IsFiniteSet(PastSystemCheck)
    BY <2>1, PoolsAreFinite, FS_Subset
  <2>3. /\ Cardinality(Occupied) \in Nat /\ Cardinality(PastSystemCheck) \in Nat
        /\ Cardinality(Workers) \in Nat
    BY <2>2, PoolsAreFinite, FS_CardinalityType
  <2>4. QED
    BY <2>3, LimitsAreNat DEF SystemReserved
<1>3. QED
  BY <1>1, <1>2, Invariance, InitIsReserved, PTL DEF Spec

-----------------------------------------------------------------------------
(* Asterisk is only asked to dial committed calls, each by one thread: the  *)
(* invariant is inductive next to IInv, for an insert takes an identity     *)
(* that no thread dials, and no row is deleted.                             *)
LEMMA DialStep ==
  ASSUME IInv, DialAfterCommit, [Next]_vars
  PROVE  DialAfterCommit'
<1>1. IInv' /\ RowsKept
  BY StepKeepsRows
<1>2. \A s \in placed' : Exists(s)'
  BY <1>1 DEF IInv, PlacedIsCommitted
<1>3. ASSUME NEW w \in Workers, worker'[w].pc = "dial"
      PROVE  /\ Exists(worker[w].target)'
             /\ worker'[w].target \notin placed'
             /\ \A v \in Workers : /\ worker'[v].pc = "dial"
                                    /\ worker'[v].target = worker'[w].target
                                   => v = w
  <2>1. Exists(worker[w].target)'
    BY <1>1, <1>3 DEF IInv, LocalsAreSet
  <2>2. CASE \E s \in Sessions, v \in Workers : InsertRows(v, s)
    <3>1. PICK s \in Sessions, v \in Workers : InsertRows(v, s)
      BY <2>2
    <3>2. /\ worker'[v].target = s
          /\ \A u \in Workers : u # v => worker'[u] = worker[u]
          /\ ~Exists(s) /\ placed' = placed
      BY <3>1 DEF InsertRows, IInv, TypeOK, WorkerState
    <3>3. \A u \in Workers : worker[u].pc = "dial" => Exists(worker[u].target)
      BY DEF DialAfterCommit
    <3>4. s \notin placed
      BY <3>2 DEF DialAfterCommit
    <3>5. QED
      BY <1>3, <2>1, <3>2, <3>3, <3>4 DEF DialAfterCommit
  <2>3. CASE \E v \in Workers : Dial(v)
    <3>1. PICK v \in Workers : Dial(v)
      BY <2>3
    <3>2. /\ worker[v].pc = "dial" /\ worker'[v] = Idle
          /\ \A u \in Workers : u # v => worker'[u] = worker[u]
          /\ placed' = placed \cup {worker[v].target}
      BY <3>1 DEF Dial, Release, IInv, TypeOK
    <3>3. w # v
      BY <1>3, <3>2 DEF Idle
    <3>4. \A u \in Workers : worker'[u].pc = "dial" => u # v
      BY <3>2 DEF Idle
    <3>5. QED
      BY <1>3, <2>1, <3>2, <3>3, <3>4 DEF DialAfterCommit
  <2>4. ASSUME ~ \E s \in Sessions, v \in Workers : InsertRows(v, s),
               ~ \E v \in Workers : Dial(v)
        PROVE  /\ placed' = placed
               /\ \A u \in Workers : worker'[u].pc = "dial" => worker'[u] = worker[u]
    <3>1. ASSUME NEW v \in Workers, Request(v)
          PROVE  /\ placed' = placed
                 /\ \A u \in Workers : u # v => worker'[u] = worker[u]
                 /\ worker'[v].pc # "dial"
      <4>1. worker \in [Workers -> WorkerState]
        BY DEF IInv, TypeOK
      <4>2. placed' = placed
        BY <2>4, <3>1 DEF Request, BeginOriginate, BeginRetry, CheckBusiness,
             CheckSystem, CheckRequestedTrunk, PickTrunk, BeginHangup,
             MarkHangup, Abort
      <4>3. CASE Release(v)
        BY <4>1, <4>2, <4>3 DEF Release, Idle
      <4>4. CASE \E b \in Businesses : BeginOriginate(v, b)
        BY <4>1, <4>2, <4>4 DEF BeginOriginate, Idle
      <4>5. CASE \E s \in Sessions : BeginRetry(v, s)
        BY <4>1, <4>2, <4>5 DEF BeginRetry, Idle
      <4>6. CASE \E s \in Sessions : BeginHangup(v, s)
        BY <4>1, <4>2, <4>6 DEF BeginHangup, Idle
      <4>7. CASE CheckBusiness(v) \/ CheckSystem(v) \/ CheckRequestedTrunk(v)
        BY <4>1, <4>2, <4>3, <4>7 DEF CheckBusiness, CheckSystem, CheckRequestedTrunk,
             WorkerState
      <4>8. CASE PickTrunk(v)
        <5>1. CASE \E t : worker' = [worker EXCEPT ![v].pc = "insert", ![v].trunk = t]
          BY <4>1, <4>2, <5>1 DEF WorkerState
        <5>2. QED
          BY <4>3, <4>8, <5>1 DEF PickTrunk
      <4>9. CASE MarkHangup(v) \/ Abort(v)
        BY <4>3, <4>9 DEF MarkHangup, Abort
      <4>10. QED
        BY <2>4, <3>1, <4>4, <4>5, <4>6, <4>7, <4>8, <4>9 DEF Request
    <3>2. QED
      BY <3>1 DEF Next, vars, Telephony, EventProgress, EventHangup
  <2>5. CASE /\ ~ \E s \in Sessions, v \in Workers : InsertRows(v, s)
             /\ ~ \E v \in Workers : Dial(v)
    BY <1>3, <2>1, <2>4, <2>5 DEF DialAfterCommit
  <2>6. QED
    BY <2>2, <2>3, <2>5
<1>4. QED
  BY <1>2, <1>3 DEF DialAfterCommit, Exists

(* A call is dialled only after its rows are committed and by one thread.   *)
THEOREM DialIsCommitted == Spec => []DialAfterCommit
<1>1. Init => DialAfterCommit
  BY DEF Init, DialAfterCommit, Idle
<1>2. IInv /\ DialAfterCommit /\ [Next]_vars => DialAfterCommit'
  BY DialStep
<1>3. QED
  BY <1>1, <1>2, Invariance, PTL DEF Spec

-----------------------------------------------------------------------------
(* The refinement of CallLedger: the writes of the threads and of the       *)
(* events are its steps, everything else is a stutter.                      *)
LEMMA LedgerStep ==
  ASSUME IInv, [Next]_vars
  PROVE  [Ledger!Next]_(Ledger!ledger)
<1> DEFINE status == [s \in Sessions |-> session[s].status]
           ended == [s \in Sessions |-> session[s].ended]
<1>1. CASE session' = session
  BY <1>1 DEF Ledger!ledger
<1>2. ASSUME NEW w \in Workers, NEW s \in Sessions, InsertRows(w, s)
      PROVE  Ledger!Create(s)
  <2>1. /\ session'[s].status = "queued" /\ session'[s].ended = FALSE
        /\ \A u \in Sessions : u # s => session'[u] = session[u]
    BY <1>2 DEF InsertRows, IInv, TypeOK
  <2>2. session[s].ended = FALSE
    <3>1. session[s] \in SessionRow \cup {NoSession} /\ session[s].status = "absent"
      BY <1>2 DEF InsertRows, IInv, TypeOK, Exists
    <3>2. session[s] = NoSession
      BY <3>1 DEF SessionRow, SessionStatuses, LogStatuses
    <3>3. QED
      BY <3>2 DEF NoSession
  <2>3. status' = [status EXCEPT ![s] = "queued"]
    BY <2>1
  <2>4. ended' = ended
    <3>1. \A u \in Sessions : session'[u].ended = session[u].ended
      BY <2>1, <2>2
    <3>2. QED
      BY <3>1
  <2>5. status[s] = "absent"
    BY <1>2 DEF InsertRows, Exists
  <2>6. QED
    BY <2>3, <2>4, <2>5 DEF Ledger!Create
<1>3. ASSUME NEW s \in Sessions, Exists(s), NEW st,
             session' = [session EXCEPT ![s].status = st]
      PROVE  status' = [status EXCEPT ![s] = st] /\ ended' = ended /\ status[s] # "absent"
  <2>1. session[s] \in SessionRow
    BY <1>3 DEF IInv, TypeOK, Exists, NoSession
  <2>2. /\ session'[s].status = st
        /\ session'[s].ended = session[s].ended
        /\ \A u \in Sessions : u # s => session'[u] = session[u]
    BY <1>3, <2>1 DEF IInv, TypeOK, SessionRow
  <2>3. status' = [status EXCEPT ![s] = st]
    BY <2>2
  <2>4. ended' = ended
    <3>1. \A u \in Sessions : session'[u].ended = session[u].ended
      BY <2>2
    <3>2. QED
      BY <3>1
  <2>5. status[s] # "absent"
    BY <1>3 DEF Exists
  <2>6. QED
    BY <2>3, <2>4, <2>5
<1>4. ASSUME NEW s \in Sessions, EventProgress(s)
      PROVE  Ledger!Progress(s)
  <2>1. Exists(s)
    BY <1>4 DEF EventProgress, IInv, PlacedIsCommitted
  <2>2. PICK st \in ProgressStatuses : session' = [session EXCEPT ![s].status = st]
    BY <1>4, OutcomesAreReported DEF EventProgress, WriteStatus
  <2>3. status' = [status EXCEPT ![s] = st] /\ ended' = ended /\ status[s] # "absent"
    BY <1>3, <2>1, <2>2
  <2>4. QED
    BY <2>2, <2>3 DEF Ledger!Progress, Ledger!ProgressStatuses, ProgressStatuses
<1>5. ASSUME NEW w \in Workers, MarkHangup(w), session' # session
      PROVE  \E s \in Sessions : Ledger!MarkHangup(s)
  <2>1. /\ worker[w].target \in Sessions /\ Exists(worker[w].target)
        /\ session' = [session EXCEPT ![worker[w].target].status = "hangup"]
    BY <1>5 DEF MarkHangup, WriteStatus, IInv, LocalsAreSet
  <2>2. QED
    BY <1>3, <2>1 DEF Ledger!MarkHangup
<1>6. ASSUME NEW s \in Sessions, EventHangup(s)
      PROVE  Ledger!End(s)
  <2>1. PICK st \in HangupStatuses \cup {session[s].status} :
          session' = [session EXCEPT ![s].status = st, ![s].ended = TRUE]
    BY <1>6, OutcomesAreReported DEF EventHangup
  <2>2. Exists(s) /\ session[s] \in SessionRow
    BY <1>6 DEF EventHangup, IInv, PlacedIsCommitted, TypeOK, Exists, NoSession
  <2>3. /\ session'[s].status = st /\ session'[s].ended = TRUE
        /\ \A u \in Sessions : u # s => session'[u] = session[u]
    BY <2>1, <2>2 DEF IInv, TypeOK, SessionRow
  <2>4. status' = [status EXCEPT ![s] = st]
    BY <2>3
  <2>5. ended' = [ended EXCEPT ![s] = TRUE]
    BY <2>3
  <2>6. status[s] # "absent" /\ st \in HangupStatuses \cup {status[s]}
    BY <2>1, <2>2 DEF Exists
  <2>7. QED
    BY <2>4, <2>5, <2>6 DEF Ledger!End, Ledger!HangupStatuses, HangupStatuses
<1>7. ASSUME NEW w \in Workers, Request(w), session' # session
      PROVE  (\E s \in Sessions : InsertRows(w, s)) \/ MarkHangup(w)
  BY <1>7 DEF Request, BeginOriginate, BeginRetry, CheckBusiness,
       CheckSystem, CheckRequestedTrunk, PickTrunk, Dial, BeginHangup, Abort
<1>8. session' # session => \E s \in Sessions :
        \/ Ledger!Create(s) \/ Ledger!Progress(s) \/ Ledger!End(s) \/ Ledger!MarkHangup(s)
  BY <1>2, <1>4, <1>5, <1>6, <1>7 DEF Next, vars, Telephony
<1>9. QED
  BY <1>1, <1>8 DEF Ledger!Next

(* CallAdmission implements CallLedger.                                     *)
THEOREM LedgerIsImplemented == Spec => ImplementsLedger
<1>1. Init => Ledger!Init
  BY DEF Init, NoSession, Ledger!Init
<1>2. IInv /\ [Next]_vars => [Ledger!Next]_(Ledger!ledger)
  BY LedgerStep
<1>3. QED
  BY <1>1, <1>2, Invariance, PTL DEF Spec, ImplementsLedger, Ledger!Spec
=============================================================================
