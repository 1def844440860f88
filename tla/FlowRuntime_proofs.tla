-------------------------- MODULE FlowRuntime_proofs --------------------------
(***************************************************************************)
(* Theorems about the choice of an edge, for every set of edges, however    *)
(* large, whose ids are a key; and about FlowRuntime, for every flow, any    *)
(* number of calls and threads, and every behaviour of the clients.         *)
(***************************************************************************)
EXTENDS FlowRuntime, EdgeChoice, WellFoundedInduction, TLAPS

(* A non-empty set of natural numbers has a least element.                  *)
LEMMA LeastNat ==
  ASSUME NEW S \in SUBSET Nat, S # {}
  PROVE  \E n \in S : \A k \in S : n <= k
<1>1. PICK n \in S : \A k \in S : ~ (<<k, n>> \in OpToRel(<, Nat))
  BY NatLessThanWellFounded, WFMin
<1>2. ASSUME NEW k \in S
      PROVE  n <= k
  <2>1. <<k, n>> \in Nat \X Nat
    OBVIOUS
  <2>2. ~ (k < n)
    BY <1>1, <2>1 DEF OpToRel
  <2>3. QED
    BY <2>2
<1>3. QED
  BY <1>2

(* Among the edges of a non-empty set one comes before all others, so the   *)
(* sort of the code has a first element, and only one.                      *)
LEMMA FirstIsFirst ==
  ASSUME NEW edges, AreRows(edges), edges # {}
  PROVE  /\ First(edges) \in edges
         /\ \A d \in edges \ {First(edges)} : Before(First(edges), d)
<1> DEFINE rank(e) == e.priority - LeastPriority
           ranks == {rank(e) : e \in edges}
<1>1. ranks \in SUBSET Nat /\ ranks # {}
  BY DEF AreRows, LeastPriority
<1>2. PICK r \in ranks : \A k \in ranks : r <= k
  <2> HIDE DEF ranks
  <2>1. QED
    BY <1>1, LeastNat
<1> DEFINE best == {e \in edges : rank(e) = r}
           ids == {e.id : e \in best}
<1>3. ids \in SUBSET Nat /\ ids # {}
  BY DEF AreRows
<1>4. PICK i \in ids : \A k \in ids : i <= k
  <2> HIDE DEF ids
  <2>1. QED
    BY <1>3, LeastNat
<1>5. PICK e \in best : e.id = i
  OBVIOUS
<1>6. ASSUME NEW d \in edges \ {e}
      PROVE  Before(e, d)
  <2>1. /\ d.id \in Nat /\ e.id \in Nat /\ d.id # e.id
        /\ d.priority \in Int /\ e.priority \in Int
    BY DEF AreRows
  <2>2. rank(e) <= rank(d)
    BY <1>2
  <2>3. CASE rank(d) = rank(e)
    <3>1. e.id <= d.id
      BY <2>3, <1>4, <1>5
    <3>2. QED
      BY <2>1, <2>3, <3>1 DEF Before, LeastPriority
  <2>4. CASE rank(d) # rank(e)
    BY <2>1, <2>2, <2>4 DEF Before, LeastPriority
  <2>5. QED
    BY <2>3, <2>4
<1>7. QED
  BY <1>5, <1>6 DEF First

(* An edge that is chosen is an edge of the node; none is chosen only when  *)
(* none is a candidate.                                                     *)
THEOREM ChosenIsOfNode ==
  ASSUME NEW edges, AreRows(edges), NEW node, NEW result, NEW value, NEW holds
  PROVE  LET e == ResolveNextEdge(edges, node, result, value, holds)
         IN  e # NoEdge => e \in edges /\ e.source = node
<1> DEFINE scoped == {e \in edges : e.source = node}
           among == Candidates(scoped, result, value, holds)
<1>1. among \subseteq scoped
  BY DEF Candidates, OfCondition
<1>2. CASE among = {}
  BY <1>2 DEF ResolveNextEdge
<1>3. CASE among # {}
  <2>1. AreRows(among)
    BY <1>1 DEF AreRows
  <2>2. First(among) \in among
    BY <1>3, <2>1, FirstIsFirst
  <2>3. QED
    BY <1>1, <1>3, <2>2 DEF ResolveNextEdge
<1>4. QED
  BY <1>2, <1>3

-----------------------------------------------------------------------------
(* The edge taken is the one that fits best, then of the lowest priority    *)
(* number, then the oldest; none is taken only when none fits at all: the   *)
(* four passes over the edges make one consistent order of preference.      *)
THEOREM BestFitIsTaken ==
  ASSUME NEW edges, AreRows(edges), NEW node, NEW result, NEW value, NEW holds
  PROVE  IsBestFit(ResolveNextEdge(edges, node, result, value, holds),
                   {e \in edges : e.source = node}, result, value, holds)
<1> DEFINE scoped == {e \in edges : e.source = node}
           fit(e) == Fit(e, result, value, holds)
           among == Candidates(scoped, result, value, holds)
<1>1. among \subseteq scoped
  BY DEF Candidates, OfCondition
<1>2. \A e \in scoped : fit(e) \in 1 .. 5
  BY DEF Fit
<1>3. \A c \in among : fit(c) # 5 /\ \A e \in scoped \ among : fit(c) < fit(e)
  BY DEF Candidates, OfCondition, Fit
<1>4. \A c, d \in among : fit(c) = fit(d)
  BY DEF Candidates, OfCondition, Fit
<1>5. among = {} => \A e \in scoped : fit(e) = 5
  BY DEF Candidates, OfCondition, Fit
<1>6. CASE among = {}
  BY <1>5, <1>6 DEF ResolveNextEdge, IsBestFit
<1>7. CASE among # {}
  <2> DEFINE chosen == First(among)
  <2>1. AreRows(among)
    BY <1>1 DEF AreRows
  <2>2. chosen \in among /\ \A d \in among \ {chosen} : Before(chosen, d)
    BY <1>7, <2>1, FirstIsFirst
  <2> HIDE DEF among, fit, scoped
  <2>3. \A e \in scoped \ {chosen} :
          fit(chosen) < fit(e) \/ (fit(chosen) = fit(e) /\ Before(chosen, e))
    BY <1>3, <1>4, <2>2
  <2>4. ResolveNextEdge(edges, node, result, value, holds) = chosen
    BY <1>7 DEF ResolveNextEdge, among, scoped
  <2>5. QED
    BY <1>1, <1>3, <2>2, <2>3, <2>4 DEF IsBestFit, fit, scoped
<1>8. QED
  BY <1>6, <1>7

-----------------------------------------------------------------------------
(* Rows of a pool are rows, and a table only ever holds rows of the pool.   *)
LEMMA SomeAreRows ==
  ASSUME NEW rows, AreRows(rows), NEW some \in SUBSET rows
  PROVE  AreRows(some)
  BY DEF AreRows

LEMMA TableIsOfPool == ChoiceSpec => [](table \subseteq Pool)
<1>1. NoEdges => table \subseteq Pool
  BY DEF NoEdges
<1>2. table \subseteq Pool /\ [ChangeEdges]_choiceVars => (table \subseteq Pool)'
  BY DEF ChangeEdges, AddEdge, RemoveEdge, choiceVars
<1>3. QED
  BY <1>1, <1>2, PTL DEF ChoiceSpec

(* Whatever edges an author draws, the one taken is the best fit.           *)
THEOREM BestFitStaysChosen == ChoiceSpec => []BestFitIsChosen
<1>1. table \subseteq Pool => BestFitIsChosen
  <2> SUFFICES ASSUME table \subseteq Pool PROVE BestFitIsChosen
    OBVIOUS
  <2>1. AreRows(table)
    BY PoolIsOfRows, SomeAreRows
  <2>2. QED
    BY <2>1, BestFitIsTaken DEF BestFitIsChosen, Chosen
<1>2. QED
  BY <1>1, TableIsOfPool, PTL

(* With an edge more the best fit is the same, or that edge: two edges of   *)
(* which each fits better than the other there are none.                    *)
LEMMA OneMoreEdge ==
  ASSUME NEW r, NEW v, NEW h, NEW few, NEW many, NEW e,
         AreRows(many), few \subseteq many, many \subseteq few \cup {e},
         NEW old, IsBestFit(old, few, r, v, h),
         NEW new, IsBestFit(new, many, r, v, h)
  PROVE  new \in {old, e}
<1> DEFINE fit(x) == Fit(x, r, v, h)
<1>1. \A x \in many : fit(x) \in 1 .. 5
  BY DEF Fit
<1>2. \A x, y \in many : x # y => ~(Before(x, y) /\ Before(y, x))
  BY DEF Before, AreRows
<1>3. CASE \A x \in many : fit(x) = 5
  BY <1>3 DEF IsBestFit
<1>4. CASE \E x \in many : fit(x) # 5
  <2> SUFFICES ASSUME new # e, new # old PROVE FALSE
    OBVIOUS
  <2> HIDE DEF fit
  <2>1. /\ new \in few /\ fit(new) # 5
        /\ \A x \in many \ {new} :
             fit(new) < fit(x) \/ (fit(new) = fit(x) /\ Before(new, x))
    BY <1>4 DEF IsBestFit, fit
  <2>2. /\ old \in few
        /\ \A x \in few \ {old} :
             fit(old) < fit(x) \/ (fit(old) = fit(x) /\ Before(old, x))
    BY <2>1 DEF IsBestFit, fit
  <2>3. fit(new) < fit(old) \/ (fit(new) = fit(old) /\ Before(new, old))
    BY <2>1, <2>2
  <2>4. fit(old) < fit(new) \/ (fit(old) = fit(new) /\ Before(old, new))
    BY <2>1, <2>2
  <2>5. QED
    BY <1>1, <1>2, <2>1, <2>2, <2>3, <2>4
<1>5. QED
  BY <1>3, <1>4

(* An edge that is added is taken or changes nothing.                       *)
THEOREM OthersNeverMatter == ChoiceSpec => OthersDoNotMatter
<1>1. ASSUME table \subseteq Pool, table' \subseteq Pool, NEW e \in Pool, AddEdge(e)
      PROVE  Chosen' \in {Chosen, e}
  <2> DEFINE few == {x \in table : x.source = From}
             many == {x \in table' : x.source = From}
  <2>1. AreRows(table) /\ AreRows(table') /\ AreRows(many)
    BY <1>1, PoolIsOfRows, SomeAreRows
  <2>2. /\ few \subseteq many /\ many \subseteq few \cup {e}
        /\ UNCHANGED input
    BY <1>1 DEF AddEdge
  <2>3. IsBestFit(Chosen, few, input[1], input[2], input[3])
    BY <2>1, BestFitIsTaken DEF Chosen
  <2>4. Chosen' = ResolveNextEdge(table', From, input[1], input[2], input[3])
    BY <2>2 DEF Chosen
  <2>5. IsBestFit(Chosen', many, input[1], input[2], input[3])
    BY <2>1, <2>4, BestFitIsTaken
  <2> HIDE DEF few, many
  <2>6. PICK old, new : old = Chosen /\ new = Chosen'
    OBVIOUS
  <2>7. /\ IsBestFit(old, few, input[1], input[2], input[3])
        /\ IsBestFit(new, many, input[1], input[2], input[3])
    BY <2>3, <2>5, <2>6
  <2>8. PICK r, v, h : r = input[1] /\ v = input[2] /\ h = input[3]
    OBVIOUS
  <2>9. new \in {old, e}
    <3>1. AreRows(many) /\ few \subseteq many /\ many \subseteq few \cup {e}
      BY <2>1, <2>2
    <3>2. IsBestFit(old, few, r, v, h) /\ IsBestFit(new, many, r, v, h)
      BY <2>7, <2>8
    <3>3. QED
      BY <3>1, <3>2, OneMoreEdge
  <2>10. QED
    BY <2>6, <2>9
<1>2. table \subseteq Pool /\ (table \subseteq Pool)' /\ [ChangeEdges]_choiceVars
        => [\A e \in Pool : AddEdge(e) => Chosen' \in {Chosen, e}]_choiceVars
  BY <1>1
<1>3. QED
  BY <1>2, TableIsOfPool, PTL DEF ChoiceSpec, OthersDoNotMatter

-----------------------------------------------------------------------------
(* What a thread knows between two of its steps: its call, the row it has   *)
(* found or inserted, the node to execute; and of the node it is about to   *)
(* store, that it was executed and that the server stops there.             *)
KnowsItsRow(t) ==
  /\ req[t].pc # "idle" => req[t].call \in Calls
  /\ req[t].pc \in {"enter", "execute", "commit"} =>
       req[t].row \in DOMAIN sessions[req[t].call]

KnowsItsNode(t) ==
  /\ req[t].pc \in {"execute", "commit"} => req[t].node \in Nodes
  /\ req[t].pc = "commit" =>
       req[t].node \in executed[req[t].call] /\ StopsAt(req[t].node)

IInv ==
  /\ TypeOK
  /\ RestsWhereItStops
  /\ \A t \in Threads : KnowsItsRow(t) /\ KnowsItsNode(t)

-----------------------------------------------------------------------------
(* Rows are only added and nodes only executed more often.                  *)
Grows ==
  /\ sessions' \in [Calls -> Seq(Nodes)]
  /\ executed' \in [Calls -> SUBSET Nodes]
  /\ \A c \in Calls : DOMAIN sessions[c] \subseteq DOMAIN sessions'[c]
  /\ \A c \in Calls : executed[c] \subseteq executed'[c]

(* A step of thread t that keeps rows and leaves t with what it has to      *)
(* know preserves IInv.                                                     *)
LEMMA ThreadStep ==
  ASSUME IInv, NEW t \in Threads, NEW r \in RequestState,
         req' = [req EXCEPT ![t] = r], Grows, RestsWhereItStops',
         KnowsItsRow(t)', KnowsItsNode(t)'
  PROVE  IInv'
<1>1. TypeOK'
  BY DEF IInv, TypeOK, Grows
<1>2. ASSUME NEW u \in Threads
      PROVE  KnowsItsRow(u)' /\ KnowsItsNode(u)'
  <2>1. CASE u = t
    BY <2>1
  <2>2. CASE u # t
    <3>1. req'[u] = req[u]
      BY <2>2 DEF IInv, TypeOK
    <3>2. KnowsItsRow(u) /\ KnowsItsNode(u)
      BY DEF IInv
    <3>3. KnowsItsRow(u)'
      BY <3>1, <3>2 DEF KnowsItsRow, Grows
    <3>4. KnowsItsNode(u)'
      BY <3>1, <3>2, <3>3 DEF KnowsItsNode, KnowsItsRow, Grows
    <3>5. QED
      BY <3>3, <3>4
  <2>3. QED
    BY <2>1, <2>2
<1>3. QED
  BY <1>1, <1>2 DEF IInv

(* The same for a step that touches neither table.                          *)
LEMMA LocalStep ==
  ASSUME IInv, NEW t \in Threads, NEW r \in RequestState,
         req' = [req EXCEPT ![t] = r], UNCHANGED <<sessions, executed>>,
         KnowsItsRow(t)', KnowsItsNode(t)'
  PROVE  IInv'
<1>1. Grows
  BY DEF Grows, IInv, TypeOK
<1>2. RestsWhereItStops'
  BY DEF IInv, RestsWhereItStops
<1>3. QED
  BY <1>1, <1>2, ThreadStep

-----------------------------------------------------------------------------
LEMMA ReplyStep ==
  ASSUME IInv, NEW t \in Threads, NEW reply \in Replies, Reply(t, reply),
         req[t].pc # "idle", Grows, RestsWhereItStops'
  PROVE  IInv'
<1> DEFINE r == [req[t] EXCEPT !.pc = "reply", !.reply = reply]
<1>1. req[t] \in RequestState
  BY DEF IInv, TypeOK
<1>2. r \in RequestState
  BY <1>1 DEF RequestState
<1>3. req' = [req EXCEPT ![t] = r]
  BY DEF Reply
<1>4. req'[t] = r
  BY <1>3 DEF IInv, TypeOK
<1>5. r.pc = "reply" /\ r.call = req[t].call
  BY <1>1 DEF RequestState
<1>6. KnowsItsRow(t)' /\ KnowsItsNode(t)'
  BY <1>4, <1>5 DEF IInv, KnowsItsRow, KnowsItsNode
<1>7. QED
  BY <1>2, <1>3, <1>6, ThreadStep

LEMMA FinishStep ==
  ASSUME IInv, NEW t \in Threads, Finish(t)
  PROVE  IInv'
<1>1. Idle \in RequestState
  BY FlowIsValid DEF Idle, RequestState
<1>2. req'[t].pc = "idle"
  BY DEF Finish, IInv, TypeOK, Idle
<1>3. KnowsItsRow(t)' /\ KnowsItsNode(t)'
  BY <1>2 DEF KnowsItsRow, KnowsItsNode
<1>4. QED
  BY <1>1, <1>3, LocalStep DEF Finish

LEMMA AcceptStep ==
  ASSUME IInv, NEW t \in Threads, NEW c \in Calls, NEW report \in Reports,
         NEW claim \in Claims, Accept(t, c, report[1], report[2], claim)
  PROVE  IInv'
<1> DEFINE skipped == c \in Skipped
           r == [Idle EXCEPT !.pc = IF skipped THEN "reply" ELSE "find",
                             !.call = c, !.result = report[1],
                             !.value = report[2], !.claim = claim,
                             !.reply = IF skipped THEN "legacy_fallback" ELSE None]
<1>1. r \in RequestState
  <2>1. /\ report[1] \in {q[1] : q \in Reports} \cup {None}
        /\ report[2] \in {q[2] : q \in Reports} \cup {None}
    OBVIOUS
  <2>2. 0 \in 0 .. MaxHops
    BY FlowIsValid
  <2>3. "legacy_fallback" \in Replies
    BY DEF Replies
  <2>4. CASE skipped
    BY <2>1, <2>2, <2>3, <2>4 DEF Idle, RequestState
  <2>5. CASE ~skipped
    BY <2>1, <2>2, <2>5 DEF Idle, RequestState
  <2>6. QED
    BY <2>4, <2>5
<1>2. req' = [req EXCEPT ![t] = r]
  BY DEF Accept
<1>3. req'[t] = r
  BY <1>2 DEF IInv, TypeOK
<1>4. r.call = c /\ r.pc \in {"reply", "find"}
  BY DEF Idle
<1>5. KnowsItsRow(t)' /\ KnowsItsNode(t)'
  BY <1>3, <1>4 DEF KnowsItsRow, KnowsItsNode
<1>6. QED
  BY <1>1, <1>2, <1>5, LocalStep DEF Accept

LEMMA GotoStep ==
  ASSUME IInv, NEW t \in Threads, Goto(t, "create"), req[t].pc # "idle",
         UNCHANGED <<sessions, executed>>
  PROVE  IInv'
<1> DEFINE r == [req[t] EXCEPT !.pc = "create"]
<1>1. req[t] \in RequestState
  BY DEF IInv, TypeOK
<1>2. r \in RequestState
  BY <1>1 DEF RequestState
<1>3. req' = [req EXCEPT ![t] = r]
  BY DEF Goto
<1>4. req'[t] = r
  BY <1>3 DEF IInv, TypeOK
<1>5. r.pc = "create" /\ r.call = req[t].call
  BY <1>1 DEF RequestState
<1>6. KnowsItsRow(t)' /\ KnowsItsNode(t)'
  BY <1>4, <1>5 DEF IInv, KnowsItsRow, KnowsItsNode
<1>7. QED
  BY <1>2, <1>3, <1>6, LocalStep

(* A thread is about to execute a node, of a row that is there.             *)
LEMMA EnterStep ==
  ASSUME IInv, NEW t \in Threads, NEW r \in RequestState,
         req' = [req EXCEPT ![t] = r], req[t].pc # "idle",
         r.pc = "execute", r.call = req[t].call, r.node \in Nodes,
         r.row \in DOMAIN sessions[req[t].call],
         Grows, RestsWhereItStops'
  PROVE  IInv'
<1>1. req'[t] = r
  BY DEF IInv, TypeOK
<1>2. req[t].call \in Calls
  BY DEF IInv, KnowsItsRow
<1>3. KnowsItsRow(t)' /\ KnowsItsNode(t)'
  BY <1>1, <1>2 DEF KnowsItsRow, KnowsItsNode, Grows
<1>4. QED
  BY <1>3, ThreadStep

LEMMA NoChange ==
  ASSUME IInv, UNCHANGED <<sessions, executed>>
  PROVE  Grows /\ RestsWhereItStops'
  BY DEF Grows, IInv, TypeOK, RestsWhereItStops

(* An edge leads to a node of the flow.                                     *)
LEMMA EdgeLeadsToNode ==
  ASSUME NEW node, NEW result, NEW value, NEW holds
  PROVE  LET e == ResolveNextEdge(Edges, node, result, value, holds)
         IN  e # NoEdge => e.target \in Nodes
  BY ChosenIsOfNode, FlowIsValid

LEMMA FollowStep ==
  ASSUME IInv, NEW t \in Threads, req[t].pc # "idle", NEW node,
         NEW i \in DOMAIN sessions[req[t].call], FollowEdge(t, i, node),
         UNCHANGED <<sessions, executed>>
  PROVE  IInv'
<1>1. PICK holds \in SUBSET VariableTests :
        LET e == ResolveNextEdge(Edges, node, req[t].result, req[t].value, holds)
        IN  IF node \notin Nodes \/ e = NoEdge THEN Reply(t, "error")
            ELSE req' = [req EXCEPT ![t] = [@ EXCEPT !.pc = "execute", !.row = i,
                                                     !.node = e.target]]
  BY DEF FollowEdge
<1> DEFINE e == ResolveNextEdge(Edges, node, req[t].result, req[t].value, holds)
           r == [req[t] EXCEPT !.pc = "execute", !.row = i, !.node = e.target]
<1>2. CASE node \notin Nodes \/ e = NoEdge
  <2>1. Reply(t, "error") /\ "error" \in Replies
    BY <1>1, <1>2 DEF Replies
  <2>2. QED
    BY <2>1, NoChange, ReplyStep
<1>3. CASE ~(node \notin Nodes \/ e = NoEdge)
  <2>1. e.target \in Nodes
    BY <1>3, EdgeLeadsToNode
  <2>2. req[t] \in RequestState /\ req[t].call \in Calls
    BY DEF IInv, TypeOK, KnowsItsRow
  <2>3. i \in Nat
    BY <2>2 DEF IInv, TypeOK
  <2>4. req' = [req EXCEPT ![t] = r]
    BY <1>1, <1>3
  <2> HIDE DEF e
  <2>5. r \in RequestState
    BY <2>1, <2>2, <2>3 DEF RequestState
  <2>6. /\ r.pc = "execute" /\ r.call = req[t].call
        /\ r.node = e.target /\ r.row = i
    BY <2>2 DEF RequestState
  <2> HIDE DEF r
  <2>7. QED
    BY <2>1, <2>4, <2>5, <2>6, NoChange, EnterStep
<1>4. QED
  BY <1>2, <1>3

-----------------------------------------------------------------------------
LEMMA FindSessionStep ==
  ASSUME IInv, NEW t \in Threads, FindSession(t)
  PROVE  IInv'
<1>1. CASE sessions[req[t].call] = <<>>
  <2>1. CASE Goto(t, "create")
    BY <2>1, GotoStep DEF FindSession
  <2>2. CASE Reply(t, "error")
    BY <2>2, ReplyStep, NoChange DEF FindSession, Replies
  <2>3. QED
    BY <1>1, <2>1, <2>2 DEF FindSession
<1>2. CASE sessions[req[t].call] # <<>>
  <2>1. PICK i \in DOMAIN sessions[req[t].call] :
          FollowEdge(t, i, CurrentNode(t, sessions[req[t].call][i]))
    BY <1>2 DEF FindSession
  <2>2. QED
    BY <2>1, FollowStep DEF FindSession
<1>3. QED
  BY <1>1, <1>2

LEMMA CreateSessionStep ==
  ASSUME IInv, NEW t \in Threads, CreateSession(t)
  PROVE  IInv'
<1> DEFINE c == req[t].call
           row == Len(sessions[c]) + 1
           r == [req[t] EXCEPT !.pc = "enter", !.row = row]
<1>1. c \in Calls /\ req[t] \in RequestState
  BY DEF CreateSession, IInv, KnowsItsRow, TypeOK
<1>2. sessions[c] \in Seq(Nodes) /\ Start \in Nodes
  BY <1>1, FlowIsValid DEF IInv, TypeOK
<1>3. /\ Append(sessions[c], Start) \in Seq(Nodes)
      /\ Len(Append(sessions[c], Start)) = row
      /\ \A i \in 1 .. Len(sessions[c]) : Append(sessions[c], Start)[i] = sessions[c][i]
      /\ Append(sessions[c], Start)[row] = Start
      /\ row \in Nat
  BY <1>2
<1>4. /\ sessions'[c] = Append(sessions[c], Start)
      /\ \A d \in Calls \ {c} : sessions'[d] = sessions[d]
      /\ sessions' \in [Calls -> Seq(Nodes)]
  BY <1>1, <1>3 DEF CreateSession, IInv, TypeOK
<1>5. Grows
  <2>1. DOMAIN sessions[c] = 1 .. Len(sessions[c]) /\ DOMAIN sessions'[c] = 1 .. row
    BY <1>2, <1>3, <1>4
  <2>2. DOMAIN sessions[c] \subseteq DOMAIN sessions'[c]
    BY <1>2, <2>1
  <2>3. QED
    BY <1>4, <2>2 DEF Grows, CreateSession, IInv, TypeOK
<1>6. RestsWhereItStops'
  <2>1. \A d \in Calls : \A i \in DOMAIN sessions'[d] :
          sessions'[d][i] = Start \/ (i \in DOMAIN sessions[d] /\ sessions'[d][i] = sessions[d][i])
    <3>1. \A i \in 1 .. row : i = row \/ i \in 1 .. Len(sessions[c])
      BY <1>2
    <3>2. DOMAIN sessions[c] = 1 .. Len(sessions[c]) /\ DOMAIN sessions'[c] = 1 .. row
      BY <1>2, <1>3, <1>4
    <3>3. ASSUME NEW d \in Calls, NEW i \in DOMAIN sessions'[d]
          PROVE  \/ sessions'[d][i] = Start
                 \/ i \in DOMAIN sessions[d] /\ sessions'[d][i] = sessions[d][i]
      <4>1. CASE d # c
        BY <1>4, <4>1
      <4>2. CASE d = c
        <5> HIDE DEF c, row
        <5>1. QED
          BY <1>3, <1>4, <3>1, <3>2, <4>2
      <4>3. QED
        BY <4>1, <4>2
    <3>4. QED
      BY <3>3
  <2>2. QED
    BY <2>1 DEF RestsWhereItStops, IInv, CreateSession
<1>7. r \in RequestState
  BY <1>1, <1>3 DEF RequestState
<1>8. req' = [req EXCEPT ![t] = r]
  BY DEF CreateSession
<1>9. req'[t] = r
  BY <1>8 DEF IInv, TypeOK
<1>10. r.pc = "enter" /\ r.call = c /\ r.row = row
  BY <1>1 DEF RequestState
<1>11. row \in DOMAIN sessions'[c]
  BY <1>2, <1>3, <1>4
<1>12. KnowsItsRow(t)' /\ KnowsItsNode(t)'
  <2> HIDE DEF r, row, c
  <2>1. QED
    BY <1>1, <1>9, <1>10, <1>11 DEF KnowsItsRow, KnowsItsNode
<1>13. QED
  BY <1>5, <1>6, <1>7, <1>8, <1>12, ThreadStep

LEMMA EnterSessionStep ==
  ASSUME IInv, NEW t \in Threads, EnterSession(t)
  PROVE  IInv'
<1> DEFINE i == req[t].row
           node == CurrentNode(t, sessions[req[t].call][i])
           r == [req[t] EXCEPT !.pc = "execute", !.node = node]
<1>1. /\ req[t] \in RequestState /\ req[t].pc # "idle"
      /\ i \in DOMAIN sessions[req[t].call]
      /\ req[t].call \in Calls
  BY DEF EnterSession, IInv, TypeOK, KnowsItsRow
<1>2. CASE node \notin Nodes
  <2>1. Reply(t, "error") /\ "error" \in Replies
    BY <1>2 DEF EnterSession, Replies
  <2>2. QED
    BY <1>1, <2>1, ReplyStep, NoChange DEF EnterSession
<1>3. CASE node \in Nodes /\ req[t].result = None
  <2>1. req' = [req EXCEPT ![t] = r]
    BY <1>3 DEF EnterSession
  <2> HIDE DEF node
  <2>2. r \in RequestState
    BY <1>1, <1>3 DEF RequestState
  <2>3. r.pc = "execute" /\ r.call = req[t].call /\ r.node = node /\ r.row = i
    BY <1>1 DEF RequestState
  <2> HIDE DEF r, i
  <2>4. QED
    BY <1>1, <1>3, <2>1, <2>2, <2>3, EnterStep, NoChange DEF EnterSession
<1>4. CASE node \in Nodes /\ req[t].result # None
  <2>1. FollowEdge(t, i, node)
    BY <1>4 DEF EnterSession
  <2>2. QED
    BY <1>1, <2>1, FollowStep DEF EnterSession
<1>5. QED
  BY <1>2, <1>3, <1>4

-----------------------------------------------------------------------------
LEMMA ExecutedGrows ==
  ASSUME IInv, NEW t \in Threads, req[t].pc = "execute",
         executed' = [executed EXCEPT ![req[t].call] = @ \cup {req[t].node}],
         UNCHANGED sessions
  PROVE  /\ Grows /\ RestsWhereItStops'
         /\ req[t].call \in Calls /\ req[t].node \in executed'[req[t].call]
<1>1. req[t].call \in Calls /\ req[t].node \in Nodes
  BY DEF IInv, KnowsItsRow, KnowsItsNode
<1>2. /\ executed \in [Calls -> SUBSET Nodes]
      /\ \A c \in Calls : executed[c] \subseteq executed'[c]
  BY <1>1 DEF IInv, TypeOK
<1>3. executed' \in [Calls -> SUBSET Nodes] /\ req[t].node \in executed'[req[t].call]
  BY <1>1, <1>2
<1>4. Grows
  BY <1>2, <1>3 DEF Grows, IInv, TypeOK
<1>5. RestsWhereItStops'
  BY <1>2 DEF IInv, RestsWhereItStops
<1>6. QED
  BY <1>1, <1>3, <1>4, <1>5

(* A node the server has executed and stops at is about to be stored.       *)
LEMMA SettleStep ==
  ASSUME IInv, NEW t \in Threads, req[t].pc = "execute", Goto(t, "commit"),
         Grows, RestsWhereItStops',
         req[t].node \in executed'[req[t].call], StopsAt(req[t].node)
  PROVE  IInv'
<1> DEFINE r == [req[t] EXCEPT !.pc = "commit"]
<1>1. req[t] \in RequestState
  BY DEF IInv, TypeOK
<1>2. r \in RequestState
  BY <1>1 DEF RequestState
<1>3. req' = [req EXCEPT ![t] = r]
  BY DEF Goto
<1>4. req'[t] = r
  BY <1>3 DEF IInv, TypeOK
<1>5. r.pc = "commit" /\ r.call = req[t].call /\ r.row = req[t].row /\ r.node = req[t].node
  BY <1>1 DEF RequestState
<1>6. /\ req[t].call \in Calls /\ req[t].node \in Nodes
      /\ req[t].row \in DOMAIN sessions[req[t].call]
  BY DEF IInv, KnowsItsRow, KnowsItsNode
<1>7. KnowsItsRow(t)' /\ KnowsItsNode(t)'
  <2> HIDE DEF r
  <2>1. StopsAt(req[t].node)'
    BY <1>4, <1>5 DEF StopsAt, IsAuto
  <2>2. StopsAt(r.node)
    BY <1>5
  <2>3. KnowsItsRow(t)'
    BY <1>4, <1>5, <1>6 DEF KnowsItsRow, Grows
  <2>4. KnowsItsNode(t)'
    BY <1>4, <1>5, <1>6, <2>2 DEF KnowsItsNode
  <2>5. QED
    BY <2>3, <2>4
<1>8. QED
  BY <1>2, <1>3, <1>7, ThreadStep

(* The next node of a chain of nodes that need no client.                   *)
LEMMA HopStep ==
  ASSUME IInv, NEW t \in Threads, req[t].pc = "execute",
         ~LimitIsReached(req[t].hops), NEW target \in Nodes,
         req' = [req EXCEPT ![t] = [@ EXCEPT !.node = target, !.hops = req[t].hops + 1]],
         Grows, RestsWhereItStops'
  PROVE  IInv'
<1> DEFINE r == [req[t] EXCEPT !.node = target, !.hops = req[t].hops + 1]
<1>1. req[t] \in RequestState
  BY DEF IInv, TypeOK
<1>2. req[t].hops + 1 \in 0 .. MaxHops
  BY <1>1, FlowIsValid DEF RequestState, LimitIsReached
<1>3. r \in RequestState
  BY <1>1, <1>2 DEF RequestState
<1>4. req' = [req EXCEPT ![t] = r]
  OBVIOUS
<1>5. r.pc = "execute" /\ r.call = req[t].call /\ r.row = req[t].row /\ r.node = target
  BY <1>1 DEF RequestState
<1>6. req[t].row \in DOMAIN sessions[req[t].call]
  BY DEF IInv, KnowsItsRow
<1> HIDE DEF r
<1>7. QED
  BY <1>3, <1>4, <1>5, <1>6, EnterStep

LEMMA ExecuteStep ==
  ASSUME IInv, NEW t \in Threads, Execute(t)
  PROVE  IInv'
<1> DEFINE node == req[t].node
           hop(target) == req' = [req EXCEPT ![t] = [@ EXCEPT !.node = target, !.hops = req[t].hops + 1]]
<1>1. /\ req[t].pc = "execute" /\ UNCHANGED sessions
      /\ executed' = [executed EXCEPT ![req[t].call] = @ \cup {node}]
  BY DEF Execute
<1>2. /\ Grows /\ RestsWhereItStops'
      /\ node \in executed'[req[t].call] /\ node \in Nodes
  BY <1>1, ExecutedGrows DEF IInv, KnowsItsNode
<1>3. CASE LimitIsReached(req[t].hops)
  <2>1. Reply(t, "error") /\ "error" \in Replies
    BY <1>3 DEF Execute, RunIntoLimit, Replies
  <2>2. QED
    BY <1>1, <1>2, <2>1, ReplyStep
<1>4. CASE ~LimitIsReached(req[t].hops) /\ NodeType[node] = "goto"
  <2>1. AutoResults(node) = {}
    BY <1>4 DEF AutoResults
  <2>2. CASE GotoTarget[node] \in Nodes
    <3>1. hop(GotoTarget[node])
      BY <1>4, <2>1, <2>2 DEF Execute
    <3>2. QED
      BY <1>1, <1>2, <1>4, <2>2, <3>1, HopStep
  <2>3. CASE GotoTarget[node] \notin Nodes
    <3>1. Reply(t, "error") /\ "error" \in Replies
      BY <1>4, <2>1, <2>3 DEF Execute, Replies
    <3>2. QED
      BY <1>1, <1>2, <3>1, ReplyStep
  <2>4. QED
    BY <2>2, <2>3
<1>5. CASE ~LimitIsReached(req[t].hops) /\ NodeType[node] # "goto" /\ AutoResults(node) # {}
  <2>1. PICK result \in AutoResults(node), holds \in SUBSET VariableTests :
          LET e == ResolveNextEdge(Edges, node, result, None, holds)
          IN  IF e = NoEdge THEN Goto(t, "commit") ELSE hop(e.target)
    BY <1>5 DEF Execute
  <2> DEFINE e == ResolveNextEdge(Edges, node, result, None, holds)
  <2>2. CASE e = NoEdge
    <3>1. Goto(t, "commit")
      BY <2>1, <2>2
    <3>2. StopsAt(node)
      BY <1>5, <2>2 DEF StopsAt
    <3>3. QED
      BY <1>1, <1>2, <3>1, <3>2, SettleStep
  <2>3. CASE e # NoEdge
    <3>1. hop(e.target) /\ e.target \in Nodes
      BY <2>1, <2>3, EdgeLeadsToNode
    <3> HIDE DEF e
    <3>2. QED
      BY <1>1, <1>2, <1>5, <3>1, HopStep
  <2>4. QED
    BY <2>2, <2>3
<1>6. CASE ~LimitIsReached(req[t].hops) /\ NodeType[node] # "goto" /\ AutoResults(node) = {}
  <2>1. Goto(t, "commit")
    BY <1>6 DEF Execute
  <2>2. StopsAt(node)
    BY <1>6 DEF StopsAt, IsAuto
  <2>3. QED
    BY <1>1, <1>2, <2>1, <2>2, SettleStep
<1>7. QED
  BY <1>3, <1>4, <1>5, <1>6

LEMMA ActionIsReply == ASSUME NEW n PROVE ActionOf(n) \in Replies
  BY DEF ActionOf, Replies

LEMMA CommitPositionStep ==
  ASSUME IInv, NEW t \in Threads, CommitPosition(t)
  PROVE  IInv'
<1> DEFINE c == req[t].call
           i == req[t].row
           n == req[t].node
<1>1. /\ req[t].pc = "commit" /\ c \in Calls /\ i \in DOMAIN sessions[c]
      /\ n \in Nodes /\ n \in executed[c] /\ StopsAt(n)
  BY DEF CommitPosition, IInv, KnowsItsRow, KnowsItsNode
<1>2. sessions[c] \in Seq(Nodes)
  BY <1>1 DEF IInv, TypeOK
<1> DEFINE new == [sessions[c] EXCEPT ![i] = n]
<1>3. /\ new \in Seq(Nodes) /\ DOMAIN new = DOMAIN sessions[c]
      /\ new[i] = n
      /\ \A j \in DOMAIN sessions[c] \ {i} : new[j] = sessions[c][j]
  BY <1>1, <1>2
<1>4. sessions' = [sessions EXCEPT ![c] = new]
  BY DEF CommitPosition
<1> HIDE DEF new
<1>5. /\ sessions' \in [Calls -> Seq(Nodes)] /\ sessions'[c] = new
      /\ \A d \in Calls \ {c} : sessions'[d] = sessions[d]
  BY <1>1, <1>3, <1>4 DEF IInv, TypeOK
<1>6. Grows
  <2>1. \A d \in Calls : DOMAIN sessions'[d] = DOMAIN sessions[d]
    BY <1>3, <1>5
  <2>2. QED
    BY <1>5, <2>1 DEF Grows, CommitPosition, IInv, TypeOK
<1>7. RestsWhereItStops'
  <2> SUFFICES ASSUME NEW d \in Calls, NEW j \in DOMAIN sessions'[d],
                      sessions'[d][j] # Start
               PROVE  sessions'[d][j] \in executed[d] /\ StopsAt(sessions'[d][j])
    BY DEF RestsWhereItStops, CommitPosition, StopsAt, IsAuto
  <2>1. CASE d = c /\ j = i
    BY <1>1, <1>3, <1>5, <2>1
  <2>2. CASE ~(d = c /\ j = i)
    <3>1. j \in DOMAIN sessions[d] /\ sessions'[d][j] = sessions[d][j]
      BY <1>3, <1>5, <2>2
    <3>2. QED
      BY <3>1 DEF IInv, RestsWhereItStops
  <2>3. QED
    BY <2>1, <2>2
<1>8. QED
  BY <1>1, <1>6, <1>7, ActionIsReply, ReplyStep DEF CommitPosition

-----------------------------------------------------------------------------
LEMMA InitIsFine == Init => IInv
<1> SUFFICES ASSUME Init PROVE IInv
  OBVIOUS
<1>1. TypeOK
  <2>1. Idle \in RequestState
    BY FlowIsValid DEF Idle, RequestState
  <2>2. <<>> \in Seq(Nodes)
    OBVIOUS
  <2>3. QED
    BY <2>1, <2>2 DEF Init, TypeOK
<1>2. RestsWhereItStops
  BY DEF Init, RestsWhereItStops
<1>3. \A t \in Threads : req[t].pc = "idle"
  BY DEF Init, Idle
<1>4. QED
  BY <1>1, <1>2, <1>3 DEF IInv, KnowsItsRow, KnowsItsNode

LEMMA StepIsFine == IInv /\ [Next]_runtimeVars => IInv'
<1> SUFFICES ASSUME IInv, [Next]_runtimeVars PROVE IInv'
  OBVIOUS
<1>1. ASSUME NEW t \in Threads, Serve(t)
      PROVE  IInv'
  <2>1. CASE FindSession(t)
    BY <2>1, FindSessionStep
  <2>2. CASE CreateSession(t)
    BY <2>2, CreateSessionStep
  <2>3. CASE EnterSession(t)
    BY <2>3, EnterSessionStep
  <2>4. CASE Execute(t)
    BY <2>4, ExecuteStep
  <2>5. CASE ExecuteFails(t)
    BY <2>5, ReplyStep, NoChange DEF ExecuteFails, Replies
  <2>6. CASE CommitPosition(t)
    BY <2>6, CommitPositionStep
  <2>7. QED
    BY <1>1, <2>1, <2>2, <2>3, <2>4, <2>5, <2>6 DEF Serve
<1>2. CASE UNCHANGED runtimeVars
  <2>1. TypeOK' /\ RestsWhereItStops'
    BY <1>2 DEF runtimeVars, IInv, TypeOK, RestsWhereItStops
  <2>2. \A t \in Threads : KnowsItsRow(t)' /\ KnowsItsNode(t)'
    BY <1>2 DEF runtimeVars, IInv, KnowsItsRow, KnowsItsNode
  <2>3. QED
    BY <2>1, <2>2 DEF IInv
<1>3. QED
  BY <1>1, <1>2, AcceptStep, FinishStep DEF Next

LEMMA Invariance == Spec => []IInv
  BY InitIsFine, StepIsFine, PTL DEF Spec

(* The types, and with them that a request never makes more hops than       *)
(* allowed and answers with an action the client knows.                     *)
THEOREM RuntimeTypeIsCorrect == Spec => []TypeOK
<1>1. IInv => TypeOK
  BY DEF IInv
<1>2. QED
  BY <1>1, Invariance, PTL

(* A session rests at its start or at a node that was executed and where    *)
(* the server has to stop, whatever requests for the call ran at once.      *)
THEOREM SessionsRest == Spec => []RestsWhereItStops
<1>1. IInv => RestsWhereItStops
  BY DEF IInv
<1>2. QED
  BY <1>1, Invariance, PTL
=============================================================================
