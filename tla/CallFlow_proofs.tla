---------------------------- MODULE CallFlow_proofs ----------------------------
(***************************************************************************)
(* Theorems about CallFlow, for every flow, any number of calls, and any    *)
(* number of steps.  What FlowRuntime_proofs shows of the server for any    *)
(* client is taken over: a handler is one.                                  *)
(***************************************************************************)
EXTENDS CallFlow, TLAPS

R ==
  INSTANCE FlowRuntime_proofs
    WITH Threads <- Calls, Claims <- {None},
         From <- None, Pool <- {}, Results <- {}, table <- {}, input <- <<>>

-----------------------------------------------------------------------------
(* The actions of the runtime are those its theorems are about.             *)
LEMMA SameEdge ==
  ASSUME NEW e, NEW n, NEW r, NEW v, NEW h
  PROVE  Runtime!ResolveNextEdge(e, n, r, v, h) = R!ResolveNextEdge(e, n, r, v, h)
<1>1. Runtime!TypedConditions = R!TypedConditions
  BY DEF Runtime!TypedConditions, R!TypedConditions
<1>2. \A x : Runtime!Meets(x, r, v, h) = R!Meets(x, r, v, h)
  BY <1>1 DEF Runtime!Meets, R!Meets
<1>3. \A s, x : Runtime!OfCondition(s, x) = R!OfCondition(s, x)
  BY DEF Runtime!OfCondition, R!OfCondition
<1>4. \A s : Runtime!Candidates(s, r, v, h) = R!Candidates(s, r, v, h)
  BY <1>2, <1>3 DEF Runtime!Candidates, R!Candidates
<1>5. \A d, x : Runtime!Before(d, x) = R!Before(d, x)
  BY DEF Runtime!Before, R!Before
<1>6. \A s : Runtime!First(s) = R!First(s)
  BY <1>5 DEF Runtime!First, R!First
<1>7. QED
  BY <1>4, <1>6
  DEF Runtime!ResolveNextEdge, R!ResolveNextEdge, Runtime!NoEdge, R!NoEdge

LEMMA SameActions ==
  ASSUME NEW n
  PROVE  Runtime!AutoResults(n) = R!AutoResults(n) /\ Runtime!ActionOf(n) = R!ActionOf(n)
  BY DEF Runtime!AutoResults, R!AutoResults, Runtime!ActionOf, R!ActionOf

LEMMA SameFollow ==
  ASSUME NEW c, NEW i, NEW n
  PROVE  Runtime!FollowEdge(c, i, n) <=> R!FollowEdge(c, i, n)
  BY SameEdge
  DEF Runtime!FollowEdge, R!FollowEdge, Runtime!NoEdge, R!NoEdge, Runtime!Reply, R!Reply

LEMMA SameServe ==
  ASSUME NEW c
  PROVE  Runtime!Serve(c) <=> R!Serve(c)
<1>1. Runtime!FindSession(c) <=> R!FindSession(c)
  BY SameFollow
  DEF Runtime!FindSession, R!FindSession, Runtime!CurrentNode, R!CurrentNode,
      Runtime!Goto, R!Goto, Runtime!Reply, R!Reply
<1>2. Runtime!CreateSession(c) <=> R!CreateSession(c)
  BY DEF Runtime!CreateSession, R!CreateSession
<1>3. Runtime!EnterSession(c) <=> R!EnterSession(c)
  BY SameFollow
  DEF Runtime!EnterSession, R!EnterSession, Runtime!CurrentNode, R!CurrentNode,
      Runtime!Reply, R!Reply
<1>4. Runtime!Execute(c) <=> R!Execute(c)
  BY SameEdge, SameActions
  DEF Runtime!Execute, R!Execute, Runtime!LimitIsReached, R!LimitIsReached,
      Runtime!RunIntoLimit, R!RunIntoLimit, Runtime!NoEdge, R!NoEdge,
      Runtime!Goto, R!Goto, Runtime!Reply, R!Reply
<1>5. Runtime!ExecuteFails(c) <=> R!ExecuteFails(c)
  BY DEF Runtime!ExecuteFails, R!ExecuteFails, Runtime!Reply, R!Reply
<1>6. Runtime!CommitPosition(c) <=> R!CommitPosition(c)
  BY SameActions
  DEF Runtime!CommitPosition, R!CommitPosition, Runtime!Reply, R!Reply
<1>7. QED
  BY <1>1, <1>2, <1>3, <1>4, <1>5, <1>6 DEF Runtime!Serve, R!Serve

LEMMA SameClient ==
  ASSUME NEW c, NEW result, NEW value
  PROVE  /\ Runtime!Accept(c, c, result, value, None) <=> R!Accept(c, c, result, value, None)
         /\ Runtime!Finish(c) <=> R!Finish(c)
  BY DEF Runtime!Accept, R!Accept, Runtime!Finish, R!Finish, Runtime!Idle, R!Idle

LEMMA SameState ==
  /\ Runtime!Init <=> R!Init
  /\ Runtime!TypeOK <=> R!TypeOK
  /\ Runtime!Replies = R!Replies
  BY DEF Runtime!Init, R!Init, Runtime!Idle, R!Idle, Runtime!TypeOK, R!TypeOK,
         Runtime!RequestState, R!RequestState, Runtime!Replies, R!Replies

(* What those theorems assume.                                              *)
LEMMA FlowIsValidThere ==
  /\ Start \in Nodes
  /\ R!AreRows(Edges)
  /\ \A e \in Edges : e.source \in Nodes /\ e.target \in Nodes
  /\ Failing \subseteq Nodes
  /\ MaxHops \in Nat \ {0}
  /\ None \notin Nodes
  /\ R!AreRows({})
<1>1. Runtime!AreRows(Edges) <=> R!AreRows(Edges)
  BY DEF Runtime!AreRows, R!AreRows, Runtime!LeastPriority, R!LeastPriority
<1>2. R!AreRows({})
  BY DEF R!AreRows
<1>3. QED
  BY <1>1, <1>2, FlowIsValid DEF Runtime!FlowIsValid

-----------------------------------------------------------------------------
(* What is known of a call: its thread serves no other; it has one session  *)
(* row at most; an answer, and the action taken from it, is of the node the *)
(* row is at; and there is no question while the handler has none open.     *)
AtNode(c, action) ==
  \E n \in Nodes : /\ sessions[c] = <<n>>
                   /\ n \in executed[c]
                   /\ action = R!ActionOf(n)

ServesIt(c) == req[c].pc # "idle" => req[c].call = c

OneRow(c) ==
  /\ sessions[c] = <<>> \/ \E n \in Nodes : sessions[c] = <<n>>
  /\ req[c].pc = "create" => sessions[c] = <<>>

AnswerIsOfNode(c) ==
  c \notin Skipped /\ req[c].pc = "reply" /\ req[c].reply # "error"
    => AtNode(c, req[c].reply)

ActionIsOfNode(c) ==
  c \notin Skipped /\ agi[c].pc = "act" => AtNode(c, agi[c].action)

NoQuestion(c) == agi[c].pc \in {"new", "ask", "act"} => req[c].pc = "idle"

ReportIsOne(c) == <<agi[c].result, agi[c].value>> \in Reports

StepsLeft(c) == agi[c].pc \in {"wait", "act"} => agi[c].steps < MaxSteps

CallInv(c) ==
  /\ ServesIt(c)
  /\ OneRow(c)
  /\ AnswerIsOfNode(c)
  /\ ActionIsOfNode(c)
  /\ NoQuestion(c)
  /\ ReportIsOne(c)
  /\ StepsLeft(c)

IInv ==
  /\ R!IInv
  /\ agi \in [Calls -> HandlerState]
  /\ \A c \in Calls : CallInv(c)

-----------------------------------------------------------------------------
(* The server's part of a step of call c: nothing of another call changes,  *)
(* and of call c what the alternatives say.                                 *)
OnlyOf(c) ==
  \A d \in Calls \ {c} : /\ req'[d] = req[d]
                         /\ sessions'[d] = sessions[d]
                         /\ executed'[d] = executed[d]

Goes(c) ==
  /\ sessions'[c] = sessions[c]
  /\ req'[c].pc = "create" => sessions[c] = <<>>
  /\ req'[c].pc = "reply" => req'[c].reply = "error"

Settles(c) ==
  \E n \in Nodes : /\ sessions'[c] = <<n>>
                   /\ n \in executed'[c]
                   /\ req'[c].pc = "reply"
                   /\ req'[c].reply = R!ActionOf(n)

LEMMA FieldsOf ==
  ASSUME R!IInv, NEW c \in Calls
  PROVE  /\ req \in [Calls -> R!RequestState] /\ req[c] \in R!RequestState
         /\ sessions \in [Calls -> Seq(Nodes)]
         /\ executed \in [Calls -> SUBSET Nodes]
  BY DEF R!IInv, R!TypeOK

LEMMA ReplyEffect ==
  ASSUME R!IInv, NEW c \in Calls, NEW reply, R!Reply(c, reply)
  PROVE  /\ req'[c].pc = "reply" /\ req'[c].reply = reply /\ req'[c].call = req[c].call
         /\ \A d \in Calls \ {c} : req'[d] = req[d]
  BY FieldsOf DEF R!Reply, R!RequestState

LEMMA FollowEffect ==
  ASSUME R!IInv, NEW c \in Calls, NEW i, NEW n, R!FollowEdge(c, i, n)
  PROVE  /\ req'[c].pc \in {"reply", "execute"} /\ req'[c].call = req[c].call
         /\ req'[c].pc = "reply" => req'[c].reply = "error"
         /\ \A d \in Calls \ {c} : req'[d] = req[d]
<1>1. CASE R!Reply(c, "error")
  BY <1>1, ReplyEffect
<1>2. CASE \E e : req' = [req EXCEPT ![c] = [@ EXCEPT !.pc = "execute", !.row = i,
                                                      !.node = e.target]]
  BY <1>2, FieldsOf DEF R!RequestState
<1>3. QED
  BY <1>1, <1>2 DEF R!FollowEdge

(* One step of the server for call c.                                       *)
LEMMA ServeEffect ==
  ASSUME R!IInv, NEW c \in Calls, ServesIt(c), OneRow(c), R!Serve(c)
  PROVE  /\ OnlyOf(c)
         /\ req[c].pc # "idle" /\ req'[c].call = c
         /\ Goes(c) \/ Settles(c) \/ \E n \in Nodes : sessions'[c] = <<n>> /\ req'[c].pc = "enter"
<1>0. /\ req \in [Calls -> R!RequestState] /\ req[c] \in R!RequestState
      /\ sessions \in [Calls -> Seq(Nodes)]
      /\ executed \in [Calls -> SUBSET Nodes]
  BY FieldsOf
<1> USE <1>0
<1>1. CASE R!FindSession(c)
  <2>1. req[c].pc = "find" /\ req[c].call = c /\ UNCHANGED <<sessions, executed>>
    BY <1>1 DEF R!FindSession, ServesIt
  <2>2. CASE sessions[c] = <<>> /\ R!Goto(c, "create")
    <3>1. /\ req'[c].pc = "create" /\ req'[c].call = c
          /\ \A d \in Calls \ {c} : req'[d] = req[d]
      BY <2>1, <2>2 DEF R!Goto, R!RequestState
    <3>2. QED
      BY <2>1, <2>2, <3>1 DEF OnlyOf, Goes
  <2>3. CASE R!Reply(c, "error")
    BY <2>1, <2>3, ReplyEffect DEF OnlyOf, Goes
  <2>4. CASE \E i, n : R!FollowEdge(c, i, n)
    BY <2>1, <2>4, FollowEffect DEF OnlyOf, Goes
  <2>5. QED
    BY <1>1, <2>1, <2>2, <2>3, <2>4 DEF R!FindSession
<1>2. CASE R!CreateSession(c)
  <2>1. req[c].pc = "create" /\ req[c].call = c /\ sessions[c] = <<>>
    BY <1>2 DEF R!CreateSession, ServesIt, OneRow
  <2>2. sessions' = [sessions EXCEPT ![c] = Append(@, Start)] /\ UNCHANGED executed
    BY <1>2, <2>1 DEF R!CreateSession
  <2>3. Start \in Nodes
    BY FlowIsValid DEF Runtime!FlowIsValid
  <2>4. sessions'[c] = <<Start>> /\ \A d \in Calls \ {c} : sessions'[d] = sessions[d]
    BY <2>1, <2>2
  <2>5. /\ req'[c].pc = "enter" /\ req'[c].call = c
        /\ \A d \in Calls \ {c} : req'[d] = req[d]
    BY <1>2, <2>1 DEF R!CreateSession, R!RequestState
  <2>6. QED
    BY <2>1, <2>2, <2>3, <2>4, <2>5 DEF OnlyOf
<1>3. CASE R!EnterSession(c)
  <2>1. req[c].pc = "enter" /\ req[c].call = c /\ UNCHANGED <<sessions, executed>>
    BY <1>3 DEF R!EnterSession, ServesIt
  <2>2. CASE R!Reply(c, "error")
    BY <2>1, <2>2, ReplyEffect DEF OnlyOf, Goes
  <2>3. CASE \E n : req' = [req EXCEPT ![c] = [@ EXCEPT !.pc = "execute", !.node = n]]
    <3>1. /\ req'[c].pc = "execute" /\ req'[c].call = c
          /\ \A d \in Calls \ {c} : req'[d] = req[d]
      BY <2>1, <2>3 DEF R!RequestState
    <3>2. QED
      BY <2>1, <3>1 DEF OnlyOf, Goes
  <2>4. CASE \E i, n : R!FollowEdge(c, i, n)
    BY <2>1, <2>4, FollowEffect DEF OnlyOf, Goes
  <2>5. QED
    BY <1>3, <2>2, <2>3, <2>4 DEF R!EnterSession
<1>4. CASE R!Execute(c)
  <2>1. /\ req[c].pc = "execute" /\ req[c].call = c /\ UNCHANGED sessions
        /\ executed' = [executed EXCEPT ![c] = @ \cup {req[c].node}]
    BY <1>4 DEF R!Execute, ServesIt
  <2>2. \A d \in Calls \ {c} : executed'[d] = executed[d]
    BY <2>1
  <2>3. CASE R!Reply(c, "error")
    BY <2>1, <2>2, <2>3, ReplyEffect DEF OnlyOf, Goes
  <2>4. CASE R!Goto(c, "commit")
    <3>1. /\ req'[c].pc = "commit" /\ req'[c].call = c
          /\ \A d \in Calls \ {c} : req'[d] = req[d]
      BY <2>1, <2>4 DEF R!Goto, R!RequestState
    <3>2. QED
      BY <2>1, <2>2, <3>1 DEF OnlyOf, Goes
  <2>5. CASE \E n : req' = [req EXCEPT ![c] = [@ EXCEPT !.node = n, !.hops = req[c].hops + 1]]
    <3>1. /\ req'[c].pc = "execute" /\ req'[c].call = c
          /\ \A d \in Calls \ {c} : req'[d] = req[d]
      BY <2>1, <2>5 DEF R!RequestState
    <3>2. QED
      BY <2>1, <2>2, <3>1 DEF OnlyOf, Goes
  <2>6. QED
    <3> DEFINE node == req[c].node
               hop(target) == req' = [req EXCEPT ![c] = [@ EXCEPT !.node = target, !.hops = req[c].hops + 1]]
    <3>1. CASE R!LimitIsReached(req[c].hops)
      BY <1>4, <2>3, <3>1 DEF R!Execute, R!RunIntoLimit
    <3>2. CASE ~R!LimitIsReached(req[c].hops) /\ NodeType[node] = "goto"
      <4>1. R!AutoResults(node) = {}
        BY <3>2 DEF R!AutoResults
      <4>2. hop(GotoTarget[node]) \/ R!Reply(c, "error")
        BY <1>4, <3>2, <4>1 DEF R!Execute
      <4>3. QED
        BY <2>3, <2>5, <4>2
    <3>3. CASE ~R!LimitIsReached(req[c].hops) /\ NodeType[node] # "goto" /\ R!AutoResults(node) # {}
      <4>1. R!Goto(c, "commit") \/ \E e : hop(e.target)
        BY <1>4, <3>3 DEF R!Execute
      <4>2. QED
        BY <2>4, <2>5, <4>1
    <3>4. CASE ~R!LimitIsReached(req[c].hops) /\ NodeType[node] # "goto" /\ R!AutoResults(node) = {}
      BY <1>4, <2>4, <3>4 DEF R!Execute
    <3>5. QED
      BY <3>1, <3>2, <3>3, <3>4
<1>5. CASE R!ExecuteFails(c)
  <2>1. req[c].pc = "execute" /\ req[c].call = c /\ UNCHANGED <<sessions, executed>>
    BY <1>5 DEF R!ExecuteFails, ServesIt
  <2>2. QED
    BY <1>5, <2>1, ReplyEffect DEF R!ExecuteFails, OnlyOf, Goes
<1>6. CASE R!CommitPosition(c)
  <2> DEFINE n == req[c].node
  <2>1. /\ req[c].pc = "commit" /\ req[c].call = c /\ UNCHANGED executed
        /\ sessions' = [sessions EXCEPT ![c] = [@ EXCEPT ![req[c].row] = n]]
        /\ R!Reply(c, R!ActionOf(n))
    BY <1>6 DEF R!CommitPosition, ServesIt
  <2>2. req[c].row \in DOMAIN sessions[c] /\ n \in Nodes /\ n \in executed[c]
    BY <2>1 DEF R!IInv, R!KnowsItsRow, R!KnowsItsNode
  <2>3. PICK m \in Nodes : sessions[c] = <<m>>
    BY <2>2 DEF OneRow
  <2>4. req[c].row = 1
    BY <2>2, <2>3
  <2>5. sessions'[c] = <<n>> /\ \A d \in Calls \ {c} : sessions'[d] = sessions[d]
    BY <2>1, <2>3, <2>4
  <2>6. QED
    BY <2>1, <2>2, <2>5, ReplyEffect DEF OnlyOf, Settles
<1>7. QED
  BY <1>1, <1>2, <1>3, <1>4, <1>5, <1>6 DEF R!Serve

-----------------------------------------------------------------------------
(* A step of call c that leaves c with what is to be known preserves IInv.  *)
LEMMA CallStep ==
  ASSUME IInv, NEW c \in Calls, NEW h \in HandlerState,
         agi' = [agi EXCEPT ![c] = h], R!IInv', OnlyOf(c), CallInv(c)'
  PROVE  IInv'
<1>1. agi' \in [Calls -> HandlerState]
  BY DEF IInv
<1>2. ASSUME NEW d \in Calls PROVE CallInv(d)'
  <2>1. CASE d = c
    BY <2>1
  <2>2. CASE d # c
    <3>1. /\ req'[d] = req[d] /\ sessions'[d] = sessions[d]
          /\ executed'[d] = executed[d] /\ agi'[d] = agi[d]
      BY <2>2 DEF OnlyOf, IInv
    <3>2. CallInv(d)
      BY DEF IInv
    <3>3. ServesIt(d)' /\ OneRow(d)' /\ NoQuestion(d)' /\ StepsLeft(d)' /\ ReportIsOne(d)'
      BY <3>1, <3>2
      DEF CallInv, ServesIt, OneRow, NoQuestion, StepsLeft, ReportIsOne
    <3>4. \A a : AtNode(d, a) => \E n \in Nodes : sessions'[d] = <<n>> /\ n \in executed'[d] /\ a = R!ActionOf(n)
      BY <3>1 DEF AtNode
    <3>5. AnswerIsOfNode(d)' /\ ActionIsOfNode(d)'
      BY <3>1, <3>2, <3>4 DEF CallInv, AnswerIsOfNode, ActionIsOfNode, AtNode, R!ActionOf
    <3>7. QED
      BY <3>3, <3>5 DEF CallInv
  <2>3. QED
    BY <2>1, <2>2
<1>3. QED
  BY <1>1, <1>2 DEF IInv

(* What the runtime keeps for any client it keeps for these.                *)
LEMMA RuntimeKeeps ==
  ASSUME IInv, NEW c \in Calls
  PROVE  /\ UNCHANGED <<sessions, executed, req>> => R!IInv'
         /\ Runtime!Serve(c) => R!IInv'
         /\ Runtime!Finish(c) => R!IInv'
         /\ Runtime!Accept(c, c, agi[c].result, agi[c].value, None) => R!IInv'
<1>1. R!IInv
  BY DEF IInv
<1>2. ASSUME UNCHANGED <<sessions, executed, req>> PROVE R!IInv'
  <2>1. [R!Next]_(R!runtimeVars)
    BY <1>2 DEF R!runtimeVars
  <2>2. QED
    BY <1>1, <2>1, R!StepIsFine, FlowIsValidThere
<1>3. ASSUME Runtime!Serve(c) \/ Runtime!Finish(c) PROVE R!IInv'
  <2>1. R!Serve(c) \/ R!Finish(c)
    BY <1>3, SameServe, SameClient
  <2>2. R!Next
    BY <2>1 DEF R!Next
  <2>3. QED
    BY <1>1, <2>2, R!StepIsFine, FlowIsValidThere
<1>4. ASSUME Runtime!Accept(c, c, agi[c].result, agi[c].value, None) PROVE R!IInv'
  <2> DEFINE report == <<agi[c].result, agi[c].value>>
  <2>1. report \in Reports
    BY DEF IInv, CallInv, ReportIsOne
  <2>2. R!Accept(c, c, report[1], report[2], None)
    BY <1>4, SameClient
  <2>3. R!Next
    BY <2>1, <2>2 DEF R!Next
  <2>4. QED
    BY <1>1, <2>3, R!StepIsFine, FlowIsValidThere
<1>5. QED
  BY <1>2, <1>3, <1>4

-----------------------------------------------------------------------------
(* A step of the handler alone, after which it does not act.                *)
LEMMA HandlerStep ==
  ASSUME IInv, NEW c \in Calls, NEW h \in HandlerState,
         agi' = [agi EXCEPT ![c] = h], UNCHANGED <<sessions, executed, req>>,
         <<h.result, h.value>> \in Reports,
         h.pc \in {"ask", "done"}, h.pc = "ask" => req[c].pc = "idle"
  PROVE  IInv'
<1>1. R!IInv'
  BY RuntimeKeeps
<1>2. agi'[c] = h /\ CallInv(c)
  BY DEF IInv
<1>3. OnlyOf(c)
  BY DEF OnlyOf
<1>4. ServesIt(c)' /\ OneRow(c)' /\ AnswerIsOfNode(c)'
  BY <1>2 DEF CallInv, ServesIt, OneRow, AnswerIsOfNode, AtNode, R!ActionOf
<1>5. ActionIsOfNode(c)' /\ NoQuestion(c)' /\ ReportIsOne(c)' /\ StepsLeft(c)'
  BY <1>2 DEF ActionIsOfNode, NoQuestion, ReportIsOne, StepsLeft
<1>6. QED
  BY <1>1, <1>3, <1>4, <1>5, CallStep DEF CallInv

LEMMA WaitingIsState ==
  /\ Waiting \in HandlerState
  /\ [Waiting EXCEPT !.pc = "done"] \in HandlerState
  /\ <<None, None>> \in Reports
<1>1. 0 \in 0 .. MaxSteps
  BY StepsAreNat
<1>2. <<None, None>> \in Reports
  BY DEF Reports
<1>3. /\ None \in {r[1] : r \in Reports} /\ None \in {r[2] : r \in Reports}
  BY <1>2
<1>4. QED
  BY <1>1, <1>2, <1>3 DEF Waiting, HandlerState

LEMMA EndStep ==
  ASSUME IInv, NEW c \in Calls, End(c), UNCHANGED <<sessions, executed, req>>
  PROVE  IInv'
<1> DEFINE h == [Waiting EXCEPT !.pc = "done"]
<1>1. h \in HandlerState /\ <<h.result, h.value>> \in Reports /\ h.pc = "done"
  BY WaitingIsState DEF Waiting
<1>2. agi' = [agi EXCEPT ![c] = h]
  BY DEF End
<1>3. QED
  BY <1>1, <1>2, HandlerStep

LEMMA ConnectStep ==
  ASSUME IInv, NEW c \in Calls, Connect(c)
  PROVE  IInv'
<1>1. CASE End(c)
  BY <1>1, EndStep DEF Connect
<1>2. CASE agi' = [agi EXCEPT ![c].pc = "ask"]
  <2> DEFINE h == [agi[c] EXCEPT !.pc = "ask"]
  <2>1. agi[c] \in HandlerState /\ agi[c].pc = "new" /\ CallInv(c)
    BY DEF IInv, Connect
  <2>2. h \in HandlerState
    BY <2>1 DEF HandlerState
  <2>3. h.pc = "ask" /\ h.result = agi[c].result /\ h.value = agi[c].value
    BY <2>1 DEF HandlerState
  <2>4. req[c].pc = "idle" /\ <<h.result, h.value>> \in Reports
    BY <2>1, <2>3 DEF CallInv, NoQuestion, ReportIsOne
  <2>5. QED
    BY <1>2, <2>2, <2>3, <2>4, HandlerStep DEF Connect
<1>3. QED
  BY <1>1, <1>2 DEF Connect

LEMMA OutcomeIsReport ==
  ASSUME NEW a, NEW r \in Outcomes(a)
  PROVE  r \in Reports /\ r = <<r[1], r[2]>>
<1>1. CASE a = "collect_dtmf"
  BY <1>1 DEF Outcomes, Reports
<1>2. CASE a = "transfer_call"
  BY <1>2 DEF Outcomes, Reports
<1>3. CASE a # "collect_dtmf" /\ a # "transfer_call"
  BY <1>3 DEF Outcomes, Reports
<1>4. QED
  BY <1>1, <1>2, <1>3

LEMMA PerformStep ==
  ASSUME IInv, NEW c \in Calls, Perform(c)
  PROVE  IInv'
<1>1. PICK r \in Outcomes(agi[c].action) :
        agi' = [agi EXCEPT ![c] = [@ EXCEPT !.pc = "ask", !.steps = agi[c].steps + 1,
                                            !.result = r[1], !.value = r[2],
                                            !.action = None]]
  BY DEF Perform
<1> DEFINE h == [agi[c] EXCEPT !.pc = "ask", !.steps = agi[c].steps + 1,
                               !.result = r[1], !.value = r[2], !.action = None]
<1>2. agi[c] \in HandlerState /\ agi[c].pc = "act" /\ CallInv(c)
  BY DEF IInv, Perform
<1>3. agi[c].steps + 1 \in 0 .. MaxSteps
  BY <1>2, StepsAreNat DEF CallInv, StepsLeft, HandlerState
<1>4. r \in Reports /\ r = <<r[1], r[2]>>
  BY OutcomeIsReport
<1>5. r[1] \in {q[1] : q \in Reports} /\ r[2] \in {q[2] : q \in Reports}
  BY <1>4
<1>6. h \in HandlerState
  BY <1>2, <1>3, <1>5 DEF HandlerState
<1>7. h.pc = "ask" /\ h.result = r[1] /\ h.value = r[2]
  BY <1>2 DEF HandlerState
<1>8. req[c].pc = "idle"
  BY <1>2 DEF CallInv, NoQuestion
<1>9. agi' = [agi EXCEPT ![c] = h] /\ UNCHANGED <<sessions, executed, req>>
  BY <1>1 DEF Perform
<1> HIDE DEF h
<1>10. <<h.result, h.value>> \in Reports
  BY <1>4, <1>7
<1>11. QED
  BY <1>6, <1>7, <1>8, <1>9, <1>10, HandlerStep

-----------------------------------------------------------------------------
LEMMA AskStep ==
  ASSUME IInv, NEW c \in Calls, Ask(c)
  PROVE  IInv'
<1>1. CASE agi[c].steps = MaxSteps
  BY <1>1, EndStep DEF Ask
<1>2. CASE agi[c].steps # MaxSteps
  <2> DEFINE h == [agi[c] EXCEPT !.pc = "wait"]
  <2>1. agi[c] \in HandlerState /\ CallInv(c) /\ R!IInv
    BY DEF IInv
  <2>2. /\ Runtime!Accept(c, c, agi[c].result, agi[c].value, None)
        /\ agi' = [agi EXCEPT ![c] = h]
    BY <1>2 DEF Ask
  <2>3. R!IInv'
    BY <2>2, RuntimeKeeps
  <2>4. h \in HandlerState
    BY <2>1 DEF HandlerState
  <2>5. /\ h.pc = "wait" /\ h.result = agi[c].result /\ h.value = agi[c].value
        /\ h.steps = agi[c].steps
    BY <2>1 DEF HandlerState
  <2>6. agi'[c] = h
    BY <2>2 DEF IInv
  <2>7. R!Accept(c, c, agi[c].result, agi[c].value, None)
    BY <2>2, SameClient
  <2>8. /\ req'[c].call = c /\ req'[c].pc \in {"find", "reply"}
        /\ req'[c].pc = "reply" => c \in Skipped
        /\ OnlyOf(c) /\ UNCHANGED <<sessions, executed>>
    <3>1. req \in [Calls -> R!RequestState]
      BY <2>1, FieldsOf
    <3>2. QED
      BY <2>7, <3>1 DEF R!Accept, R!Idle, OnlyOf
  <2> HIDE DEF h
  <2>9. ServesIt(c)' /\ OneRow(c)' /\ AnswerIsOfNode(c)'
    BY <2>1, <2>8 DEF CallInv, ServesIt, OneRow, AnswerIsOfNode
  <2>10. StepsLeft(c)'
    BY <1>2, <2>1, <2>5, <2>6, StepsAreNat DEF StepsLeft, HandlerState
  <2>11. ActionIsOfNode(c)' /\ NoQuestion(c)' /\ ReportIsOne(c)'
    BY <2>1, <2>5, <2>6 DEF CallInv, ActionIsOfNode, NoQuestion, ReportIsOne
  <2>12. QED
    BY <2>2, <2>3, <2>4, <2>8, <2>9, <2>10, <2>11, CallStep DEF CallInv
<1>3. QED
  BY <1>1, <1>2

(* The server's thread ends.                                                *)
LEMMA FinishEffect ==
  ASSUME R!IInv, NEW c \in Calls, Runtime!Finish(c)
  PROVE  /\ OnlyOf(c) /\ req'[c].pc = "idle" /\ UNCHANGED <<sessions, executed>>
         /\ OneRow(c) => OneRow(c)'
         /\ ServesIt(c)' /\ AnswerIsOfNode(c)' /\ NoQuestion(c)'
<1>1. /\ OnlyOf(c) /\ req'[c].pc = "idle" /\ UNCHANGED <<sessions, executed>>
  <2>1. R!Finish(c)
    BY SameClient
  <2>2. req \in [Calls -> R!RequestState]
    BY FieldsOf
  <2>3. QED
    BY <2>1, <2>2 DEF R!Finish, R!Idle, OnlyOf
<1>2. QED
  BY <1>1 DEF OneRow, ServesIt, AnswerIsOfNode, NoQuestion

LEMMA TakeStep ==
  ASSUME IInv, NEW c \in Calls, Take(c)
  PROVE  IInv'
<1>1. /\ agi[c] \in HandlerState /\ CallInv(c) /\ R!IInv /\ agi[c].pc = "wait"
      /\ req[c].pc = "reply" /\ Runtime!Finish(c)
  BY DEF IInv, Take
<1>2. /\ R!IInv' /\ OnlyOf(c) /\ UNCHANGED <<sessions, executed>>
      /\ OneRow(c)' /\ ServesIt(c)' /\ AnswerIsOfNode(c)' /\ NoQuestion(c)'
  BY <1>1, RuntimeKeeps, FinishEffect DEF CallInv
<1>3. CASE End(c)
  <2> DEFINE h == [Waiting EXCEPT !.pc = "done"]
  <2>1. h \in HandlerState /\ <<h.result, h.value>> \in Reports /\ h.pc = "done"
    BY WaitingIsState DEF Waiting
  <2>2. agi' = [agi EXCEPT ![c] = h] /\ agi'[c] = h
    BY <1>3 DEF End, IInv
  <2> HIDE DEF h
  <2>3. ActionIsOfNode(c)' /\ ReportIsOne(c)' /\ StepsLeft(c)'
    BY <2>1, <2>2 DEF ActionIsOfNode, ReportIsOne, StepsLeft
  <2>4. QED
    BY <1>2, <2>1, <2>2, <2>3, CallStep DEF CallInv
<1>4. CASE /\ req[c].reply # "error"
           /\ agi' = [agi EXCEPT ![c] = [@ EXCEPT !.pc = "act", !.action = req[c].reply]]
  <2> DEFINE h == [agi[c] EXCEPT !.pc = "act", !.action = req[c].reply]
  <2>1. req[c].reply \in Runtime!Replies \cup {None}
    BY <1>1, FieldsOf, SameState DEF R!RequestState
  <2>2. h \in HandlerState
    BY <1>1, <2>1 DEF HandlerState
  <2>3. /\ h.result = agi[c].result /\ h.value = agi[c].value
        /\ h.steps = agi[c].steps /\ h.action = req[c].reply
    BY <1>1 DEF HandlerState
  <2>4. agi' = [agi EXCEPT ![c] = h] /\ agi'[c] = h
    BY <1>4 DEF IInv
  <2> HIDE DEF h
  <2>5. ReportIsOne(c)' /\ StepsLeft(c)'
    BY <1>1, <2>3, <2>4 DEF CallInv, ReportIsOne, StepsLeft
  <2>6. ActionIsOfNode(c)'
    <3>1. c \notin Skipped => AtNode(c, h.action)
      BY <1>1, <1>4, <2>3 DEF CallInv, AnswerIsOfNode
    <3>2. QED
      BY <1>2, <2>4, <3>1 DEF ActionIsOfNode, AtNode, R!ActionOf
  <2>7. QED
    BY <1>2, <2>2, <2>4, <2>5, <2>6, CallStep DEF CallInv
<1>5. QED
  BY <1>3, <1>4 DEF Take

LEMMA ServerStep ==
  ASSUME IInv, NEW c \in Calls, Server(c)
  PROVE  IInv'
<1>1. agi[c] \in HandlerState /\ CallInv(c) /\ R!IInv /\ R!IInv'
  BY RuntimeKeeps DEF IInv, Server
<1>2. agi' = [agi EXCEPT ![c] = agi[c]] /\ agi'[c] = agi[c]
  BY DEF IInv, Server
<1>3. StepsLeft(c)' /\ ReportIsOne(c)'
  BY <1>1, <1>2 DEF CallInv, StepsLeft, ReportIsOne
<1>4. CASE Runtime!Finish(c)
  <2>1. /\ OnlyOf(c) /\ UNCHANGED <<sessions, executed>>
        /\ OneRow(c)' /\ ServesIt(c)' /\ AnswerIsOfNode(c)' /\ NoQuestion(c)'
    BY <1>1, <1>4, FinishEffect DEF CallInv
  <2>2. ActionIsOfNode(c)'
    BY <1>1, <1>2, <2>1 DEF CallInv, ActionIsOfNode, AtNode, R!ActionOf
  <2>3. QED
    BY <1>1, <1>2, <1>3, <2>1, <2>2, CallStep DEF CallInv
<1>5. CASE Runtime!Serve(c)
  <2>1. /\ OnlyOf(c)
        /\ req[c].pc # "idle" /\ req'[c].call = c
        /\ Goes(c) \/ Settles(c) \/ \E n \in Nodes : sessions'[c] = <<n>> /\ req'[c].pc = "enter"
    BY <1>1, <1>5, SameServe, ServeEffect DEF CallInv
  <2>2. agi'[c].pc \notin {"new", "ask", "act"}
    BY <1>1, <1>2, <2>1 DEF CallInv, NoQuestion
  <2>3. ActionIsOfNode(c)' /\ NoQuestion(c)' /\ ServesIt(c)'
    BY <2>1, <2>2 DEF ActionIsOfNode, NoQuestion, ServesIt
  <2>4. OneRow(c)' /\ AnswerIsOfNode(c)'
    <3>1. CASE Goes(c)
      BY <1>1, <3>1 DEF Goes, CallInv, OneRow, AnswerIsOfNode
    <3>2. CASE Settles(c)
      BY <3>2 DEF Settles, OneRow, AnswerIsOfNode, AtNode, R!ActionOf
    <3>3. CASE \E n \in Nodes : sessions'[c] = <<n>> /\ req'[c].pc = "enter"
      BY <3>3 DEF OneRow, AnswerIsOfNode
    <3>4. QED
      BY <2>1, <3>1, <3>2, <3>3
  <2>5. QED
    BY <1>1, <1>2, <1>3, <2>1, <2>3, <2>4, CallStep DEF CallInv
<1>6. QED
  BY <1>4, <1>5 DEF Server

-----------------------------------------------------------------------------
LEMMA InitIsFine == Init => IInv
<1> SUFFICES ASSUME Init PROVE IInv
  OBVIOUS
<1>0. R!Init
  BY SameState DEF Init
<1>1. R!IInv
  BY <1>0, R!InitIsFine, FlowIsValidThere
<1>2. /\ agi \in [Calls -> HandlerState]
      /\ \A c \in Calls : agi[c] = Waiting
  BY WaitingIsState DEF Init
<1>3. \A c \in Calls : req[c].pc = "idle" /\ sessions[c] = <<>>
  BY <1>0 DEF R!Init, R!Idle
<1>4. ASSUME NEW c \in Calls PROVE CallInv(c)
  <2>1. agi[c].pc = "new" /\ agi[c].result = None /\ agi[c].value = None
    BY <1>2 DEF Waiting
  <2>2. ServesIt(c) /\ OneRow(c) /\ AnswerIsOfNode(c)
    BY <1>3 DEF ServesIt, OneRow, AnswerIsOfNode
  <2>3. ActionIsOfNode(c) /\ NoQuestion(c) /\ ReportIsOne(c) /\ StepsLeft(c)
    BY <1>3, <2>1, WaitingIsState
    DEF ActionIsOfNode, NoQuestion, ReportIsOne, StepsLeft
  <2>4. QED
    BY <2>2, <2>3 DEF CallInv
<1>5. QED
  BY <1>1, <1>2, <1>4 DEF IInv

LEMMA StepIsFine == IInv /\ [Next]_vars => IInv'
<1> SUFFICES ASSUME IInv, [Next]_vars PROVE IInv'
  OBVIOUS
<1>1. ASSUME NEW c \in Calls, Connect(c) PROVE IInv'
  BY <1>1, ConnectStep
<1>2. ASSUME NEW c \in Calls, Handler(c) PROVE IInv'
  <2>1. CASE Ask(c)
    BY <2>1, AskStep
  <2>2. CASE Take(c)
    BY <2>2, TakeStep
  <2>3. CASE GiveUp(c)
    BY <2>3, EndStep DEF GiveUp
  <2>4. CASE Perform(c)
    BY <2>4, PerformStep
  <2>5. CASE PerformFails(c)
    BY <2>5, EndStep DEF PerformFails
  <2>6. QED
    BY <1>2, <2>1, <2>2, <2>3, <2>4, <2>5 DEF Handler
<1>3. ASSUME NEW c \in Calls, Server(c) PROVE IInv'
  BY <1>3, ServerStep
<1>4. CASE UNCHANGED vars
  <2>1. [R!Next]_(R!runtimeVars)
    BY <1>4 DEF vars, R!runtimeVars
  <2>2. R!IInv'
    BY <2>1, R!StepIsFine, FlowIsValidThere DEF IInv
  <2>3. QED
    BY <1>4, <2>2
    DEF vars, IInv, CallInv, ServesIt, OneRow, AnswerIsOfNode, ActionIsOfNode,
        NoQuestion, ReportIsOne, StepsLeft, AtNode, R!ActionOf
<1>5. QED
  BY <1>1, <1>2, <1>3, <1>4 DEF Next

(* The inductive invariant.                                                 *)
LEMMA Invariance == Spec => []IInv
  BY InitIsFine, StepIsFine, PTL DEF Spec

(* The types; with them, a handler never asks more than MaxSteps questions. *)
THEOREM CallFlowTypeIsCorrect == Spec => []TypeOK
<1>1. IInv => TypeOK
  BY SameState DEF IInv, R!IInv, TypeOK
<1>2. QED
  BY <1>1, Invariance, PTL

(* What the handler does is what the node the session is at asks for.       *)
THEOREM HandlersAreInStep == Spec => []InStep
<1>1. IInv => InStep
  BY SameActions DEF IInv, CallInv, ActionIsOfNode, AtNode, InStep
<1>2. QED
  BY <1>1, Invariance, PTL

(* While a handler asks nothing, the server does nothing for its call.      *)
THEOREM QuestionsAreSingle == Spec => []OneQuestionAtATime
<1>1. IInv => OneQuestionAtATime
  BY DEF IInv, CallInv, NoQuestion, OneQuestionAtATime
<1>2. QED
  BY <1>1, Invariance, PTL

-----------------------------------------------------------------------------
(* How a question moves a call.  While its thread executes nodes, these are *)
(* a way from an edge of the node the call's row is at, or from the start,  *)
(* and the hops counted are the nodes of that way but one: so the node that *)
(* is stored is one where Move of FlowWalk may leave the call.              *)
Came(a, k, m) ==
  \E p \in [1 .. k -> Nodes] :
    p[1] \in Walk!Firsts(a) /\ p[k] = m /\ Walk!IsWay(p, k)

Walks(c) ==
  /\ req[c].pc \in {"find", "create", "enter"} => req[c].hops = 0
  /\ req[c].pc = "enter" => sessions[c] = <<Start>>
  /\ req[c].pc \in {"execute", "commit"} =>
       \E a \in Nodes : /\ sessions[c] = <<a>>
                        /\ Came(a, req[c].hops + 1, req[c].node)
  /\ req[c].pc = "commit" => req[c].hops < MaxHops

MayMove(a, m) == \E n \in Walk!Firsts(a) : m \in Walk!Stays(n)

Moves(c) ==
  \/ sessions'[c] = sessions[c]
  \/ sessions[c] = <<>> /\ sessions'[c] = <<Start>>
  \/ \E a, m \in Nodes :
       sessions[c] = <<a>> /\ sessions'[c] = <<m>> /\ MayMove(a, m)

(* The hops of FlowWalk here.                                               *)
HopsFrom ==
  [n \in Nodes |->
     IF NodeType[n] = "goto" THEN {GotoTarget[n]} \cap Nodes
     ELSE IF Runtime!AutoResults(n) = {} THEN {}
     ELSE {e.target : e \in {d \in Edges : d.source = n}}]

LEMMA WayIs ==
  ASSUME NEW p, NEW k
  PROVE  Walk!IsWay(p, k) <=> \A i \in 1 .. k - 1 : p[i + 1] \in HopsFrom[p[i]]
  BY DEF Walk!IsWay, HopsFrom

(* A way of one node, and a way with a node more.                           *)
LEMMA WayBegins ==
  ASSUME NEW a, NEW m \in Nodes, m \in Walk!Firsts(a)
  PROVE  Came(a, 1, m)
<1> DEFINE p == [i \in 1 .. 1 |-> m]
<1>1. p \in [1 .. 1 -> Nodes] /\ p[1] = m
  OBVIOUS
<1>2. Walk!IsWay(p, 1)
  BY DEF Walk!IsWay
<1>3. QED
  BY <1>1, <1>2 DEF Came

LEMMA WayGoesOn ==
  ASSUME NEW a, NEW k \in Nat \ {0}, NEW m \in Nodes, Came(a, k, m),
         NEW n \in Nodes,
         \/ NodeType[m] = "goto" /\ n = GotoTarget[m]
         \/ /\ NodeType[m] # "goto" /\ Runtime!AutoResults(m) # {}
            /\ \E e \in Edges : e.source = m /\ e.target = n
  PROVE  Came(a, k + 1, n)
<1>1. PICK p \in [1 .. k -> Nodes] :
        p[1] \in Walk!Firsts(a) /\ p[k] = m /\ Walk!IsWay(p, k)
  BY DEF Came
<1> DEFINE q == [i \in 1 .. k + 1 |-> IF i = k + 1 THEN n ELSE p[i]]
<1>2. q \in [1 .. k + 1 -> Nodes] /\ q[1] = p[1] /\ q[k + 1] = n
  OBVIOUS
<1>3. \A i \in 1 .. k - 1 : i # k + 1 /\ i + 1 # k + 1 /\ q[i] = p[i] /\ q[i + 1] = p[i + 1]
  OBVIOUS
<1>4. q[k] = m /\ n \in HopsFrom[m]
  BY <1>1 DEF HopsFrom
<1>5. \A i \in 1 .. (k + 1) - 1 : q[i + 1] \in HopsFrom[q[i]]
  <2> SUFFICES ASSUME NEW i \in 1 .. k PROVE q[i + 1] \in HopsFrom[q[i]]
    OBVIOUS
  <2> HIDE DEF q
  <2>1. CASE i = k
    BY <1>2, <1>4, <2>1
  <2>2. CASE i # k
    <3>1. i \in 1 .. k - 1
      BY <2>2
    <3>2. \A j \in 1 .. k - 1 : p[j + 1] \in HopsFrom[p[j]]
      BY <1>1, WayIs
    <3>3. QED
      BY <1>3, <3>1, <3>2
  <2>3. QED
    BY <2>1, <2>2
<1>6. Walk!IsWay(q, k + 1)
  BY <1>5, WayIs
<1>7. QED
  BY <1>1, <1>2, <1>6 DEF Came

(* The way ends where the call may stay, if it has not too many nodes.      *)
LEMMA WayEnds ==
  ASSUME NEW a \in Nodes, NEW k \in 1 .. MaxHops, NEW m, Came(a, k, m)
  PROVE  m \in Nodes /\ MayMove(a, m)
<1>1. MaxHops \in Nat \ {0}
  BY FlowIsValidThere
<1>2. PICK p \in [1 .. k -> Nodes] :
        p[1] \in Walk!Firsts(a) /\ p[k] = m /\ Walk!IsWay(p, k)
  BY DEF Came
<1>3. p[k] \in Nodes
  BY <1>1
<1>4. m \in Walk!Stays(p[1])
  BY <1>2, <1>3 DEF Walk!Stays
<1>5. QED
  BY <1>2, <1>3, <1>4 DEF MayMove

(* An edge the runtime takes is an edge of the node.                        *)
LEMMA TakenIsEdge ==
  ASSUME NEW n, NEW r, NEW v, NEW h, NEW e,
         e = R!ResolveNextEdge(Edges, n, r, v, h), e # R!NoEdge
  PROVE  e \in Edges /\ e.source = n /\ e.target \in Nodes
  BY R!ChosenIsOfNode, FlowIsValidThere

LEMMA FollowedWalks ==
  ASSUME IInv, NEW c \in Calls, req[c].hops = 0, NEW i, NEW a \in Nodes,
         sessions[c] = <<a>>, UNCHANGED sessions, R!FollowEdge(c, i, a)
  PROVE  Walks(c)'
<1>1. req \in [Calls -> R!RequestState] /\ req[c] \in R!RequestState
  BY FieldsOf DEF IInv
<1>2. PICK holds \in SUBSET VariableTests :
        LET e == R!ResolveNextEdge(Edges, a, req[c].result, req[c].value, holds)
        IN  IF a \notin Nodes \/ e = R!NoEdge THEN R!Reply(c, "error")
            ELSE req' = [req EXCEPT ![c] = [@ EXCEPT !.pc = "execute", !.row = i,
                                                     !.node = e.target]]
  BY DEF R!FollowEdge
<1> DEFINE e == R!ResolveNextEdge(Edges, a, req[c].result, req[c].value, holds)
<1>3. CASE R!Reply(c, "error")
  BY <1>3, ReplyEffect DEF Walks, IInv
<1>4. CASE /\ e # R!NoEdge
           /\ req' = [req EXCEPT ![c] = [@ EXCEPT !.pc = "execute", !.row = i,
                                                  !.node = e.target]]
  <2>1. e \in Edges /\ e.source = a /\ e.target \in Nodes
    BY <1>4, TakenIsEdge
  <2>2. /\ req'[c].pc = "execute" /\ req'[c].node = e.target
        /\ req'[c].hops = 0
    BY <1>1, <1>4 DEF R!RequestState
  <2>3. e.target \in Walk!Firsts(a)
    BY <2>1 DEF Walk!Firsts
  <2>4. Came(a, 0 + 1, e.target)
    BY <2>1, <2>3, WayBegins
  <2>5. QED
    BY <2>2, <2>4 DEF Walks
<1>5. QED
  BY <1>2, <1>3, <1>4

(* What a step of the server does to its call.                              *)
LEMMA ServeWalks ==
  ASSUME IInv, IInv', NEW c \in Calls, Walks(c), R!Serve(c)
  PROVE  Walks(c)' /\ Moves(c)
<1>0. /\ req \in [Calls -> R!RequestState] /\ req[c] \in R!RequestState
      /\ CallInv(c) /\ R!IInv /\ CallInv(c)' /\ req'[c] \in R!RequestState
      /\ sessions \in [Calls -> Seq(Nodes)]
  BY FieldsOf DEF IInv, R!IInv, R!TypeOK
<1>1. CASE R!FindSession(c)
  <2>1. /\ req[c].pc = "find" /\ req[c].call = c /\ UNCHANGED sessions
        /\ req[c].claim = None /\ req[c].hops = 0
    BY <1>0, <1>1 DEF R!FindSession, CallInv, ServesIt, Walks, R!RequestState
  <2>2. CASE sessions[c] = <<>>
    <3>1. CASE R!Goto(c, "create")
      BY <1>0, <2>1, <3>1 DEF R!Goto, R!RequestState, Walks, Moves
    <3>2. CASE R!Reply(c, "error")
      BY <1>0, <2>1, <3>2, ReplyEffect DEF Walks, Moves
    <3>3. QED
      BY <1>1, <2>1, <2>2, <3>1, <3>2 DEF R!FindSession
  <2>3. CASE sessions[c] # <<>>
    <3>1. PICK a \in Nodes : sessions[c] = <<a>>
      BY <1>0, <2>3 DEF CallInv, OneRow
    <3>2. PICK i \in DOMAIN sessions[c] : R!FollowEdge(c, i, R!CurrentNode(c, sessions[c][i]))
      BY <1>1, <2>1, <2>3 DEF R!FindSession
    <3>3. R!FollowEdge(c, i, a)
      BY <2>1, <3>1, <3>2 DEF R!CurrentNode
    <3>4. QED
      BY <2>1, <3>1, <3>3, FollowedWalks DEF Moves
  <2>4. QED
    BY <2>2, <2>3
<1>2. CASE R!CreateSession(c)
  <2>1. /\ req[c].pc = "create" /\ req[c].call = c /\ sessions[c] = <<>>
        /\ req[c].hops = 0
    BY <1>0, <1>2 DEF R!CreateSession, CallInv, ServesIt, OneRow, Walks
  <2>2. sessions'[c] = <<Start>>
    BY <1>0, <1>2, <2>1 DEF R!CreateSession
  <2>3. req'[c].pc = "enter" /\ req'[c].hops = 0
    BY <1>0, <1>2, <2>1 DEF R!CreateSession, R!RequestState
  <2>4. QED
    BY <2>1, <2>2, <2>3 DEF Walks, Moves
<1>3. CASE R!EnterSession(c)
  <2>1. /\ req[c].pc = "enter" /\ req[c].call = c /\ UNCHANGED sessions
        /\ req[c].claim = None /\ req[c].hops = 0 /\ sessions[c] = <<Start>>
    BY <1>0, <1>3 DEF R!EnterSession, CallInv, ServesIt, Walks, R!RequestState
  <2>2. req[c].row \in DOMAIN sessions[c]
    BY <1>0, <2>1 DEF R!IInv, R!KnowsItsRow
  <2>3. R!CurrentNode(c, sessions[c][req[c].row]) = Start /\ Start \in Nodes
    BY <2>1, <2>2, FlowIsValidThere DEF R!CurrentNode
  <2>4. CASE req' = [req EXCEPT ![c] = [@ EXCEPT !.pc = "execute", !.node = Start]]
    <3>1. /\ req'[c].pc = "execute" /\ req'[c].node = Start /\ req'[c].hops = 0
      BY <1>0, <2>1, <2>4 DEF R!RequestState
    <3>2. Start \in Walk!Firsts(Start)
      BY DEF Walk!Firsts
    <3>3. Came(Start, 0 + 1, Start)
      BY <2>3, <3>2, WayBegins
    <3>4. QED
      BY <2>1, <2>3, <3>1, <3>3 DEF Walks, Moves
  <2>5. CASE R!FollowEdge(c, req[c].row, Start)
    BY <2>1, <2>3, <2>5, FollowedWalks DEF Moves
  <2>6. QED
    BY <1>3, <2>1, <2>3, <2>4, <2>5 DEF R!EnterSession
<1>4. CASE R!Execute(c)
  <2> DEFINE m == req[c].node
             hop(target) == req' = [req EXCEPT ![c] = [@ EXCEPT !.node = target, !.hops = req[c].hops + 1]]
  <2>1. req[c].pc = "execute" /\ req[c].call = c /\ UNCHANGED sessions /\ m \in Nodes
    BY <1>0, <1>4 DEF R!Execute, CallInv, ServesIt, R!IInv, R!KnowsItsNode
  <2>2. PICK a \in Nodes : sessions[c] = <<a>> /\ Came(a, req[c].hops + 1, m)
    BY <2>1 DEF Walks
  <2>3. req[c].hops \in 0 .. MaxHops /\ MaxHops \in Nat \ {0}
    BY <1>0, FlowIsValidThere DEF R!RequestState
  <2>4. CASE R!Reply(c, "error")
    BY <1>0, <2>1, <2>4, ReplyEffect DEF Walks, Moves
  <2>5. CASE R!Goto(c, "commit") /\ req[c].hops # MaxHops
    <3>1. /\ req'[c].pc = "commit" /\ req'[c].node = m
          /\ req'[c].hops = req[c].hops
      BY <1>0, <2>5 DEF R!Goto, R!RequestState
    <3>2. QED
      BY <2>1, <2>2, <2>3, <2>5, <3>1 DEF Walks, Moves
  <2>6. ASSUME NEW n \in Nodes, hop(n), Came(a, req[c].hops + 1 + 1, n)
        PROVE  Walks(c)' /\ Moves(c)
    <3>1. /\ req'[c].pc = "execute" /\ req'[c].node = n
          /\ req'[c].hops = req[c].hops + 1
      BY <1>0, <2>1, <2>6 DEF R!RequestState
    <3>2. QED
      BY <2>1, <2>2, <2>6, <3>1 DEF Walks, Moves
  <2>7. CASE R!LimitIsReached(req[c].hops)
    BY <1>4, <2>4, <2>7 DEF R!Execute, R!RunIntoLimit
  <2>8. CASE ~R!LimitIsReached(req[c].hops) /\ NodeType[m] = "goto"
    <3>1. R!AutoResults(m) = {}
      BY <2>8 DEF R!AutoResults
    <3>2. \/ GotoTarget[m] \in Nodes /\ hop(GotoTarget[m])
          \/ R!Reply(c, "error")
      BY <1>4, <2>8, <3>1 DEF R!Execute
    <3>3. ASSUME GotoTarget[m] \in Nodes
          PROVE  Came(a, req[c].hops + 1 + 1, GotoTarget[m])
      <4>1. PICK k, n, x : k = req[c].hops + 1 /\ n = GotoTarget[m] /\ x = m
        OBVIOUS
      <4>2. k \in Nat \ {0} /\ x \in Nodes /\ n \in Nodes /\ Came(a, k, x)
        BY <2>1, <2>2, <2>3, <3>3, <4>1
      <4>3. NodeType[x] = "goto" /\ n = GotoTarget[x]
        BY <2>8, <4>1
      <4>4. Came(a, k + 1, n)
        BY <4>2, <4>3, WayGoesOn
      <4>5. QED
        BY <4>1, <4>4
    <3>4. QED
      BY <2>4, <2>6, <3>2, <3>3
  <2>9. CASE /\ ~R!LimitIsReached(req[c].hops) /\ NodeType[m] # "goto"
             /\ R!AutoResults(m) # {}
    <3>1. PICK result \in R!AutoResults(m), holds \in SUBSET VariableTests :
            LET e == R!ResolveNextEdge(Edges, m, result, None, holds)
            IN  IF e = R!NoEdge THEN R!Goto(c, "commit") ELSE hop(e.target)
      BY <1>4, <2>9 DEF R!Execute
    <3> DEFINE e == R!ResolveNextEdge(Edges, m, result, None, holds)
    <3>2. CASE e = R!NoEdge
      BY <2>5, <2>9, <3>1, <3>2 DEF R!LimitIsReached
    <3>3. CASE e # R!NoEdge
      <4>1. hop(e.target) /\ e \in Edges /\ e.source = m /\ e.target \in Nodes
        BY <3>1, <3>3, TakenIsEdge
      <4>2. Runtime!AutoResults(m) # {}
        BY <2>9, SameActions
      <4> HIDE DEF e
      <4>3. Came(a, req[c].hops + 1 + 1, e.target)
        BY <2>1, <2>2, <2>3, <2>9, <4>1, <4>2, WayGoesOn
      <4>4. QED
        BY <2>6, <4>1, <4>3
    <3>4. QED
      BY <3>2, <3>3
  <2>10. CASE /\ ~R!LimitIsReached(req[c].hops) /\ NodeType[m] # "goto"
              /\ R!AutoResults(m) = {}
    BY <1>4, <2>5, <2>10 DEF R!Execute, R!LimitIsReached
  <2>11. QED
    BY <2>7, <2>8, <2>9, <2>10
<1>5. CASE R!ExecuteFails(c)
  BY <1>0, <1>5, ReplyEffect DEF R!ExecuteFails, Walks, Moves
<1>6. CASE R!CommitPosition(c)
  <2> DEFINE m == req[c].node
  <2>1. /\ req[c].pc = "commit" /\ req[c].call = c
        /\ sessions' = [sessions EXCEPT ![c] = [@ EXCEPT ![req[c].row] = m]]
        /\ R!Reply(c, R!ActionOf(m))
    BY <1>0, <1>6 DEF R!CommitPosition, CallInv, ServesIt
  <2>2. PICK a \in Nodes : sessions[c] = <<a>> /\ Came(a, req[c].hops + 1, m)
    BY <2>1 DEF Walks
  <2>3. req[c].hops + 1 \in 1 .. MaxHops
    BY <1>0, <2>1, FlowIsValidThere DEF Walks, R!RequestState
  <2>4. m \in Nodes /\ MayMove(a, m)
    BY <2>2, <2>3, WayEnds
  <2>5. req[c].row \in DOMAIN sessions[c]
    BY <1>0, <2>1 DEF R!IInv, R!KnowsItsRow
  <2>6. sessions'[c] = <<m>>
    BY <1>0, <2>1, <2>2, <2>5
  <2>7. req'[c].pc = "reply"
    BY <1>0, <2>1, ReplyEffect
  <2>8. QED
    BY <2>2, <2>4, <2>6, <2>7 DEF Walks, Moves
<1>7. QED
  BY <1>1, <1>2, <1>3, <1>4, <1>5, <1>6 DEF R!Serve

(* A step of call c: it goes on with its walk, and no other call moves.     *)
OnItsWay(c) == Walks(c)' /\ Moves(c) /\ OnlyOf(c)

LEMMA StayingIsFine ==
  ASSUME NEW c \in Calls, Walks(c), UNCHANGED <<sessions, executed, req>>
  PROVE  OnItsWay(c)
  BY DEF OnItsWay, Walks, Moves, OnlyOf

LEMMA FinishWalks ==
  ASSUME IInv, NEW c \in Calls, Runtime!Finish(c)
  PROVE  OnItsWay(c)
<1>1. OnlyOf(c) /\ req'[c].pc = "idle" /\ UNCHANGED sessions
  BY FinishEffect DEF IInv
<1>2. QED
  BY <1>1 DEF OnItsWay, Walks, Moves

LEMMA StepsAreOnTheWay ==
  ASSUME IInv, IInv', \A c \in Calls : Walks(c), Next
  PROVE  \E c \in Calls : OnItsWay(c)
<1>1. PICK c \in Calls : Connect(c) \/ Handler(c) \/ Server(c)
  BY DEF Next
<1>2. CASE UNCHANGED <<sessions, executed, req>>
  BY <1>2, StayingIsFine
<1>3. CASE Runtime!Finish(c)
  BY <1>3, FinishWalks
<1>4. CASE Runtime!Serve(c)
  <2>1. R!Serve(c)
    BY <1>4, SameServe
  <2>2. OnlyOf(c)
    BY <2>1, ServeEffect DEF IInv, CallInv
  <2>3. QED
    BY <2>1, <2>2, ServeWalks DEF OnItsWay
<1>5. CASE Runtime!Accept(c, c, agi[c].result, agi[c].value, None)
  <2>1. R!Accept(c, c, agi[c].result, agi[c].value, None)
    BY <1>5, SameClient
  <2>2. req \in [Calls -> R!RequestState]
    BY FieldsOf DEF IInv
  <2>3. /\ req'[c].pc \in {"find", "reply"} /\ req'[c].hops = 0
        /\ OnlyOf(c) /\ UNCHANGED sessions
    BY <2>1, <2>2 DEF R!Accept, R!Idle, OnlyOf
  <2>4. QED
    BY <2>3 DEF OnItsWay, Walks, Moves
<1>6. QED
  BY <1>1, <1>2, <1>3, <1>4, <1>5
  DEF Connect, Handler, Ask, Take, GiveUp, Perform, PerformFails, Server

LEMMA WalksOn ==
  ASSUME IInv, IInv', \A c \in Calls : Walks(c), [Next]_vars
  PROVE  \A c \in Calls : Walks(c)'
<1>1. CASE UNCHANGED vars
  BY <1>1 DEF vars, Walks
<1>2. CASE Next
  <2>1. PICK c \in Calls : OnItsWay(c)
    BY <1>2, StepsAreOnTheWay
  <2>2. ASSUME NEW d \in Calls, d # c PROVE Walks(d)'
    <3>1. req'[d] = req[d] /\ sessions'[d] = sessions[d]
      BY <2>1, <2>2 DEF OnItsWay, OnlyOf
    <3>2. QED
      BY <3>1 DEF Walks
  <2>3. QED
    BY <2>1, <2>2 DEF OnItsWay
<1>3. QED
  BY <1>1, <1>2

(* The position of the calls, as FlowWalk sees it.                          *)
Position == [c \in Calls |-> IF sessions[c] = <<>> THEN None ELSE sessions[c][1]]

LEMMA StepIsOfWalk ==
  ASSUME IInv, IInv', \A c \in Calls : Walks(c), [Next]_vars
  PROVE  [Walk!Next]_Position
<1>1. \A x : <<x>> # <<>> /\ <<x>>[1] = x
  OBVIOUS
<1>2. CASE UNCHANGED vars
  BY <1>2 DEF vars, Position
<1>3. CASE Next
  <2>1. PICK c \in Calls : OnItsWay(c)
    BY <1>3, StepsAreOnTheWay
  <2>2. \A d \in Calls \ {c} : Position'[d] = Position[d]
    BY <2>1 DEF OnItsWay, OnlyOf, Position
  <2>3. ASSUME NEW x, Position'[c] = x PROVE Position' = [Position EXCEPT ![c] = x]
    BY <2>2, <2>3 DEF Position
  <2>4. CASE sessions'[c] = sessions[c]
    <3>1. Position'[c] = Position[c]
      BY <2>4 DEF Position
    <3>2. Position' = Position
      BY <2>2, <3>1 DEF Position
    <3>3. QED
      BY <3>2
  <2>5. CASE sessions[c] = <<>> /\ sessions'[c] = <<Start>>
    <3>1. Position[c] = None /\ Position'[c] = Start
      BY <1>1, <2>5 DEF Position
    <3>2. Walk!Begin(c)
      BY <2>3, <3>1 DEF Walk!Begin, Position
    <3>3. QED
      BY <3>2 DEF Walk!Next
  <2>6. CASE \E a, m \in Nodes :
               sessions[c] = <<a>> /\ sessions'[c] = <<m>> /\ MayMove(a, m)
    <3>1. PICK a, m \in Nodes :
            sessions[c] = <<a>> /\ sessions'[c] = <<m>> /\ MayMove(a, m)
      BY <2>6
    <3>2. Position[c] = a /\ Position'[c] = m /\ a # None
      BY <1>1, <3>1, FlowIsValidThere DEF Position
    <3>3. PICK n \in Walk!Firsts(a) : m \in Walk!Stays(n)
      BY <3>1 DEF MayMove
    <3>4. Walk!Move(c)
      BY <2>3, <3>2, <3>3 DEF Walk!Move, Position
    <3>5. QED
      BY <3>4 DEF Walk!Next
  <2>7. QED
    BY <2>1, <2>4, <2>5, <2>6 DEF OnItsWay, Moves
<1>4. QED
  BY <1>2, <1>3

(* A call walks its flow: its row starts at the start, and moves from node  *)
(* to node along an edge and then a way of at most MaxHops nodes that need  *)
(* no answer, whenever and by whichever question it is moved.               *)
THEOREM WalkIsImplemented == Spec => ImplementsWalk
<1>1. Init => Walk!Init /\ \A c \in Calls : Walks(c)
  <2> SUFFICES ASSUME Init PROVE Walk!Init /\ \A c \in Calls : Walks(c)
    OBVIOUS
  <2>1. R!Init
    BY SameState DEF Init
  <2>2. \A c \in Calls : req[c].pc = "idle" /\ sessions[c] = <<>>
    BY <2>1 DEF R!Init, R!Idle
  <2>3. QED
    BY <2>2 DEF Walks, Walk!Init
<1>2. IInv /\ IInv' /\ (\A c \in Calls : Walks(c)) /\ [Next]_vars
        => (\A c \in Calls : Walks(c))'
  BY WalksOn
<1>3. IInv /\ IInv' /\ (\A c \in Calls : Walks(c)) /\ [Next]_vars
        => [Walk!Next]_Position
  BY StepIsOfWalk
<1>4. QED
  BY <1>1, <1>2, <1>3, Invariance, PTL DEF Spec, ImplementsWalk, Walk!Spec, Position
=============================================================================
