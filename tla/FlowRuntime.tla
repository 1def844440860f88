----------------------------- MODULE FlowRuntime -----------------------------
(***************************************************************************)
(* POST /flow/resolve-next: a client reports the result of the node a call  *)
(* is at, and the server finds the next node, executes it, goes on as long  *)
(* as nodes need no client (goto, set_variable, condition, webhook), stores *)
(* where the call is and answers with what the client has to do.            *)
(*                                                                         *)
(* Each request is served by a thread that reads the session row of the     *)
(* call first and writes it last.  Executing a node may take seconds and    *)
(* commits an event row of its own; other requests act in between.          *)
(***************************************************************************)
EXTENDS Integers, FiniteSets, Sequences, FlowEdges

CONSTANTS
  Calls,
  Threads,       \* server threads
  Nodes, Edges, Start,
  NodeType,      \* [Nodes -> node type]
  GotoTarget,    \* [Nodes -> target of a goto node], which nothing validates
  Failing,       \* nodes that can fail: disabled by rollout, no speech, ...
  Skipped,       \* calls the canary gate keeps off the runtime
  VariableTests, \* values of variable_match edges
  Reports,       \* <<result, value>> clients report; <<None, None>> for none
  Claims,        \* nodes clients claim to be at (current_node_id), or None
  MaxHops,       \* max_hops, 8 in the code
  None

ASSUME FlowIsValid ==
  /\ Start \in Nodes
  /\ AreRows(Edges)
  /\ \A e \in Edges : e.source \in Nodes /\ e.target \in Nodes
  /\ Failing \subseteq Nodes
  /\ MaxHops \in Nat \ {0}
  /\ None \notin Nodes

VARIABLES
  sessions,   \* [Calls -> current_node_id of each flow_runtime_sessions row]
  executed,   \* [Calls -> nodes with a node.executed event]
  req         \* what each thread is doing, with its local variables

runtimeVars == <<sessions, executed, req>>

-----------------------------------------------------------------------------
(* The results a node that needs no client may report of itself.            *)
AutoResults(n) ==
  CASE NodeType[n] = "set_variable" -> {"completed"}
    [] NodeType[n] = "condition" -> {"condition_matched", "condition_not_matched"}
    [] NodeType[n] = "webhook" -> {"webhook_success", "webhook_failed"}
    [] OTHER -> {}

IsAuto(n) == NodeType[n] = "goto" \/ AutoResults(n) # {}

(* What the client is told to do at a node where the server stops.          *)
ActionOf(n) ==
  CASE NodeType[n] \in {"play_audio", "say_text"} -> "play_audio_asset"
    [] NodeType[n] = "gather_input" -> "collect_dtmf"
    [] NodeType[n] \in {"wait", "record_control", "transfer_call", "hangup"}
         -> NodeType[n]
    [] OTHER -> "noop"

Replies ==
  {"play_audio_asset", "collect_dtmf", "wait", "record_control",
   "transfer_call", "hangup", "noop", "legacy_fallback", "error"}

Idle ==
  [pc |-> "idle", call |-> None, row |-> 0, node |-> None, result |-> None,
   value |-> None, claim |-> None, hops |-> 0, reply |-> None]

Init ==
  /\ sessions = [c \in Calls |-> <<>>]
  /\ executed = [c \in Calls |-> {}]
  /\ req = [t \in Threads |-> Idle]

-----------------------------------------------------------------------------
Goto(t, pc) == req' = [req EXCEPT ![t].pc = pc]

Reply(t, reply) ==
  req' = [req EXCEPT ![t] = [@ EXCEPT !.pc = "reply", !.reply = reply]]

(* A node the client claims to be at has precedence over the session's.     *)
CurrentNode(t, stored) == IF req[t].claim = None THEN stored ELSE req[t].claim

(* Go to the node the result leads to, or fail for want of an edge.         *)
FollowEdge(t, row, node) ==
  \E holds \in SUBSET VariableTests :
    LET e == ResolveNextEdge(Edges, node, req[t].result, req[t].value, holds)
    IN  IF node \notin Nodes \/ e = NoEdge THEN Reply(t, "error")
        ELSE req' = [req EXCEPT ![t] = [@ EXCEPT !.pc = "execute", !.row = row,
                                                 !.node = e.target]]

(* A request arrives; the canary gate answers for the calls it skips.       *)
Accept(t, c, result, value, claim) ==
  /\ req[t].pc = "idle"
  /\ req' = [req EXCEPT ![t] =
               [Idle EXCEPT !.pc = IF c \in Skipped THEN "reply" ELSE "find",
                            !.call = c, !.result = result, !.value = value,
                            !.claim = claim,
                            !.reply = IF c \in Skipped THEN "legacy_fallback"
                                      ELSE None]]
  /\ UNCHANGED <<sessions, executed>>

(* Slip: the node is the start node whatever the session says.              *)
FindSessionAtStart(t) ==
  LET rows == sessions[req[t].call] IN
  /\ req[t].pc = "find"
  /\ IF rows = <<>> THEN Goto(t, "create")
     ELSE \E i \in DOMAIN rows : FollowEdge(t, i, CurrentNode(t, Start))
  /\ UNCHANGED <<sessions, executed>>

(* The session is looked up by the call, which no constraint makes unique.  *)
(* Without one, the flow has to have a published version.                   *)
FindSession(t) ==
  LET rows == sessions[req[t].call] IN
  /\ req[t].pc = "find"
  /\ IF rows = <<>> THEN Goto(t, "create") \/ Reply(t, "error")
     ELSE \E i \in DOMAIN rows : FollowEdge(t, i, CurrentNode(t, rows[i]))
  /\ UNCHANGED <<sessions, executed>>

CreateSession(t) ==
  LET c == req[t].call IN
  /\ req[t].pc = "create"
  /\ sessions' = [sessions EXCEPT ![c] = Append(@, Start)]
  /\ req' = [req EXCEPT ![t] = [@ EXCEPT !.pc = "enter",
                                         !.row = Len(sessions[c]) + 1]]
  /\ UNCHANGED executed

(* The row just committed is read again.  Without a result, its node is     *)
(* entered; with one, its node is left.                                     *)
EnterSession(t) ==
  LET row == req[t].row
      node == CurrentNode(t, sessions[req[t].call][row])
  IN
  /\ req[t].pc = "enter"
  /\ IF node \notin Nodes THEN Reply(t, "error")
     ELSE IF req[t].result = None
     THEN req' = [req EXCEPT ![t] = [@ EXCEPT !.pc = "execute", !.node = node]]
     ELSE FollowEdge(t, row, node)
  /\ UNCHANGED <<sessions, executed>>

(* Slip: where the hops stopped is stored.                                  *)
SettleThere(t) == Goto(t, "commit")

LimitIsReached(hops) == hops = MaxHops

RunIntoLimit(t) == Reply(t, "error")

(* Execute a node, record that, and go on to the next one when it needs no  *)
(* client.  Running into the hop limit is an error, and so is a goto that   *)
(* leads out of the flow.                                                   *)
Execute(t) ==
  LET node == req[t].node
      hop(target) == req' = [req EXCEPT ![t] = [@ EXCEPT !.node = target, !.hops = req[t].hops + 1]]
  IN
  /\ req[t].pc = "execute"
  /\ executed' = [executed EXCEPT ![req[t].call] = @ \cup {node}]
  /\ IF LimitIsReached(req[t].hops) THEN RunIntoLimit(t)
     ELSE CASE NodeType[node] = "goto" ->
                 IF GotoTarget[node] \in Nodes THEN hop(GotoTarget[node])
                 ELSE Reply(t, "error")
            [] AutoResults(node) # {} ->
                 \E result \in AutoResults(node), holds \in SUBSET VariableTests :
                   LET e == ResolveNextEdge(Edges, node, result, None, holds)
                   IN  IF e = NoEdge THEN Goto(t, "commit") ELSE hop(e.target)
            [] OTHER -> Goto(t, "commit")
  /\ UNCHANGED sessions

ExecuteFails(t) ==
  /\ req[t].pc = "execute"
  /\ req[t].node \in Failing
  /\ Reply(t, "error")
  /\ UNCHANGED <<sessions, executed>>

(* Slip: only a row still at the start node is written.                     *)
CommitFirstPosition(t) ==
  LET c == req[t].call IN
  /\ req[t].pc = "commit"
  /\ sessions' = IF sessions[c][req[t].row] = Start
                 THEN [sessions EXCEPT ![c][req[t].row] = req[t].node]
                 ELSE sessions
  /\ Reply(t, ActionOf(req[t].node))
  /\ UNCHANGED executed

(* The row is written whatever it has become meanwhile.                     *)
CommitPosition(t) ==
  /\ req[t].pc = "commit"
  /\ sessions' = [sessions EXCEPT ![req[t].call][req[t].row] = req[t].node]
  /\ Reply(t, ActionOf(req[t].node))
  /\ UNCHANGED executed

(* The answer leaves the server, or the thread dies.                        *)
Finish(t) ==
  /\ req[t].pc # "idle"
  /\ req' = [req EXCEPT ![t] = Idle]
  /\ UNCHANGED <<sessions, executed>>

Serve(t) ==
  \/ FindSession(t)
  \/ CreateSession(t)
  \/ EnterSession(t)
  \/ Execute(t)
  \/ ExecuteFails(t)
  \/ CommitPosition(t)

Next ==
  \E t \in Threads :
    \/ \E c \in Calls, report \in Reports, claim \in Claims :
         Accept(t, c, report[1], report[2], claim)
    \/ Serve(t)
    \/ Finish(t)

Spec == Init /\ [][Next]_runtimeVars

-----------------------------------------------------------------------------
(***************************************************************************)
(* Properties, for any number of clients that report anything.              *)
(***************************************************************************)

RequestState ==
  [pc : {"idle", "find", "create", "enter", "execute", "commit", "reply"},
   call : Calls \cup {None}, row : Nat, node : Nodes \cup {None},
   result : {r[1] : r \in Reports} \cup {None},
   value : {r[2] : r \in Reports} \cup {None},
   claim : Claims \cup {None}, hops : 0 .. MaxHops, reply : Replies \cup {None}]

TypeOK ==
  /\ sessions \in [Calls -> Seq(Nodes)]
  /\ executed \in [Calls -> SUBSET Nodes]
  /\ req \in [Threads -> RequestState]

(* Does the server stop at node n, at least when the variables are right?   *)
StopsAt(n) ==
  /\ NodeType[n] # "goto"
  /\ IsAuto(n) => \E result \in AutoResults(n), holds \in SUBSET VariableTests :
                    ResolveNextEdge(Edges, n, result, None, holds) = NoEdge

(* The runtime never leaves a call at a node it would have passed by itself *)
(* or has not executed, whichever requests for the call ran at once or      *)
(* failed half-way; except at the start, before its first execution.        *)
RestsWhereItStops ==
  \A c \in Calls : \A i \in DOMAIN sessions[c] :
    sessions[c][i] # Start =>
      sessions[c][i] \in executed[c] /\ StopsAt(sessions[c][i])

=============================================================================
