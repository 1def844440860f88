---------------------------- MODULE FlowAuthoring ----------------------------
(***************************************************************************)
(* Flows and their graphs of nodes and edges, written by requests that run  *)
(* on threads of the web server, and the versions that are published of     *)
(* them.  A request reads the row of the flow, then other rows one statement *)
(* after the other, and writes in one commit; other requests act between    *)
(* any two of its statements.  Statements that write take effect with the   *)
(* commit they belong to, and a commit writes the columns the request       *)
(* changed and no other.                                                   *)
(***************************************************************************)
EXTENDS Integers, FiniteSets, Sequences, Functions, Orm

CONSTANTS
  Threads,
  Flows,
  NodeIds, EdgeIds,  \* ids a flow may use up, each for one row only
  Kinds,             \* node types; "hangup" and "gather_input" are special
  Conditions,        \* condition types of edges
  Payloads,          \* what POST /flows/create-and-publish is sent
  MaxRequests,       \* bound: [Flows -> requests about the flow that begin]
  None

ASSUME HangupIsAKind == {"hangup", "gather_input"} \subseteq Kinds
ASSUME RequestsAreBounded == MaxRequests \in [Flows -> Nat]

VARIABLES
  flow,      \* the flows table
  graph,     \* the flow_nodes and flow_edges tables, by flow
  versions,  \* the flow_versions table, by flow, in the order of the commits
  req,       \* what each thread is doing, with its local variables
  used,      \* history: ids the rows of a flow have used up
  begun,     \* history: requests about a flow begun, but those to copy it
  raced      \* history: flows with an edit that overlapped another request,
             \* and their copies

vars == <<flow, graph, versions, req, used, begun, raced>>

-----------------------------------------------------------------------------
VALID_FLOW_STATUSES == {"draft", "published", "archived", "disabled"}

(* A row of flows, and "no such flow".                                      *)
FlowRow == [status : VALID_FLOW_STATUSES, start : NodeIds \cup {None}]
NoFlow == [status |-> "none", start |-> None]

(* config: the node type whose requirements the stored config meets.        *)
NodeRow == [kind : Kinds, config : Kinds, isStart : BOOLEAN]
EdgeRow == [source : NodeIds, target : NodeIds, cond : Conditions]

IsGraph(g) ==
  /\ DOMAIN g.nodes \subseteq NodeIds /\ \A n \in DOMAIN g.nodes : g.nodes[n] \in NodeRow
  /\ DOMAIN g.edges \subseteq EdgeIds /\ \A e \in DOMAIN g.edges : g.edges[e] \in EdgeRow

NoRows == [id \in {} |-> None]
EmptyGraph == [nodes |-> NoRows, edges |-> NoRows]

(* A payload starts at the last node it marks, or else at its first node,   *)
(* which is marked then; what its edges lead to is checked with the rest.   *)
ASSUME PayloadsAreGraphs ==
  \A p \in Payloads :
    /\ p.graph = [nodes |-> p.graph.nodes, edges |-> p.graph.edges] /\ IsGraph(p.graph)
    /\ p.start \in DOMAIN p.graph.nodes /\ p.graph.nodes[p.start].isStart

(* Of a row of flow_versions, history: seen, how many versions were committed *)
(* when its number was taken.                                               *)
IsVersion(v) ==
  v.number \in Nat \ {0} /\ v.active \in BOOLEAN /\ IsGraph(v.graph) /\ v.seen \in Nat

(* row and old are the rows as they were read, new is what to write.        *)
Idle ==
  [pc |-> "idle", op |-> None, flow |-> None, row |-> NoFlow, id |-> None,
   old |-> None, new |-> None, graph |-> EmptyGraph, seen |-> 0, number |-> 0,
   active |-> {}]

Begun(op, f) == [Idle EXCEPT !.op = op, !.flow = f, !.row = flow[f]]

GraphEdits ==
  {"create_node", "update_node", "delete_node", "create_edge", "update_edge",
   "delete_edge"}

-----------------------------------------------------------------------------
(* _validate_node_config: any config will do for a hangup.                  *)
Fits(kind, config) == kind \in {"hangup", config}

(* Of a flow with this start node and graph: the checks of validate_flow     *)
(* that make it invalid.                                                    *)
StartIsFound(start, g) ==
  IF start = None
    THEN Cardinality({n \in DOMAIN g.nodes : g.nodes[n].isStart}) = 1
    ELSE start \in DOMAIN g.nodes

ConfigsFit(g) ==
  \A n \in DOMAIN g.nodes : Fits(g.nodes[n].kind, g.nodes[n].config)

Signature(edge) == <<edge.source, edge.cond>>

EdgesAreSound(g) ==
  \A e \in DOMAIN g.edges :
    /\ {g.edges[e].source, g.edges[e].target} \subseteq DOMAIN g.nodes
    /\ \A d \in DOMAIN g.edges \ {e} : Signature(g.edges[d]) # Signature(g.edges[e])

Outgoing(g, n) == {e \in DOMAIN g.edges : g.edges[e].source = n}

NodesLeadOn(g) ==
  \A n \in DOMAIN g.nodes :
    g.nodes[n].kind # "hangup" => Outgoing(g, n) # {}

GathersAreSafe(g) ==
  \A n \in DOMAIN g.nodes :
    g.nodes[n].kind = "gather_input" =>
      {"timeout", "invalid_input"} \subseteq {g.edges[e].cond : e \in Outgoing(g, n)}

Valid(start, g) ==
  /\ DOMAIN g.nodes # {}
  /\ StartIsFound(start, g)
  /\ ConfigsFit(g)
  /\ EdgesAreSound(g)
  /\ NodesLeadOn(g)
  /\ GathersAreSafe(g)

-----------------------------------------------------------------------------
Init ==
  /\ flow = [f \in Flows |-> NoFlow]
  /\ graph = [f \in Flows |-> EmptyGraph]
  /\ versions = [f \in Flows |-> <<>>]
  /\ req = [t \in Threads |-> Idle]
  /\ used = [f \in Flows |-> {}]
  /\ begun = [f \in Flows |-> 0]
  /\ raced = {}

(* Does the request of another thread overlap one that begins?  Only edits   *)
(* of the graph of the same flow, and others while it is edited, count.      *)
Overlaps(t, f, op) ==
  \E u \in Threads \ {t} :
    /\ req[u].flow = f
    /\ \/ req[u].op \in GraphEdits /\ op \in GraphEdits \cup {"publish", "duplicate"}
       \/ req[u].op \in {"publish", "duplicate"} /\ op \in GraphEdits

(* The first statement of a request, after which it goes on at pc.          *)
Start(t, f, request, pc) ==
  /\ req[t].pc = "idle"
  /\ flow[f] # NoFlow
  /\ request.op # "duplicate" => begun[f] < MaxRequests[f]
  /\ req' = [req EXCEPT ![t] = [request EXCEPT !.pc = pc]]
  /\ raced' = IF Overlaps(t, f, request.op) THEN raced \cup {f} ELSE raced
  /\ begun' = [begun EXCEPT ![f] = IF request.op = "duplicate" THEN @ ELSE @ + 1]
  /\ UNCHANGED <<flow, graph, versions, used>>

(* The request is over without a trace: an error reply, with what was not    *)
(* committed rolled back.                                                   *)
GiveUp(t) ==
  /\ req' = [req EXCEPT ![t] = Idle]
  /\ UNCHANGED <<flow, graph, versions, used, begun, raced>>

GoOn(t, r, pc) ==
  /\ req' = [req EXCEPT ![t] = [r EXCEPT !.pc = pc]]
  /\ UNCHANGED <<flow, graph, versions, used, begun, raced>>

-----------------------------------------------------------------------------
(* Flows *)

CreateFlow(f) ==
  /\ flow[f] = NoFlow
  /\ flow' = [flow EXCEPT ![f] = [status |-> "draft", start |-> None]]
  /\ UNCHANGED <<graph, versions, req, used, begun, raced>>

(* One transaction on a flow nobody else can see: a payload that does not   *)
(* validate is rolled back.                                                 *)
CreateAndPublish(f) ==
  \E p \in Payloads :
    /\ flow[f] = NoFlow
    /\ Valid(p.start, p.graph)
    /\ flow' = [flow EXCEPT ![f] = [status |-> "published", start |-> p.start]]
    /\ graph' = [graph EXCEPT ![f] = p.graph]
    /\ versions' =
         [versions EXCEPT ![f] =
            <<[number |-> 1, active |-> TRUE, start |-> p.start, graph |-> p.graph,
               seen |-> 0]>>]
    /\ used' = [used EXCEPT ![f] = DOMAIN p.graph.nodes \cup DOMAIN p.graph.edges]
    /\ UNCHANGED <<req, begun, raced>>

BeginUpdateFlow(t, f, status) ==
  /\ flow[f].status = "draft"
  /\ Start(t, f, [Begun("update_flow", f) EXCEPT !.new = [flow[f] EXCEPT !.status = status]],
           "save_flow")

BeginDeleteFlow(t, f) ==
  Start(t, f, [Begun("delete_flow", f) EXCEPT !.new = [flow[f] EXCEPT !.status = "archived"]],
        "save_flow")

(* Slip: the versions of a flow that is archived are deactivated.           *)
SaveFlowAndVersions(t) ==
  LET r == req[t] IN
  /\ r.pc = "save_flow"
  /\ flow' = [flow EXCEPT ![r.flow] = Written(@, r.row, r.new)]
  /\ versions' =
       IF r.op # "delete_flow" THEN versions
       ELSE [versions EXCEPT ![r.flow] =
               [i \in DOMAIN @ |-> [@[i] EXCEPT !.active = FALSE]]]
  /\ req' = [req EXCEPT ![t] = Idle]
  /\ UNCHANGED <<graph, used, begun, raced>>

SaveFlow(t) ==
  LET r == req[t] IN
  /\ r.pc = "save_flow"
  /\ flow' = [flow EXCEPT ![r.flow] = Written(@, r.row, r.new)]
  /\ req' = [req EXCEPT ![t] = Idle]
  /\ UNCHANGED <<graph, versions, used, begun, raced>>

BeginDuplicate(t, f) ==
  /\ \E copy \in Flows : flow[copy] = NoFlow
  /\ Start(t, f, Begun("duplicate", f), "copy_nodes")

CopyNodes(t) ==
  LET r == req[t] IN
  /\ r.pc = "copy_nodes"
  /\ GoOn(t, [r EXCEPT !.graph.nodes = graph[r.flow].nodes], "copy_edges")

(* Edges with an end that was not copied are left out; without the start of  *)
(* the flow the first node marked is the start.                             *)
CopyEdges(t, copy) ==
  LET r == req[t]
      nodes == r.graph.nodes
      now == graph[r.flow].edges
      whole == {e \in DOMAIN now : {now[e].source, now[e].target} \subseteq DOMAIN nodes}
      marked == {n \in DOMAIN nodes : nodes[n].isStart}
  IN
  /\ r.pc = "copy_edges"
  /\ flow[copy] = NoFlow
  /\ \E start \in IF r.row.start \in DOMAIN nodes THEN {r.row.start}
                  ELSE IF marked = {} THEN {None} ELSE marked :
       flow' = [flow EXCEPT ![copy] = [status |-> "draft", start |-> start]]
  /\ graph' = [graph EXCEPT ![copy] = [nodes |-> nodes, edges |-> Restrict(now, whole)]]
  /\ used' = [used EXCEPT ![copy] = DOMAIN nodes \cup whole]
  /\ req' = [req EXCEPT ![t] = Idle]
  /\ raced' = IF r.flow \in raced THEN raced \cup {copy} ELSE raced
  /\ UNCHANGED <<versions, begun>>

-----------------------------------------------------------------------------
(* Nodes and edges of a draft *)

BeginEdit(t, f, request, pc) ==
  /\ flow[f].status = "draft"
  /\ Start(t, f, request, pc)

(* The rest of an edit: the rows of the graph and the start of the flow it   *)
(* writes.                                                                  *)
Edited(t, rows, start) ==
  LET f == req[t].flow IN
  /\ graph' = [graph EXCEPT ![f] = rows]
  /\ flow' = [flow EXCEPT ![f] = Written(@, req[t].row, [req[t].row EXCEPT !.start = start])]
  /\ req' = [req EXCEPT ![t] = Idle]
  /\ UNCHANGED <<versions, begun, raced>>

(* The marks of all nodes but one are cleared.                              *)
Unmarked(nodes) == [n \in DOMAIN nodes |-> [nodes[n] EXCEPT !.isStart = FALSE]]

BeginCreateNode(t, f) ==
  \E node \in NodeRow :
    /\ Fits(node.kind, node.config)
    /\ BeginEdit(t, f, [Begun("create_node", f) EXCEPT !.new = node], "save_node")

CreateNode(t, n) ==
  LET r == req[t]
      g == graph[r.flow]
      others == IF r.new.isStart THEN Unmarked(g.nodes) ELSE g.nodes
  IN
  /\ r.pc = "save_node" /\ r.op = "create_node"
  /\ n \in NodeIds \ used[r.flow]
  /\ used' = [used EXCEPT ![r.flow] = @ \cup {n}]
  /\ Edited(t, [g EXCEPT !.nodes = With(others, n, r.new)],
            IF r.new.isStart THEN n ELSE r.row.start)

(* A type is checked against the config stored, a config against the type    *)
(* that results.                                                            *)
BeginUpdateNode(t, f, n) ==
  \E node \in NodeRow :
    /\ n \in DOMAIN graph[f].nodes
    /\ LET old == graph[f].nodes[n] IN
       /\ node.kind # old.kind => Fits(node.kind, old.config)
       /\ node.config # old.config => Fits(node.kind, node.config)
       /\ BeginEdit(t, f,
            [Begun("update_node", f) EXCEPT !.id = n, !.old = old, !.new = node],
            "save_node")

(* marks: the payload has is_start.  The update of a row that is gone fails. *)
UpdateNode(t, marks) ==
  LET r == req[t]
      g == graph[r.flow]
      sets == marks /\ r.new.isStart
      others == IF sets THEN Unmarked(g.nodes) ELSE g.nodes
      node == Written(others[r.id], r.old, r.new)
  IN
  /\ r.pc = "save_node" /\ r.op = "update_node"
  /\ r.new.isStart # r.old.isStart => marks
  /\ r.id \in DOMAIN g.nodes
  /\ UNCHANGED used
  /\ Edited(t,
       [g EXCEPT !.nodes = [others EXCEPT ![r.id] = [node EXCEPT !.isStart = @ \/ sets]]],
       IF sets THEN r.id
       ELSE IF marks /\ r.row.start = r.id THEN None ELSE r.row.start)

BeginDeleteNode(t, f, n) ==
  /\ n \in DOMAIN graph[f].nodes
  /\ BeginEdit(t, f, [Begun("delete_node", f) EXCEPT !.id = n], "save_node")

EdgesWithout(g, n) ==
  Restrict(g.edges, {e \in DOMAIN g.edges : n \notin {g.edges[e].source, g.edges[e].target}})

DeleteNode(t) ==
  LET r == req[t]
      g == graph[r.flow]
  IN
  /\ r.pc = "save_node" /\ r.op = "delete_node"
  /\ UNCHANGED used
  /\ Edited(t,
       [nodes |-> Restrict(g.nodes, DOMAIN g.nodes \ {r.id}),
        edges |-> EdgesWithout(g, r.id)],
       IF r.row.start = r.id THEN None ELSE r.row.start)

(* Another request has removed the row: the update fails.                   *)
NodeIsGone(t) ==
  /\ req[t].pc = "save_node"
  /\ req[t].op = "update_node"
  /\ req[t].id \notin DOMAIN graph[req[t].flow].nodes
  /\ GiveUp(t)

BeginCreateEdge(t, f) ==
  \E edge \in EdgeRow :
    BeginEdit(t, f, [Begun("create_edge", f) EXCEPT !.new = edge], "check_edge")

BeginUpdateEdge(t, f, e) ==
  \E edge \in EdgeRow :
    /\ e \in DOMAIN graph[f].edges
    /\ BeginEdit(t, f,
         [Begun("update_edge", f) EXCEPT
            !.id = e, !.old = graph[f].edges[e], !.new = edge],
         "check_edge")

BeginDeleteEdge(t, f, e) ==
  /\ e \in DOMAIN graph[f].edges
  /\ BeginEdit(t, f, [Begun("delete_edge", f) EXCEPT !.id = e], "save_edge")

CheckEdge(t) ==
  LET r == req[t]
      g == graph[r.flow]
  IN
  /\ r.pc = "check_edge"
  /\ IF /\ {r.new.source, r.new.target} \subseteq DOMAIN g.nodes
        /\ \A d \in DOMAIN g.edges \ {r.id} : Signature(g.edges[d]) # Signature(r.new)
       THEN GoOn(t, r, "save_edge")
       ELSE GiveUp(t)

(* The foreign keys refuse an edge whose end has been removed.              *)
SaveEdge(t, e) ==
  LET r == req[t]
      g == graph[r.flow]
      edge == IF r.op = "create_edge" THEN r.new ELSE Written(g.edges[e], r.old, r.new)
  IN
  /\ r.pc = "save_edge"
  /\ \/ r.op = "create_edge" /\ e \in EdgeIds \ used[r.flow]
     \/ r.op = "update_edge" /\ e = r.id /\ e \in DOMAIN g.edges
  /\ {edge.source, edge.target} \subseteq DOMAIN g.nodes
  /\ used' = [used EXCEPT ![r.flow] = @ \cup {e}]
  /\ Edited(t, [g EXCEPT !.edges = With(g.edges, e, edge)], r.row.start)

DeleteEdge(t) ==
  LET r == req[t]
      g == graph[r.flow]
  IN
  /\ r.pc = "save_edge" /\ r.op = "delete_edge"
  /\ UNCHANGED used
  /\ Edited(t, [g EXCEPT !.edges = Restrict(g.edges, DOMAIN g.edges \ {r.id})], r.row.start)

EdgeIsRefused(t) ==
  LET r == req[t]
      g == graph[r.flow]
  IN
  /\ r.pc = "save_edge" /\ r.op # "delete_edge"
  /\ \/ ~ {r.new.source, r.new.target} \subseteq DOMAIN g.nodes
     \/ r.op = "update_edge" /\ r.id \notin DOMAIN g.edges
  /\ GiveUp(t)

-----------------------------------------------------------------------------
(* Publishing *)

BeginPublish(t, f) ==
  /\ flow[f].status # "archived"
  /\ Start(t, f, Begun("publish", f), "nodes_to_check")

(* The graph is read twice, to be checked and to be stored: both times the   *)
(* nodes first, then the edges.                                             *)
ReadNodes(t) ==
  LET r == req[t] IN
  \E next \in {<<"nodes_to_check", "edges_to_check">>, <<"nodes", "edges">>} :
    /\ r.pc = next[1]
    /\ GoOn(t, [r EXCEPT !.graph = [nodes |-> graph[r.flow].nodes, edges |-> NoRows]],
            next[2])

(* Slip: what is found invalid is published all the same.                   *)
StoreUnchecked(t) ==
  /\ req[t].pc = "edges_to_check"
  /\ GoOn(t, [req[t] EXCEPT !.graph = EmptyGraph], "nodes")

Validate(t) ==
  LET r == req[t] IN
  /\ r.pc = "edges_to_check"
  /\ IF Valid(r.row.start, [r.graph EXCEPT !.edges = graph[r.flow].edges])
       THEN GoOn(t, [r EXCEPT !.graph = EmptyGraph], "nodes")
       ELSE GiveUp(t)

ReadEdges(t) ==
  LET r == req[t] IN
  /\ r.pc = "edges"
  /\ GoOn(t, [r EXCEPT !.graph.edges = graph[r.flow].edges], "number")

Numbers(f) == {versions[f][i].number : i \in DOMAIN versions[f]}

TakeNumber(t) ==
  LET r == req[t] IN
  /\ r.pc = "number"
  /\ \E number \in 1 .. Len(versions[r.flow]) + 1 :
       /\ number - 1 \in Numbers(r.flow) \cup {0}
       /\ \A k \in Numbers(r.flow) : k < number
       /\ GoOn(t, [r EXCEPT !.number = number, !.seen = Len(versions[r.flow])], "deactivate")

ActiveOnes(f) == {i \in DOMAIN versions[f] : versions[f][i].active}

(* The statement that deactivates works on the rows committed when it starts; *)
(* its locks only order such statements of several requests.                *)
Deactivate(t) ==
  LET r == req[t] IN
  /\ r.pc = "deactivate"
  /\ GoOn(t, [r EXCEPT !.active = ActiveOnes(r.flow)], "release")

(* Slip: the versions before are left as they are.                          *)
ReleaseBeside(t) ==
  LET r == req[t]
      rows == versions[r.flow]
  IN
  /\ r.pc = "release"
  /\ versions' =
       [versions EXCEPT ![r.flow] =
          Append(rows, [number |-> r.number, active |-> TRUE, start |-> r.row.start,
                        graph |-> r.graph, seen |-> r.seen])]
  /\ flow' = [flow EXCEPT ![r.flow] = Written(@, r.row, [r.row EXCEPT !.status = "published"])]
  /\ req' = [req EXCEPT ![t] = Idle]
  /\ UNCHANGED <<graph, used, begun, raced>>

Release(t) ==
  LET r == req[t]
      rows == versions[r.flow]
      before == [i \in DOMAIN rows |-> [rows[i] EXCEPT !.active = @ /\ i \notin r.active]]
  IN
  /\ r.pc = "release"
  /\ versions' =
       [versions EXCEPT ![r.flow] =
          Append(before, [number |-> r.number, active |-> TRUE, start |-> r.row.start,
                          graph |-> r.graph, seen |-> r.seen])]
  /\ flow' = [flow EXCEPT ![r.flow] = Written(@, r.row, [r.row EXCEPT !.status = "published"])]
  /\ req' = [req EXCEPT ![t] = Idle]
  /\ UNCHANGED <<graph, used, begun, raced>>

-----------------------------------------------------------------------------
EditStep(t) ==
  \/ \E f \in Flows :
       \/ BeginCreateNode(t, f) \/ BeginCreateEdge(t, f)
       \/ \E n \in NodeIds : BeginUpdateNode(t, f, n) \/ BeginDeleteNode(t, f, n)
       \/ \E e \in EdgeIds : BeginUpdateEdge(t, f, e) \/ BeginDeleteEdge(t, f, e)
  \/ \E n \in NodeIds : CreateNode(t, n)
  \/ \E marks \in BOOLEAN : UpdateNode(t, marks)
  \/ DeleteNode(t) \/ NodeIsGone(t)
  \/ CheckEdge(t)
  \/ \E e \in EdgeIds : SaveEdge(t, e)
  \/ DeleteEdge(t) \/ EdgeIsRefused(t)

PublishStep(t) ==
  \/ \E f \in Flows : BeginPublish(t, f)
  \/ ReadNodes(t) \/ Validate(t) \/ ReadEdges(t)
  \/ TakeNumber(t) \/ Deactivate(t) \/ Release(t)

FlowStep(t) ==
  \/ \E f \in Flows :
       \/ \E status \in VALID_FLOW_STATUSES : BeginUpdateFlow(t, f, status)
       \/ BeginDeleteFlow(t, f) \/ BeginDuplicate(t, f)
       \/ CopyEdges(t, f)
  \/ SaveFlow(t) \/ CopyNodes(t)

Next ==
  \/ \E f \in Flows : CreateFlow(f) \/ CreateAndPublish(f)
  \/ \E t \in Threads : EditStep(t) \/ PublishStep(t) \/ FlowStep(t)

Spec == Init /\ [][Next]_vars

-----------------------------------------------------------------------------
(* The rows and the requests have their types.                              *)
TypeOK ==
  /\ flow \in [Flows -> FlowRow \cup {NoFlow}]
  /\ \A f \in Flows :
       IsGraph(graph[f]) /\ \A i \in DOMAIN versions[f] : IsVersion(versions[f][i])
  /\ \A t \in Threads :
       /\ req[t].flow \in Flows \cup {None}
       /\ IsGraph(req[t].graph)
       /\ req[t].pc # "idle" => req[t].flow \in Flows /\ flow[req[t].flow] # NoFlow

(* A version that was committed when another one took its number has a lower *)
(* number and is not active: only publications that overlapped may end with  *)
(* the same number or both active.                                          *)
LaterReplacesEarlier ==
  \A f \in Flows : \A i, j \in DOMAIN versions[f] :
    i <= versions[f][j].seen =>
      /\ versions[f][i].number < versions[f][j].number
      /\ ~ versions[f][i].active

(* Once a flow has been published a call can always find a version of it to  *)
(* start with.                                                              *)
AVersionIsActive ==
  \A f \in Flows : versions[f] # <<>> => ActiveOnes(f) # {}

(* A flow with a version is no draft any more, whatever was under way when   *)
(* it was published; its graph is closed to requests that begin then.       *)
PublishedIsNoDraft ==
  \A f \in Flows : versions[f] # <<>> => flow[f].status # "draft"

(* Unless an edit overlapped another request, every version is the graph as  *)
(* it stands, and valid: all its nodes still have the rows that the sessions *)
(* of calls refer to.                                                       *)
VersionsAreTheGraph ==
  \A f \in Flows \ raced : \A i \in DOMAIN versions[f] :
    /\ versions[f][i].graph = graph[f]
    /\ Valid(versions[f][i].start, versions[f][i].graph)

(* Unless two edits overlapped, the node a flow starts at is one of its own  *)
(* and marked as its start.                                                 *)
StartIsMarked ==
  \A f \in Flows \ raced :
    flow[f].start # None =>
      /\ flow[f].start \in DOMAIN graph[f].nodes
      /\ graph[f].nodes[flow[f].start].isStart

(* What calls may rely on, see FlowReleases: a version stays what it was     *)
(* published as, and is taken back only when another one replaces it.       *)
Releases ==
  INSTANCE FlowReleases WITH
    released <- [f \in Flows |->
      [i \in DOMAIN versions[f] |->
         [active |-> versions[f][i].active, number |-> versions[f][i].number,
          content |-> <<versions[f][i].start, versions[f][i].graph>>]]]

ImplementsReleases == Releases!Spec

(* Versions replace each other: a publication that has seen another one     *)
(* takes its place, and once a flow was published it is no draft and has a  *)
(* version for calls to start with.                                         *)
VersionsReplaceEachOther ==
  LaterReplacesEarlier /\ AVersionIsActive /\ PublishedIsNoDraft

(* What is edited and published is sound: the rows are, and, but for edits  *)
(* that overlapped, the start of a flow is one of its nodes and its         *)
(* versions are the graph that was validated.                               *)
GraphsAreSound == TypeOK /\ StartIsMarked /\ VersionsAreTheGraph
=============================================================================
