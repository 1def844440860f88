------------------------ MODULE FlowAuthoring_proofs ------------------------
(***************************************************************************)
(* Theorems about FlowAuthoring: what calls may rely on in the versions of   *)
(* flows, for any number of threads, flows, nodes, edges and requests.       *)
(***************************************************************************)
EXTENDS FlowAuthoring, SequenceTheorems, TLAPS

(* A row of flow_versions, of which the graph and its start are any values.  *)
VersionRow(S) ==
  [number : Nat \ {0}, active : BOOLEAN, start : S, graph : S, seen : Nat]

(* Flows have rows before they have versions; a version took its number when *)
(* those before it were seen.                                               *)
RowsHold ==
  /\ DOMAIN flow = Flows /\ DOMAIN versions = Flows /\ DOMAIN graph = Flows
  /\ \A f \in Flows :
       /\ flow[f] = NoFlow => versions[f] = <<>>
       /\ flow[f] # NoFlow => DOMAIN flow[f] = {"status", "start"}
                              /\ flow[f].status \in VALID_FLOW_STATUSES
       /\ \E S : versions[f] \in Seq(VersionRow(S))
       /\ \A i \in DOMAIN versions[f] :
            versions[f][i].seen < i /\ versions[f][i].number <= i

(* What is known of a request: the row of its flow was there when it began,  *)
(* and was no draft if the flow is one no more, ...                          *)
KnowsItsFlow(r) ==
  /\ DOMAIN r = DOMAIN Idle
  /\ r.pc # "idle" =>
       /\ r.flow \in Flows
       /\ flow[r.flow] # NoFlow
       /\ DOMAIN r.row = {"status", "start"}
       /\ r.row.status \in VALID_FLOW_STATUSES
       /\ r.row.status # "draft" => flow[r.flow].status # "draft"
  /\ r.pc = "save_flow" =>
       /\ r.new.status \in VALID_FLOW_STATUSES
       /\ r.new.status = "draft" => r.row.status = "draft"

(* ... what it has seen when it took a number, which is greater than those   *)
(* it has seen, and that it deactivates what is active of what it has seen.  *)
KnowsItsNumber(r) ==
  /\ r.pc \in {"deactivate", "release"} =>
       /\ r.seen \in 0 .. Len(versions[r.flow])
       /\ r.number \in 1 .. r.seen + 1
       /\ \A i \in 1 .. r.seen : versions[r.flow][i].number < r.number
  /\ r.pc = "release" =>
       \A i \in 1 .. r.seen : versions[r.flow][i].active => i \in r.active

RequestsHold ==
  /\ DOMAIN req = Threads
  /\ \A t \in Threads : \A r : r = req[t] => KnowsItsFlow(r) /\ KnowsItsNumber(r)

IInv == RowsHold /\ RequestsHold /\ VersionsReplaceEachOther

-----------------------------------------------------------------------------
(* What a step may do to the rows that other requests know of: a flow stays  *)
(* and never becomes a draft again, versions are added and taken back.       *)
FlowsGoOn ==
  \A f \in Flows :
    /\ flow[f] # NoFlow => flow'[f] # NoFlow
    /\ flow[f] # NoFlow /\ flow[f].status # "draft" => flow'[f].status # "draft"

VersionsGrow ==
  \A f \in Flows :
    /\ Len(versions'[f]) \in Nat /\ Len(versions'[f]) >= Len(versions[f])
    /\ \A i \in 1 .. Len(versions[f]) :
         /\ versions'[f][i].number = versions[f][i].number
         /\ versions'[f][i].active => versions[f][i].active

LEMMA VersionsAreSeq ==
  ASSUME RowsHold, NEW f \in Flows
  PROVE  Len(versions[f]) \in Nat /\ DOMAIN versions[f] = 1 .. Len(versions[f])
  BY DEF RowsHold

LEMMA KnownStays ==
  ASSUME RowsHold, FlowsGoOn, VersionsGrow, NEW r, KnowsItsFlow(r), KnowsItsNumber(r)
  PROVE  KnowsItsFlow(r)' /\ KnowsItsNumber(r)'
<1>1. KnowsItsFlow(r)'
  BY DEF KnowsItsFlow, FlowsGoOn, Idle, NoFlow, EmptyGraph, NoRows
<1>2. ASSUME r.pc \in {"deactivate", "release"}
      PROVE  /\ r.flow \in Flows
             /\ r.seen \in Nat /\ r.seen <= Len(versions[r.flow])
             /\ Len(versions[r.flow]) \in Nat
  BY <1>2, VersionsAreSeq DEF KnowsItsFlow, KnowsItsNumber
<1>3. ASSUME r.pc \in {"deactivate", "release"}
      PROVE  /\ r.seen \in 0 .. Len(versions'[r.flow])
             /\ r.number \in 1 .. r.seen + 1
             /\ \A i \in 1 .. r.seen : versions'[r.flow][i].number < r.number
  <2>1. /\ Len(versions'[r.flow]) \in Nat /\ Len(versions'[r.flow]) >= Len(versions[r.flow])
        /\ \A i \in 1 .. Len(versions[r.flow]) :
             versions'[r.flow][i].number = versions[r.flow][i].number
    BY <1>2, <1>3, Zenon DEF VersionsGrow
  <2>2. /\ r.number \in 1 .. r.seen + 1
        /\ \A i \in 1 .. r.seen : versions[r.flow][i].number < r.number
    BY <1>3 DEF KnowsItsNumber
  <2>3. \A i \in 1 .. r.seen : i \in 1 .. Len(versions[r.flow])
    BY <1>2, <1>3
  <2>4. r.seen \in 0 .. Len(versions'[r.flow])
    BY <1>2, <1>3, <2>1
  <2>5. QED
    BY <2>1, <2>2, <2>3, <2>4
<1>4. ASSUME r.pc = "release", NEW i \in 1 .. r.seen, versions'[r.flow][i].active
      PROVE  i \in r.active
  <2>1. r.flow \in Flows /\ i \in 1 .. Len(versions[r.flow])
    BY <1>2, <1>4
  <2>2. versions[r.flow][i].active
    BY <2>1, <1>4, Zenon DEF VersionsGrow
  <2>3. QED
    BY <2>2, <1>4 DEF KnowsItsNumber
<1>5. KnowsItsNumber(r)'
  BY <1>3, <1>4 DEF KnowsItsNumber
<1>6. QED
  BY <1>1, <1>5

LEMMA IdleIsKnown == KnowsItsFlow(Idle) /\ KnowsItsNumber(Idle)
  BY DEF KnowsItsFlow, KnowsItsNumber, Idle

(* A step of one thread.                                                    *)
LEMMA RequestsStay ==
  ASSUME RowsHold, RequestsHold, FlowsGoOn, VersionsGrow,
         NEW t \in Threads, NEW s, req' = [req EXCEPT ![t] = s],
         KnowsItsFlow(s)', KnowsItsNumber(s)'
  PROVE  RequestsHold'
<1>1. DOMAIN req' = Threads
  BY DEF RequestsHold
<1>2. ASSUME NEW u \in Threads, NEW r, r = req'[u]
      PROVE  KnowsItsFlow(r)' /\ KnowsItsNumber(r)'
  <2>1. CASE u = t
    BY <2>1, <1>2 DEF RequestsHold
  <2>2. CASE u # t
    <3>1. r = req[u]
      BY <2>2, <1>2 DEF RequestsHold
    <3>2. KnowsItsFlow(r) /\ KnowsItsNumber(r)
      BY <3>1 DEF RequestsHold
    <3>3. QED
      BY <3>2, KnownStays
  <2>3. QED
    BY <2>1, <2>2
<1>3. QED
  BY <1>1, <1>2 DEF RequestsHold

(* A step that changes neither flows nor versions.                          *)
LEMMA QuietKeeps ==
  ASSUME IInv, UNCHANGED <<flow, graph, versions>>, RequestsHold'
  PROVE  IInv'
<1>1. RowsHold'
  BY DEF IInv, RowsHold
<1>2. VersionsReplaceEachOther'
  BY DEF IInv, VersionsReplaceEachOther, LaterReplacesEarlier, AVersionIsActive,
         ActiveOnes, PublishedIsNoDraft
<1>3. QED
  BY <1>1, <1>2 DEF IInv

LEMMA QuietGoesOn ==
  ASSUME RowsHold, UNCHANGED <<flow, versions>>
  PROVE  FlowsGoOn /\ VersionsGrow
  BY VersionsAreSeq DEF FlowsGoOn, VersionsGrow

-----------------------------------------------------------------------------
(* The kinds of steps a request is made of.                                 *)
LEMMA StartKeeps ==
  ASSUME IInv, NEW t \in Threads, NEW f \in Flows, NEW request, NEW pc,
         Start(t, f, request, pc),
         DOMAIN request = DOMAIN Idle, request.flow = f, request.row = flow[f],
         pc \notin {"deactivate", "release"},
         pc = "save_flow" => /\ request.new.status \in VALID_FLOW_STATUSES
                             /\ request.new.status = "draft" => request.row.status = "draft"
  PROVE  IInv'
<1> DEFINE s == [request EXCEPT !.pc = pc]
<1>1. UNCHANGED <<flow, graph, versions>> /\ req' = [req EXCEPT ![t] = s] /\ flow[f] # NoFlow
  BY DEF Start
<1>2. /\ DOMAIN s = DOMAIN Idle /\ s.flow = f /\ s.row = flow[f] /\ s.new = request.new
      /\ s.pc = pc
  BY DEF Idle
<1>3. DOMAIN flow[f] = {"status", "start"} /\ flow[f].status \in VALID_FLOW_STATUSES
  BY <1>1 DEF IInv, RowsHold
<1>4. KnowsItsFlow(s)'
  BY <1>1, <1>2, <1>3 DEF KnowsItsFlow
<1>5. KnowsItsNumber(s)'
  BY <1>2 DEF KnowsItsNumber
<1>6. RequestsHold'
  BY <1>1, <1>4, <1>5, RequestsStay, QuietGoesOn DEF IInv
<1>7. QED
  BY <1>1, <1>6, QuietKeeps

LEMMA GoOnKeeps ==
  ASSUME IInv, NEW t \in Threads, NEW r, NEW pc, GoOn(t, r, pc),
         req[t].pc # "idle", DOMAIN r = DOMAIN Idle,
         r.flow = req[t].flow, r.row = req[t].row,
         pc \notin {"deactivate", "release", "save_flow"}
  PROVE  IInv'
<1> DEFINE s == [r EXCEPT !.pc = pc]
<1>1. UNCHANGED <<flow, graph, versions>> /\ req' = [req EXCEPT ![t] = s]
  BY DEF GoOn
<1>2. DOMAIN s = DOMAIN Idle /\ s.flow = r.flow /\ s.row = r.row /\ s.pc = pc
  BY DEF Idle
<1>3. KnowsItsFlow(req[t])
  BY DEF IInv, RequestsHold
<1>4. KnowsItsFlow(s)'
  BY <1>1, <1>2, <1>3 DEF KnowsItsFlow
<1>5. KnowsItsNumber(s)'
  BY <1>2 DEF KnowsItsNumber
<1>6. RequestsHold'
  BY <1>1, <1>4, <1>5, RequestsStay, QuietGoesOn DEF IInv
<1>7. QED
  BY <1>1, <1>6, QuietKeeps

LEMMA GiveUpKeeps ==
  ASSUME IInv, NEW t \in Threads, GiveUp(t)
  PROVE  IInv'
<1>1. UNCHANGED <<flow, graph, versions>> /\ req' = [req EXCEPT ![t] = Idle]
  BY DEF GiveUp
<1>2. KnowsItsFlow(Idle)' /\ KnowsItsNumber(Idle)'
  BY DEF KnowsItsFlow, KnowsItsNumber, Idle
<1>3. RequestsHold'
  BY <1>1, <1>2, RequestsStay, QuietGoesOn DEF IInv
<1>4. QED
  BY <1>1, <1>3, QuietKeeps

(* A request that ends with the commit of what it has changed in the row of  *)
(* its flow: what it has read as no draft it does not make one.              *)
LEMMA WrittenGoesOn ==
  ASSUME IInv, NEW t \in Threads, req[t].pc # "idle",
         NEW new, new.status \in VALID_FLOW_STATUSES,
         new.status = "draft" => req[t].row.status = "draft",
         flow' = [flow EXCEPT ![req[t].flow] = Written(@, req[t].row, new)]
  PROVE  /\ FlowsGoOn
         /\ DOMAIN flow' = Flows
         /\ \A f \in Flows :
              /\ flow'[f] = NoFlow => flow[f] = NoFlow
              /\ flow'[f] # NoFlow => /\ DOMAIN flow'[f] = {"status", "start"}
                                      /\ flow'[f].status \in VALID_FLOW_STATUSES
         /\ new.status # req[t].row.status => flow'[req[t].flow].status = new.status
<1> DEFINE f == req[t].flow
           w == Written(flow[f], req[t].row, new)
<1>1. KnowsItsFlow(req[t])
  BY DEF IInv, RequestsHold
<1>2. /\ f \in Flows /\ flow[f] # NoFlow /\ req[t].row.status \in VALID_FLOW_STATUSES
      /\ req[t].row.status # "draft" => flow[f].status # "draft"
  BY <1>1 DEF KnowsItsFlow
<1>3. DOMAIN flow[f] = {"status", "start"} /\ flow[f].status \in VALID_FLOW_STATUSES
  BY <1>2 DEF IInv, RowsHold
<1>4. /\ DOMAIN w = {"status", "start"}
      /\ w.status = IF new.status # req[t].row.status THEN new.status ELSE flow[f].status
  BY <1>3 DEF Written
<1>5. w # NoFlow /\ w.status \in VALID_FLOW_STATUSES
  BY <1>3, <1>4 DEF NoFlow, VALID_FLOW_STATUSES
<1>6. DOMAIN flow' = Flows /\ flow'[f] = w /\ \A g \in Flows \ {f} : flow'[g] = flow[g]
  BY <1>2 DEF IInv, RowsHold
<1>7. flow[f].status # "draft" => w.status # "draft"
  BY <1>2, <1>4
<1>8. FlowsGoOn
  BY <1>5, <1>6, <1>7 DEF FlowsGoOn
<1>9. \A g \in Flows :
        /\ flow'[g] = NoFlow => flow[g] = NoFlow
        /\ flow'[g] # NoFlow => /\ DOMAIN flow'[g] = {"status", "start"}
                                /\ flow'[g].status \in VALID_FLOW_STATUSES
  BY <1>4, <1>5, <1>6 DEF IInv, RowsHold
<1>10. QED
  BY <1>4, <1>6, <1>8, <1>9

LEMMA SaveKeeps ==
  ASSUME IInv, NEW t \in Threads, req[t].pc # "idle",
         NEW new, new.status \in VALID_FLOW_STATUSES,
         new.status = "draft" => req[t].row.status = "draft",
         flow' = [flow EXCEPT ![req[t].flow] = Written(@, req[t].row, new)],
         req' = [req EXCEPT ![t] = Idle],
         DOMAIN graph' = DOMAIN graph, versions' = versions
  PROVE  IInv'
<1>1. FlowsGoOn
  BY WrittenGoesOn
<1>2. VersionsGrow
  BY VersionsAreSeq DEF VersionsGrow, IInv
<1>3. KnowsItsFlow(Idle)' /\ KnowsItsNumber(Idle)'
  BY DEF KnowsItsFlow, KnowsItsNumber, Idle
<1>4. RequestsHold'
  BY <1>1, <1>2, <1>3, RequestsStay DEF IInv
<1>5. /\ DOMAIN flow' = Flows
      /\ \A f \in Flows :
           /\ flow'[f] = NoFlow => flow[f] = NoFlow
           /\ flow'[f] # NoFlow => /\ DOMAIN flow'[f] = {"status", "start"}
                                   /\ flow'[f].status \in VALID_FLOW_STATUSES
  BY WrittenGoesOn
<1>6. RowsHold'
  BY <1>5 DEF IInv, RowsHold
<1>7. PublishedIsNoDraft'
  BY <1>1 DEF IInv, RowsHold, VersionsReplaceEachOther, PublishedIsNoDraft, FlowsGoOn
<1>8. LaterReplacesEarlier' /\ AVersionIsActive'
  BY DEF IInv, VersionsReplaceEachOther, LaterReplacesEarlier, AVersionIsActive, ActiveOnes
<1>9. QED
  BY <1>4, <1>6, <1>7, <1>8 DEF IInv, VersionsReplaceEachOther

(* A new flow is a draft without versions.                                  *)
LEMMA NewFlowKeeps ==
  ASSUME IInv, NEW f \in Flows, flow[f] = NoFlow, NEW start,
         flow' = [flow EXCEPT ![f] = [status |-> "draft", start |-> start]],
         DOMAIN graph' = DOMAIN graph, versions' = versions,
         \/ req' = req
         \/ \E t \in Threads : req' = [req EXCEPT ![t] = Idle]
  PROVE  IInv'
<1>1. /\ DOMAIN flow' = Flows /\ flow'[f] = [status |-> "draft", start |-> start]
      /\ \A g \in Flows \ {f} : flow'[g] = flow[g]
  BY DEF IInv, RowsHold
<1>2. flow'[f] # NoFlow /\ DOMAIN flow'[f] = {"status", "start"}
      /\ flow'[f].status \in VALID_FLOW_STATUSES
  BY <1>1 DEF NoFlow, VALID_FLOW_STATUSES
<1>3. FlowsGoOn
  BY <1>1, <1>2 DEF FlowsGoOn
<1>4. VersionsGrow
  BY VersionsAreSeq DEF VersionsGrow, IInv
<1>5. KnowsItsFlow(Idle)' /\ KnowsItsNumber(Idle)'
  BY DEF KnowsItsFlow, KnowsItsNumber, Idle
<1>6. RequestsHold'
  <2>1. CASE req' = req
    BY <2>1, <1>3, <1>4, KnownStays DEF IInv, RequestsHold
  <2>2. CASE \E t \in Threads : req' = [req EXCEPT ![t] = Idle]
    BY <2>2, <1>3, <1>4, <1>5, RequestsStay DEF IInv
  <2>3. QED
    BY <2>1, <2>2
<1>7. RowsHold'
  BY <1>1, <1>2 DEF IInv, RowsHold
<1>8. versions[f] = <<>>
  BY DEF IInv, RowsHold
<1>9. PublishedIsNoDraft'
  BY <1>1, <1>8 DEF IInv, VersionsReplaceEachOther, PublishedIsNoDraft
<1>10. LaterReplacesEarlier' /\ AVersionIsActive'
  BY DEF IInv, VersionsReplaceEachOther, LaterReplacesEarlier, AVersionIsActive, ActiveOnes
<1>11. QED
  BY <1>6, <1>7, <1>9, <1>10 DEF IInv, VersionsReplaceEachOther

-----------------------------------------------------------------------------
(* The requests that edit a flow or its graph.                              *)
LEMMA RequestIsKnown ==
  ASSUME IInv, NEW t \in Threads, req[t].pc # "idle"
  PROVE  /\ DOMAIN req[t] = DOMAIN Idle
         /\ req[t].flow \in Flows
         /\ DOMAIN req[t].row = {"status", "start"}
         /\ req[t].row.status \in VALID_FLOW_STATUSES
  BY DEF IInv, RequestsHold, KnowsItsFlow

LEMMA BegunIsOf ==
  ASSUME NEW op, NEW f
  PROVE  /\ DOMAIN Begun(op, f) = DOMAIN Idle
         /\ Begun(op, f).flow = f /\ Begun(op, f).row = flow[f]
  BY DEF Begun, Idle

LEMMA EditedKeeps ==
  ASSUME IInv, NEW t \in Threads, req[t].pc # "idle", NEW rows, NEW start,
         Edited(t, rows, start)
  PROVE  IInv'
<1> DEFINE new == [req[t].row EXCEPT !.start = start]
<1>1. new.status = req[t].row.status /\ req[t].row.status \in VALID_FLOW_STATUSES
  BY RequestIsKnown
<1>2. /\ flow' = [flow EXCEPT ![req[t].flow] = Written(@, req[t].row, new)]
      /\ req' = [req EXCEPT ![t] = Idle]
      /\ DOMAIN graph' = DOMAIN graph /\ versions' = versions
  BY DEF Edited
<1>3. QED
  BY <1>1, <1>2, SaveKeeps

LEMMA EditStepKeeps ==
  ASSUME IInv, NEW t \in Threads, EditStep(t)
  PROVE  IInv'
<1>1. ASSUME NEW f \in Flows, BeginCreateNode(t, f)
      PROVE  IInv'
  <2>1. PICK node :
          Start(t, f, [Begun("create_node", f) EXCEPT !.new = node],
                "save_node")
    BY <1>1, Zenon DEF BeginCreateNode, BeginEdit
  <2> DEFINE request == [Begun("create_node", f) EXCEPT !.new = node]
  <2>2. DOMAIN request = DOMAIN Idle /\ request.flow = f /\ request.row = flow[f]
    BY DEF Begun, Idle
  <2>3. Start(t, f, request, "save_node")
    BY <2>1
  <2> HIDE DEF request
  <2>4. QED
    BY <2>2, <2>3, StartKeeps
<1>2. ASSUME NEW f \in Flows, BeginCreateEdge(t, f)
      PROVE  IInv'
  <2>1. PICK edge :
          Start(t, f, [Begun("create_edge", f) EXCEPT !.new = edge],
                "check_edge")
    BY <1>2, Zenon DEF BeginCreateEdge, BeginEdit
  <2> DEFINE request == [Begun("create_edge", f) EXCEPT !.new = edge]
  <2>2. DOMAIN request = DOMAIN Idle /\ request.flow = f /\ request.row = flow[f]
    BY DEF Begun, Idle
  <2>3. Start(t, f, request, "check_edge")
    BY <2>1
  <2> HIDE DEF request
  <2>4. QED
    BY <2>2, <2>3, StartKeeps
<1>3. ASSUME NEW f \in Flows, NEW n \in NodeIds, BeginUpdateNode(t, f, n)
      PROVE  IInv'
  <2>1. PICK old, node :
          Start(t, f, [Begun("update_node", f) EXCEPT !.id = n, !.old = old, !.new = node],
                "save_node")
    BY <1>3, Zenon DEF BeginUpdateNode, BeginEdit
  <2> DEFINE request == [Begun("update_node", f) EXCEPT !.id = n, !.old = old, !.new = node]
  <2>2. DOMAIN request = DOMAIN Idle /\ request.flow = f /\ request.row = flow[f]
    BY DEF Begun, Idle
  <2>3. Start(t, f, request, "save_node")
    BY <2>1
  <2> HIDE DEF request
  <2>4. QED
    BY <2>2, <2>3, StartKeeps
<1>4. ASSUME NEW f \in Flows, NEW n \in NodeIds, BeginDeleteNode(t, f, n)
      PROVE  IInv'
  <2> DEFINE request == [Begun("delete_node", f) EXCEPT !.id = n]
  <2>1. Start(t, f, request, "save_node")
    BY <1>4 DEF BeginDeleteNode, BeginEdit
  <2>2. DOMAIN request = DOMAIN Idle /\ request.flow = f /\ request.row = flow[f]
    BY DEF Begun, Idle
  <2> HIDE DEF request
  <2>3. QED
    BY <2>1, <2>2, StartKeeps
<1>5. ASSUME NEW f \in Flows, NEW e \in EdgeIds, BeginUpdateEdge(t, f, e)
      PROVE  IInv'
  <2>1. PICK old, edge :
          Start(t, f, [Begun("update_edge", f) EXCEPT !.id = e, !.old = old, !.new = edge],
                "check_edge")
    BY <1>5, Zenon DEF BeginUpdateEdge, BeginEdit
  <2> DEFINE request == [Begun("update_edge", f) EXCEPT !.id = e, !.old = old, !.new = edge]
  <2>2. DOMAIN request = DOMAIN Idle /\ request.flow = f /\ request.row = flow[f]
    BY DEF Begun, Idle
  <2>3. Start(t, f, request, "check_edge")
    BY <2>1
  <2> HIDE DEF request
  <2>4. QED
    BY <2>2, <2>3, StartKeeps
<1>6. ASSUME NEW f \in Flows, NEW e \in EdgeIds, BeginDeleteEdge(t, f, e)
      PROVE  IInv'
  <2> DEFINE request == [Begun("delete_edge", f) EXCEPT !.id = e]
  <2>1. Start(t, f, request, "save_edge")
    BY <1>6 DEF BeginDeleteEdge, BeginEdit
  <2>2. DOMAIN request = DOMAIN Idle /\ request.flow = f /\ request.row = flow[f]
    BY DEF Begun, Idle
  <2> HIDE DEF request
  <2>3. QED
    BY <2>1, <2>2, StartKeeps
<1>7. ASSUME NEW n \in NodeIds, CreateNode(t, n)
      PROVE  IInv'
  BY <1>7, EditedKeeps DEF CreateNode
<1>8. ASSUME NEW marks \in BOOLEAN, UpdateNode(t, marks)
      PROVE  IInv'
  BY <1>8, EditedKeeps DEF UpdateNode
<1>9. CASE DeleteNode(t)
  BY <1>9, EditedKeeps DEF DeleteNode
<1>10. CASE NodeIsGone(t)
  BY <1>10, GiveUpKeeps DEF NodeIsGone
<1>11. CASE CheckEdge(t)
  <2>1. req[t].pc # "idle" /\ DOMAIN req[t] = DOMAIN Idle
    BY <1>11, RequestIsKnown DEF CheckEdge
  <2>2. GoOn(t, req[t], "save_edge") \/ GiveUp(t)
    BY <1>11 DEF CheckEdge
  <2>3. QED
    BY <2>1, <2>2, GoOnKeeps, GiveUpKeeps
<1>12. ASSUME NEW e \in EdgeIds, SaveEdge(t, e)
       PROVE  IInv'
  BY <1>12, EditedKeeps DEF SaveEdge
<1>0. CASE DeleteEdge(t)
  BY <1>0, EditedKeeps DEF DeleteEdge
<1>14. CASE EdgeIsRefused(t)
  BY <1>14, GiveUpKeeps DEF EdgeIsRefused
<1>15. QED
  BY <1>1, <1>2, <1>3, <1>4, <1>5, <1>6, <1>7, <1>8, <1>9, <1>10, <1>11, <1>12, <1>0, <1>14
     DEF EditStep

LEMMA FlowStepKeeps ==
  ASSUME IInv, NEW t \in Threads, FlowStep(t)
  PROVE  IInv'
<1>1. ASSUME NEW f \in Flows, NEW status \in VALID_FLOW_STATUSES, BeginUpdateFlow(t, f, status)
      PROVE  IInv'
  <2> DEFINE new == [flow[f] EXCEPT !.status = status]
             request == [Begun("update_flow", f) EXCEPT !.new = new]
  <2>1. flow[f].status = "draft" /\ Start(t, f, request, "save_flow")
    BY <1>1 DEF BeginUpdateFlow
  <2>2. flow[f] # NoFlow
    BY <2>1 DEF NoFlow
  <2>3. new.status = status
    BY <2>2 DEF IInv, RowsHold
  <2>4. request.new = new /\ request.row = flow[f] /\ request.flow = f
        /\ DOMAIN request = DOMAIN Idle
    BY DEF Begun, Idle
  <2> HIDE DEF request, new
  <2>5. QED
    BY <2>1, <2>3, <2>4, StartKeeps
<1>2. ASSUME NEW f \in Flows, BeginDeleteFlow(t, f)
      PROVE  IInv'
  <2> DEFINE new == [flow[f] EXCEPT !.status = "archived"]
             request == [Begun("delete_flow", f) EXCEPT !.new = new]
  <2>1. Start(t, f, request, "save_flow")
    BY <1>2 DEF BeginDeleteFlow
  <2>2. flow[f] # NoFlow
    BY <2>1 DEF Start
  <2>3. new.status = "archived"
    BY <2>2 DEF IInv, RowsHold
  <2>4. request.new = new /\ request.row = flow[f] /\ request.flow = f
        /\ DOMAIN request = DOMAIN Idle
    BY DEF Begun, Idle
  <2> HIDE DEF request, new
  <2>5. "archived" \in VALID_FLOW_STATUSES
    BY DEF VALID_FLOW_STATUSES
  <2>6. QED
    BY <2>1, <2>3, <2>4, <2>5, StartKeeps
<1>3. ASSUME NEW f \in Flows, BeginDuplicate(t, f)
      PROVE  IInv'
  BY <1>3, BegunIsOf, StartKeeps DEF BeginDuplicate
<1>4. ASSUME NEW f \in Flows, CopyEdges(t, f)
      PROVE  IInv'
  <2> DEFINE nodes == req[t].graph.nodes
             marked == {n \in DOMAIN nodes : nodes[n].isStart}
             starts == IF req[t].row.start \in DOMAIN nodes THEN {req[t].row.start}
                       ELSE IF marked = {} THEN {None} ELSE marked
  <2>1. PICK start \in starts : flow' = [flow EXCEPT ![f] = [status |-> "draft", start |-> start]]
    BY <1>4, Zenon DEF CopyEdges
  <2>2. /\ flow[f] = NoFlow /\ DOMAIN graph' = DOMAIN graph /\ versions' = versions
        /\ req' = [req EXCEPT ![t] = Idle]
    BY <1>4 DEF CopyEdges
  <2>3. QED
    BY <2>1, <2>2, NewFlowKeeps
<1>5. CASE SaveFlow(t)
  <2>1. req[t].pc = "save_flow"
    BY <1>5 DEF SaveFlow
  <2>2. /\ req[t].new.status \in VALID_FLOW_STATUSES
        /\ req[t].new.status = "draft" => req[t].row.status = "draft"
    BY <2>1 DEF IInv, RequestsHold, KnowsItsFlow
  <2>3. QED
    BY <1>5, <2>1, <2>2, SaveKeeps DEF SaveFlow
<1>6. CASE CopyNodes(t)
  <2>1. req[t].pc # "idle"
    BY <1>6 DEF CopyNodes
  <2> DEFINE r == [req[t] EXCEPT !.graph.nodes = graph[req[t].flow].nodes]
  <2>2. GoOn(t, r, "copy_edges")
    BY <1>6 DEF CopyNodes
  <2>3. DOMAIN r = DOMAIN Idle /\ r.flow = req[t].flow /\ r.row = req[t].row
    BY <2>1, RequestIsKnown DEF Idle
  <2> HIDE DEF r
  <2>4. QED
    BY <2>1, <2>2, <2>3, GoOnKeeps
<1>7. QED
  BY <1>1, <1>2, <1>3, <1>4, <1>5, <1>6 DEF FlowStep

-----------------------------------------------------------------------------
(* Publishing.                                                              *)
LEMMA ReadingKeeps ==
  ASSUME IInv, NEW t \in Threads,
         \/ \E f \in Flows : BeginPublish(t, f)
         \/ ReadNodes(t) \/ Validate(t) \/ ReadEdges(t)
  PROVE  IInv'
<1>1. ASSUME NEW f \in Flows, BeginPublish(t, f)
      PROVE  IInv'
  BY <1>1, BegunIsOf, StartKeeps DEF BeginPublish
<1>2. CASE ReadNodes(t)
  <2> DEFINE r == [req[t] EXCEPT !.graph = [nodes |-> graph[req[t].flow].nodes, edges |-> NoRows]]
  <2>1. PICK next \in {<<"nodes_to_check", "edges_to_check">>, <<"nodes", "edges">>} :
          req[t].pc = next[1] /\ GoOn(t, r, next[2])
    BY <1>2, Zenon DEF ReadNodes
  <2>2. req[t].pc # "idle" /\ next[2] \in {"edges_to_check", "edges"}
    BY <2>1
  <2>3. DOMAIN r = DOMAIN Idle /\ r.flow = req[t].flow /\ r.row = req[t].row
    BY <2>2, RequestIsKnown DEF Idle
  <2> HIDE DEF r
  <2>4. QED
    BY <2>1, <2>3, <2>2, GoOnKeeps
<1>3. CASE Validate(t)
  <2> DEFINE r == [req[t] EXCEPT !.graph = EmptyGraph]
  <2>1. req[t].pc # "idle" /\ (GoOn(t, r, "nodes") \/ GiveUp(t))
    BY <1>3 DEF Validate
  <2>2. DOMAIN r = DOMAIN Idle /\ r.flow = req[t].flow /\ r.row = req[t].row
    BY <2>1, RequestIsKnown DEF Idle
  <2> HIDE DEF r
  <2>3. QED
    BY <2>1, <2>2, GoOnKeeps, GiveUpKeeps
<1>4. CASE ReadEdges(t)
  <2> DEFINE r == [req[t] EXCEPT !.graph.edges = graph[req[t].flow].edges]
  <2>1. req[t].pc # "idle" /\ GoOn(t, r, "number")
    BY <1>4 DEF ReadEdges
  <2>2. DOMAIN r = DOMAIN Idle /\ r.flow = req[t].flow /\ r.row = req[t].row
    BY <2>1, RequestIsKnown DEF Idle
  <2> HIDE DEF r
  <2>3. QED
    BY <2>1, <2>2, GoOnKeeps
<1>5. QED
  BY <1>1, <1>2, <1>3, <1>4

(* A number is greater than those of all versions seen.                     *)
LEMMA TakeNumberKeeps ==
  ASSUME IInv, NEW t \in Threads, TakeNumber(t)
  PROVE  IInv'
<1> DEFINE f == req[t].flow
<1>1. req[t].pc = "number"
  BY DEF TakeNumber
<1>2. f \in Flows /\ DOMAIN req[t] = DOMAIN Idle
  BY <1>1, RequestIsKnown
<1>3. PICK number \in 1 .. Len(versions[f]) + 1 :
        /\ \A k \in Numbers(f) : k < number
        /\ GoOn(t, [req[t] EXCEPT !.number = number, !.seen = Len(versions[f])], "deactivate")
  BY DEF TakeNumber
<1>0. PICK s : s = [req[t] EXCEPT !.number = number, !.seen = Len(versions[f]), !.pc = "deactivate"]
  OBVIOUS
<1>4. UNCHANGED <<flow, graph, versions>> /\ req' = [req EXCEPT ![t] = s]
  BY <1>2, <1>3, <1>0 DEF GoOn, Idle
<1>5. /\ DOMAIN s = DOMAIN Idle /\ s.flow = f /\ s.row = req[t].row /\ s.pc = "deactivate"
      /\ s.number = number /\ s.seen = Len(versions[f])
  BY <1>2, <1>0 DEF Idle
<1>6. KnowsItsFlow(req[t])
  BY DEF IInv, RequestsHold
<1>7. KnowsItsFlow(s)'
  BY <1>1, <1>4, <1>5, <1>6 DEF KnowsItsFlow
<1>8. Len(versions[f]) \in Nat /\ DOMAIN versions[f] = 1 .. Len(versions[f])
  BY <1>2, VersionsAreSeq DEF IInv
<1>9. \A i \in 1 .. Len(versions[f]) : versions[f][i].number < number
  BY <1>3, <1>8 DEF Numbers
<1>10. KnowsItsNumber(s)'
  BY <1>4, <1>5, <1>8, <1>9 DEF KnowsItsNumber
<1>11. RequestsHold'
  BY <1>4, <1>7, <1>10, RequestsStay, QuietGoesOn DEF IInv
<1>12. QED
  BY <1>4, <1>11, QuietKeeps

(* What is deactivated is what is active of what has been seen, at least.    *)
LEMMA DeactivateKeeps ==
  ASSUME IInv, NEW t \in Threads, Deactivate(t)
  PROVE  IInv'
<1> DEFINE f == req[t].flow
<1>0. PICK s : s = [req[t] EXCEPT !.active = ActiveOnes(f), !.pc = "release"]
  OBVIOUS
<1>1. req[t].pc = "deactivate"
  BY DEF Deactivate
<1>2. f \in Flows /\ DOMAIN req[t] = DOMAIN Idle
  BY <1>1, RequestIsKnown
<1>3. UNCHANGED <<flow, graph, versions>> /\ req' = [req EXCEPT ![t] = s]
  BY <1>2, <1>0 DEF Deactivate, GoOn, Idle
<1>4. /\ DOMAIN s = DOMAIN Idle /\ s.flow = f /\ s.row = req[t].row /\ s.pc = "release"
      /\ s.number = req[t].number /\ s.seen = req[t].seen /\ s.active = ActiveOnes(f)
  BY <1>2, <1>0 DEF Idle
<1>5. KnowsItsFlow(req[t]) /\ KnowsItsNumber(req[t])
  BY DEF IInv, RequestsHold
<1>6. KnowsItsFlow(s)'
  BY <1>1, <1>3, <1>4, <1>5 DEF KnowsItsFlow
<1>7. Len(versions[f]) \in Nat /\ DOMAIN versions[f] = 1 .. Len(versions[f])
  BY <1>2, VersionsAreSeq DEF IInv
<1>8. /\ s.seen \in 0 .. Len(versions[f])
      /\ s.number \in 1 .. s.seen + 1
      /\ \A i \in 1 .. s.seen : versions[f][i].number < s.number
  BY <1>1, <1>4, <1>5 DEF KnowsItsNumber
<1>9. ASSUME NEW i \in 1 .. s.seen, versions[f][i].active
      PROVE  i \in s.active
  <2>1. i \in DOMAIN versions[f]
    BY <1>7, <1>8
  <2>2. QED
    BY <2>1, <1>4, <1>9, Zenon DEF ActiveOnes
<1>10. KnowsItsNumber(s)'
  BY <1>3, <1>4, <1>8, <1>9 DEF KnowsItsNumber
<1>11. RequestsHold'
  BY <1>3, <1>6, <1>10, RequestsStay, QuietGoesOn DEF IInv
<1>12. QED
  BY <1>3, <1>11, QuietKeeps

(* What is known of the versions of a flow once one is added, with those     *)
(* that it takes back.                                                      *)
Added(old, new, v, gone) ==
  /\ \E S : new \in Seq(VersionRow(S))
  /\ Len(old) \in Nat /\ DOMAIN old = 1 .. Len(old)
  /\ Len(new) = Len(old) + 1 /\ DOMAIN new = 1 .. Len(old) + 1
  /\ new[Len(old) + 1] = v
  /\ \A i \in 1 .. Len(old) :
       /\ new[i].number = old[i].number /\ new[i].seen = old[i].seen
       /\ new[i].start = old[i].start /\ new[i].graph = old[i].graph
       /\ new[i].active <=> old[i].active /\ i \notin gone

LEMMA RowsAppended ==
  ASSUME NEW S, NEW rows \in Seq(VersionRow(S)), NEW gone, NEW v, v \in VersionRow(S),
         NEW before, before = [i \in DOMAIN rows |-> [rows[i] EXCEPT !.active = @ /\ i \notin gone]],
         NEW out, out = Append(before, v)
  PROVE  Added(rows, out, v, gone)
<1>1. /\ Len(rows) \in Nat /\ DOMAIN rows = 1 .. Len(rows)
      /\ \A i \in 1 .. Len(rows) : rows[i] \in VersionRow(S)
  OBVIOUS
<1>2. ASSUME NEW i \in 1 .. Len(rows)
      PROVE  /\ before[i] \in VersionRow(S)
             /\ before[i].number = rows[i].number /\ before[i].seen = rows[i].seen
             /\ before[i].start = rows[i].start /\ before[i].graph = rows[i].graph
             /\ before[i].active <=> rows[i].active /\ i \notin gone
  <2>1. PICK active \in BOOLEAN : active = (rows[i].active /\ i \notin gone)
    OBVIOUS
  <2>2. PICK row \in VersionRow(S) : row = rows[i]
    BY <1>1
  <2>3. before[i] = [row EXCEPT !.active = active]
    BY <1>1, <2>1, <2>2, Zenon
  <2>4. PICK w : w = [row EXCEPT !.active = active]
    OBVIOUS
  <2>5. /\ w \in VersionRow(S)
        /\ w.number = row.number /\ w.seen = row.seen
        /\ w.start = row.start /\ w.graph = row.graph
        /\ w.active = active
    BY <2>4 DEF VersionRow
  <2>6. QED
    BY <2>1, <2>2, <2>3, <2>4, <2>5, Zenon
<1>3. before \in Seq(VersionRow(S)) /\ Len(before) = Len(rows)
  <2>1. before \in [1 .. Len(rows) -> VersionRow(S)]
    BY <1>1, <1>2
  <2>2. QED
    BY <1>1, <2>1
<1>4. /\ out \in Seq(VersionRow(S)) /\ Len(out) = Len(rows) + 1 /\ out[Len(rows) + 1] = v
      /\ \A i \in 1 .. Len(rows) : out[i] = before[i]
  BY <1>1, <1>3, AppendProperties
<1>5. ASSUME NEW i \in 1 .. Len(rows)
      PROVE  /\ out[i].number = rows[i].number /\ out[i].seen = rows[i].seen
             /\ out[i].start = rows[i].start /\ out[i].graph = rows[i].graph
             /\ out[i].active <=> rows[i].active /\ i \notin gone
  <2>1. out[i] = before[i]
    BY <1>4
  <2>2. QED
    BY <1>2, <2>1, Zenon
<1>6. DOMAIN out = 1 .. Len(rows) + 1
  BY <1>1, <1>4
<1>7. \E R : out \in Seq(VersionRow(R))
  BY <1>4
<1>8. QED
  BY <1>1, <1>4, <1>5, <1>6, <1>7, Zenon DEF Added

LEMMA RowsOfMore ==
  ASSUME NEW S, NEW T, NEW rows \in Seq(VersionRow(S))
  PROVE  rows \in Seq(VersionRow(S \cup T))
<1>1. VersionRow(S) \subseteq VersionRow(S \cup T)
  BY DEF VersionRow
<1>2. QED
  BY <1>1, SeqMonotonic

LEMMA ReleaseAdds ==
  ASSUME IInv, NEW t \in Threads, Release(t)
  PROVE  LET f == req[t].flow
             v == [number |-> req[t].number, active |-> TRUE, start |-> req[t].row.start,
                   graph |-> req[t].graph, seen |-> req[t].seen]
         IN  /\ f \in Flows /\ DOMAIN versions' = Flows
             /\ Added(versions[f], versions'[f], v, req[t].active)
             /\ \A g \in Flows \ {f} : versions'[g] = versions[g]
<1> DEFINE f == req[t].flow
           v == [number |-> req[t].number, active |-> TRUE, start |-> req[t].row.start,
                 graph |-> req[t].graph, seen |-> req[t].seen]
           rows == versions[f]
           before == [i \in DOMAIN rows |-> [rows[i] EXCEPT !.active = @ /\ i \notin req[t].active]]
<1>1. req[t].pc = "release"
  BY DEF Release
<1>2. f \in Flows
  BY <1>1, RequestIsKnown
<1>3. Len(rows) \in Nat /\ DOMAIN rows = 1 .. Len(rows)
  BY <1>2, VersionsAreSeq DEF IInv
<1>4. KnowsItsNumber(req[t])
  BY DEF IInv, RequestsHold
<1>5. req[t].seen \in Nat /\ req[t].number \in Nat \ {0}
  BY <1>1, <1>3, <1>4 DEF KnowsItsNumber
<1>6. PICK S : rows \in Seq(VersionRow(S))
  BY <1>2 DEF IInv, RowsHold
<1> DEFINE T == S \cup {v.start, v.graph}
<1>7. rows \in Seq(VersionRow(T))
  BY <1>6, RowsOfMore
<1>8. v \in VersionRow(T)
  BY <1>5 DEF VersionRow
<1>9. versions' = [versions EXCEPT ![f] = Append(before, v)]
  BY DEF Release
<1>10. /\ DOMAIN versions' = Flows /\ versions'[f] = Append(before, v)
       /\ \A g \in Flows \ {f} : versions'[g] = versions[g]
  BY <1>2, <1>9 DEF IInv, RowsHold
<1> HIDE DEF T, v, before
<1>11. before = [i \in DOMAIN rows |-> [rows[i] EXCEPT !.active = @ /\ i \notin req[t].active]]
  BY DEF before
<1>12. Added(rows, Append(before, v), v, req[t].active)
  BY <1>7, <1>8, <1>11, RowsAppended, Zenon
<1>13. QED
  BY <1>2, <1>10, <1>12 DEF v

(* A version may be added that has a greater number than those it has seen,  *)
(* and takes them back.                                                     *)
LEMMA AddedKeeps ==
  ASSUME IInv, NEW f \in Flows, NEW v, NEW gone,
         Added(versions[f], versions'[f], v, gone),
         DOMAIN versions' = Flows, \A g \in Flows \ {f} : versions'[g] = versions[g],
         v.seen \in 0 .. Len(versions[f]), v.number \in 1 .. v.seen + 1, v.active = TRUE,
         \A i \in 1 .. v.seen : /\ versions[f][i].number < v.number
                                /\ versions[f][i].active => i \in gone,
         FlowsGoOn, DOMAIN flow' = Flows, DOMAIN graph' = Flows,
         \A g \in Flows :
           /\ flow'[g] = NoFlow => flow[g] = NoFlow
           /\ flow'[g] # NoFlow => /\ DOMAIN flow'[g] = {"status", "start"}
                                   /\ flow'[g].status \in VALID_FLOW_STATUSES,
         flow'[f] # NoFlow, flow'[f].status # "draft"
  PROVE  RowsHold' /\ VersionsGrow /\ VersionsReplaceEachOther'
<1> DEFINE old == versions[f]
           n == Len(old)
<1>1. PICK new : new = versions'[f]
  OBVIOUS
<1>2. Added(old, new, v, gone)
  BY <1>1
<1>3. /\ n \in Nat /\ DOMAIN old = 1 .. n
      /\ Len(new) = n + 1 /\ DOMAIN new = 1 .. n + 1 /\ new[n + 1] = v
      /\ \A i \in 1 .. n : new[i].number = old[i].number /\ new[i].seen = old[i].seen
  BY <1>2, Zenon DEF Added
<1>4. \A i \in 1 .. n : new[i].active <=> old[i].active /\ i \notin gone
  BY <1>2, Zenon DEF Added
<1>5. \A i \in 1 .. n : old[i].seen < i /\ old[i].number <= i
  BY <1>3 DEF IInv, RowsHold
<1>6. \A i \in 1 .. n + 1 : new[i].seen < i /\ new[i].number <= i
  <2>1. new[n + 1].seen < n + 1 /\ new[n + 1].number <= n + 1
    BY <1>3
  <2>2. \A i \in 1 .. n : new[i].seen < i /\ new[i].number <= i
    BY <1>3, <1>5
  <2>3. \A i \in 1 .. n + 1 : i = n + 1 \/ i \in 1 .. n
    BY <1>3
  <2>4. QED
    BY <2>1, <2>2, <2>3
<1>7. RowsHold'
  <2>1. \E S : versions'[f] \in Seq(VersionRow(S))
    BY <1>1, <1>2 DEF Added
  <2>2. \A i \in DOMAIN versions'[f] : versions'[f][i].seen < i /\ versions'[f][i].number <= i
    BY <1>1, <1>3, <1>6
  <2>3. QED
    BY <2>1, <2>2 DEF IInv, RowsHold
<1>8. VersionsGrow
  <2>1. ASSUME NEW g \in Flows
        PROVE  /\ Len(versions'[g]) \in Nat /\ Len(versions'[g]) >= Len(versions[g])
               /\ \A i \in 1 .. Len(versions[g]) : versions'[g][i].number = versions[g][i].number
    <3>1. CASE g = f
      BY <3>1, <1>1, <1>3
    <3>2. CASE g # f
      BY <3>2, VersionsAreSeq DEF IInv
    <3>3. QED
      BY <3>1, <3>2
  <2>2. ASSUME NEW g \in Flows, NEW i \in 1 .. Len(versions[g]), versions'[g][i].active
        PROVE  versions[g][i].active
    <3>1. CASE g = f
      BY <3>1, <2>2, <1>1, <1>4, Zenon
    <3>2. CASE g # f
      BY <3>2, <2>2, Zenon
    <3>3. QED
      BY <3>1, <3>2
  <2>3. QED
    BY <2>1, <2>2, Zenon DEF VersionsGrow
<1>9. ASSUME NEW j \in 1 .. n + 1, NEW i \in 1 .. n + 1, i <= new[j].seen
      PROVE  new[i].number < new[j].number /\ ~ new[i].active
  <2>1. new[j].seen < j /\ new[j].seen \in Int
    <3>1. CASE j = n + 1
      BY <3>1, <1>3
    <3>2. CASE j # n + 1
      <4>1. j \in 1 .. n
        BY <3>2, <1>3
      <4>2. PICK S : old \in Seq(VersionRow(S))
        BY DEF IInv, RowsHold
      <4>3. PICK row \in VersionRow(S) : row = old[j]
        BY <4>1, <4>2, <1>3, ElementOfSeq
      <4>4. row.seen \in Nat
        BY DEF VersionRow
      <4>5. QED
        BY <4>1, <4>3, <4>4, <1>3, <1>5
    <3>3. QED
      BY <3>1, <3>2
  <2>2. i < j /\ i \in 1 .. n
    BY <2>1, <1>3, <1>9
  <2>3. CASE j = n + 1
    <3>1. i \in 1 .. v.seen
      BY <2>2, <2>3, <1>3, <1>9
    <3>2. old[i].number < v.number /\ (old[i].active => i \in gone)
      BY <3>1
    <3>3. ~ new[i].active
      BY <3>2, <2>2, <1>4, Zenon
    <3>4. QED
      BY <3>2, <3>3, <2>2, <2>3, <1>3
  <2>4. CASE j # n + 1
    <3>1. j \in 1 .. n
      BY <2>4, <1>3
    <3>2. old[i].number < old[j].number /\ ~ old[i].active
      BY <3>1, <2>2, <1>3, <1>9 DEF IInv, VersionsReplaceEachOther, LaterReplacesEarlier
    <3>3. ~ new[i].active
      BY <3>2, <2>2, <1>4, Zenon
    <3>4. QED
      BY <3>1, <3>2, <3>3, <2>2, <1>3
  <2>5. QED
    BY <2>3, <2>4
<1>10. LaterReplacesEarlier'
  <2>1. ASSUME NEW g \in Flows, NEW i \in DOMAIN versions'[g], NEW j \in DOMAIN versions'[g],
               i <= versions'[g][j].seen
        PROVE  versions'[g][i].number < versions'[g][j].number /\ ~ versions'[g][i].active
    <3>1. CASE g = f
      BY <3>1, <2>1, <1>1, <1>3, <1>9
    <3>2. CASE g # f
      BY <3>2, <2>1 DEF IInv, VersionsReplaceEachOther, LaterReplacesEarlier
    <3>3. QED
      BY <3>1, <3>2
  <2>2. QED
    BY <2>1 DEF LaterReplacesEarlier
<1>11. AVersionIsActive'
  <2>1. ASSUME NEW g \in Flows, versions'[g] # <<>>
        PROVE  \E i \in DOMAIN versions'[g] : versions'[g][i].active
    <3>1. CASE g = f
      <4>1. n + 1 \in DOMAIN versions'[g] /\ versions'[g][n + 1] = v
        BY <3>1, <1>1, <1>3
      <4>2. QED
        BY <4>1
    <3>2. CASE g # f
      BY <3>2, <2>1 DEF IInv, VersionsReplaceEachOther, AVersionIsActive, ActiveOnes
    <3>3. QED
      BY <3>1, <3>2
  <2>2. QED
    BY <2>1 DEF AVersionIsActive, ActiveOnes
<1>12. PublishedIsNoDraft'
  BY DEF IInv, VersionsReplaceEachOther, PublishedIsNoDraft, RowsHold, FlowsGoOn
<1>13. QED
  BY <1>7, <1>8, <1>10, <1>11, <1>12 DEF VersionsReplaceEachOther

LEMMA ReleaseKeeps ==
  ASSUME IInv, NEW t \in Threads, Release(t)
  PROVE  IInv'
<1>0. PICK f \in Flows : f = req[t].flow
  BY RequestIsKnown DEF Release
<1>1. PICK new : new = [req[t].row EXCEPT !.status = "published"]
  OBVIOUS
<1>2. PICK v : v = [number |-> req[t].number, active |-> TRUE, start |-> req[t].row.start,
                    graph |-> req[t].graph, seen |-> req[t].seen]
  OBVIOUS
<1>3. req[t].pc = "release"
  BY DEF Release
<1>4. /\ f \in Flows /\ DOMAIN versions' = Flows
      /\ Added(versions[f], versions'[f], v, req[t].active)
      /\ \A g \in Flows \ {f} : versions'[g] = versions[g]
  BY <1>0, <1>2, ReleaseAdds
<1>5. KnowsItsFlow(req[t]) /\ KnowsItsNumber(req[t])
  BY DEF IInv, RequestsHold
<1>6. new.status = "published" /\ "published" \in VALID_FLOW_STATUSES
  BY <1>1, <1>3, RequestIsKnown DEF VALID_FLOW_STATUSES
<1>7. /\ flow' = [flow EXCEPT ![f] = Written(@, req[t].row, new)]
      /\ req' = [req EXCEPT ![t] = Idle] /\ graph' = graph
  BY <1>0, <1>1 DEF Release
<1>8. /\ FlowsGoOn
      /\ DOMAIN flow' = Flows
      /\ \A g \in Flows :
           /\ flow'[g] = NoFlow => flow[g] = NoFlow
           /\ flow'[g] # NoFlow => /\ DOMAIN flow'[g] = {"status", "start"}
                                   /\ flow'[g].status \in VALID_FLOW_STATUSES
      /\ new.status # req[t].row.status => flow'[f].status = new.status
  <2>1. /\ req[t].pc # "idle" /\ new.status \in VALID_FLOW_STATUSES
        /\ new.status = "draft" => req[t].row.status = "draft"
    BY <1>3, <1>6
  <2>2. flow' = [flow EXCEPT ![req[t].flow] = Written(@, req[t].row, new)]
    BY <1>0, <1>7, Zenon
  <2>3. QED
    BY <1>0, <2>1, <2>2, WrittenGoesOn, Zenon
<1>9. flow[f] # NoFlow /\ (req[t].row.status # "draft" => flow[f].status # "draft")
  BY <1>0, <1>3, <1>5 DEF KnowsItsFlow
<1>10. flow'[f] # NoFlow /\ flow'[f].status # "draft"
  BY <1>4, <1>6, <1>8, <1>9 DEF FlowsGoOn
<1>11. /\ v.seen \in 0 .. Len(versions[f]) /\ v.number \in 1 .. v.seen + 1 /\ v.active = TRUE
       /\ \A i \in 1 .. v.seen : versions[f][i].number < v.number
  BY <1>0, <1>2, <1>3, <1>5 DEF KnowsItsNumber
<1>12. \A i \in 1 .. v.seen : versions[f][i].active => i \in req[t].active
  BY <1>0, <1>2, <1>3, <1>5, Zenon DEF KnowsItsNumber
<1>13. DOMAIN graph' = Flows
  BY <1>7 DEF IInv, RowsHold
<1>14. RowsHold' /\ VersionsGrow /\ VersionsReplaceEachOther'
  BY <1>4, <1>8, <1>10, <1>11, <1>12, <1>13, AddedKeeps
<1>15. KnowsItsFlow(Idle)' /\ KnowsItsNumber(Idle)'
  BY DEF KnowsItsFlow, KnowsItsNumber, Idle
<1>16. RequestsHold'
  BY <1>7, <1>8, <1>14, <1>15, RequestsStay DEF IInv
<1>17. QED
  BY <1>14, <1>16 DEF IInv

(* A flow that is created with its first version.                           *)
LEMMA CreatedAdds ==
  ASSUME IInv, NEW f \in Flows, CreateAndPublish(f)
  PROVE  \E v : /\ Added(versions[f], versions'[f], v, {})
                /\ v.number = 1 /\ v.seen = 0 /\ v.active = TRUE
                /\ versions[f] = <<>> /\ DOMAIN versions' = Flows
                /\ \A g \in Flows \ {f} : versions'[g] = versions[g]
<1>1. PICK p \in Payloads :
        versions' = [versions EXCEPT ![f] =
          <<[number |-> 1, active |-> TRUE, start |-> p.start, graph |-> p.graph, seen |-> 0]>>]
  BY DEF CreateAndPublish
<1>2. PICK v : v = [number |-> 1, active |-> TRUE, start |-> p.start, graph |-> p.graph, seen |-> 0]
  OBVIOUS
<1>3. v \in VersionRow({p.start, p.graph})
  BY <1>2 DEF VersionRow
<1>4. versions[f] = <<>>
  BY DEF IInv, RowsHold, CreateAndPublish
<1>5. /\ DOMAIN versions' = Flows /\ versions'[f] = <<v>>
      /\ \A g \in Flows \ {f} : versions'[g] = versions[g]
  BY <1>1, <1>2 DEF IInv, RowsHold
<1>6. <<v>> \in Seq(VersionRow({p.start, p.graph}))
  BY <1>3
<1>7. Added(<<>>, <<v>>, v, {})
  BY <1>6 DEF Added
<1>8. QED
  BY <1>2, <1>4, <1>5, <1>7

LEMMA CreateAndPublishKeeps ==
  ASSUME IInv, NEW f \in Flows, CreateAndPublish(f)
  PROVE  IInv'
<1>1. PICK v : /\ Added(versions[f], versions'[f], v, {})
               /\ v.number = 1 /\ v.seen = 0 /\ v.active = TRUE
               /\ versions[f] = <<>> /\ DOMAIN versions' = Flows
               /\ \A g \in Flows \ {f} : versions'[g] = versions[g]
  BY CreatedAdds
<1>2. PICK start : flow' = [flow EXCEPT ![f] = [status |-> "published", start |-> start]]
  BY DEF CreateAndPublish
<1>3. flow[f] = NoFlow /\ req' = req /\ DOMAIN graph' = DOMAIN graph
  BY DEF CreateAndPublish
<1>4. /\ DOMAIN flow' = Flows /\ flow'[f] = [status |-> "published", start |-> start]
      /\ \A g \in Flows \ {f} : flow'[g] = flow[g]
  BY <1>2 DEF IInv, RowsHold
<1>5. /\ flow'[f] # NoFlow /\ flow'[f].status = "published"
      /\ DOMAIN flow'[f] = {"status", "start"}
      /\ flow'[f].status \in VALID_FLOW_STATUSES
  BY <1>4 DEF NoFlow, VALID_FLOW_STATUSES
<1>6. FlowsGoOn
  BY <1>3, <1>4, <1>5 DEF FlowsGoOn
<1>7. \A g \in Flows :
        /\ flow'[g] = NoFlow => flow[g] = NoFlow
        /\ flow'[g] # NoFlow => /\ DOMAIN flow'[g] = {"status", "start"}
                                /\ flow'[g].status \in VALID_FLOW_STATUSES
  BY <1>4, <1>5 DEF IInv, RowsHold
<1>8. DOMAIN graph' = Flows
  BY <1>3 DEF IInv, RowsHold
<1>9. /\ v.seen \in 0 .. Len(versions[f]) /\ v.number \in 1 .. v.seen + 1
      /\ \A i \in 1 .. v.seen : /\ versions[f][i].number < v.number
                                /\ versions[f][i].active => i \in {}
  BY <1>1
<1>10. RowsHold' /\ VersionsGrow /\ VersionsReplaceEachOther'
  BY <1>1, <1>4, <1>5, <1>6, <1>7, <1>8, <1>9, AddedKeeps
<1>11. RequestsHold'
  BY <1>3, <1>6, <1>10, KnownStays DEF IInv, RequestsHold
<1>12. QED
  BY <1>10, <1>11 DEF IInv

-----------------------------------------------------------------------------
LEMMA InitHolds ==
  ASSUME Init
  PROVE  IInv
<1>1. RowsHold
  <2>1. \A f \in Flows : versions[f] = <<>> /\ flow[f] = NoFlow
    BY DEF Init
  <2>2. \E S : <<>> \in Seq(VersionRow(S))
    BY EmptySeq
  <2>3. DOMAIN flow = Flows /\ DOMAIN versions = Flows /\ DOMAIN graph = Flows
    BY DEF Init
  <2>4. DOMAIN <<>> = {}
    OBVIOUS
  <2>5. QED
    BY <2>1, <2>2, <2>3, <2>4, Zenon DEF RowsHold
<1>2. RequestsHold
  BY IdleIsKnown DEF Init, RequestsHold
<1>3. VersionsReplaceEachOther
  BY DEF Init, VersionsReplaceEachOther, LaterReplacesEarlier, AVersionIsActive, PublishedIsNoDraft
<1>4. QED
  BY <1>1, <1>2, <1>3 DEF IInv

LEMMA StepKeeps ==
  ASSUME IInv, [Next]_vars
  PROVE  IInv'
<1>1. CASE UNCHANGED vars
  <2>1. RequestsHold'
    BY <1>1 DEF vars, IInv, RequestsHold, KnowsItsFlow, KnowsItsNumber
  <2>2. QED
    BY <1>1, <2>1, QuietKeeps DEF vars
<1>2. ASSUME NEW f \in Flows, CreateFlow(f)
      PROVE  IInv'
  BY <1>2, NewFlowKeeps DEF CreateFlow
<1>3. ASSUME NEW f \in Flows, CreateAndPublish(f)
      PROVE  IInv'
  BY <1>3, CreateAndPublishKeeps
<1>4. ASSUME NEW t \in Threads, EditStep(t)
      PROVE  IInv'
  BY <1>4, EditStepKeeps
<1>5. ASSUME NEW t \in Threads, PublishStep(t)
      PROVE  IInv'
  BY <1>5, ReadingKeeps, TakeNumberKeeps, DeactivateKeeps, ReleaseKeeps DEF PublishStep
<1>6. ASSUME NEW t \in Threads, FlowStep(t)
      PROVE  IInv'
  BY <1>6, FlowStepKeeps
<1>7. QED
  BY <1>1, <1>2, <1>3, <1>4, <1>5, <1>6 DEF Next

LEMMA IInvHolds == Spec => []IInv
<1>1. Init => IInv
  BY InitHolds
<1>2. IInv /\ [Next]_vars => IInv'
  BY StepKeeps
<1>3. QED
  BY <1>1, <1>2, PTL DEF Spec

(* A version that has seen another one has a greater number and has taken it *)
(* back; a flow that was published has a version for calls to start with,    *)
(* and never becomes a draft again, whatever requests overlap.               *)
THEOREM VersionsDoReplace == Spec => []VersionsReplaceEachOther
<1>1. IInv => VersionsReplaceEachOther
  BY DEF IInv
<1>2. QED
  BY <1>1, IInvHolds, PTL

-----------------------------------------------------------------------------
(* What calls see of the versions of a flow.                                *)
Shown(rows) ==
  [i \in DOMAIN rows |->
     [active |-> rows[i].active, number |-> rows[i].number,
      content |-> <<rows[i].start, rows[i].graph>>]]

ShownRow(S) == [active : BOOLEAN, number : Nat \ {0}, content : S \X S]

LEMMA ShownIsSeq ==
  ASSUME NEW S, NEW rows \in Seq(VersionRow(S))
  PROVE  /\ Shown(rows) \in Seq(ShownRow(S)) /\ Len(Shown(rows)) = Len(rows)
         /\ DOMAIN Shown(rows) = 1 .. Len(rows)
<1>1. Len(rows) \in Nat /\ DOMAIN rows = 1 .. Len(rows)
  OBVIOUS
<1>2. ASSUME NEW i \in 1 .. Len(rows)
      PROVE  [active |-> rows[i].active, number |-> rows[i].number,
              content |-> <<rows[i].start, rows[i].graph>>] \in ShownRow(S)
  <2>1. PICK row \in VersionRow(S) : row = rows[i]
    BY ElementOfSeq
  <2>2. /\ row.active \in BOOLEAN /\ row.number \in Nat \ {0}
        /\ row.start \in S /\ row.graph \in S
    BY DEF VersionRow
  <2>3. QED
    BY <2>1, <2>2 DEF ShownRow
<1>3. Shown(rows) \in [1 .. Len(rows) -> ShownRow(S)]
  BY <1>1, <1>2 DEF Shown
<1>4. QED
  BY <1>1, <1>3

(* A version that is added is a release for those who see it.               *)
LEMMA AddedIsARelease ==
  ASSUME NEW S, NEW old \in Seq(VersionRow(S)), NEW new, NEW v, NEW gone,
         Added(old, new, v, gone), v.active = TRUE, v.number <= Len(old) + 1
  PROVE  \E replaced \in SUBSET DOMAIN Shown(old), n \in Nat :
           /\ n = Len(Shown(old)) + 1 /\ Len(Shown(new)) = n
           /\ SubSeq(Shown(new), 1, n - 1) = Releases!TakenBack(Shown(old), replaced)
           /\ Shown(new)[n].active
           /\ Shown(new)[n].number <= n
<1>1. PICK n : n = Len(old)
  OBVIOUS
<1>2. PICK R : new \in Seq(VersionRow(R))
  BY Zenon DEF Added
<1>3. /\ n \in Nat /\ DOMAIN old = 1 .. n /\ Len(new) = n + 1
      /\ DOMAIN new = 1 .. n + 1 /\ new[n + 1] = v
      /\ \A i \in 1 .. n : /\ new[i].number = old[i].number
                           /\ new[i].start = old[i].start /\ new[i].graph = old[i].graph
  BY <1>1, Zenon DEF Added
<1>4. \A i \in 1 .. n : new[i].active <=> old[i].active /\ i \notin gone
  BY <1>1, Zenon DEF Added
<1>5. /\ Shown(new) \in Seq(ShownRow(R)) /\ Len(Shown(new)) = n + 1
      /\ DOMAIN Shown(new) = 1 .. n + 1
  BY <1>2, <1>3, ShownIsSeq
<1>6. Len(Shown(old)) = n /\ DOMAIN Shown(old) = 1 .. n
  BY <1>1, ShownIsSeq
<1>7. PICK replaced : replaced = gone \cap (1 .. n)
  OBVIOUS
<1>8. ASSUME NEW i \in 1 .. n
      PROVE  Shown(new)[i] = IF i \in replaced THEN [Shown(old)[i] EXCEPT !.active = FALSE]
                             ELSE Shown(old)[i]
  <2>1. i \in 1 .. n + 1
    BY <1>3
  <2>2. Shown(old)[i] = [active |-> old[i].active, number |-> old[i].number,
                         content |-> <<old[i].start, old[i].graph>>]
    BY <1>3 DEF Shown
  <2>3. Shown(new)[i] = [active |-> new[i].active, number |-> old[i].number,
                         content |-> <<old[i].start, old[i].graph>>]
    BY <1>3, <2>1 DEF Shown
  <2>4. new[i].active \in BOOLEAN /\ old[i].active \in BOOLEAN
    <3>1. PICK row \in VersionRow(R) : row = new[i]
      BY <1>2, <1>3, <2>1, ElementOfSeq
    <3>2. PICK was \in VersionRow(S) : was = old[i]
      BY <1>1, ElementOfSeq
    <3>3. row.active \in BOOLEAN /\ was.active \in BOOLEAN
      BY DEF VersionRow
    <3>4. QED
      BY <3>1, <3>2, <3>3
  <2>5. CASE i \in replaced
    <3>1. ~ new[i].active
      BY <1>4, <1>7, <2>5
    <3>2. new[i].active = FALSE
      BY <2>4, <3>1
    <3>3. PICK was : was = Shown(old)[i]
      OBVIOUS
    <3>4. PICK no \in BOOLEAN : no = FALSE
      OBVIOUS
    <3>5. [was EXCEPT !.active = no] =
            [active |-> no, number |-> old[i].number, content |-> <<old[i].start, old[i].graph>>]
      BY <2>2, <3>3
    <3>6. QED
      BY <2>3, <2>5, <3>2, <3>3, <3>4, <3>5, Zenon
  <2>6. CASE i \notin replaced
    <3>1. new[i].active = old[i].active
      BY <1>4, <1>7, <2>4, <2>6, Zenon
    <3>2. QED
      BY <2>2, <2>3, <2>6, <3>1
  <2>7. QED
    BY <2>5, <2>6
<1>9. SubSeq(Shown(new), 1, n) = Releases!TakenBack(Shown(old), replaced)
  <2>1. SubSeq(Shown(new), 1, n) = [i \in 1 .. n |-> Shown(new)[i]]
    BY <1>3, <1>5, SubSeqRestrict DEF Restrict
  <2>2. QED
    BY <1>6, <1>8, <2>1, Zenon DEF Releases!TakenBack
<1>10. Shown(new)[n + 1].active = TRUE /\ Shown(new)[n + 1].number <= n + 1
  <2>1. n + 1 \in DOMAIN new
    BY <1>3
  <2>2. Shown(new)[n + 1].active = v.active /\ Shown(new)[n + 1].number = v.number
    BY <1>3, <2>1 DEF Shown
  <2>3. QED
    BY <1>1, <2>2
<1>11. replaced \in SUBSET DOMAIN Shown(old)
  BY <1>6, <1>7
<1>12. PICK m \in Nat : m = n + 1
  BY <1>3
<1>13. m - 1 = n /\ m = Len(Shown(old)) + 1
  BY <1>3, <1>6, <1>12
<1>14. SubSeq(Shown(new), 1, m - 1) = Releases!TakenBack(Shown(old), replaced)
  BY <1>9, <1>13, Zenon
<1>15. QED
  BY <1>5, <1>10, <1>11, <1>12, <1>13, <1>14, Zenon

Seen == [f \in Flows |-> Shown(versions[f])]

LEMMA SeenIsReleased ==
  /\ Releases!Init <=> Seen = [f \in Flows |-> <<>>]
  /\ Releases!Spec <=> Releases!Init /\ [][Releases!Next]_Seen
  BY DEF Releases!Init, Releases!Spec, Seen, Shown

LEMMA AddedIsReleased ==
  ASSUME RowsHold, NEW f \in Flows, NEW v, NEW gone,
         Added(versions[f], versions'[f], v, gone), v.active = TRUE,
         v.number <= Len(versions[f]) + 1,
         DOMAIN versions' = Flows, \A g \in Flows \ {f} : versions'[g] = versions[g]
  PROVE  Releases!Next
<1>1. PICK S : versions[f] \in Seq(VersionRow(S))
  BY DEF RowsHold
<1>2. PICK replaced \in SUBSET DOMAIN Shown(versions[f]), n \in Nat :
        /\ n = Len(Shown(versions[f])) + 1 /\ Len(Shown(versions'[f])) = n
        /\ SubSeq(Shown(versions'[f]), 1, n - 1)
             = Releases!TakenBack(Shown(versions[f]), replaced)
        /\ Shown(versions'[f])[n].active
        /\ Shown(versions'[f])[n].number <= n
  BY <1>1, AddedIsARelease
<1>3. \A g \in Flows \ {f} : Shown(versions'[g]) = Shown(versions[g])
  BY DEF Shown
<1>4. Releases!Release(f)
  BY <1>2, <1>3 DEF Releases!Release, Shown
<1>5. QED
  BY <1>4 DEF Releases!Next

LEMMA EditsLeaveVersions ==
  ASSUME NEW t \in Threads, EditStep(t)
  PROVE  UNCHANGED versions
<1>1. \A f, request, pc : BeginEdit(t, f, request, pc) => UNCHANGED versions
  BY DEF BeginEdit, Start
<1>2. \A rows, start : Edited(t, rows, start) => UNCHANGED versions
  BY DEF Edited
<1>3. \A r, pc : GoOn(t, r, pc) => UNCHANGED versions
  BY DEF GoOn
<1>4. GiveUp(t) => UNCHANGED versions
  BY DEF GiveUp
<1>5. ASSUME NEW f \in Flows,
             \/ BeginCreateNode(t, f) \/ BeginCreateEdge(t, f)
             \/ \E n \in NodeIds : BeginUpdateNode(t, f, n) \/ BeginDeleteNode(t, f, n)
             \/ \E e \in EdgeIds : BeginUpdateEdge(t, f, e) \/ BeginDeleteEdge(t, f, e)
      PROVE  UNCHANGED versions
  BY <1>1, <1>5, Zenon DEF BeginCreateNode, BeginCreateEdge, BeginUpdateNode, BeginDeleteNode,
                           BeginUpdateEdge, BeginDeleteEdge
<1>6. ASSUME \/ \E n \in NodeIds : CreateNode(t, n)
             \/ \E marks \in BOOLEAN : UpdateNode(t, marks)
             \/ DeleteNode(t) \/ \E e \in EdgeIds : SaveEdge(t, e)
             \/ DeleteEdge(t)
      PROVE  UNCHANGED versions
  BY <1>2, <1>6, Zenon DEF CreateNode, UpdateNode, DeleteNode, SaveEdge, DeleteEdge
<1>7. ASSUME NodeIsGone(t) \/ CheckEdge(t) \/ EdgeIsRefused(t)
      PROVE  UNCHANGED versions
  BY <1>3, <1>4, <1>7, Zenon DEF NodeIsGone, CheckEdge, EdgeIsRefused
<1>8. QED
  BY <1>5, <1>6, <1>7, Zenon DEF EditStep

LEMMA StepIsReleased ==
  ASSUME IInv, [Next]_vars
  PROVE  [Releases!Next]_Seen
<1>1. CASE UNCHANGED versions
  BY <1>1 DEF Seen
<1>2. ASSUME NEW f \in Flows, CreateAndPublish(f)
      PROVE  Releases!Next
  <2>1. PICK v : /\ Added(versions[f], versions'[f], v, {})
                 /\ v.number = 1 /\ v.active = TRUE /\ versions[f] = <<>>
                 /\ DOMAIN versions' = Flows
                 /\ \A g \in Flows \ {f} : versions'[g] = versions[g]
    BY <1>2, CreatedAdds
  <2>2. v.number <= Len(versions[f]) + 1
    BY <2>1
  <2>3. QED
    BY <2>1, <2>2, AddedIsReleased DEF IInv
<1>3. ASSUME NEW t \in Threads, Release(t)
      PROVE  Releases!Next
  <2>1. PICK f \in Flows : f = req[t].flow
    BY <1>3, RequestIsKnown DEF Release
  <2>2. PICK v : v = [number |-> req[t].number, active |-> TRUE, start |-> req[t].row.start,
                      graph |-> req[t].graph, seen |-> req[t].seen]
    OBVIOUS
  <2>3. /\ Added(versions[f], versions'[f], v, req[t].active) /\ DOMAIN versions' = Flows
        /\ \A g \in Flows \ {f} : versions'[g] = versions[g]
    BY <1>3, <2>1, <2>2, ReleaseAdds
  <2>4. KnowsItsNumber(req[t]) /\ req[t].pc = "release"
    BY <1>3 DEF IInv, RequestsHold, Release
  <2>5. v.active = TRUE /\ v.number <= Len(versions[f]) + 1
    BY <2>1, <2>2, <2>4, VersionsAreSeq DEF KnowsItsNumber, IInv
  <2>6. QED
    BY <2>3, <2>5, AddedIsReleased DEF IInv
<1>4. ASSUME NEW f \in Flows, CreateFlow(f)
      PROVE  UNCHANGED versions
  BY <1>4 DEF CreateFlow
<1>5. ASSUME NEW t \in Threads, EditStep(t)
      PROVE  UNCHANGED versions
  BY <1>5, EditsLeaveVersions
<1>6. ASSUME NEW t \in Threads, FlowStep(t)
      PROVE  UNCHANGED versions
  BY <1>6 DEF FlowStep, BeginUpdateFlow, BeginDeleteFlow, BeginDuplicate, CopyEdges, SaveFlow,
              CopyNodes, Start, GoOn
<1>7. ASSUME NEW t \in Threads, PublishStep(t)
      PROVE  Releases!Next \/ UNCHANGED versions
  <2>1. CASE Release(t)
    BY <2>1, <1>3
  <2>2. CASE ~ Release(t)
    BY <2>2, <1>7 DEF PublishStep, BeginPublish, ReadNodes, Validate, ReadEdges, TakeNumber,
                      Deactivate, Start, GoOn, GiveUp
  <2>3. QED
    BY <2>1, <2>2
<1>8. QED
  BY <1>1, <1>2, <1>4, <1>5, <1>6, <1>7 DEF Next, vars

(* What calls see of the versions only ever changes by a release: contents   *)
(* and numbers stay, and a version is only taken back when one is added,     *)
(* whatever requests overlap.                                               *)
THEOREM ReleasesAreImplemented == Spec => ImplementsReleases
<1>1. Init => Releases!Init
  BY DEF Init, Releases!Init
<1>2. IInv /\ [Next]_vars => [Releases!Next]_Seen
  BY StepIsReleased
<1>3. Spec => []IInv
  BY IInvHolds
<1>4. Spec => Releases!Init /\ [][Releases!Next]_Seen
  BY <1>1, <1>2, <1>3, PTL DEF Spec
<1>5. QED
  BY <1>4, SeenIsReleased DEF ImplementsReleases

-----------------------------------------------------------------------------
(* Graphs.  A row of either table, of any flow, has its columns.            *)
IsTables(g) == g = [nodes |-> g.nodes, edges |-> g.edges] /\ IsGraph(g)

GraphsHold ==
  /\ flow \in [Flows -> FlowRow \cup {NoFlow}]
  /\ \A f \in Flows : IsTables(graph[f])
  /\ \A f \in Flows : \A i \in DOMAIN versions[f] : IsGraph(versions[f][i].graph)

(* The id of a node is never taken twice.                                   *)
IdsAreUsed ==
  DOMAIN used = Flows /\ \A f \in Flows : DOMAIN graph[f].nodes \subseteq used[f]

(* What the local variables of a request are, by its place in the code.     *)
IsRequest(r) ==
  /\ DOMAIN r = DOMAIN Idle
  /\ r.pc = "idle" => r.flow \in Flows \cup {None}
  /\ r.pc # "idle" => r.row \in FlowRow
  /\ IsTables(r.graph)
  /\ r.pc = "save_node" =>
       /\ r.op \in {"create_node", "update_node", "delete_node"}
       /\ r.op # "delete_node" => r.new \in NodeRow
       /\ r.op = "update_node" => r.old \in NodeRow
  /\ r.pc \in {"check_edge", "save_edge"} =>
       /\ r.op \in {"create_edge", "update_edge", "delete_edge"}
       /\ r.op # "delete_edge" => r.new \in EdgeRow
       /\ r.op = "update_edge" => r.old \in EdgeRow
  /\ r.pc = "save_flow" =>
       /\ r.op \in {"update_flow", "delete_flow"}
       /\ r.new \in FlowRow /\ r.new.start = r.row.start
  /\ r.pc \in {"copy_nodes", "copy_edges"} => r.op = "duplicate"
  /\ r.pc \in {"nodes_to_check", "edges_to_check", "nodes", "edges", "number",
               "deactivate", "release"} => r.op = "publish"

IsMarked(start, nodes) ==
  start # None => start \in DOMAIN nodes /\ nodes[start].isStart

(* What a request knows of its flow as long as no edit overlapped another   *)
(* request: it edits the only graph there is of the flow, from the start it *)
(* has read; ...                                                            *)
KnowsItsStart(r) ==
  /\ r.op \in GraphEdits => r.row.start = flow[r.flow].start /\ versions[r.flow] = <<>>
  /\ r.op = "duplicate" => IsMarked(r.row.start, graph[r.flow].nodes)

(* ... it has read the nodes that are there, and what it will publish is    *)
(* valid.                                                                   *)
KnowsItsGraph(r) ==
  /\ r.pc \in {"copy_edges", "edges_to_check", "edges"} => r.graph.nodes = graph[r.flow].nodes
  /\ r.pc \in {"number", "deactivate", "release"} => r.graph = graph[r.flow]
  /\ r.pc \in {"nodes", "edges", "number", "deactivate", "release"} =>
       Valid(r.row.start, graph[r.flow])

Knows(r) ==
  r.pc # "idle" /\ r.flow \notin raced => KnowsItsStart(r) /\ KnowsItsGraph(r)

(* Two requests about a flow, of which the first changes its graph and the  *)
(* other one works with the graph, have raced.                              *)
Apart(r, s) ==
  r.pc # "idle" /\ s.pc # "idle" /\ r.flow = s.flow /\ r.flow \notin raced =>
    ~ (r.op \in GraphEdits /\ s.op \in GraphEdits \cup {"publish", "duplicate"})

EditsHold ==
  /\ \A t \in Threads : \A r : r = req[t] => IsRequest(r) /\ Knows(r)
  /\ \A t, u \in Threads : \A r, s : t # u /\ r = req[t] /\ s = req[u] => Apart(r, s)

GInv == GraphsHold /\ IdsAreUsed /\ EditsHold /\ StartIsMarked /\ VersionsAreTheGraph

-----------------------------------------------------------------------------
(* The operators graphs are made with.                                      *)
AreNodes(nodes) == DOMAIN nodes \subseteq NodeIds /\ \A n \in DOMAIN nodes : nodes[n] \in NodeRow
AreEdges(edges) == DOMAIN edges \subseteq EdgeIds /\ \A e \in DOMAIN edges : edges[e] \in EdgeRow

LEMMA TablesAre ==
  ASSUME NEW nodes, NEW edges
  PROVE  IsTables([nodes |-> nodes, edges |-> edges]) <=> AreNodes(nodes) /\ AreEdges(edges)
  BY DEF IsTables, IsGraph, AreNodes, AreEdges

LEMMA TablesHave ==
  ASSUME NEW g, IsTables(g)
  PROVE  /\ AreNodes(g.nodes) /\ AreEdges(g.edges)
         /\ \A nodes : [g EXCEPT !.nodes = nodes] = [nodes |-> nodes, edges |-> g.edges]
         /\ \A edges : [g EXCEPT !.edges = edges] = [nodes |-> g.nodes, edges |-> edges]
<1>1. PICK nodes, edges : g = [nodes |-> nodes, edges |-> edges]
  BY DEF IsTables
<1>2. g.nodes = nodes /\ g.edges = edges
  BY <1>1
<1>3. AreNodes(nodes) /\ AreEdges(edges)
  BY <1>1, TablesAre
<1>4. \A new : [g EXCEPT !.nodes = new] = [nodes |-> new, edges |-> edges]
  BY <1>1
<1>5. \A new : [g EXCEPT !.edges = new] = [nodes |-> nodes, edges |-> new]
  BY <1>1
<1>6. QED
  BY <1>2, <1>3, <1>4, <1>5

LEMMA NoTables == AreNodes(NoRows) /\ AreEdges(NoRows) /\ IsTables(EmptyGraph)
  BY DEF AreNodes, AreEdges, NoRows, EmptyGraph, IsTables, IsGraph

LEMMA UnmarkedAre ==
  ASSUME NEW nodes, AreNodes(nodes)
  PROVE  AreNodes(Unmarked(nodes)) /\ DOMAIN Unmarked(nodes) = DOMAIN nodes
<1>1. \A row \in NodeRow : [row EXCEPT !.isStart = FALSE] \in NodeRow
  BY DEF NodeRow
<1>2. QED
  BY <1>1 DEF AreNodes, Unmarked

LEMMA WithAre ==
  ASSUME NEW rows, NEW key, NEW row
  PROVE  /\ AreNodes(rows) /\ key \in NodeIds /\ row \in NodeRow => AreNodes(With(rows, key, row))
         /\ AreEdges(rows) /\ key \in EdgeIds /\ row \in EdgeRow => AreEdges(With(rows, key, row))
         /\ DOMAIN With(rows, key, row) = DOMAIN rows \cup {key}
         /\ With(rows, key, row)[key] = row
         /\ \A k \in DOMAIN rows \ {key} : With(rows, key, row)[k] = rows[k]
  BY DEF AreNodes, AreEdges, With

LEMMA RestrictAre ==
  ASSUME NEW rows, NEW S, S \subseteq DOMAIN rows
  PROVE  /\ AreNodes(rows) => AreNodes(Restrict(rows, S))
         /\ AreEdges(rows) => AreEdges(Restrict(rows, S))
         /\ DOMAIN Restrict(rows, S) = S
         /\ \A k \in S : Restrict(rows, S)[k] = rows[k]
  BY DEF AreNodes, AreEdges, Restrict

LEMMA WrittenNode ==
  ASSUME NEW now \in NodeRow, NEW old \in NodeRow, NEW new \in NodeRow
  PROVE  /\ Written(now, old, new) \in NodeRow
         /\ new.isStart = old.isStart => Written(now, old, new).isStart = now.isStart
<1> DEFINE w == Written(now, old, new)
<1>1. DOMAIN now = {"kind", "config", "isStart"}
  BY DEF NodeRow
<1>2. w = [c \in {"kind", "config", "isStart"} |-> IF new[c] # old[c] THEN new[c] ELSE now[c]]
  BY <1>1 DEF Written
<1>3. /\ w.kind = (IF new.kind # old.kind THEN new.kind ELSE now.kind)
      /\ w.config = (IF new.config # old.config THEN new.config ELSE now.config)
      /\ w.isStart = (IF new.isStart # old.isStart THEN new.isStart ELSE now.isStart)
  BY <1>2
<1>4. /\ {now.kind, now.config, new.kind, new.config} \subseteq Kinds
      /\ now.isStart \in BOOLEAN /\ new.isStart \in BOOLEAN
  BY DEF NodeRow
<1>5. w.kind \in Kinds /\ w.config \in Kinds /\ w.isStart \in BOOLEAN
  BY <1>3, <1>4, Zenon
<1>6. w = [kind |-> w.kind, config |-> w.config, isStart |-> w.isStart]
  BY <1>2
<1>7. w \in NodeRow
  BY <1>5, <1>6 DEF NodeRow
<1>8. QED
  BY <1>3, <1>7, Zenon

LEMMA WrittenEdge ==
  ASSUME NEW now \in EdgeRow, NEW old \in EdgeRow, NEW new \in EdgeRow
  PROVE  Written(now, old, new) \in EdgeRow
  BY DEF Written, EdgeRow

(* A commit writes the start of a flow, or its status.                      *)
LEMMA WrittenFlow ==
  ASSUME NEW now \in FlowRow, NEW old \in FlowRow, NEW new \in FlowRow
  PROVE  /\ Written(now, old, new) \in FlowRow
         /\ new.start = old.start => Written(now, old, new).start = now.start
         /\ old.start = now.start => Written(now, old, new).start = new.start
  BY DEF Written, FlowRow

LEMMA RowIsNoGap ==
  /\ NoFlow \notin FlowRow
  /\ \A f \in Flows : GraphsHold /\ flow[f] # NoFlow => flow[f] \in FlowRow
<1>1. NoFlow.status \notin VALID_FLOW_STATUSES
  BY DEF NoFlow, VALID_FLOW_STATUSES
<1>2. NoFlow \notin FlowRow
  BY <1>1 DEF FlowRow
<1>3. QED
  BY <1>2 DEF GraphsHold

-----------------------------------------------------------------------------
(* What a step leaves of what requests know.                                *)
Undisturbed(f) ==
  graph'[f] = graph[f] /\ flow'[f].start = flow[f].start

Becomes(t, s) == req' = [req EXCEPT ![t] = s]

OthersKnow(t) == \A u \in Threads \ {t} : \A r : r = req[u] => Knows(r)'

LEMMA KnowsStays ==
  ASSUME NEW r, Knows(r), raced \subseteq raced',
         r.pc # "idle" /\ r.flow \notin raced' =>
           /\ Undisturbed(r.flow)
           /\ r.op \in GraphEdits => versions'[r.flow] = versions[r.flow]
  PROVE  Knows(r)'
  BY DEF Knows, KnowsItsStart, KnowsItsGraph, Undisturbed

(* A request that does not work with the graph knows nothing of it.         *)
LEMMA AloofKnows ==
  ASSUME NEW r, IsRequest(r), r.op \notin GraphEdits \cup {"publish", "duplicate"}
  PROVE  Knows(r)'
  BY DEF IsRequest, Knows, KnowsItsStart, KnowsItsGraph

LEMMA IdleIsSound ==
  /\ IsRequest(Idle) /\ Knows(Idle)'
  /\ \A r : Apart(Idle, r)' /\ Apart(r, Idle)'
<1>1. Idle.pc = "idle" /\ Idle.flow = None /\ Idle.graph = EmptyGraph
  BY DEF Idle
<1>2. QED
  BY <1>1, NoTables DEF IsRequest, Knows, Apart

LEMMA ApartStays ==
  ASSUME NEW r, NEW s, Apart(r, s), raced \subseteq raced'
  PROVE  Apart(r, s)'
  BY DEF Apart

(* A step of one thread.                                                    *)
LEMMA EditsStay ==
  ASSUME RequestsHold, EditsHold, NEW t \in Threads, NEW s, Becomes(t, s),
         raced \subseteq raced', IsRequest(s), Knows(s)',
         OthersKnow(t),
         \A u \in Threads \ {t} : \A r : r = req[u] => Apart(r, s)' /\ Apart(s, r)'
  PROVE  EditsHold'
<1>1. req'[t] = s /\ \A u \in Threads \ {t} : req'[u] = req[u]
  BY DEF RequestsHold, Becomes
<1>2. ASSUME NEW u \in Threads, NEW r, r = req'[u]
      PROVE  IsRequest(r) /\ Knows(r)'
  <2>1. CASE u = t
    BY <2>1, <1>1, <1>2
  <2>2. CASE u # t
    BY <2>2, <1>1, <1>2 DEF EditsHold, OthersKnow
  <2>3. QED
    BY <2>1, <2>2
<1>3. ASSUME NEW u \in Threads, NEW v \in Threads, NEW r, NEW q,
             u # v, r = req'[u], q = req'[v]
      PROVE  Apart(r, q)'
  <2>1. CASE u = t
    BY <2>1, <1>1, <1>3
  <2>2. CASE v = t
    BY <2>2, <1>1, <1>3
  <2>3. CASE u # t /\ v # t
    <3>1. Apart(r, q)
      BY <2>3, <1>1, <1>3 DEF EditsHold
    <3>2. QED
      BY <3>1, ApartStays
  <2>4. QED
    BY <2>1, <2>2, <2>3
<1>4. QED
  BY <1>2, <1>3 DEF EditsHold, IsRequest

(* The request goes on or is over: it is about the flow it was about.       *)
LEMMA EditsGoOn ==
  ASSUME RequestsHold, EditsHold, NEW t \in Threads, NEW s, Becomes(t, s),
         raced \subseteq raced', IsRequest(s), Knows(s)',
         s = Idle \/ (req[t].pc # "idle" /\ s.flow = req[t].flow /\ s.op = req[t].op),
         OthersKnow(t)
  PROVE  EditsHold'
<1>1. ASSUME NEW u \in Threads \ {t}, NEW r, r = req[u]
      PROVE  Apart(r, s)' /\ Apart(s, r)'
  <2>1. CASE s = Idle
    BY <2>1, IdleIsSound, Zenon
  <2>2. CASE req[t].pc # "idle" /\ s.flow = req[t].flow /\ s.op = req[t].op
    <3>1. PICK q : q = req[t]
      OBVIOUS
    <3>2. Apart(r, q) /\ Apart(q, r)
      BY <1>1, <3>1 DEF EditsHold
    <3>3. QED
      BY <2>2, <3>1, <3>2 DEF Apart
  <2>3. QED
    BY <2>1, <2>2
<1>2. \A u \in Threads \ {t} : \A r : r = req[u] => Apart(r, s)' /\ Apart(s, r)'
  BY <1>1
<1>3. QED
  BY <1>2, EditsStay

(* A step that leaves the rows alone.                                       *)
LEMMA QuietIsSound ==
  ASSUME GInv, UNCHANGED <<flow, graph, versions, used>>, raced \subseteq raced', EditsHold'
  PROVE  GInv'
<1>1. GraphsHold' /\ IdsAreUsed'
  BY DEF GInv, GraphsHold, IdsAreUsed
<1>2. StartIsMarked' /\ VersionsAreTheGraph'
  BY DEF GInv, StartIsMarked, VersionsAreTheGraph
<1>3. QED
  BY <1>1, <1>2 DEF GInv

LEMMA OthersAreQuiet ==
  ASSUME GInv, UNCHANGED <<flow, graph, versions, used>>, raced \subseteq raced', NEW t
  PROVE  OthersKnow(t)
<1>1. ASSUME NEW u \in Threads, NEW r, r = req[u]
      PROVE  Knows(r)'
  <2>1. Knows(r)
    BY <1>1 DEF GInv, EditsHold
  <2>2. QED
    BY <2>1, KnowsStays DEF Undisturbed
<1>2. QED
  BY <1>1 DEF OthersKnow

LEMMA GiveUpIsSound ==
  ASSUME IInv, GInv, NEW t \in Threads, GiveUp(t)
  PROVE  GInv'
<1>1. UNCHANGED <<flow, graph, versions, used>> /\ raced \subseteq raced' /\ Becomes(t, Idle)
  BY DEF GiveUp, Becomes
<1>2. EditsHold'
  <2>1. RequestsHold /\ EditsHold
    BY DEF IInv, GInv
  <2>2. OthersKnow(t)
    BY <1>1, OthersAreQuiet
  <2>3. QED
    BY <1>1, <2>1, <2>2, IdleIsSound, EditsGoOn
<1>3. QED
  BY <1>1, <1>2, QuietIsSound

GoesOnAs(t, s) ==
  UNCHANGED <<flow, graph, versions, used>> /\ raced' = raced /\ Becomes(t, s)

LEMMA GoOnIsSound ==
  ASSUME IInv, GInv, NEW t \in Threads, NEW s, GoesOnAs(t, s),
         req[t].pc # "idle", s.flow = req[t].flow, s.op = req[t].op, IsRequest(s), Knows(s)
  PROVE  GInv'
<1>1. UNCHANGED <<flow, graph, versions, used>> /\ raced \subseteq raced' /\ Becomes(t, s)
  BY DEF GoesOnAs
<1>2. Knows(s)'
  BY <1>1, KnowsStays DEF Undisturbed
<1>3. EditsHold'
  <2>1. RequestsHold /\ EditsHold
    BY DEF IInv, GInv
  <2>2. OthersKnow(t)
    BY <1>1, OthersAreQuiet
  <2>3. QED
    BY <1>1, <1>2, <2>1, <2>2, EditsGoOn
<1>4. QED
  BY <1>1, <1>3, QuietIsSound

(* A request that begins has raced if it overlaps another one.              *)
BeginsAs(t, f, s) ==
  /\ UNCHANGED <<flow, graph, versions, used>> /\ Becomes(t, s) /\ flow[f] # NoFlow
  /\ raced' = IF Overlaps(t, f, s.op) THEN raced \cup {f} ELSE raced

LEMMA StartIsSound ==
  ASSUME IInv, GInv, NEW t \in Threads, NEW f \in Flows, NEW s, BeginsAs(t, f, s),
         s.pc \notin {"copy_edges", "edges_to_check", "nodes", "edges", "number",
                      "deactivate", "release"},
         s.flow = f, s.row = flow[f], flow[f] \in FlowRow => IsRequest(s),
         s.op \in GraphEdits => flow[f].status = "draft"
  PROVE  GInv'
<1>1. /\ UNCHANGED <<flow, graph, versions, used>> /\ Becomes(t, s) /\ flow[f] # NoFlow
      /\ raced' = IF Overlaps(t, f, s.op) THEN raced \cup {f} ELSE raced
  BY DEF BeginsAs
<1>2. raced \subseteq raced'
  BY <1>1
<1>3. IsRequest(s)
  BY <1>1, RowIsNoGap DEF GInv
<1>4. Knows(s)
  <2>1. s.op \in GraphEdits => versions[f] = <<>>
    BY DEF IInv, VersionsReplaceEachOther, PublishedIsNoDraft
  <2>2. f \notin raced => IsMarked(s.row.start, graph[f].nodes)
    BY DEF GInv, StartIsMarked, IsMarked
  <2>3. QED
    BY <2>1, <2>2 DEF Knows, KnowsItsStart, KnowsItsGraph
<1>5. Knows(s)'
  BY <1>1, <1>2, <1>4, KnowsStays DEF Undisturbed
<1>6. ASSUME NEW u \in Threads \ {t}, NEW r, r = req[u]
      PROVE  Apart(r, s)' /\ Apart(s, r)'
  <2>1. ASSUME r.flow = f, f \notin raced'
        PROVE  /\ ~ (r.op \in GraphEdits /\ s.op \in GraphEdits \cup {"publish", "duplicate"})
               /\ ~ (s.op \in GraphEdits /\ r.op \in GraphEdits \cup {"publish", "duplicate"})
    <3>1. ~ Overlaps(t, f, s.op)
      BY <1>1, <2>1
    <3>2. QED
      BY <1>6, <2>1, <3>1 DEF Overlaps
  <2>2. QED
    BY <2>1 DEF Apart
<1>7. EditsHold'
  <2>1. RequestsHold /\ EditsHold
    BY DEF IInv, GInv
  <2>2. OthersKnow(t)
    BY <1>1, <1>2, OthersAreQuiet
  <2>3. \A u \in Threads \ {t} : \A r : r = req[u] => Apart(r, s)' /\ Apart(s, r)'
    BY <1>6
  <2>4. QED
    BY <1>1, <1>2, <1>3, <1>5, <2>1, <2>2, <2>3, EditsStay
<1>8. QED
  BY <1>1, <1>2, <1>7, QuietIsSound

-----------------------------------------------------------------------------
(* Requests that begin.                                                     *)
Asks(request, op, f, old, new) ==
  /\ DOMAIN request = DOMAIN Idle /\ request.graph = EmptyGraph
  /\ request.op = op /\ request.flow = f /\ request.row = flow[f]
  /\ request.old = old /\ request.new = new

LEMMA BeginIsSound ==
  ASSUME IInv, GInv, NEW t \in Threads, NEW f \in Flows,
         NEW op, NEW old, NEW new, NEW pc, NEW request,
         Asks(request, op, f, old, new), Start(t, f, request, pc),
         \/ /\ pc = "save_node" /\ op \in {"create_node", "update_node", "delete_node"}
            /\ op # "delete_node" => new \in NodeRow
            /\ op = "update_node" => old \in NodeRow
            /\ flow[f].status = "draft"
         \/ /\ pc \in {"check_edge", "save_edge"}
            /\ op \in {"create_edge", "update_edge", "delete_edge"}
            /\ op # "delete_edge" => new \in EdgeRow
            /\ op = "update_edge" => old \in EdgeRow
            /\ flow[f].status = "draft"
         \/ /\ pc = "save_flow" /\ op \in {"update_flow", "delete_flow"}
            /\ flow[f] \in FlowRow => new \in FlowRow /\ new.start = flow[f].start
         \/ pc = "copy_nodes" /\ op = "duplicate"
         \/ pc = "nodes_to_check" /\ op = "publish"
  PROVE  GInv'
<1>1. PICK s : s = [request EXCEPT !.pc = pc]
  OBVIOUS
<1>2. /\ DOMAIN s = DOMAIN Idle /\ s.pc = pc /\ s.op = op /\ s.flow = f /\ s.row = flow[f]
      /\ s.old = old /\ s.new = new /\ s.graph = EmptyGraph /\ request.op = op
  BY <1>1 DEF Asks, Idle
<1>3. flow[f] \in FlowRow => IsRequest(s)
  BY <1>2, NoTables DEF IsRequest
<1>4. s.op \in GraphEdits => flow[f].status = "draft"
  BY <1>2 DEF GraphEdits
<1>5. s.pc \notin {"copy_edges", "edges_to_check", "nodes", "edges", "number", "deactivate", "release"}
  BY <1>2
<1>6. BeginsAs(t, f, s)
  BY <1>1, <1>2 DEF Start, BeginsAs, Becomes
<1>7. QED
  BY <1>2, <1>3, <1>4, <1>5, <1>6, StartIsSound

LEMMA TablesOf ==
  ASSUME GInv, NEW f \in Flows
  PROVE  IsTables(graph[f])
  BY DEF GInv, GraphsHold

LEMMA BeginEditIsSound ==
  ASSUME IInv, GInv, NEW t \in Threads, NEW f \in Flows,
         \/ BeginCreateNode(t, f) \/ BeginCreateEdge(t, f)
         \/ \E n \in NodeIds : BeginUpdateNode(t, f, n) \/ BeginDeleteNode(t, f, n)
         \/ \E e \in EdgeIds : BeginUpdateEdge(t, f, e) \/ BeginDeleteEdge(t, f, e)
  PROVE  GInv'
<1>1. CASE BeginCreateNode(t, f)
  <2>1. PICK node, request :
          /\ node \in NodeRow
          /\ request = [Begun("create_node", f) EXCEPT !.new = node]
          /\ BeginEdit(t, f, request, "save_node")
    BY <1>1 DEF BeginCreateNode
  <2>2. Asks(request, "create_node", f, None, node)
    BY <2>1 DEF Asks, Begun, Idle
  <2>3. flow[f].status = "draft" /\ Start(t, f, request, "save_node")
    BY <2>1 DEF BeginEdit
  <2>4. QED
    BY <2>1, <2>2, <2>3, BeginIsSound
<1>2. CASE BeginCreateEdge(t, f)
  <2>1. PICK edge, request :
          /\ edge \in EdgeRow
          /\ request = [Begun("create_edge", f) EXCEPT !.new = edge]
          /\ BeginEdit(t, f, request, "check_edge")
    BY <1>2 DEF BeginCreateEdge
  <2>2. Asks(request, "create_edge", f, None, edge)
    BY <2>1 DEF Asks, Begun, Idle
  <2>3. flow[f].status = "draft" /\ Start(t, f, request, "check_edge")
    BY <2>1 DEF BeginEdit
  <2>4. QED
    BY <2>1, <2>2, <2>3, BeginIsSound
<1>3. ASSUME NEW n \in NodeIds, BeginUpdateNode(t, f, n)
      PROVE  GInv'
  <2>1. PICK node, old, request :
          /\ node \in NodeRow
          /\ n \in DOMAIN graph[f].nodes /\ old = graph[f].nodes[n]
          /\ request = [Begun("update_node", f) EXCEPT !.id = n, !.old = old, !.new = node]
          /\ BeginEdit(t, f, request, "save_node")
    BY <1>3 DEF BeginUpdateNode
  <2>2. Asks(request, "update_node", f, old, node)
    BY <2>1 DEF Asks, Begun, Idle
  <2>3. flow[f].status = "draft" /\ Start(t, f, request, "save_node")
    BY <2>1 DEF BeginEdit
  <2>4. old \in NodeRow
    BY <2>1, TablesOf, TablesHave DEF AreNodes
  <2>5. QED
    BY <2>1, <2>2, <2>3, <2>4, BeginIsSound
<1>4. ASSUME NEW n \in NodeIds, BeginDeleteNode(t, f, n)
      PROVE  GInv'
  <2>1. PICK request :
          /\ request = [Begun("delete_node", f) EXCEPT !.id = n]
          /\ BeginEdit(t, f, request, "save_node")
    BY <1>4 DEF BeginDeleteNode
  <2>2. Asks(request, "delete_node", f, None, None)
    BY <2>1 DEF Asks, Begun, Idle
  <2>3. flow[f].status = "draft" /\ Start(t, f, request, "save_node")
    BY <2>1 DEF BeginEdit
  <2>4. QED
    BY <2>1, <2>2, <2>3, BeginIsSound
<1>5. ASSUME NEW e \in EdgeIds, BeginUpdateEdge(t, f, e)
      PROVE  GInv'
  <2>1. PICK edge, old, request :
          /\ edge \in EdgeRow
          /\ e \in DOMAIN graph[f].edges /\ old = graph[f].edges[e]
          /\ request = [Begun("update_edge", f) EXCEPT !.id = e, !.old = old, !.new = edge]
          /\ BeginEdit(t, f, request, "check_edge")
    BY <1>5 DEF BeginUpdateEdge
  <2>2. Asks(request, "update_edge", f, old, edge)
    BY <2>1 DEF Asks, Begun, Idle
  <2>3. flow[f].status = "draft" /\ Start(t, f, request, "check_edge")
    BY <2>1 DEF BeginEdit
  <2>4. old \in EdgeRow
    BY <2>1, TablesOf, TablesHave DEF AreEdges
  <2>5. QED
    BY <2>1, <2>2, <2>3, <2>4, BeginIsSound
<1>6. ASSUME NEW e \in EdgeIds, BeginDeleteEdge(t, f, e)
      PROVE  GInv'
  <2>1. PICK request :
          /\ request = [Begun("delete_edge", f) EXCEPT !.id = e]
          /\ BeginEdit(t, f, request, "save_edge")
    BY <1>6 DEF BeginDeleteEdge
  <2>2. Asks(request, "delete_edge", f, None, None)
    BY <2>1 DEF Asks, Begun, Idle
  <2>3. flow[f].status = "draft" /\ Start(t, f, request, "save_edge")
    BY <2>1 DEF BeginEdit
  <2>4. QED
    BY <2>1, <2>2, <2>3, BeginIsSound
<1>7. QED
  BY <1>1, <1>2, <1>3, <1>4, <1>5, <1>6

LEMMA BeginOtherIsSound ==
  ASSUME IInv, GInv, NEW t \in Threads, NEW f \in Flows,
         \/ \E status \in VALID_FLOW_STATUSES : BeginUpdateFlow(t, f, status)
         \/ BeginDeleteFlow(t, f) \/ BeginDuplicate(t, f) \/ BeginPublish(t, f)
  PROVE  GInv'
<1>1. ASSUME NEW status \in VALID_FLOW_STATUSES, NEW op, op \in {"update_flow", "delete_flow"},
             NEW new, new = [flow[f] EXCEPT !.status = status],
             NEW request, request = [Begun(op, f) EXCEPT !.new = new],
             Start(t, f, request, "save_flow")
      PROVE  GInv'
  <2>1. Asks(request, op, f, None, new)
    BY <1>1 DEF Asks, Begun, Idle
  <2>2. flow[f] \in FlowRow => new \in FlowRow /\ new.start = flow[f].start
    BY <1>1 DEF FlowRow
  <2>3. QED
    BY <1>1, <2>1, <2>2, BeginIsSound
<1>2. ASSUME NEW status \in VALID_FLOW_STATUSES, BeginUpdateFlow(t, f, status)
      PROVE  GInv'
  <2>1. PICK new, request :
          /\ new = [flow[f] EXCEPT !.status = status]
          /\ request = [Begun("update_flow", f) EXCEPT !.new = new]
          /\ Start(t, f, request, "save_flow")
    BY <1>2 DEF BeginUpdateFlow
  <2>2. QED
    BY <2>1, <1>1
<1>3. CASE BeginDeleteFlow(t, f)
  <2>1. PICK new, request :
          /\ new = [flow[f] EXCEPT !.status = "archived"]
          /\ request = [Begun("delete_flow", f) EXCEPT !.new = new]
          /\ Start(t, f, request, "save_flow")
    BY <1>3 DEF BeginDeleteFlow
  <2>2. "archived" \in VALID_FLOW_STATUSES
    BY DEF VALID_FLOW_STATUSES
  <2>3. QED
    BY <2>1, <2>2, <1>1
<1>4. ASSUME NEW op, NEW pc,
             (op = "duplicate" /\ pc = "copy_nodes") \/ (op = "publish" /\ pc = "nodes_to_check"),
             NEW request, request = Begun(op, f), Start(t, f, request, pc)
      PROVE  GInv'
  <2>1. Asks(request, op, f, None, None)
    BY <1>4 DEF Asks, Begun, Idle
  <2>2. QED
    BY <1>4, <2>1, BeginIsSound
<1>5. CASE BeginDuplicate(t, f)
  BY <1>5, <1>4 DEF BeginDuplicate
<1>6. CASE BeginPublish(t, f)
  BY <1>6, <1>4 DEF BeginPublish
<1>7. QED
  BY <1>2, <1>3, <1>5, <1>6

-----------------------------------------------------------------------------
(* Requests that go on.                                                     *)
LEMMA RequestIs ==
  ASSUME GInv, NEW t \in Threads, NEW r, r = req[t]
  PROVE  IsRequest(r) /\ Knows(r)
  BY DEF GInv, EditsHold

LEMMA CheckEdgeIsSound ==
  ASSUME IInv, GInv, NEW t \in Threads, CheckEdge(t)
  PROVE  GInv'
<1>1. PICK r : r = req[t]
  OBVIOUS
<1>2. r.pc = "check_edge" /\ (GoOn(t, r, "save_edge") \/ GiveUp(t))
  BY <1>1 DEF CheckEdge
<1>3. IsRequest(r) /\ Knows(r)
  BY <1>1, RequestIs
<1>4. PICK s : s = [r EXCEPT !.pc = "save_edge"]
  OBVIOUS
<1>5. /\ DOMAIN s = DOMAIN Idle /\ s.pc = "save_edge" /\ s.flow = r.flow /\ s.op = r.op
      /\ s.row = r.row /\ s.graph = r.graph /\ s.new = r.new /\ s.old = r.old
  BY <1>3, <1>4 DEF IsRequest, Idle
<1>6. IsRequest(s) /\ Knows(s)
  BY <1>2, <1>3, <1>5 DEF IsRequest, Knows, KnowsItsStart, KnowsItsGraph
<1>7. GiveUp(t) \/ GoesOnAs(t, s)
  BY <1>2, <1>4 DEF GoOn, GoesOnAs, Becomes
<1>8. QED
  BY <1>1, <1>2, <1>5, <1>6, <1>7, GoOnIsSound, GiveUpIsSound

(* A request that copies or publishes reads what is there.                  *)
LEMMA ReadingIsSound ==
  ASSUME IInv, GInv, NEW t \in Threads, NEW r, r = req[t],
         NEW read, NEW pc, NEW s, s = [r EXCEPT !.graph = read, !.pc = pc],
         GoOn(t, [r EXCEPT !.graph = read], pc), IsTables(read),
         \/ r.op = "duplicate" /\ r.pc = "copy_nodes" /\ pc = "copy_edges"
         \/ /\ r.op = "publish"
            /\ <<r.pc, pc>> \in {<<"nodes_to_check", "edges_to_check">>,
                                 <<"edges_to_check", "nodes">>, <<"nodes", "edges">>,
                                 <<"edges", "number">>},
         r.flow \notin raced => KnowsItsGraph(s)
  PROVE  GInv'
<1>1. IsRequest(r) /\ Knows(r)
  BY RequestIs
<1>2. PICK q : q = [r EXCEPT !.graph = read]
  OBVIOUS
<1>3. /\ DOMAIN s = DOMAIN Idle /\ s.pc = pc /\ s.flow = r.flow /\ s.op = r.op
      /\ s.row = r.row /\ s.graph = read
      /\ s = [q EXCEPT !.pc = pc]
  BY <1>1, <1>2 DEF IsRequest, Idle
<1>4. r.pc # "idle"
  OBVIOUS
<1>5. IsRequest(s)
  BY <1>1, <1>3, <1>4 DEF IsRequest
<1>6. Knows(s)
  BY <1>1, <1>3, <1>4 DEF Knows, KnowsItsStart
<1>7. GoesOnAs(t, s)
  BY <1>2, <1>3 DEF GoOn, GoesOnAs, Becomes
<1>8. QED
  BY <1>3, <1>4, <1>5, <1>6, <1>7, GoOnIsSound

LEMMA FlowOf ==
  ASSUME IInv, NEW t \in Threads, NEW r, r = req[t], r.pc # "idle"
  PROVE  r.flow \in Flows /\ flow[r.flow] # NoFlow
  BY DEF IInv, RequestsHold, KnowsItsFlow

LEMMA CopyNodesIsSound ==
  ASSUME IInv, GInv, NEW t \in Threads, CopyNodes(t)
  PROVE  GInv'
<1>1. PICK r : r = req[t]
  OBVIOUS
<1>2. r.pc = "copy_nodes" /\ GoOn(t, [r EXCEPT !.graph.nodes = graph[r.flow].nodes], "copy_edges")
  BY <1>1 DEF CopyNodes
<1>3. r.flow \in Flows /\ IsRequest(r)
  BY <1>1, <1>2, FlowOf, RequestIs
<1>4. PICK read : read = [nodes |-> graph[r.flow].nodes, edges |-> r.graph.edges]
  OBVIOUS
<1>5. [r EXCEPT !.graph.nodes = graph[r.flow].nodes] = [r EXCEPT !.graph = read]
  BY <1>3, <1>4 DEF IsRequest, IsTables, Idle
<1>6. IsTables(read)
  BY <1>3, <1>4, TablesOf, TablesHave, TablesAre DEF IsRequest
<1>7. PICK s : s = [r EXCEPT !.graph = read, !.pc = "copy_edges"]
  OBVIOUS
<1>8. s.pc = "copy_edges" /\ s.graph = read /\ s.flow = r.flow /\ read.nodes = graph[r.flow].nodes
  BY <1>3, <1>4, <1>7 DEF IsRequest, Idle
<1>9. KnowsItsGraph(s)
  BY <1>8 DEF KnowsItsGraph
<1>10. GoOn(t, [r EXCEPT !.graph = read], "copy_edges")
  BY <1>2, <1>5
<1>11. r.op = "duplicate"
  BY <1>2, <1>3 DEF IsRequest
<1>12. QED
  BY <1>1, <1>2, <1>6, <1>7, <1>9, <1>10, <1>11, ReadingIsSound

LEMMA ReadNodesIsSound ==
  ASSUME IInv, GInv, NEW t \in Threads, ReadNodes(t)
  PROVE  GInv'
<1>1. PICK r : r = req[t]
  OBVIOUS
<1>2. PICK read : read = [nodes |-> graph[r.flow].nodes, edges |-> NoRows]
  OBVIOUS
<1>3. PICK next \in {<<"nodes_to_check", "edges_to_check">>, <<"nodes", "edges">>} :
        r.pc = next[1] /\ GoOn(t, [r EXCEPT !.graph = read], next[2])
  BY <1>1, <1>2 DEF ReadNodes
<1>4. PICK pc : pc = next[2]
  OBVIOUS
<1>5. <<r.pc, pc>> \in {<<"nodes_to_check", "edges_to_check">>, <<"nodes", "edges">>}
  BY <1>3, <1>4
<1>6. r.pc # "idle"
  BY <1>5
<1>7. r.flow \in Flows /\ IsRequest(r) /\ Knows(r)
  BY <1>1, <1>6, FlowOf, RequestIs
<1>8. IsTables(read) /\ read.nodes = graph[r.flow].nodes
  BY <1>2, <1>7, TablesOf, TablesHave, TablesAre, NoTables
<1>9. PICK s : s = [r EXCEPT !.graph = read, !.pc = pc]
  OBVIOUS
<1>10. s.pc = pc /\ s.graph = read /\ s.flow = r.flow /\ s.row = r.row
  BY <1>7, <1>9 DEF IsRequest, Idle
<1>11. r.flow \notin raced => KnowsItsGraph(s)
  BY <1>5, <1>7, <1>8, <1>10 DEF Knows, KnowsItsGraph
<1>12. r.op = "publish"
  BY <1>5, <1>7 DEF IsRequest
<1>13. GoOn(t, [r EXCEPT !.graph = read], pc)
  BY <1>3, <1>4
<1>14. QED
  BY <1>1, <1>5, <1>8, <1>9, <1>11, <1>12, <1>13, ReadingIsSound

LEMMA ValidateIsSound ==
  ASSUME IInv, GInv, NEW t \in Threads, Validate(t)
  PROVE  GInv'
<1>1. PICK r : r = req[t]
  OBVIOUS
<1>2. r.pc = "edges_to_check"
  BY <1>1 DEF Validate
<1>3. CASE GiveUp(t)
  BY <1>3, GiveUpIsSound
<1>4. CASE /\ Valid(r.row.start, [r.graph EXCEPT !.edges = graph[r.flow].edges])
           /\ GoOn(t, [r EXCEPT !.graph = EmptyGraph], "nodes")
  <2>1. r.flow \in Flows /\ IsRequest(r) /\ Knows(r) /\ r.op = "publish"
    BY <1>1, <1>2, FlowOf, RequestIs DEF IsRequest
  <2>2. r.flow \notin raced => [r.graph EXCEPT !.edges = graph[r.flow].edges] = graph[r.flow]
    <3>1. r.flow \notin raced => r.graph.nodes = graph[r.flow].nodes
      BY <1>2, <2>1 DEF Knows, KnowsItsGraph
    <3>2. [r.graph EXCEPT !.edges = graph[r.flow].edges]
            = [nodes |-> r.graph.nodes, edges |-> graph[r.flow].edges]
      BY <2>1, TablesHave DEF IsRequest
    <3>3. graph[r.flow] = [nodes |-> graph[r.flow].nodes, edges |-> graph[r.flow].edges]
      BY <2>1, TablesOf DEF IsTables
    <3>4. QED
      BY <3>1, <3>2, <3>3
  <2>3. PICK s : s = [r EXCEPT !.graph = EmptyGraph, !.pc = "nodes"]
    OBVIOUS
  <2>4. s.pc = "nodes" /\ s.flow = r.flow /\ s.row = r.row
    BY <2>1, <2>3 DEF IsRequest, Idle
  <2>5. r.flow \notin raced => KnowsItsGraph(s)
    BY <1>4, <2>2, <2>4 DEF KnowsItsGraph
  <2>6. QED
    BY <1>1, <1>2, <1>4, <2>1, <2>3, <2>5, NoTables, ReadingIsSound
<1>5. QED
  BY <1>1, <1>3, <1>4 DEF Validate

LEMMA ReadEdgesIsSound ==
  ASSUME IInv, GInv, NEW t \in Threads, ReadEdges(t)
  PROVE  GInv'
<1>1. PICK r : r = req[t]
  OBVIOUS
<1>2. r.pc = "edges" /\ GoOn(t, [r EXCEPT !.graph.edges = graph[r.flow].edges], "number")
  BY <1>1 DEF ReadEdges
<1>3. r.flow \in Flows /\ IsRequest(r) /\ Knows(r) /\ r.op = "publish"
  BY <1>1, <1>2, FlowOf, RequestIs DEF IsRequest
<1>4. PICK read : read = [nodes |-> r.graph.nodes, edges |-> graph[r.flow].edges]
  OBVIOUS
<1>5. [r EXCEPT !.graph.edges = graph[r.flow].edges] = [r EXCEPT !.graph = read]
  BY <1>3, <1>4 DEF IsRequest, IsTables, Idle
<1>6. IsTables(read)
  BY <1>3, <1>4, TablesOf, TablesHave, TablesAre DEF IsRequest
<1>7. r.flow \notin raced => read = graph[r.flow]
  <2>1. r.flow \notin raced => r.graph.nodes = graph[r.flow].nodes
    BY <1>2, <1>3 DEF Knows, KnowsItsGraph
  <2>2. graph[r.flow] = [nodes |-> graph[r.flow].nodes, edges |-> graph[r.flow].edges]
    BY <1>3, TablesOf DEF IsTables
  <2>3. QED
    BY <1>4, <2>1, <2>2
<1>8. PICK s : s = [r EXCEPT !.graph = read, !.pc = "number"]
  OBVIOUS
<1>9. s.pc = "number" /\ s.graph = read /\ s.flow = r.flow /\ s.row = r.row
  BY <1>3, <1>8 DEF IsRequest, Idle
<1>10. r.flow \notin raced => KnowsItsGraph(s)
  BY <1>2, <1>3, <1>7, <1>9 DEF Knows, KnowsItsGraph
<1>11. GoOn(t, [r EXCEPT !.graph = read], "number")
  BY <1>2, <1>5
<1>12. QED
  BY <1>1, <1>2, <1>3, <1>6, <1>8, <1>10, <1>11, ReadingIsSound

(* Taking a number and what to deactivate changes nothing of that.          *)
LEMMA NumberingIsSound ==
  ASSUME IInv, GInv, NEW t \in Threads, TakeNumber(t) \/ Deactivate(t)
  PROVE  GInv'
<1>1. PICK r : r = req[t]
  OBVIOUS
<1>2. ASSUME NEW q, NEW pc, GoOn(t, q, pc), NEW s, s = [q EXCEPT !.pc = pc],
             r.pc \in {"number", "deactivate"}, pc \in {"deactivate", "release"},
             DOMAIN s = DOMAIN Idle, s.pc = pc, s.op = r.op, s.flow = r.flow, s.row = r.row,
             s.graph = r.graph
      PROVE  GInv'
  <2>1. IsRequest(r) /\ Knows(r)
    BY <1>1, RequestIs
  <2>2. IsRequest(s) /\ Knows(s)
    BY <1>2, <2>1 DEF IsRequest, Knows, KnowsItsStart, KnowsItsGraph
  <2>3. GoesOnAs(t, s)
    BY <1>2 DEF GoOn, GoesOnAs, Becomes
  <2>4. QED
    BY <1>1, <1>2, <2>2, <2>3, GoOnIsSound
<1>3. DOMAIN r = DOMAIN Idle
  BY <1>1, RequestIs DEF IsRequest
<1>4. CASE TakeNumber(t)
  <2>1. PICK number, q :
          /\ r.pc = "number" /\ q = [r EXCEPT !.number = number, !.seen = Len(versions[r.flow])]
          /\ GoOn(t, q, "deactivate")
    BY <1>1, <1>4 DEF TakeNumber
  <2>2. PICK s : s = [q EXCEPT !.pc = "deactivate"]
    OBVIOUS
  <2>3. /\ DOMAIN s = DOMAIN Idle /\ s.pc = "deactivate" /\ s.op = r.op /\ s.flow = r.flow
        /\ s.row = r.row /\ s.graph = r.graph
    BY <1>3, <2>1, <2>2 DEF Idle
  <2>4. QED
    BY <1>2, <2>1, <2>2, <2>3
<1>5. CASE Deactivate(t)
  <2>1. PICK q : /\ r.pc = "deactivate" /\ q = [r EXCEPT !.active = ActiveOnes(r.flow)]
                 /\ GoOn(t, q, "release")
    BY <1>1, <1>5 DEF Deactivate
  <2>2. PICK s : s = [q EXCEPT !.pc = "release"]
    OBVIOUS
  <2>3. /\ DOMAIN s = DOMAIN Idle /\ s.pc = "release" /\ s.op = r.op /\ s.flow = r.flow
        /\ s.row = r.row /\ s.graph = r.graph
    BY <1>3, <2>1, <2>2 DEF Idle
  <2>4. QED
    BY <1>2, <2>1, <2>2, <2>3
<1>6. QED
  BY <1>4, <1>5

-----------------------------------------------------------------------------
(* Edits that are committed.                                                *)
LEMMA EditedIsSound ==
  ASSUME IInv, GInv, NEW t \in Threads, NEW r, r = req[t], NEW rows, NEW start,
         Edited(t, rows, start), r.pc # "idle", r.op \in GraphEdits,
         IsTables(rows), start \in NodeIds \cup {None},
         DOMAIN used' = Flows, \A f \in Flows : used[f] \subseteq used'[f],
         DOMAIN rows.nodes \subseteq used'[r.flow],
         r.flow \notin raced => IsMarked(start, rows.nodes)
  PROVE  GInv'
<1>1. PICK f \in Flows : f = r.flow /\ flow[f] # NoFlow
  BY FlowOf
<1>2. PICK new : new = [r.row EXCEPT !.start = start]
  OBVIOUS
<1>3. PICK w : w = Written(flow[f], r.row, new)
  OBVIOUS
<1>4. IsRequest(r) /\ Knows(r)
  BY RequestIs
<1>5. /\ flow' = [flow EXCEPT ![f] = w] /\ graph' = [graph EXCEPT ![f] = rows]
      /\ versions' = versions /\ raced' = raced /\ Becomes(t, Idle)
  BY <1>1, <1>2, <1>3 DEF Edited, Becomes
<1>6. r.row \in FlowRow /\ flow[f] \in FlowRow
  BY <1>1, <1>4, RowIsNoGap DEF GInv, IsRequest
<1>7. new \in FlowRow /\ new.start = start
  BY <1>2, <1>6 DEF FlowRow
<1>8. /\ w \in FlowRow
      /\ r.row.start = flow[f].start => w.start = start
  BY <1>3, <1>6, <1>7, WrittenFlow
<1>9. f \notin raced => r.row.start = flow[f].start /\ versions[f] = <<>>
  BY <1>1, <1>4 DEF Knows, KnowsItsStart
<1>10. /\ flow'[f] = w /\ graph'[f] = rows
       /\ \A g \in Flows \ {f} : flow'[g] = flow[g] /\ graph'[g] = graph[g]
       /\ flow' \in [Flows -> FlowRow \cup {NoFlow}]
  BY <1>5, <1>8 DEF IInv, RowsHold, GInv, GraphsHold
<1>11. GraphsHold' /\ IdsAreUsed'
  <2>1. GraphsHold'
    BY <1>5, <1>10 DEF GInv, GraphsHold
  <2>2. IdsAreUsed'
    BY <1>1, <1>10 DEF GInv, IdsAreUsed
  <2>3. QED
    BY <2>1, <2>2
<1>12. OthersKnow(t)
  <2>1. ASSUME NEW u \in Threads \ {t}, NEW q, q = req[u]
        PROVE  Knows(q)'
    <3>1. IsRequest(q) /\ Knows(q)
      BY <2>1, RequestIs
    <3>2. CASE q.pc = "idle" \/ (f \in raced /\ q.flow = f)
      BY <3>2, <1>5 DEF Knows
    <3>3. CASE q.pc # "idle" /\ q.flow # f
      <4>1. q.flow \in Flows
        BY <2>1, <3>3, FlowOf
      <4>2. QED
        BY <1>5, <1>10, <3>1, <3>3, <4>1, KnowsStays DEF Undisturbed
    <3>4. CASE q.pc # "idle" /\ q.flow = f /\ f \notin raced
      <4>1. Apart(r, q)
        BY <2>1 DEF GInv, EditsHold
      <4>2. q.op \notin GraphEdits \cup {"publish", "duplicate"}
        BY <1>1, <3>4, <4>1 DEF Apart
      <4>3. QED
        BY <3>1, <4>2, AloofKnows
    <3>5. QED
      BY <3>2, <3>3, <3>4
  <2>2. QED
    BY <2>1 DEF OthersKnow
<1>13. EditsHold'
  <2>1. RequestsHold /\ EditsHold
    BY DEF IInv, GInv
  <2>2. raced \subseteq raced'
    BY <1>5
  <2>3. QED
    BY <1>5, <1>12, <2>1, <2>2, IdleIsSound, EditsGoOn
<1>14. StartIsMarked'
  BY <1>1, <1>5, <1>8, <1>9, <1>10 DEF GInv, StartIsMarked, IsMarked
<1>15. VersionsAreTheGraph'
  BY <1>5, <1>9, <1>10 DEF GInv, VersionsAreTheGraph
<1>16. QED
  BY <1>11, <1>13, <1>14, <1>15 DEF GInv

(* What an edit finds, unless it has raced: the start of the flow as it has  *)
(* read it is marked.                                                       *)
LEMMA EditFinds ==
  ASSUME IInv, GInv, NEW t \in Threads, NEW r, r = req[t], r.pc # "idle", r.op \in GraphEdits
  PROVE  /\ r.flow \in Flows /\ IsTables(graph[r.flow]) /\ IsRequest(r)
         /\ r.row.start \in NodeIds \cup {None}
         /\ r.flow \notin raced => IsMarked(r.row.start, graph[r.flow].nodes)
         /\ DOMAIN graph[r.flow].nodes \subseteq used[r.flow] /\ DOMAIN used = Flows
<1>1. r.flow \in Flows /\ IsRequest(r) /\ Knows(r) /\ IsTables(graph[r.flow])
  BY FlowOf, RequestIs, TablesOf
<1>2. r.row.start \in NodeIds \cup {None}
  BY <1>1 DEF IsRequest, FlowRow
<1>3. r.flow \notin raced => IsMarked(r.row.start, graph[r.flow].nodes)
  BY <1>1 DEF Knows, KnowsItsStart, GInv, StartIsMarked, IsMarked
<1>4. DOMAIN graph[r.flow].nodes \subseteq used[r.flow] /\ DOMAIN used = Flows
  BY <1>1 DEF GInv, IdsAreUsed
<1>5. QED
  BY <1>1, <1>2, <1>3, <1>4

LEMMA CreateNodeIsSound ==
  ASSUME IInv, GInv, NEW t \in Threads, NEW n \in NodeIds, CreateNode(t, n)
  PROVE  GInv'
<1>1. PICK r : r = req[t]
  OBVIOUS
<1>2. PICK g : g = graph[r.flow]
  OBVIOUS
<1>3. PICK others : others = IF r.new.isStart THEN Unmarked(g.nodes) ELSE g.nodes
  OBVIOUS
<1>4. PICK nodes, rows, start :
        /\ nodes = With(others, n, r.new) /\ rows = [g EXCEPT !.nodes = nodes]
        /\ start = IF r.new.isStart THEN n ELSE r.row.start
  OBVIOUS
<1>5. /\ r.pc = "save_node" /\ r.op = "create_node" /\ n \notin used[r.flow]
      /\ Edited(t, rows, start) /\ used' = [used EXCEPT ![r.flow] = @ \cup {n}]
  BY <1>1, <1>2, <1>3, <1>4 DEF CreateNode
<1>6. r.op \in GraphEdits /\ r.pc # "idle"
  BY <1>5 DEF GraphEdits
<1>7. /\ r.flow \in Flows /\ IsTables(g) /\ IsRequest(r)
      /\ r.row.start \in NodeIds \cup {None}
      /\ r.flow \notin raced => IsMarked(r.row.start, g.nodes)
      /\ DOMAIN g.nodes \subseteq used[r.flow] /\ DOMAIN used = Flows
  BY <1>1, <1>2, <1>6, EditFinds
<1>8. r.new \in NodeRow /\ n \notin DOMAIN g.nodes
  BY <1>5, <1>7 DEF IsRequest
<1>9. AreNodes(others) /\ DOMAIN others = DOMAIN g.nodes
  BY <1>3, <1>7, TablesHave, UnmarkedAre
<1>10. /\ AreNodes(nodes) /\ nodes[n] = r.new
       /\ DOMAIN nodes = DOMAIN others \cup {n}
       /\ \A k \in DOMAIN others \ {n} : nodes[k] = others[k]
  <2>1. AreNodes(With(others, n, r.new))
    BY <1>8, <1>9, WithAre
  <2>2. QED
    BY <2>1, <1>4 DEF With
<1>11. rows = [nodes |-> nodes, edges |-> g.edges]
  BY <1>4, <1>7, TablesHave
<1>12. IsTables(rows) /\ rows.nodes = nodes
  BY <1>7, <1>10, <1>11, TablesHave, TablesAre
<1>13. start \in NodeIds \cup {None}
  BY <1>4, <1>7
<1>14. r.flow \notin raced => IsMarked(start, nodes)
  <2>1. CASE r.new.isStart
    BY <2>1, <1>4, <1>10 DEF IsMarked
  <2>2. CASE ~ r.new.isStart
    BY <2>2, <1>3, <1>4, <1>7, <1>8, <1>10 DEF IsMarked
  <2>3. QED
    BY <2>1, <2>2
<1>15. /\ DOMAIN used' = Flows /\ \A f \in Flows : used[f] \subseteq used'[f]
       /\ DOMAIN nodes \subseteq used'[r.flow]
  BY <1>5, <1>7, <1>9, <1>10
<1>16. QED
  BY <1>1, <1>5, <1>6, <1>12, <1>13, <1>14, <1>15, EditedIsSound

(* What an edit that adds no node leaves of the ids.                        *)
Takes(f) == used' = used \/ \E ids : used' = [used EXCEPT ![f] = @ \cup ids]

LEMMA IdsStay ==
  ASSUME IInv, GInv, NEW t \in Threads, NEW r, r = req[t], r.pc # "idle", r.op \in GraphEdits,
         NEW S, Takes(r.flow), S \subseteq DOMAIN graph[r.flow].nodes
  PROVE  /\ DOMAIN used' = Flows /\ \A f \in Flows : used[f] \subseteq used'[f]
         /\ S \subseteq used'[r.flow]
<1>1. /\ DOMAIN graph[r.flow].nodes \subseteq used[r.flow] /\ DOMAIN used = Flows
      /\ r.flow \in Flows
  BY EditFinds
<1>2. QED
  BY <1>1 DEF Takes

LEMMA UpdateNodeIsSound ==
  ASSUME IInv, GInv, NEW t \in Threads, NEW marks \in BOOLEAN, UpdateNode(t, marks)
  PROVE  GInv'
<1>1. PICK r : r = req[t]
  OBVIOUS
<1>2. PICK g : g = graph[r.flow]
  OBVIOUS
<1>3. PICK sets \in BOOLEAN : sets = (marks /\ r.new.isStart)
  OBVIOUS
<1>4. PICK others : others = IF sets THEN Unmarked(g.nodes) ELSE g.nodes
  OBVIOUS
<1>5. PICK now : now = others[r.id]
  OBVIOUS
<1>6. PICK w : w = Written(now, r.old, r.new)
  OBVIOUS
<1>7. PICK isStart \in BOOLEAN : isStart = (w.isStart \/ sets)
  OBVIOUS
<1>8. PICK node : node = [w EXCEPT !.isStart = isStart]
  OBVIOUS
<1>9. PICK nodes, rows, start :
        /\ nodes = [others EXCEPT ![r.id] = node] /\ rows = [g EXCEPT !.nodes = nodes]
        /\ start = IF sets THEN r.id
                   ELSE IF marks /\ r.row.start = r.id THEN None ELSE r.row.start
  OBVIOUS
<1>10. /\ r.pc = "save_node" /\ r.op = "update_node"
       /\ r.new.isStart # r.old.isStart => marks
       /\ r.id \in DOMAIN g.nodes /\ used' = used
  BY <1>1, <1>2 DEF UpdateNode
<1>11. Edited(t, rows, start)
  <2>1. [others EXCEPT ![r.id] = [w EXCEPT !.isStart = @ \/ sets]] = nodes
    BY <1>7, <1>8, <1>9, Zenon
  <2>2. QED
    BY <2>1, <1>1, <1>2, <1>3, <1>4, <1>5, <1>6, <1>9, Zenon DEF UpdateNode
<1>12. r.op \in GraphEdits /\ r.pc # "idle"
  BY <1>10 DEF GraphEdits
<1>13. /\ r.flow \in Flows /\ IsTables(g) /\ IsRequest(r)
       /\ r.row.start \in NodeIds \cup {None}
       /\ r.flow \notin raced => IsMarked(r.row.start, g.nodes)
  BY <1>1, <1>2, <1>12, EditFinds
<1>14. r.new \in NodeRow /\ r.old \in NodeRow
  BY <1>10, <1>13 DEF IsRequest
<1>15. AreNodes(others) /\ DOMAIN others = DOMAIN g.nodes
  BY <1>4, <1>13, TablesHave, UnmarkedAre
<1>16. now \in NodeRow /\ r.id \in NodeIds
  BY <1>5, <1>10, <1>15 DEF AreNodes
<1>17. w \in NodeRow /\ (r.new.isStart = r.old.isStart => w.isStart = now.isStart)
  BY <1>6, <1>14, <1>16, WrittenNode
<1>18. node \in NodeRow /\ node.isStart = isStart
  BY <1>7, <1>8, <1>17 DEF NodeRow
<1>19. /\ DOMAIN nodes = DOMAIN g.nodes
       /\ nodes[r.id] = node /\ \A k \in DOMAIN g.nodes \ {r.id} : nodes[k] = others[k]
  BY <1>9, <1>10, <1>15
<1>20. AreNodes(nodes)
  BY <1>15, <1>18, <1>19 DEF AreNodes
<1>21. rows = [nodes |-> nodes, edges |-> g.edges]
  BY <1>9, <1>13, TablesHave
<1>22. IsTables(rows) /\ rows.nodes = nodes
  BY <1>13, <1>20, <1>21, TablesHave, TablesAre
<1>23. start \in NodeIds \cup {None}
  BY <1>9, <1>13, <1>16
<1>24. ASSUME r.flow \notin raced, start # None
       PROVE  start \in DOMAIN nodes /\ nodes[start].isStart
  <2>1. CASE sets
    <3>1. isStart /\ start = r.id
      BY <2>1, <1>7, <1>9, Zenon
    <3>2. QED
      BY <3>1, <1>10, <1>18, <1>19
  <2>2. CASE ~ sets
    <3>1. start = r.row.start /\ ~ (marks /\ start = r.id) /\ others = g.nodes
      BY <2>2, <1>4, <1>9, <1>24, Zenon
    <3>2. start \in DOMAIN g.nodes /\ g.nodes[start].isStart
      BY <3>1, <1>13, <1>24 DEF IsMarked
    <3>3. CASE start # r.id
      BY <3>1, <3>2, <3>3, <1>19
    <3>4. CASE start = r.id
      <4>1. r.new.isStart = r.old.isStart
        BY <3>1, <3>4, <1>10, Zenon
      <4>2. w.isStart = now.isStart /\ now = g.nodes[start]
        BY <4>1, <3>1, <3>4, <1>5, <1>17, Zenon
      <4>3. isStart
        BY <4>2, <3>2, <1>7, Zenon
      <4>4. QED
        BY <4>3, <3>2, <3>4, <1>18, <1>19, Zenon
    <3>5. QED
      BY <3>3, <3>4
  <2>3. QED
    BY <2>1, <2>2
<1>25. /\ DOMAIN used' = Flows /\ \A f \in Flows : used[f] \subseteq used'[f]
       /\ DOMAIN nodes \subseteq used'[r.flow]
  BY <1>1, <1>2, <1>10, <1>12, <1>19, IdsStay DEF Takes
<1>26. r.flow \notin raced => IsMarked(start, nodes)
  BY <1>24 DEF IsMarked
<1>27. QED
  BY <1>1, <1>11, <1>12, <1>22, <1>23, <1>25, <1>26, EditedIsSound

LEMMA DeleteNodeIsSound ==
  ASSUME IInv, GInv, NEW t \in Threads, DeleteNode(t)
  PROVE  GInv'
<1>1. PICK r : r = req[t]
  OBVIOUS
<1>2. PICK g : g = graph[r.flow]
  OBVIOUS
<1>3. PICK nodes, edges, rows, start :
        /\ nodes = Restrict(g.nodes, DOMAIN g.nodes \ {r.id}) /\ edges = EdgesWithout(g, r.id)
        /\ rows = [nodes |-> nodes, edges |-> edges]
        /\ start = IF r.row.start = r.id THEN None ELSE r.row.start
  OBVIOUS
<1>4. /\ r.pc = "save_node" /\ r.op = "delete_node" /\ used' = used
      /\ Edited(t, rows, start)
  BY <1>1, <1>2, <1>3 DEF DeleteNode
<1>5. r.op \in GraphEdits /\ r.pc # "idle"
  BY <1>4 DEF GraphEdits
<1>6. /\ r.flow \in Flows /\ IsTables(g) /\ IsRequest(r)
      /\ r.row.start \in NodeIds \cup {None}
      /\ r.flow \notin raced => IsMarked(r.row.start, g.nodes)
  BY <1>1, <1>2, <1>5, EditFinds
<1>7. /\ AreNodes(nodes) /\ DOMAIN nodes = DOMAIN g.nodes \ {r.id}
      /\ \A k \in DOMAIN nodes : nodes[k] = g.nodes[k]
  BY <1>3, <1>6, TablesHave, RestrictAre
<1>8. AreEdges(edges)
  BY <1>3, <1>6, TablesHave, RestrictAre DEF EdgesWithout
<1>9. IsTables(rows) /\ rows.nodes = nodes
  BY <1>3, <1>7, <1>8, TablesAre
<1>10. start \in NodeIds \cup {None}
  BY <1>3, <1>6
<1>11. r.flow \notin raced => IsMarked(start, nodes)
  BY <1>3, <1>6, <1>7 DEF IsMarked
<1>12. /\ DOMAIN used' = Flows /\ \A f \in Flows : used[f] \subseteq used'[f]
       /\ DOMAIN nodes \subseteq used'[r.flow]
  BY <1>1, <1>2, <1>4, <1>5, <1>7, IdsStay DEF Takes
<1>13. QED
  BY <1>1, <1>4, <1>5, <1>9, <1>10, <1>11, <1>12, EditedIsSound

(* Edits of edges leave nodes and start as they are.                        *)
LEMMA EdgeEditIsSound ==
  ASSUME IInv, GInv, NEW t \in Threads, NEW r, r = req[t], NEW edges,
         Edited(t, [graph[r.flow] EXCEPT !.edges = edges], r.row.start),
         r.pc # "idle", r.op \in GraphEdits, AreEdges(edges),
         Takes(r.flow)
  PROVE  GInv'
<1>1. PICK g, rows : g = graph[r.flow] /\ rows = [g EXCEPT !.edges = edges]
  OBVIOUS
<1>2. /\ IsTables(g) /\ r.row.start \in NodeIds \cup {None}
      /\ r.flow \notin raced => IsMarked(r.row.start, g.nodes)
  BY <1>1, EditFinds
<1>3. rows = [nodes |-> g.nodes, edges |-> edges]
  BY <1>1, <1>2, TablesHave
<1>4. IsTables(rows) /\ rows.nodes = g.nodes
  BY <1>2, <1>3, TablesHave, TablesAre
<1>5. /\ DOMAIN used' = Flows /\ \A f \in Flows : used[f] \subseteq used'[f]
      /\ DOMAIN g.nodes \subseteq used'[r.flow]
  <2>1. PICK S : S = DOMAIN graph[r.flow].nodes
    OBVIOUS
  <2>2. /\ DOMAIN used' = Flows /\ \A f \in Flows : used[f] \subseteq used'[f]
        /\ S \subseteq used'[r.flow]
    BY <2>1, IdsStay
  <2>3. QED
    BY <1>1, <2>1, <2>2
<1>6. Edited(t, rows, r.row.start)
  BY <1>1
<1>7. QED
  BY <1>2, <1>4, <1>5, <1>6, EditedIsSound

LEMMA SaveEdgeIsSound ==
  ASSUME IInv, GInv, NEW t \in Threads, NEW e \in EdgeIds, SaveEdge(t, e)
  PROVE  GInv'
<1>1. PICK r : r = req[t]
  OBVIOUS
<1>2. PICK g : g = graph[r.flow]
  OBVIOUS
<1>3. PICK edge : edge = IF r.op = "create_edge" THEN r.new ELSE Written(g.edges[e], r.old, r.new)
  OBVIOUS
<1>4. PICK edges : edges = With(g.edges, e, edge)
  OBVIOUS
<1>5. /\ r.pc = "save_edge" /\ used' = [used EXCEPT ![r.flow] = @ \cup {e}]
      /\ r.op = "create_edge" \/ (r.op = "update_edge" /\ e \in DOMAIN g.edges)
      /\ Edited(t, [g EXCEPT !.edges = edges], r.row.start)
  BY <1>1, <1>2, <1>3, <1>4 DEF SaveEdge
<1>6. r.op \in GraphEdits /\ r.pc # "idle"
  BY <1>5 DEF GraphEdits
<1>7. IsTables(g) /\ IsRequest(r)
  BY <1>1, <1>2, <1>6, EditFinds
<1>8. AreEdges(g.edges)
  BY <1>7, TablesHave
<1>9. edge \in EdgeRow
  <2>1. CASE r.op = "create_edge"
    BY <2>1, <1>3, <1>5, <1>7 DEF IsRequest
  <2>2. CASE r.op = "update_edge" /\ e \in DOMAIN g.edges
    <3>1. r.new \in EdgeRow /\ r.old \in EdgeRow /\ g.edges[e] \in EdgeRow
      BY <2>2, <1>5, <1>7, <1>8 DEF IsRequest, AreEdges
    <3>2. QED
      BY <2>2, <3>1, <1>3, WrittenEdge
  <2>3. QED
    BY <2>1, <2>2, <1>5
<1>10. AreEdges(edges)
  BY <1>4, <1>8, <1>9, WithAre
<1>11. QED
  BY <1>1, <1>2, <1>5, <1>6, <1>10, EdgeEditIsSound DEF Takes

LEMMA DeleteEdgeIsSound ==
  ASSUME IInv, GInv, NEW t \in Threads, DeleteEdge(t)
  PROVE  GInv'
<1>1. PICK r : r = req[t]
  OBVIOUS
<1>2. PICK g : g = graph[r.flow]
  OBVIOUS
<1>3. PICK edges : edges = Restrict(g.edges, DOMAIN g.edges \ {r.id})
  OBVIOUS
<1>4. /\ r.pc = "save_edge" /\ r.op = "delete_edge" /\ used' = used
      /\ Edited(t, [g EXCEPT !.edges = edges], r.row.start)
  BY <1>1, <1>2, <1>3 DEF DeleteEdge
<1>5. r.op \in GraphEdits /\ r.pc # "idle"
  BY <1>4 DEF GraphEdits
<1>6. AreEdges(edges)
  BY <1>1, <1>2, <1>3, <1>5, EditFinds, TablesHave, RestrictAre
<1>7. QED
  BY <1>1, <1>2, <1>4, <1>5, <1>6, EdgeEditIsSound DEF Takes

-----------------------------------------------------------------------------
(* A request that writes the status of its flow and ends, and maybe adds a   *)
(* version of what it has read.                                             *)
LEMMA StatusIsSound ==
  ASSUME IInv, GInv, NEW t \in Threads, NEW r, r = req[t], r.pc # "idle",
         NEW new \in FlowRow, new.start = r.row.start,
         NEW f \in Flows, f = r.flow,
         flow' = [flow EXCEPT ![f] = Written(@, r.row, new)],
         Becomes(t, Idle), UNCHANGED <<graph, used, raced>>,
         \A g \in Flows \ {f} : versions'[g] = versions[g],
         versions'[f] = versions[f] \/ r.op = "publish",
         \A i \in DOMAIN versions'[f] :
           \/ /\ i \in DOMAIN versions[f]
              /\ versions'[f][i].start = versions[f][i].start
              /\ versions'[f][i].graph = versions[f][i].graph
           \/ /\ IsGraph(versions'[f][i].graph)
              /\ f \notin raced => /\ versions'[f][i].graph = graph[f]
                                   /\ Valid(versions'[f][i].start, graph[f])
  PROVE  GInv'
<1>1. IsRequest(r) /\ flow[f] \in FlowRow
  BY FlowOf, RequestIs, RowIsNoGap DEF GInv
<1>2. PICK w : w = Written(flow[f], r.row, new)
  OBVIOUS
<1>3. w \in FlowRow /\ w.start = flow[f].start
  BY <1>1, <1>2, WrittenFlow DEF IsRequest
<1>4. /\ flow'[f] = w /\ \A g \in Flows \ {f} : flow'[g] = flow[g]
      /\ flow' \in [Flows -> FlowRow \cup {NoFlow}]
  BY <1>2, <1>3 DEF GInv, GraphsHold
<1>5. \A g \in Flows : flow'[g].start = flow[g].start
  BY <1>3, <1>4
<1>6. GraphsHold'
  <2>1. \A g \in Flows : \A i \in DOMAIN versions'[g] : IsGraph(versions'[g][i].graph)
    BY DEF GInv, GraphsHold
  <2>2. QED
    BY <1>4, <2>1 DEF GInv, GraphsHold
<1>7. IdsAreUsed'
  BY DEF GInv, IdsAreUsed
<1>8. OthersKnow(t)
  <2>1. ASSUME NEW u \in Threads \ {t}, NEW q, q = req[u]
        PROVE  Knows(q)'
    <3>1. Knows(q)
      BY <2>1, RequestIs
    <3>2. ASSUME q.pc # "idle", q.flow \notin raced'
          PROVE  /\ Undisturbed(q.flow)
                 /\ q.op \in GraphEdits => versions'[q.flow] = versions[q.flow]
      <4>1. q.flow \in Flows
        BY <2>1, <3>2, FlowOf
      <4>2. Undisturbed(q.flow)
        BY <1>5, <4>1 DEF Undisturbed
      <4>3. ASSUME q.flow = f, q.op \in GraphEdits, r.op = "publish"
            PROVE  FALSE
        <5>1. Apart(q, r)
          BY <2>1 DEF GInv, EditsHold
        <5>2. QED
          BY <3>2, <4>3, <5>1 DEF Apart
      <4>4. QED
        BY <4>1, <4>2, <4>3
    <3>3. QED
      BY <3>1, <3>2, KnowsStays
  <2>2. QED
    BY <2>1 DEF OthersKnow
<1>9. EditsHold'
  <2>1. RequestsHold /\ EditsHold
    BY DEF IInv, GInv
  <2>2. QED
    BY <1>8, <2>1, IdleIsSound, EditsGoOn
<1>10. StartIsMarked'
  BY <1>5 DEF GInv, StartIsMarked
<1>11. VersionsAreTheGraph'
  <2>1. ASSUME NEW g \in Flows \ raced, NEW i \in DOMAIN versions'[g]
        PROVE  versions'[g][i].graph = graph[g] /\ Valid(versions'[g][i].start, graph[g])
    <3>1. CASE g = f
      BY <2>1, <3>1 DEF GInv, VersionsAreTheGraph
    <3>2. CASE g # f
      BY <2>1, <3>2 DEF GInv, VersionsAreTheGraph
    <3>3. QED
      BY <3>1, <3>2
  <2>2. QED
    BY <2>1 DEF VersionsAreTheGraph
<1>12. QED
  BY <1>6, <1>7, <1>9, <1>10, <1>11 DEF GInv

LEMMA SaveFlowIsSound ==
  ASSUME IInv, GInv, NEW t \in Threads, SaveFlow(t)
  PROVE  GInv'
<1>1. PICK r, f : r = req[t] /\ f = r.flow
  OBVIOUS
<1>2. /\ r.pc = "save_flow" /\ flow' = [flow EXCEPT ![f] = Written(@, r.row, r.new)]
      /\ Becomes(t, Idle) /\ UNCHANGED <<graph, versions, used, raced>>
  BY <1>1 DEF SaveFlow, Becomes
<1>3. IsRequest(r) /\ f \in Flows
  BY <1>1, <1>2, FlowOf, RequestIs
<1>4. r.new \in FlowRow /\ r.new.start = r.row.start
  BY <1>2, <1>3 DEF IsRequest
<1>5. QED
  BY <1>1, <1>2, <1>3, <1>4, StatusIsSound

LEMMA ReleaseIsSound ==
  ASSUME IInv, GInv, NEW t \in Threads, Release(t)
  PROVE  GInv'
<1>1. PICK r, f : r = req[t] /\ f = r.flow
  OBVIOUS
<1>2. PICK new : new = [r.row EXCEPT !.status = "published"]
  OBVIOUS
<1>3. /\ r.pc = "release" /\ flow' = [flow EXCEPT ![f] = Written(@, r.row, new)]
      /\ Becomes(t, Idle) /\ UNCHANGED <<graph, used, raced>>
  BY <1>1, <1>2 DEF Release, Becomes
<1>4. IsRequest(r) /\ Knows(r) /\ f \in Flows /\ r.op = "publish"
  BY <1>1, <1>3, FlowOf, RequestIs DEF IsRequest
<1>5. new \in FlowRow /\ new.start = r.row.start
  <2>1. r.row \in FlowRow
    BY <1>3, <1>4 DEF IsRequest
  <2>2. QED
    BY <1>2, <2>1 DEF FlowRow, VALID_FLOW_STATUSES
<1>6. PICK v : v = [number |-> r.number, active |-> TRUE, start |-> r.row.start,
                    graph |-> r.graph, seen |-> r.seen]
  OBVIOUS
<1>7. /\ Added(versions[f], versions'[f], v, r.active)
      /\ \A g \in Flows \ {f} : versions'[g] = versions[g]
  BY <1>1, <1>6, ReleaseAdds
<1>8. IsGraph(v.graph)
  BY <1>4, <1>6 DEF IsRequest, IsTables
<1>9. f \notin raced => v.graph = graph[f] /\ Valid(v.start, graph[f])
  BY <1>1, <1>3, <1>4, <1>6 DEF Knows, KnowsItsGraph
<1>10. ASSUME NEW i \in DOMAIN versions'[f]
       PROVE  \/ /\ i \in DOMAIN versions[f]
                 /\ versions'[f][i].start = versions[f][i].start
                 /\ versions'[f][i].graph = versions[f][i].graph
              \/ versions'[f][i] = v
  <2>1. /\ Len(versions[f]) \in Nat /\ DOMAIN versions[f] = 1 .. Len(versions[f])
        /\ DOMAIN versions'[f] = 1 .. Len(versions[f]) + 1
        /\ versions'[f][Len(versions[f]) + 1] = v
    BY <1>7, Zenon DEF Added
  <2>2. \A j \in 1 .. Len(versions[f]) :
          /\ versions'[f][j].start = versions[f][j].start
          /\ versions'[f][j].graph = versions[f][j].graph
    BY <1>7, Zenon DEF Added
  <2>3. QED
    BY <2>1, <2>2
<1>11. QED
  BY <1>1, <1>3, <1>4, <1>5, <1>7, <1>8, <1>9, <1>10, StatusIsSound

-----------------------------------------------------------------------------
(* A flow that is made: no request is about it yet.                         *)
MakesFlow(f, row, rows) ==
  /\ flow[f] = NoFlow /\ flow' = [flow EXCEPT ![f] = row] /\ graph'[f] = rows
  /\ DOMAIN used' = Flows /\ DOMAIN rows.nodes \subseteq used'[f]
  /\ \A g \in Flows \ {f} :
       graph'[g] = graph[g] /\ versions'[g] = versions[g] /\ used'[g] = used[g]
  /\ \A i \in DOMAIN versions'[f] :
       versions'[f][i].graph = rows /\ Valid(versions'[f][i].start, rows)
  /\ raced \subseteq raced' /\ raced' \subseteq raced \cup {f}
  /\ f \notin raced' => IsMarked(row.start, rows.nodes)
  /\ req' = req \/ \E t \in Threads : Becomes(t, Idle)

LEMMA NewFlowIsSound ==
  ASSUME IInv, GInv, NEW f \in Flows, NEW row \in FlowRow, NEW rows, IsTables(rows),
         MakesFlow(f, row, rows)
  PROVE  GInv'
<1>1. /\ flow'[f] = row /\ \A g \in Flows \ {f} : flow'[g] = flow[g]
      /\ flow' \in [Flows -> FlowRow \cup {NoFlow}]
  BY DEF GInv, GraphsHold, MakesFlow
<1>2. GraphsHold' /\ IdsAreUsed'
  <2>1. \A g \in Flows : IsTables(graph'[g])
    BY DEF GInv, GraphsHold, MakesFlow
  <2>2. \A g \in Flows : \A i \in DOMAIN versions'[g] : IsGraph(versions'[g][i].graph)
    BY DEF GInv, GraphsHold, IsTables, MakesFlow
  <2>3. IdsAreUsed'
    BY DEF GInv, IdsAreUsed, MakesFlow
  <2>4. QED
    BY <1>1, <2>1, <2>2, <2>3 DEF GraphsHold
<1>3. ASSUME NEW u \in Threads, NEW q, q = req[u]
      PROVE  IsRequest(q) /\ Knows(q)'
  <2>1. IsRequest(q) /\ Knows(q)
    BY <1>3, RequestIs
  <2>2. ASSUME q.pc # "idle"
        PROVE  Undisturbed(q.flow) /\ versions'[q.flow] = versions[q.flow]
    <3>1. q.flow \in Flows /\ q.flow # f
      BY <1>3, <2>2, FlowOf DEF MakesFlow
    <3>2. QED
      BY <1>1, <3>1 DEF Undisturbed, MakesFlow
  <2>3. raced \subseteq raced'
    BY DEF MakesFlow
  <2>4. QED
    BY <2>1, <2>2, <2>3, KnowsStays
<1>4. EditsHold'
  <2>0. raced \subseteq raced' /\ (req' = req \/ \E t \in Threads : Becomes(t, Idle))
    BY DEF MakesFlow
  <2>1. CASE req' = req
    <3>1. ASSUME NEW u \in Threads, NEW v \in Threads, NEW r, NEW s,
                 u # v, r = req[u], s = req[v]
          PROVE  Apart(r, s)'
      <4>1. Apart(r, s)
        BY <3>1 DEF GInv, EditsHold
      <4>2. QED
        BY <2>0, <4>1, ApartStays
    <3>2. QED
      BY <2>1, <1>3, <3>1 DEF EditsHold, IsRequest
  <2>2. ASSUME NEW t \in Threads, Becomes(t, Idle)
        PROVE  EditsHold'
    <3>1. OthersKnow(t)
      BY <1>3 DEF OthersKnow
    <3>2. RequestsHold /\ EditsHold
      BY DEF IInv, GInv
    <3>3. QED
      BY <2>0, <2>2, <3>1, <3>2, IdleIsSound, EditsGoOn
  <2>3. QED
    BY <2>0, <2>1, <2>2
<1>5. StartIsMarked'
  <2>1. ASSUME NEW g \in Flows \ raced'
        PROVE  IsMarked(flow'[g].start, graph'[g].nodes)
    <3>1. CASE g = f
      BY <3>1, <2>1, <1>1 DEF MakesFlow
    <3>2. CASE g # f
      BY <3>2, <2>1, <1>1 DEF GInv, StartIsMarked, IsMarked, MakesFlow
    <3>3. QED
      BY <3>1, <3>2
  <2>2. QED
    BY <2>1 DEF StartIsMarked, IsMarked
<1>6. VersionsAreTheGraph'
  BY DEF GInv, VersionsAreTheGraph, MakesFlow
<1>7. QED
  BY <1>2, <1>4, <1>5, <1>6 DEF GInv

LEMMA CreateFlowIsSound ==
  ASSUME IInv, GInv, NEW f \in Flows, CreateFlow(f)
  PROVE  GInv'
<1>1. PICK row : row = [status |-> "draft", start |-> None]
  OBVIOUS
<1>2. row \in FlowRow /\ row.start = None
  BY <1>1 DEF FlowRow, VALID_FLOW_STATUSES
<1>3. /\ flow[f] = NoFlow /\ flow' = [flow EXCEPT ![f] = row]
      /\ UNCHANGED <<graph, versions, used, raced>> /\ req' = req
  BY <1>1 DEF CreateFlow
<1>4. versions[f] = <<>> /\ IsTables(graph[f])
  BY <1>3, TablesOf DEF IInv, RowsHold
<1>5. DOMAIN used = Flows /\ DOMAIN graph[f].nodes \subseteq used[f]
  BY DEF GInv, IdsAreUsed
<1>6. PICK rows : rows = graph[f]
  OBVIOUS
<1>7. MakesFlow(f, row, rows)
  BY <1>2, <1>3, <1>4, <1>5, <1>6 DEF MakesFlow, IsMarked
<1>8. QED
  BY <1>2, <1>4, <1>6, <1>7, NewFlowIsSound

LEMMA CreateAndPublishIsSound ==
  ASSUME IInv, GInv, NEW f \in Flows, CreateAndPublish(f)
  PROVE  GInv'
<1>1. PICK p \in Payloads :
        /\ flow[f] = NoFlow /\ Valid(p.start, p.graph)
        /\ flow' = [flow EXCEPT ![f] = [status |-> "published", start |-> p.start]]
        /\ graph' = [graph EXCEPT ![f] = p.graph]
        /\ versions' = [versions EXCEPT ![f] =
             <<[number |-> 1, active |-> TRUE, start |-> p.start, graph |-> p.graph, seen |-> 0]>>]
        /\ used' = [used EXCEPT ![f] = DOMAIN p.graph.nodes \cup DOMAIN p.graph.edges]
        /\ UNCHANGED <<req, raced>>
  BY DEF CreateAndPublish
<1>2. PICK rows, row : rows = p.graph /\ row = [status |-> "published", start |-> p.start]
  OBVIOUS
<1>3. /\ IsTables(rows) /\ p.start \in DOMAIN rows.nodes /\ rows.nodes[p.start].isStart
  BY <1>2, PayloadsAreGraphs DEF IsTables
<1>4. row \in FlowRow /\ row.start = p.start
  BY <1>2, <1>3, TablesHave DEF FlowRow, VALID_FLOW_STATUSES, AreNodes
<1>5. PICK v : v = [number |-> 1, active |-> TRUE, start |-> p.start, graph |-> p.graph, seen |-> 0]
  OBVIOUS
<1>6. /\ versions'[f] = <<v>> /\ \A g \in Flows \ {f} : versions'[g] = versions[g]
      /\ v.graph = rows /\ Valid(v.start, rows)
  BY <1>1, <1>2, <1>5 DEF IInv, RowsHold
<1>7. \A i \in DOMAIN versions'[f] :
        versions'[f][i].graph = rows /\ Valid(versions'[f][i].start, rows)
  BY <1>6
<1>8. graph'[f] = rows /\ \A g \in Flows \ {f} : graph'[g] = graph[g]
  BY <1>1, <1>2 DEF IInv, RowsHold
<1>9. /\ DOMAIN used' = Flows /\ DOMAIN rows.nodes \subseteq used'[f]
      /\ \A g \in Flows \ {f} : used'[g] = used[g]
  BY <1>1, <1>2 DEF GInv, IdsAreUsed
<1>10. IsMarked(row.start, rows.nodes)
  BY <1>3, <1>4 DEF IsMarked
<1>11. flow' = [flow EXCEPT ![f] = row] /\ raced' = raced /\ req' = req
  BY <1>1, <1>2
<1>12. MakesFlow(f, row, rows)
  BY <1>1, <1>6, <1>7, <1>8, <1>9, <1>10, <1>11 DEF MakesFlow
<1>13. QED
  BY <1>3, <1>4, <1>12, NewFlowIsSound

LEMMA CopyEdgesIsSound ==
  ASSUME IInv, GInv, NEW t \in Threads, NEW f \in Flows, CopyEdges(t, f)
  PROVE  GInv'
<1>1. PICK r, nodes, now : r = req[t] /\ nodes = r.graph.nodes /\ now = graph[r.flow].edges
  OBVIOUS
<1>2. PICK marked : marked = {n \in DOMAIN nodes : nodes[n].isStart}
  OBVIOUS
<1>3. PICK starts : starts = IF r.row.start \in DOMAIN nodes THEN {r.row.start}
                             ELSE IF marked = {} THEN {None} ELSE marked
  OBVIOUS
<1>4. PICK whole : whole = {e \in DOMAIN now : {now[e].source, now[e].target} \subseteq DOMAIN nodes}
  OBVIOUS
<1>5. PICK edges, rows : edges = Restrict(now, whole) /\ rows = [nodes |-> nodes, edges |-> edges]
  OBVIOUS
<1>6. /\ r.pc = "copy_edges" /\ flow[f] = NoFlow
      /\ \E start \in starts : flow' = [flow EXCEPT ![f] = [status |-> "draft", start |-> start]]
      /\ graph' = [graph EXCEPT ![f] = rows]
      /\ used' = [used EXCEPT ![f] = DOMAIN nodes \cup whole]
      /\ Becomes(t, Idle) /\ versions' = versions
      /\ raced' = IF r.flow \in raced THEN raced \cup {f} ELSE raced
  BY <1>1, <1>2, <1>3, <1>4, <1>5, Zenon DEF CopyEdges, Becomes
<1>7. PICK start, row : /\ start \in starts /\ row = [status |-> "draft", start |-> start]
                        /\ flow' = [flow EXCEPT ![f] = row]
  BY <1>6
<1>8. IsRequest(r) /\ Knows(r) /\ r.op = "duplicate" /\ r.flow \in Flows
  BY <1>1, <1>6, FlowOf, RequestIs DEF IsRequest
<1>9. AreNodes(nodes) /\ AreEdges(now) /\ whole \subseteq DOMAIN now
  BY <1>1, <1>4, <1>8, TablesOf, TablesHave DEF IsRequest
<1>10. IsTables(rows) /\ rows.nodes = nodes
  BY <1>5, <1>9, RestrictAre, TablesAre
<1>11. start \in NodeIds \cup {None}
  BY <1>2, <1>3, <1>7, <1>9 DEF AreNodes
<1>12. row \in FlowRow /\ row.start = start
  BY <1>7, <1>11 DEF FlowRow, VALID_FLOW_STATUSES
<1>13. ASSUME r.flow \notin raced
       PROVE  IsMarked(start, nodes)
  <2>1. nodes = graph[r.flow].nodes /\ IsMarked(r.row.start, graph[r.flow].nodes)
    BY <1>1, <1>6, <1>8, <1>13 DEF Knows, KnowsItsStart, KnowsItsGraph
  <2>2. CASE r.row.start \in DOMAIN nodes
    BY <2>1, <2>2, <1>3, <1>7 DEF IsMarked
  <2>3. CASE r.row.start \notin DOMAIN nodes
    BY <2>3, <1>2, <1>3, <1>7 DEF IsMarked
  <2>4. QED
    BY <2>2, <2>3
<1>14. /\ graph'[f] = rows /\ \A g \in Flows \ {f} : graph'[g] = graph[g]
       /\ versions[f] = <<>>
  BY <1>6 DEF IInv, RowsHold
<1>15. /\ DOMAIN used' = Flows /\ DOMAIN nodes \subseteq used'[f]
       /\ \A g \in Flows \ {f} : used'[g] = used[g]
  BY <1>6 DEF GInv, IdsAreUsed
<1>16. /\ raced \subseteq raced' /\ raced' \subseteq raced \cup {f}
       /\ f \notin raced' => IsMarked(row.start, rows.nodes)
  BY <1>6, <1>10, <1>12, <1>13
<1>17. \A i \in DOMAIN versions'[f] :
         versions'[f][i].graph = rows /\ Valid(versions'[f][i].start, rows)
  BY <1>6, <1>14
<1>18. MakesFlow(f, row, rows)
  BY <1>6, <1>7, <1>10, <1>14, <1>15, <1>16, <1>17 DEF MakesFlow
<1>19. QED
  BY <1>10, <1>12, <1>18, NewFlowIsSound

-----------------------------------------------------------------------------
LEMMA GraphsHoldAtFirst ==
  ASSUME Init
  PROVE  GInv
<1>1. GraphsHold /\ IdsAreUsed
  BY NoTables DEF Init, GraphsHold, IdsAreUsed, EmptyGraph, NoRows
<1>2. EditsHold
  <2>1. Idle.pc = "idle" /\ IsRequest(Idle)
    BY IdleIsSound DEF Idle
  <2>2. QED
    BY <2>1 DEF Init, EditsHold, Knows, Apart
<1>3. StartIsMarked /\ VersionsAreTheGraph
  BY DEF Init, StartIsMarked, VersionsAreTheGraph, NoFlow
<1>4. QED
  BY <1>1, <1>2, <1>3 DEF GInv

LEMMA StepIsSound ==
  ASSUME IInv, GInv, [Next]_vars
  PROVE  GInv'
<1>1. CASE UNCHANGED vars
  <2>1. EditsHold'
    BY <1>1 DEF GInv, EditsHold, vars, IsRequest, Knows, KnowsItsStart, KnowsItsGraph, Apart
  <2>2. QED
    BY <1>1, <2>1, QuietIsSound DEF vars
<1>2. ASSUME NEW t \in Threads, EditStep(t)
      PROVE  GInv'
  <2>1. ASSUME NEW f \in Flows,
               \/ BeginCreateNode(t, f) \/ BeginCreateEdge(t, f)
               \/ \E n \in NodeIds : BeginUpdateNode(t, f, n) \/ BeginDeleteNode(t, f, n)
               \/ \E e \in EdgeIds : BeginUpdateEdge(t, f, e) \/ BeginDeleteEdge(t, f, e)
        PROVE  GInv'
    BY <2>1, BeginEditIsSound
  <2>2. CASE NodeIsGone(t) \/ EdgeIsRefused(t)
    BY <2>2, GiveUpIsSound DEF NodeIsGone, EdgeIsRefused
  <2>3. QED
    BY <1>2, <2>1, <2>2, CreateNodeIsSound, UpdateNodeIsSound, DeleteNodeIsSound,
       CheckEdgeIsSound, SaveEdgeIsSound, DeleteEdgeIsSound DEF EditStep
<1>3. ASSUME NEW t \in Threads, PublishStep(t)
      PROVE  GInv'
  BY <1>3, BeginOtherIsSound, ReadNodesIsSound, ValidateIsSound, ReadEdgesIsSound,
     NumberingIsSound, ReleaseIsSound DEF PublishStep
<1>4. ASSUME NEW t \in Threads, FlowStep(t)
      PROVE  GInv'
  BY <1>4, BeginOtherIsSound, CopyEdgesIsSound, SaveFlowIsSound, CopyNodesIsSound DEF FlowStep
<1>5. QED
  BY <1>1, <1>2, <1>3, <1>4, CreateFlowIsSound, CreateAndPublishIsSound DEF Next

LEMMA GraphsAreRows ==
  ASSUME IInv, GInv
  PROVE  TypeOK
<1>1. ASSUME NEW f \in Flows, NEW i \in DOMAIN versions[f]
      PROVE  IsVersion(versions[f][i])
  <2>1. PICK S : versions[f] \in Seq(VersionRow(S))
    BY DEF IInv, RowsHold
  <2>2. PICK row \in VersionRow(S) : row = versions[f][i]
    BY <1>1, <2>1, ElementOfSeq
  <2>3. row.number \in Nat \ {0} /\ row.active \in BOOLEAN /\ row.seen \in Nat
    BY DEF VersionRow
  <2>4. IsGraph(versions[f][i].graph)
    BY <1>1 DEF GInv, GraphsHold
  <2>5. QED
    BY <2>2, <2>3, <2>4, Zenon DEF IsVersion
<1>2. ASSUME NEW t \in Threads
      PROVE  /\ req[t].flow \in Flows \cup {None}
             /\ IsGraph(req[t].graph)
             /\ req[t].pc # "idle" => req[t].flow \in Flows /\ flow[req[t].flow] # NoFlow
  <2>1. PICK r : r = req[t]
    OBVIOUS
  <2>2. IsRequest(r)
    BY <2>1, RequestIs
  <2>3. r.pc # "idle" => r.flow \in Flows /\ flow[r.flow] # NoFlow
    BY <2>1, FlowOf
  <2>4. QED
    BY <2>1, <2>2, <2>3 DEF IsRequest, IsTables
<1>3. \A f \in Flows : IsGraph(graph[f])
  BY DEF GInv, GraphsHold, IsTables
<1>4. QED
  BY <1>1, <1>2, <1>3 DEF GInv, GraphsHold, TypeOK

(* The rows of graphs and versions are well-formed whatever overlaps; unless *)
(* an edit of a graph overlapped another request that works with it, a flow  *)
(* starts at a node of its own that is marked, and each of its versions is   *)
(* the graph as it stands and passed the validation.                        *)
THEOREM GraphsStaySound == Spec => []GraphsAreSound
<1>1. Init => IInv /\ GInv
  BY InitHolds, GraphsHoldAtFirst
<1>2. (IInv /\ GInv) /\ [Next]_vars => (IInv /\ GInv)'
  BY StepKeeps, StepIsSound
<1>3. IInv /\ GInv => GraphsAreSound
  BY GraphsAreRows DEF GInv, GraphsAreSound
<1>4. QED
  BY <1>1, <1>2, <1>3, PTL DEF Spec
=============================================================================
