------------------------------ MODULE EdgeChoice ------------------------------
(***************************************************************************)
(* The choice of FlowEdges while an author changes the flow: edges are      *)
(* added to the table and removed from it one by one, and at every table    *)
(* the runtime would choose among the edges of one node for some result.    *)
(* Of the requests about edges, which are those of FlowAuthoring, only the  *)
(* commits are here, and the look for an edge of the same condition is not: *)
(* two requests at once both find none, so that any table can be met.       *)
(***************************************************************************)
EXTENDS FlowEdges

CONSTANTS
  From,      \* the node whose edges are chosen among
  Pool,      \* the edges there may be
  Results    \* <<result, value, holds>>

ASSUME PoolIsOfRows == AreRows(Pool)

VARIABLES
  table,     \* the rows of flow_edges
  input      \* the result the choice is made for

choiceVars == <<table, input>>

NoEdges == table = {} /\ input \in Results

AddEdge(e) ==
  /\ e \notin table
  /\ table' = table \cup {e}
  /\ UNCHANGED input

RemoveEdge(e) ==
  /\ e \in table
  /\ table' = table \ {e}
  /\ UNCHANGED input

ChangeEdges == \E e \in Pool : AddEdge(e) \/ RemoveEdge(e)

ChoiceSpec == NoEdges /\ [][ChangeEdges]_choiceVars

Chosen == ResolveNextEdge(table, From, input[1], input[2], input[3])

-----------------------------------------------------------------------------
(* The edge chosen is the one that fits best, then the one of the lowest    *)
(* priority number, then the oldest; there is none only when none fits.     *)
BestFitIsChosen ==
  IsBestFit(Chosen, {e \in table : e.source = From}, input[1], input[2], input[3])

(* An edge added to a flow is taken or changes nothing: it never makes the  *)
(* runtime take another edge than the one it took before.                   *)
OthersDoNotMatter ==
  [][\A e \in Pool : AddEdge(e) => Chosen' \in {Chosen, e}]_choiceVars
=============================================================================
