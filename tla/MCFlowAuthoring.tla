--------------------------- MODULE MCFlowAuthoring ---------------------------
(***************************************************************************)
(* A payload for TLC: a question whose answers lead to the end, with both   *)
(* nodes marked as start.  Its flow is only there to be copied.             *)
(***************************************************************************)
EXTENDS FlowAuthoring, TLC

CONSTANTS f1, f2, n1, n2, e1, e2

Hangup(start) == [kind |-> "hangup", config |-> "hangup", isStart |-> start]

Question == [kind |-> "gather_input", config |-> "gather_input", isStart |-> TRUE]

ToHangup(on) == [source |-> n1, target |-> n2, cond |-> on]

OnePayload ==
  {[start |-> n1,
    graph |-> [nodes |-> n1 :> Question @@ n2 :> Hangup(TRUE),
               edges |-> e1 :> ToHangup("timeout") @@ e2 :> ToHangup("invalid_input")]]}

OnlyTheSecond == f1 :> 0 @@ f2 :> 3

(* Bound: the first flow is never made of the second.                        *)
FirstComesFirst == flow[f2] # NoFlow => flow[f1] # NoFlow

ThreadSymmetry == Permutations(Threads)
=============================================================================
