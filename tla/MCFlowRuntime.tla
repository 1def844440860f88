---------------------------- MODULE MCFlowRuntime ----------------------------
(***************************************************************************)
(* FlowRuntime and EdgeChoice for TLC.  In a behaviour either requests run  *)
(* over one flow - a menu, a condition, a webhook, a goto back to the menu, *)
(* one to nowhere, a prompt and a hangup - or an author adds edges to a     *)
(* node and removes them, and the choice among all sets of edges from a     *)
(* pool is looked at, for all results.                                      *)
(***************************************************************************)
EXTENDS FlowRuntime, EdgeChoice, TLC

CONSTANTS menu, cond, hook, again, prompt, bye, astray,
          gone       \* a node that is not in the flow

SevenNodes == {menu, cond, hook, again, prompt, bye, astray}

SevenTypes ==
  menu :> "gather_input" @@ cond :> "condition" @@ hook :> "webhook"
    @@ again :> "goto" @@ prompt :> "play_audio" @@ bye :> "hangup"
    @@ astray :> "goto"

SevenTargets == [n \in SevenNodes |-> IF n = astray THEN gone ELSE menu]

Edge(id, source, target, on, value) ==
  [id |-> id, source |-> source, target |-> target, cond |-> on, value |-> value,
   priority |-> 1]

EightEdges ==
  {Edge(1, menu, cond, "dtmf", "1"), Edge(2, menu, again, "timeout", None),
   Edge(3, menu, bye, "error", None), Edge(4, cond, hook, "condition_matched", None),
   Edge(5, hook, prompt, "webhook_success", None), Edge(6, hook, again, "error", None),
   Edge(7, prompt, again, "always", None),
   Edge(8, cond, astray, "condition_not_matched", None)}

SomeReports == {<<None, None>>, <<"dtmf", "1">>, <<"timeout", None>>}

PoolEdge(id, on, value, priority) == [Edge(id, From, id, on, value) EXCEPT !.priority = priority]

EdgePool ==
  {PoolEdge(1, "dtmf", "1", 2), PoolEdge(2, "dtmf", "2", 1), PoolEdge(3, "dtmf", "1", 1),
   PoolEdge(4, "timeout", None, 2), PoolEdge(5, "variable_match", "lang=en", 1),
   PoolEdge(6, "error", None, 1), PoolEdge(7, "always", None, 1),
   PoolEdge(8, "always", None, 0)}

SomeResults ==
  {<<"dtmf", "1", {}>>, <<"dtmf", "3", {}>>, <<"dtmf", "1", {"lang=en"}>>,
   <<"timeout", None, {}>>, <<"timeout", None, {"lang=en"}>>,
   <<"completed", None, {}>>, <<"error", None, {}>>, <<None, None, {}>>}

ThreadSymmetry == Permutations(Threads)

-----------------------------------------------------------------------------
vars == <<runtimeVars, choiceVars>>

MCInit == Init /\ NoEdges

(* Which of the two a behaviour is about is decided by its first step.       *)
MCNext ==
  \/ Init /\ ChangeEdges /\ UNCHANGED runtimeVars
  \/ table = {} /\ input[1] = None /\ Next /\ UNCHANGED choiceVars

MCSpec == MCInit /\ [][MCNext]_vars
=============================================================================
