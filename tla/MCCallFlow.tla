------------------------------ MODULE MCCallFlow ------------------------------
(***************************************************************************)
(* Calls in a flow for TLC: a menu, a condition, a webhook, a goto back to  *)
(* the menu, a prompt and a hangup.                                         *)
(***************************************************************************)
EXTENDS CallFlow, TLC

CONSTANTS menu, cond, hook, again, prompt, bye

SixNodes == {menu, cond, hook, again, prompt, bye}

SixTypes ==
  menu :> "gather_input" @@ cond :> "condition" @@ hook :> "webhook"
    @@ again :> "goto" @@ prompt :> "play_audio" @@ bye :> "hangup"

SixTargets == [n \in SixNodes |-> menu]

Edge(id, source, target, on, value) ==
  [id |-> id, source |-> source, target |-> target, cond |-> on, value |-> value,
   priority |-> 1]

EightEdges ==
  {Edge(1, menu, cond, "dtmf", "1"), Edge(2, menu, again, "timeout", None),
   Edge(3, menu, bye, "error", None), Edge(4, cond, hook, "condition_matched", None),
   Edge(5, hook, prompt, "webhook_success", None), Edge(6, hook, again, "error", None),
   Edge(7, cond, menu, "variable_match", "tried=1"), Edge(8, prompt, again, "always", None)}
=============================================================================
