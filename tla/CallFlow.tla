------------------------------- MODULE CallFlow -------------------------------
(***************************************************************************)
(* A call in its flow: the FastAGI handler (src/fastagi/server.py), one     *)
(* thread per call, asks the flow runtime what to do next, does it by AGI   *)
(* commands and reports the result with its next question.  It sends no     *)
(* position: the server's session is the only memory of where the call is.  *)
(* A question is given up after REQUEST_TIMEOUT_SEC, while the server may   *)
(* still be working on it.                                                  *)
(*                                                                         *)
(* Asterisk is external and answers every AGI command.                      *)
(***************************************************************************)
EXTENDS Integers, Sequences

CONSTANTS
  Calls, Nodes, Edges, Start, NodeType, GotoTarget, Failing, Skipped,
  VariableTests, MaxHops, None,
  Digits,      \* what callers type
  MaxSteps     \* MAX_RUNTIME_STEPS, 32 by default

VARIABLES sessions, executed, req,   \* see FlowRuntime; one thread per call
          agi                        \* the FastAGI handler of each call

vars == <<sessions, executed, req, agi>>

Reports ==
  {<<None, None>>} \cup ({"dtmf"} \X Digits)
    \cup ({"completed", "timeout", "transfer_failed"} \X {None})

Runtime == INSTANCE FlowRuntime WITH Threads <- Calls, Claims <- {None}

ASSUME FlowIsValid == Runtime!FlowIsValid

ASSUME StepsAreNat == MaxSteps \in Nat

Waiting ==
  [pc |-> "new", steps |-> 0, result |-> None, value |-> None, action |-> None]

HandlerState ==
  [pc : {"new", "ask", "wait", "act", "done"}, steps : 0 .. MaxSteps,
   result : {r[1] : r \in Reports}, value : {r[2] : r \in Reports},
   action : Runtime!Replies \cup {None}]

TypeOK ==
  /\ Runtime!TypeOK
  /\ agi \in [Calls -> HandlerState]

Init ==
  /\ Runtime!Init
  /\ agi = [c \in Calls |-> Waiting]

-----------------------------------------------------------------------------
End(c) == agi' = [agi EXCEPT ![c] = [Waiting EXCEPT !.pc = "done"]]

(* Asterisk connects.  Without the channel variables it needs the handler   *)
(* ends at once, and the dialplan hangs up.                                 *)
Connect(c) ==
  /\ agi[c].pc = "new"
  /\ agi' = [agi EXCEPT ![c].pc = "ask"] \/ End(c)
  /\ UNCHANGED <<sessions, executed, req>>

(* The next question, or the hangup after the last one allowed.             *)
Ask(c) ==
  /\ agi[c].pc = "ask"
  /\ IF agi[c].steps = MaxSteps
     THEN End(c) /\ UNCHANGED <<sessions, executed, req>>
     ELSE /\ Runtime!Accept(c, c, agi[c].result, agi[c].value, None)
          /\ agi' = [agi EXCEPT ![c].pc = "wait"]

(* The answer.  An error comes with the fallback action, a hangup.          *)
Take(c) ==
  /\ agi[c].pc = "wait"
  /\ req[c].pc = "reply"
  /\ IF req[c].reply \in {"error", "hangup"} THEN End(c)
     ELSE agi' = [agi EXCEPT ![c] = [@ EXCEPT !.pc = "act", !.action = req[c].reply]]
  /\ Runtime!Finish(c)

(* Slip: a late answer counts as one that asks for nothing.                 *)
GiveUpAndGoOn(c) ==
  /\ agi[c].pc = "wait"
  /\ agi' = [agi EXCEPT ![c] = [@ EXCEPT !.pc = "act", !.action = "noop"]]
  /\ UNCHANGED <<sessions, executed, req>>

(* A timeout or an HTTP error ends the call.                                *)
GiveUp(c) ==
  /\ agi[c].pc = "wait"
  /\ End(c)
  /\ UNCHANGED <<sessions, executed, req>>

(* The results of the actions of _handle_runtime_action.                    *)
Outcomes(action) ==
  CASE action = "collect_dtmf" -> ({"dtmf"} \X Digits) \cup {<<"timeout", None>>}
    [] action = "transfer_call" -> {<<"transfer_failed", None>>}
    [] OTHER -> {<<"completed", None>>}

(* Slip: steps are not counted.                                             *)
PerformUncounted(c) ==
  /\ agi[c].pc = "act"
  /\ \E r \in Outcomes(agi[c].action) :
       agi' = [agi EXCEPT ![c] = [@ EXCEPT !.pc = "ask", !.result = r[1],
                                           !.value = r[2], !.action = None]]
  /\ UNCHANGED <<sessions, executed, req>>

Perform(c) ==
  /\ agi[c].pc = "act"
  /\ \E r \in Outcomes(agi[c].action) :
       agi' = [agi EXCEPT ![c] = [@ EXCEPT !.pc = "ask", !.steps = agi[c].steps + 1,
                                           !.result = r[1], !.value = r[2],
                                           !.action = None]]
  /\ UNCHANGED <<sessions, executed, req>>

(* Most actions post an event, and nothing catches a failure of that: the   *)
(* thread ends, and the dialplan hangs up.                                  *)
PerformFails(c) ==
  /\ agi[c].pc = "act"
  /\ agi[c].action \notin {"noop", "legacy_fallback"}
  /\ End(c)
  /\ UNCHANGED <<sessions, executed, req>>

Handler(c) ==
  \/ Ask(c)
  \/ Take(c)
  \/ GiveUp(c)
  \/ Perform(c)
  \/ PerformFails(c)

Server(c) == (Runtime!Serve(c) \/ Runtime!Finish(c)) /\ UNCHANGED agi

Next == \E c \in Calls : Connect(c) \/ Handler(c) \/ Server(c)

(* A connected handler runs: the server may be silent for ever, since a     *)
(* question times out.                                                      *)
Fairness == \A c \in Calls : WF_vars(Handler(c))

Spec == Init /\ [][Next]_vars /\ Fairness

-----------------------------------------------------------------------------
(* While the handler acts, the call has one session, at the node the action *)
(* is of: the result it will report is a result of that node.               *)
InStep ==
  \A c \in Calls \ Skipped : agi[c].pc = "act" =>
    \E n \in Nodes : /\ sessions[c] = <<n>>
                     /\ n \in executed[c]
                     /\ agi[c].action = Runtime!ActionOf(n)

(* The server works on at most one question of a call that goes on, although*)
(* it does not stop when the handler gives a question up.                   *)
OneQuestionAtATime ==
  \A c \in Calls : agi[c].pc \in {"new", "ask", "act"} => req[c].pc = "idle"

(* Every call that enters its flow leaves it again, whatever the edges of   *)
(* the flow are, and however often they lead back.                          *)
CallEnds == \A c \in Calls : agi[c].pc = "ask" ~> agi[c].pc = "done"

(* A call walks its flow, including what the server does for it after the   *)
(* handler has given up.                                                    *)
Walk ==
  INSTANCE FlowWalk
    WITH at <- [c \in Calls |-> IF sessions[c] = <<>> THEN None ELSE sessions[c][1]],
         Hops <- [n \in Nodes |->
                    IF NodeType[n] = "goto" THEN {GotoTarget[n]} \cap Nodes
                    ELSE IF Runtime!AutoResults(n) = {} THEN {}
                    ELSE {e.target : e \in {d \in Edges : d.source = n}}]

ImplementsWalk == Walk!Spec
=============================================================================
