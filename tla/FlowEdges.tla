------------------------------ MODULE FlowEdges ------------------------------
(***************************************************************************)
(* How the flow runtime chooses the edge that leaves a node, given the      *)
(* result of the node: _resolve_next_edge of flows/runtime_service.py.      *)
(* An edge is a record [id, source, target, cond, value, priority]; holds   *)
(* is the set of the values (tests "key=value") of variable_match edges     *)
(* that the variables of the call satisfy.                                  *)
(***************************************************************************)
EXTENDS Integers, FiniteSets

(* The conditions that are met by the result of the same name.              *)
TypedConditions ==
  {"timeout", "invalid_input", "webhook_success", "webhook_failed",
   "retry_exceeded", "transfer_connected", "transfer_failed",
   "condition_matched", "condition_not_matched", "error"}

Conditions == TypedConditions \cup {"dtmf", "variable_match", "always"}

NoEdge == [id |-> 0]

(* Edges are rows of a table: the id is their key, and priority a column of *)
(* 32 bits.                                                                 *)
LeastPriority == -2147483647 - 1

AreRows(edges) ==
  \A d, e \in edges :
    /\ e.id \in Nat \ {0}
    /\ e.priority \in Int /\ e.priority >= LeastPriority
    /\ d.id = e.id => d = e

Meets(e, result, value, holds) ==
  \/ e.cond = "dtmf" /\ result = "dtmf" /\ e.value = value
  \/ e.cond = "variable_match" /\ e.value \in holds
  \/ e.cond \in TypedConditions /\ e.cond = result

Before(d, e) ==
  \/ d.priority < e.priority
  \/ d.priority = e.priority /\ d.id < e.id

First(edges) == CHOOSE e \in edges : \A d \in edges \ {e} : Before(e, d)

OfCondition(edges, cond) == {e \in edges : e.cond = cond}

(* Slips: the default edge is taken before the error edge; only the first   *)
(* edge is compared with the result.                                        *)
DefaultsFirst(scoped, result, value, holds) ==
  LET exact == {e \in scoped : Meets(e, result, value, holds)}
      defaults == OfCondition(scoped, "always")
  IN  IF exact # {} THEN exact
      ELSE IF defaults # {} THEN defaults ELSE OfCondition(scoped, "error")

FirstMeets(scoped, result, value, holds) ==
  LET exact == {e \in scoped : /\ Meets(e, result, value, holds)
                               /\ \A d \in scoped \ {e} : Before(e, d)}
  IN  IF exact # {} THEN exact
      ELSE IF OfCondition(scoped, "error") # {} THEN OfCondition(scoped, "error")
      ELSE OfCondition(scoped, "always")

(* The edges the choice is made among: those that meet the result, or else  *)
(* any dtmf edge when the result is a digit, the error edges, the default.  *)
Candidates(scoped, result, value, holds) ==
  LET exact == {e \in scoped : Meets(e, result, value, holds)}
      digits == IF result = "dtmf" THEN OfCondition(scoped, "dtmf") ELSE {}
      errors == OfCondition(scoped, "error")
  IN  IF exact # {} THEN exact
      ELSE IF digits # {} THEN digits
      ELSE IF errors # {} THEN errors
      ELSE OfCondition(scoped, "always")

ResolveNextEdge(edges, node, result, value, holds) ==
  LET among == Candidates({e \in edges : e.source = node}, result, value, holds)
  IN  IF among = {} THEN NoEdge ELSE First(among)

-----------------------------------------------------------------------------
(* What the choice is for: how well an edge fits a result, 1 being best.    *)
Fit(e, result, value, holds) ==
  IF Meets(e, result, value, holds) THEN 1
  ELSE IF e.cond = "dtmf" /\ result = "dtmf" THEN 2
  ELSE IF e.cond = "error" THEN 3
  ELSE IF e.cond = "always" THEN 4 ELSE 5

IsBestFit(chosen, scoped, result, value, holds) ==
  LET fit(e) == Fit(e, result, value, holds) IN
  IF \A e \in scoped : fit(e) = 5 THEN chosen = NoEdge
  ELSE /\ chosen \in scoped
       /\ fit(chosen) # 5
       /\ \A e \in scoped \ {chosen} :
            fit(chosen) < fit(e) \/ (fit(chosen) = fit(e) /\ Before(chosen, e))
=============================================================================
