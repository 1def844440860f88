------------------------------- MODULE FlowWalk -------------------------------
(***************************************************************************)
(* What a flow promises its author about a call: the call is at one node at *)
(* a time, starts at the start node, and moves along one edge of the node   *)
(* it is at, then through nodes that need no answer of the caller, to a     *)
(* node where it stays.  CallFlow implements it.                            *)
(***************************************************************************)
EXTENDS Integers

CONSTANTS Calls, Nodes, Edges, Start, MaxHops, None,
          Hops   \* [Nodes -> the nodes a call at the node may hop on to]

VARIABLE at      \* [Calls -> the node of the call, None before it starts]

(* Where a call that enters node n may stay: at most MaxHops nodes in all,  *)
(* each but the first hopped on to from the one before.                     *)
IsWay(p, k) == \A i \in 1 .. k - 1 : p[i + 1] \in Hops[p[i]]

Stays(n) ==
  {m \in Nodes : \E k \in 1 .. MaxHops : \E p \in [1 .. k -> Nodes] :
                   p[1] = n /\ p[k] = m /\ IsWay(p, k)}

Init == at = [c \in Calls |-> None]

Begin(c) ==
  /\ at[c] = None
  /\ at' = [at EXCEPT ![c] = Start]

(* The start node is entered first; any other move follows an edge.         *)
Firsts(a) ==
  (IF a = Start THEN {Start} ELSE {})
    \cup {e.target : e \in {d \in Edges : d.source = a}}

Move(c) ==
  /\ at[c] # None
  /\ \E n \in Firsts(at[c]) : \E m \in Stays(n) : at' = [at EXCEPT ![c] = m]

Next == \E c \in Calls : Begin(c) \/ Move(c)

Spec == Init /\ [][Next]_at
=============================================================================
