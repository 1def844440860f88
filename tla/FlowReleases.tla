----------------------------- MODULE FlowReleases -----------------------------
(***************************************************************************)
(* What the versions of flows are to the calls that run them: a growing     *)
(* sequence for each flow, of contents that never change.  A release may     *)
(* take back earlier versions, nothing else does, and none returns.         *)
(***************************************************************************)
EXTENDS Integers, Sequences

CONSTANT Flows

VARIABLE released  \* [Flows -> sequences of [active, number, content]]

Init == released = [f \in Flows |-> <<>>]

TakenBack(rows, replaced) ==
  [i \in DOMAIN rows |-> IF i \in replaced THEN [rows[i] EXCEPT !.active = FALSE] ELSE rows[i]]

Release(f) ==
  \E replaced \in SUBSET DOMAIN released[f] :
    LET rows == released'[f]
        n == Len(released[f]) + 1
    IN
    /\ Len(rows) = n
    /\ SubSeq(rows, 1, n - 1) = TakenBack(released[f], replaced)
    /\ rows[n].active
    /\ rows[n].number <= n
    /\ \A g \in Flows \ {f} : released'[g] = released[g]

Next == \E f \in Flows : Release(f)

Spec == Init /\ [][Next]_released
=============================================================================
