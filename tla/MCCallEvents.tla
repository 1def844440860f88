---------------------------- MODULE MCCallEvents ----------------------------
(***************************************************************************)
(* Instances of CallEvents for TLC: one call and the events of its life, of *)
(* which a configuration takes some.                                        *)
(***************************************************************************)
EXTENDS CallEvents, TLC

CONSTANTS c1, originated, busy, bridged, ended

OneCall == {c1}

(* The answer to the Originate action, the only event with its ActionID,    *)
(* the far end answering, and the hangup.                                   *)
OneCallOf == [e \in Events |-> c1]
OneName ==
  originated :> "OriginateResponse" @@ bridged :> "BridgeEnter"
    @@ ended :> "Hangup" @@ busy :> "DialEnd"
OneDetail ==
  originated :> "success" @@ bridged :> None @@ ended :> "normal" @@ busy :> "BUSY"

Symmetry == Permutations(Workers)
=============================================================================
