------------------------------ MODULE MCSpeech ------------------------------
(***************************************************************************)
(* Speech for TLC: two texts with keys of their own that begin alike.       *)
(***************************************************************************)
EXTENDS Speech

CONSTANTS hello, hellos, greeting, greetings, a

(* Bound: of the requests about assets, only those that delete one.          *)
OnlyDeletions == \A t \in Threads : req[t].op \in {None, "delete"}

MCKeyOf == (hello :> greeting) @@ (hellos :> greetings)
MCSlugOf == [text \in Texts |-> a]
=============================================================================
