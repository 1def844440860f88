--------------------------- MODULE MCCallAdmission ---------------------------
(***************************************************************************)
(* Instances of CallAdmission for TLC.  The identities a row can get bound  *)
(* the number of calls of a behaviour, nothing else is bounded.             *)
(***************************************************************************)
EXTENDS CallAdmission, TLC

CONSTANTS b1, b2, t1, t2

(* One business with one trunk of its own and a limit of one call.          *)
OneBusiness == {b1}
OneTrunk == {t1}
OneOwnTrunks == b1 :> {t1}
NoGlobalTrunks == {}
OneAllowGlobal == b1 :> FALSE
OneBusinessMax == b1 :> 1
OneTrunkMax == t1 :> 1

(* That business without a limit, and one that has no trunk of its own and  *)
(* falls back to the global trunk.                                          *)
TwoBusinesses == {b1, b2}
TwoTrunks == {t1, t2}
TwoOwnTrunks == (b1 :> {t1}) @@ (b2 :> {})
TwoGlobalTrunks == {t2}
TwoAllowGlobal == (b1 :> FALSE) @@ (b2 :> TRUE)
TwoBusinessMax == (b1 :> 0) @@ (b2 :> 1)
TwoTrunkMax == (t1 :> 2) @@ (t2 :> 1)

Symmetry == Permutations(Sessions) \cup Permutations(Workers)
=============================================================================
