------------------------------ MODULE MCSessions ------------------------------
(***************************************************************************)
(* Sessions and AccessTokens for TLC: in a behaviour either one user logs   *)
(* in, refreshes and logs out, or members of businesses manage access        *)
(* tokens and requests are made with them.                                  *)
(***************************************************************************)
EXTENDS Sessions, TLC

CONSTANTS Keys, Old, Users, Stuff, Businesses, First, Second, MaxRequests, MaxChanges

VARIABLES key, joined, open, use, requests, changes, late

Access == INSTANCE AccessTokens WITH req <- use

ASSUME TokensAreBounded == Access!ConstantsOK

Symmetry == Permutations(Threads) \cup Permutations(Ids)

access == <<key, joined, open, use, requests, changes, late>>

mcvars == <<vars, access>>

MCInit == Init /\ Access!Init

(* Which of the two a behaviour is about is decided by its first step.       *)
MCNext ==
  \/ Access!Init /\ Next /\ UNCHANGED access
  \/ Init /\ Access!Next /\ UNCHANGED vars

MCSpec == MCInit /\ [][MCNext]_mcvars

-----------------------------------------------------------------------------
(* See AccessTokens.                                                        *)
CreatorsManage == Access!CreatorsManage

VoidServesFew == Access!VoidServesFew
=============================================================================
