---------------------------- MODULE Administration ----------------------------
(***************************************************************************)
(* What is administered: the SIP trunks of Trunks, and beside them the      *)
(* businesses, members and owners of Workspaces.  They share the threads of  *)
(* the web server, and no table.                                            *)
(***************************************************************************)
EXTENDS Trunks

CONSTANTS Users, Limits

VARIABLES role, status, owner, limit, member, work, started, raced, unchecked, gave,
  legacy

Biz == INSTANCE Workspaces WITH req <- work, begun <- started

ASSUME BusinessesAreTyped == Biz!ConstantsOK

-----------------------------------------------------------------------------
(* Row, memberships and roles agree on who owns a business: see Workspaces.  *)
OwnershipIsOne == Biz!OwnershipIsOne

(* A business has no more active members than its limit: see Workspaces.     *)
LimitIsKept == Biz!LimitIsKept
=============================================================================
