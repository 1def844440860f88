----------------------------- MODULE MCWorkspaces -----------------------------
(***************************************************************************)
(* Workspaces for TLC: requests about businesses alone, beside trunks at     *)
(* rest.                                                                    *)
(***************************************************************************)
EXTENDS Administration, TLC

(* Bound: one user has whatever businesses there are at first, and is alone   *)
(* or with one of the other users.  Superusers, general users, users of      *)
(* version 1, and businesses of nobody and of several come of requests.      *)
MCInit ==
  /\ Biz!Init /\ Init /\ mode = "file"
  /\ \A u \in Users : role[u] \in {"none", "stuff"}
  /\ \A b, c \in Businesses : owner[b] = owner[c] /\ (owner[b] = None => status[b] = "none")
  /\ Cardinality({u \in Users : role[u] # "none"}) \in {1, 2}

MCNext == Biz!Next /\ UNCHANGED vars

MCSpec == MCInit /\ [][MCNext]_<<vars, Biz!vars>>

(* Bound: the last request overlaps others only about a business with a       *)
(* limit, as where requests overlap nothing else is said of what they touch. *)
Overlaps ==
  begun = MaxRequests /\ raced # {} => \E b \in raced \cap Businesses : limit[b] # None

Symmetry == Permutations(Threads) \cup Permutations(Users) \cup Permutations(Businesses)
=============================================================================
