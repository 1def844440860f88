------------------------------- MODULE MCTrunks -------------------------------
(***************************************************************************)
(* Trunks for TLC.                                                          *)
(***************************************************************************)
EXTENDS Trunks, TLC

(* Bound: an update changes one of the columns at most.                      *)
OneChange ==
  \A t \in Threads :
    req[t].op = "update" =>
      Cardinality({c \in {"name", "conf", "active"} : req[t].new[c] # req[t].row[c]}) < 2

(* Bound: a trunk is created active, as it is by default, with a name, to     *)
(* register, and while none but another is created or an update names one.   *)
Creations ==
  \A t \in Threads : req[t].op = "create" =>
    /\ req[t].new.active /\ req[t].new.name # Blank /\ req[t].new.conf \in Registers
    /\ \A u \in Threads \ {t} :
         \/ req[u].op \in {"none", "create"}
         \/ req[u].op = "update" /\ req[u].new.name # req[u].row.name

(* Bound: where trunks have rows of their own in the tables, requests at work *)
(* are about one trunk.                                                      *)
OneTrunk ==
  Realtime => Cardinality({req[t].trunk : t \in Threads} \ {None}) < 2

(* Bound: with one file for all, the last request applies or rolls back, or    *)
(* the one beside it does.                                                  *)
LastApplies ==
  ~ Realtime /\ begun = MaxRequests =>
    \A t, u \in Threads :
      t # u => \/ req[t].op \in {"none", "reload", "rollback"}
               \/ req[u].op \in {"reload", "rollback"}

Symmetry == Permutations(Threads) \cup Permutations(Trunks)
=============================================================================
