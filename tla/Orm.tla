--------------------------------- MODULE Orm ---------------------------------
(***************************************************************************)
(* What the object-relational mapper does for every service: a request sets *)
(* columns of a row it has read, and a commit writes the columns that        *)
(* differ, to the row as it is by then.                                     *)
(***************************************************************************)

(* Row or record now, after columns read as old were set as in new.         *)
Written(now, old, new) ==
  [c \in DOMAIN now |-> IF new[c] # old[c] THEN new[c] ELSE now[c]]

(* A table, as a function of its keys, with one row inserted or replaced.   *)
With(rows, key, row) ==
  [k \in DOMAIN rows \cup {key} |-> IF k = key THEN row ELSE rows[k]]
=============================================================================
