----------------------------- MODULE MCGroupDB -----------------------------
(* Model values and symmetry for the runs of GroupDB. *)
EXTENDS GroupDB

(* The names are interchangeable only within Account and outside it. *)
Symmetry == Permutations(Account) \cup Permutations(Name \ Account)

(* No name has more than 44 characters. *)
AllShort == [n \in Name |-> n]
=============================================================================
