----------------------------- MODULE MCSessions -----------------------------
(* Data for the runs of Sessions: users.dat with one account in it. *)
EXTENDS Sessions

CONSTANTS ann, p

OneUser == <<NewUser(ann, p)>>

(* The clients are interchangeable. *)
Symmetry == Permutations(Client)
=============================================================================
