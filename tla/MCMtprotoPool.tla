---- MODULE MCMtprotoPool ----
(* Small instance of MtprotoPool. *)
EXTENDS MtprotoPool, TLC
CONSTANTS u1, u2, p1, p2
Interchangeable == Permutations(Users) \cup Permutations(Sessions)
====
