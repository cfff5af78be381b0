---- MODULE MCMtprotoBroadcast ----
(* Small instances of MtprotoBroadcast. *)
EXTENDS MtprotoBroadcast, TLC
CONSTANTS a, b, c, u1, u2, p1, p2
Interchangeable == Permutations(Users) \cup Permutations(Requests) \cup Permutations(Secrets \ {Seed})
====
