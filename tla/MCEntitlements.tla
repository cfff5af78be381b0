---- MODULE MCEntitlements ----
(* Small instances of Entitlements. *)
EXTENDS Invariant, TLC
CONSTANTS u1, o1, o2, k1, s1, s2, s3, s4, c1, c2, p1, p2, m1

OneUser   == {u1}
PlanDays  == [pl \in Plans |-> 1]
CodeOfM1  == [k \in Codes |-> m1]
ForAnyone == [k \in Codes |-> None]
OldRows   == s1 :> [user |-> u1, started |-> 0] @@ s2 :> [user |-> u1, started |-> 1]
NoRows    == [s \in {} |-> {}]
Interchangeable == Permutations(Sessions) \cup Permutations(Subs \ DOMAIN Legacy)
                   \cup Permutations(Orders) \cup Permutations(Charges)
====
