---- MODULE MCDeployment ----
(* Small instances of Deployment. *)
EXTENDS Deployment
CONSTANTS a, b, c, u1, p1, n1, n2, r1, q1, q2, i1, i2, c1, c2

\* A list of ads and one of the operator's own, which overlap; the ads come with
\* a keyword in one version, and the operator's file may be broken in two ways.
Kinds       == [f \in Feeds |-> IF f = "ads" THEN "v2fly_geosite" ELSE "custom"]
Categories  == [f \in Feeds |-> IF f = "ads" THEN "ads" ELSE "ru"]
Line(t, n)  == [tag |-> t, name |-> n]
NoLines(s)  == [shape |-> s, lines |-> {}]
ListOf(ls)  == [shape |-> "list", lines |-> ls]
OldAds      == ListOf({Line("", "site"), Line("keyword:", "shop")})
NewAds      == ListOf({Line("full:", "shop")})
OwnList     == ListOf({Line("", "site"), Line("full:", "shop")})
AllOffers   == [f \in Feeds |-> IF f = "ads" THEN {OldAds, NewAds, NoLines("unreachable")}
                                            ELSE {OwnList, NoLines("scalar"), NoLines("undecodable")}]
DomainTree  == [d \in Domains |-> IF d = "sub.site" THEN {d, "site"} ELSE {d}]

\* A bound: either an admin rotates the secret twice before the clock ticks, or
\* it is rotated once after that, by the rotator or an admin.  No step of a worker
\* leaves it.
Early == now = 0 \/ (secret[c].status = "NONE" /\ (secret[b].status = "NONE" \/ secret[b].made = 1))
====
