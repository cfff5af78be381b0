------------------------------ MODULE Routing -------------------------------
(***************************************************************************)
(* Smart routing, the configurations: services/ruleset/builder.py and the  *)
(* bundle of routers/smart_routing.py.  Both engines take the first rule   *)
(* that matches a domain or one of its parents.                            *)
(***************************************************************************)
EXTENDS Rulesets, SequencesExt

CONSTANT Parents       \* of each domain, itself included

ASSUME RoutingAssumption ==
  /\ IsFiniteSet(Domains)
  /\ Parents \in [Domains -> SUBSET Domains] /\ \A d \in Domains : d \in Parents[d]

Profiles == {"full", "smart", "adblock", "plain"}

\* _load_current_bundle: what one category amounts to, over all the sources.
Bundle(category) ==
  UNION {UNION {Parsed(Kind[f], p) : p \in Marked(snapshots[f])}
           : f \in {x \in sources : Category[x] = category}}

WantsRu(profile)  == profile \in {"full", "smart"}
WantsAds(profile) == profile \in {"full", "adblock"}

When(wanted, rules) == IF wanted THEN rules ELSE <<>>
ForEach(domains, outbound) ==
  LET order == SetToSeq(domains) IN [i \in DOMAIN order |-> [match |-> {order[i]}, to |-> outbound]]

\* build_singbox_route: a rule per list, the ads first.
SingboxRules(profile) ==
  When(WantsAds(profile) /\ Bundle("ads") # {}, <<[match |-> Bundle("ads"), to |-> "block"]>>)
  \o When(WantsRu(profile) /\ Bundle("ru") # {}, <<[match |-> Bundle("ru"), to |-> "direct"]>>)

\* Mutant: the ru list comes first.
RuFirst(profile) ==
  When(WantsRu(profile), ForEach(Bundle("ru"), "direct"))
  \o When(WantsAds(profile), ForEach(Bundle("ads"), "block"))

\* build_clash_rules: a rule per domain.
ClashRules(profile) ==
  When(WantsAds(profile), ForEach(Bundle("ads"), "block"))
  \o When(WantsRu(profile), ForEach(Bundle("ru"), "direct"))

\* The outbound an engine chooses; "proxy" is the final rule of both.
Route(rules, d) ==
  LET hits == {i \in DOMAIN rules : Parents[d] \cap rules[i].match # {}}
  IN IF hits = {} THEN "proxy" ELSE rules[CHOOSE i \in hits : \A j \in hits : i <= j].to

-----------------------------------------------------------------------------
(* Properties                                                              *)

\* Whatever the lists overlap in, both engines route every domain alike: an ad
\* is blocked also on a domain that would go direct.
EnginesAgree ==
  \A profile \in Profiles, d \in Domains :
    LET out == Route(SingboxRules(profile), d)
    IN /\ out = Route(ClashRules(profile), d)
       /\ WantsAds(profile) /\ Parents[d] \cap Bundle("ads") # {} => out = "block"

\* No domain is blocked or sent direct unless a line of the last list pulled
\* names it or a parent; a keyword or a pattern is no such line.
EveryRouteIsListed ==
  \A profile \in Profiles, d \in Domains :
    LET out == Route(ClashRules(profile), d) IN
    out # "proxy" =>
      \E f \in sources :
        /\ Category[f] = (IF out = "block" THEN "ads" ELSE "ru")
        /\ fetched[f] # NoFetch
        /\ \E l \in fetched[f].lines :
             l.name \in Parents[d] /\ l.tag \notin {"keyword:", "regexp:", "include:"}
=============================================================================
