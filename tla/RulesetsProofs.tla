---------------------------- MODULE RulesetsProofs ----------------------------
(***************************************************************************)
(* The current snapshots, for every set of sources and everything that     *)
(* feeds may answer.  A pass that is under way has marked, for each source *)
(* it has written, exactly the payload that it fetched, and does not fetch *)
(* a source twice: so a commit leaves one current snapshot, the right one. *)
(* Both engines take the first rule that matches, and their lists have the *)
(* groups of rules in the same order: so they route every domain alike.    *)
(***************************************************************************)
EXTENDS Routing, FiniteSetTheorems, SequenceTheorems, TLAPS

Pass == [pc : {"rest", "next", "store"}, feed : Feeds \cup {"none"},
         todo : SUBSET sources, failed : SUBSET sources,
         wrote : UNION {[S -> Snapshots] : S \in SUBSET sources},
         got : UNION {[S -> Answers] : S \in SUBSET sources}]

\* The types, with the partial functions of the pass in their sets.
RulesetShape ==
  /\ DOMAIN offered = Feeds /\ \A f \in Feeds : offered[f] \in Offers[f]
  /\ sources \in {{}, Feeds} /\ failing \subseteq sources
  /\ snapshots \in [Feeds -> Snapshots]
  /\ held \in [Feeds -> {"nobody", "puller", "admin"}]
  /\ puller \in Pass
  /\ fetched \in [Feeds -> Payloads \cup {NoFetch}]
  /\ lost \in 0 .. MaxLost

PassInv ==
  /\ DOMAIN puller.wrote \subseteq DOMAIN puller.got
  /\ puller.todo \cap DOMAIN puller.got = {}
  /\ puller.pc = "store" => puller.feed \in DOMAIN puller.got
  /\ \A f \in DOMAIN puller.got :
       puller.got[f] \in Offers[f] /\ puller.got[f].shape # "undecodable"
  /\ \A f \in DOMAIN puller.wrote :
       puller.got[f] \in Payloads /\ Marked(puller.wrote[f]) = {puller.got[f]}

\* A source that was never pulled has no current snapshot.
NothingBefore == \A f \in Feeds : fetched[f] = NoFetch => Marked(snapshots[f]) = {}

RulesetInv == RulesetShape /\ PassInv /\ CurrentIsLastGood /\ NothingBefore

-----------------------------------------------------------------------------
(* Snapshots                                                               *)

\* What the puller writes has the new payload current and no other.
LEMMA StoredMarksOne ==
  ASSUME NEW rows \in Snapshots, NEW raw \in Payloads
  PROVE  Stored(rows, raw) \in Snapshots /\ Marked(Stored(rows, raw)) = {raw}
  <1> DEFINE D == DOMAIN rows \cup {raw}
  <1>1. D \in SUBSET Payloads
    BY DEF Snapshots
  <1>2. Stored(rows, raw) = [p \in D |-> p = raw]
    BY DEF Stored
  <1>3. [p \in D |-> p = raw] \in [D -> BOOLEAN]
    OBVIOUS
  <1>4. Stored(rows, raw) \in Snapshots
    BY <1>1, <1>2, <1>3 DEF Snapshots
  <1>5. Marked(Stored(rows, raw)) = {raw}
    BY <1>2 DEF Marked
  <1> QED BY <1>4, <1>5

LEMMA AtRestOK == AtRest \in Pass /\ DOMAIN AtRest.wrote = {} /\ DOMAIN AtRest.got = {}
                  /\ AtRest.todo = {} /\ AtRest.pc = "rest"
  <1>1. <<>> \in [{} -> Snapshots] /\ <<>> \in [{} -> Answers]
    OBVIOUS
  <1>2. {} \in SUBSET sources
    OBVIOUS
  <1>3. AtRest.wrote \in UNION {[S -> Snapshots] : S \in SUBSET sources}
    BY <1>1, <1>2 DEF AtRest
  <1>4. AtRest.got \in UNION {[S -> Answers] : S \in SUBSET sources}
    BY <1>1, <1>2 DEF AtRest
  <1>5. DOMAIN AtRest.wrote = {} /\ DOMAIN AtRest.got = {}
    BY <1>1 DEF AtRest
  <1> QED BY <1>3, <1>4, <1>5 DEF AtRest, Pass

LEMMA EmptyRows == <<>> \in Snapshots /\ Marked(<<>>) = {}
  <1>1. <<>> \in [{} -> BOOLEAN] /\ DOMAIN <<>> = {}
    OBVIOUS
  <1>2. {} \in SUBSET Payloads
    OBVIOUS
  <1> QED BY <1>1, <1>2 DEF Snapshots, Marked

LEMMA UnheldOK ==
  ASSUME RulesetShape PROVE Unheld \in [Feeds -> {"nobody", "puller", "admin"}]
  BY DEF Unheld, RulesetShape

-----------------------------------------------------------------------------
(* One step                                                                *)

LEMMA RulesetInitInv == RulesetInit => RulesetInv
  <1> SUFFICES ASSUME RulesetInit PROVE RulesetInv
    OBVIOUS
  <1>1. puller \in Pass /\ DOMAIN puller.wrote = {} /\ DOMAIN puller.got = {} /\ puller.pc = "rest"
        /\ puller.todo = {}
    BY AtRestOK DEF RulesetInit
  <1>2. DOMAIN offered = Feeds /\ \A f \in Feeds : offered[f] \in Offers[f]
    BY RulesetAssumption DEF RulesetInit
  <1>3. snapshots \in [Feeds -> Snapshots] /\ fetched \in [Feeds -> Payloads \cup {NoFetch}]
    BY EmptyRows DEF RulesetInit
  <1>4. RulesetShape
    BY <1>1, <1>2, <1>3, RulesetAssumption DEF RulesetInit, RulesetShape
  <1>5. PassInv
    BY <1>1 DEF PassInv
  <1>6. CurrentIsLastGood /\ NothingBefore
    BY EmptyRows DEF RulesetInit, CurrentIsLastGood, NothingBefore
  <1> QED BY <1>4, <1>5, <1>6 DEF RulesetInv

\* The feeds, the seed and the admin's requests leave the pass and the
\* snapshots alone.
LEMMA OutsideStep ==
  ASSUME RulesetInv, puller' = puller, snapshots' = snapshots, fetched' = fetched,
         failing' = failing, lost' = lost, sources' \in {sources, Feeds},
         DOMAIN offered' = Feeds, \A f \in Feeds : offered'[f] \in Offers[f],
         held' \in [Feeds -> {"nobody", "puller", "admin"}]
  PROVE  RulesetInv'
  <1>1. sources \subseteq sources' /\ sources' \in {{}, Feeds}
    BY DEF RulesetInv, RulesetShape
  <1>2. puller' \in Pass'
    <2>1. puller \in Pass
      BY DEF RulesetInv, RulesetShape, Pass
    <2>2. PICK S \in SUBSET sources : puller.wrote \in [S -> Snapshots]
      BY <2>1 DEF Pass
    <2>3. PICK T \in SUBSET sources : puller.got \in [T -> Answers]
      BY <2>1 DEF Pass
    <2>4. S \in SUBSET sources' /\ T \in SUBSET sources'
      BY <1>1
    <2>5. puller.wrote \in UNION {[R -> Snapshots] : R \in SUBSET sources'}
      BY <2>2, <2>4
    <2>6. puller.got \in UNION {[R -> Answers] : R \in SUBSET sources'}
      BY <2>3, <2>4
    <2> QED BY <1>1, <2>1, <2>5, <2>6 DEF Pass
  <1>3. RulesetShape'
    BY <1>1, <1>2 DEF RulesetInv, RulesetShape, Pass
  <1>4. PassInv'
    BY DEF RulesetInv, PassInv, Marked
  <1>5. CurrentIsLastGood' /\ NothingBefore'
    BY DEF RulesetInv, CurrentIsLastGood, NothingBefore, Marked
  <1> QED BY <1>3, <1>4, <1>5 DEF RulesetInv

\* A step of a pass that does not commit.
LEMMA PassStep ==
  ASSUME RulesetInv, puller' \in Pass, PassInv', lost' \in 0 .. MaxLost,
         held' \in [Feeds -> {"nobody", "puller", "admin"}],
         UNCHANGED <<offered, sources, snapshots, failing, fetched>>
  PROVE  RulesetInv'
  <1>1. RulesetShape'
    BY DEF RulesetInv, RulesetShape, Pass
  <1>2. CurrentIsLastGood' /\ NothingBefore'
    BY DEF RulesetInv, CurrentIsLastGood, NothingBefore, Marked
  <1> QED BY <1>1, <1>2 DEF RulesetInv

\* A pass that is lost, or raises, leaves nothing behind.
LEMMA EndStep ==
  ASSUME RulesetInv, puller' = AtRest, held' = Unheld, lost' \in 0 .. MaxLost,
         UNCHANGED <<offered, sources, snapshots, failing, fetched>>
  PROVE  RulesetInv'
  <1>1. PassInv'
    BY AtRestOK DEF PassInv
  <1> QED BY <1>1, AtRestOK, UnheldOK, PassStep DEF RulesetInv

LEMMA BeginStep == ASSUME RulesetInv, BeginPass PROVE RulesetInv'
  <1>1. puller' = [AtRest EXCEPT !.pc = "next", !.todo = sources]
    BY DEF BeginPass
  <1>2. puller' = [pc |-> "next", todo |-> sources, feed |-> "none", wrote |-> AtRest.wrote,
                   failed |-> {}, got |-> AtRest.got]
    BY <1>1 DEF AtRest
  <1>3. puller' \in Pass
    BY <1>2, AtRestOK DEF Pass
  <1>4. PassInv'
    BY <1>2, AtRestOK DEF PassInv
  <1> QED BY <1>3, <1>4, PassStep DEF BeginPass, RulesetInv, RulesetShape

LEMMA FetchStep == ASSUME RulesetInv, NEW f \in Feeds, Fetch(f) PROVE RulesetInv'
  <1> DEFINE got == [x \in DOMAIN puller.got \cup {f} |-> IF x = f THEN offered[f] ELSE puller.got[x]]
  <1>1. puller \in Pass /\ PassInv
    BY DEF RulesetInv, RulesetShape, Pass
  <1>2. f \in puller.todo /\ f \in sources
    BY <1>1 DEF Fetch, Pass
  <1>3. puller' = [pc |-> "store", todo |-> puller.todo \ {f}, feed |-> f, wrote |-> puller.wrote,
                   failed |-> puller.failed, got |-> got]
    BY <1>1 DEF Fetch, Pass
  <1>4. offered[f] \in Offers[f] /\ offered[f] \in Answers /\ offered[f].shape # "undecodable"
    BY RulesetAssumption DEF Fetch, RulesetInv, RulesetShape
  <1>5. DOMAIN got = DOMAIN puller.got \cup {f} /\ got[f] = offered[f]
        /\ \A x \in DOMAIN puller.got : x # f /\ got[x] = puller.got[x]
    BY <1>1, <1>2 DEF PassInv
  <1>6. got \in UNION {[S -> Answers] : S \in SUBSET sources}
    <2>1. PICK S \in SUBSET sources : puller.got \in [S -> Answers]
      BY <1>1 DEF Pass
    <2>2. got \in [S \cup {f} -> Answers]
      BY <2>1, <1>4
    <2>3. S \cup {f} \in SUBSET sources
      BY <2>1, <1>2
    <2> QED BY <2>2, <2>3
  <1> HIDE DEF got
  <1>7. puller' \in Pass
    BY <1>1, <1>3, <1>6 DEF Pass
  <1>8. PassInv'
    BY <1>1, <1>2, <1>3, <1>4, <1>5 DEF PassInv, Marked
  <1> QED BY <1>7, <1>8, PassStep DEF Fetch, RulesetInv, RulesetShape

LEMMA StoreStep == ASSUME RulesetInv, Store PROVE RulesetInv'
  <1> DEFINE f == puller.feed
             raw == puller.got[f]
             wrote == [x \in DOMAIN puller.wrote \cup {f} |->
                         IF x = f THEN Stored(snapshots[f], raw) ELSE puller.wrote[x]]
  <1>1. puller \in Pass /\ PassInv /\ puller.pc = "store"
    BY DEF RulesetInv, RulesetShape, Pass, Store
  <1>2. f \in DOMAIN puller.got
    BY <1>1 DEF PassInv
  <1>3. DOMAIN puller.got \subseteq sources /\ sources \subseteq Feeds
    BY <1>1 DEF Pass, RulesetInv, RulesetShape
  <1>4. f \in sources /\ f \in Feeds /\ snapshots[f] \in Snapshots
    BY <1>2, <1>3 DEF RulesetInv, RulesetShape
  <1>5. held' \in [Feeds -> {"nobody", "puller", "admin"}]
    BY DEF Store, RulesetInv, RulesetShape
  <1>6. CASE Refused(Kind[f], raw)
    <2>1. puller' = [puller EXCEPT !.pc = "next", !.failed = @ \cup {f}]
      BY <1>6 DEF Store
    <2>2. puller' = [pc |-> "next", todo |-> puller.todo, feed |-> f, wrote |-> puller.wrote,
                     failed |-> puller.failed \cup {f}, got |-> puller.got]
      BY <1>1, <2>1 DEF Pass
    <2>3. puller' \in Pass
      BY <1>1, <1>4, <2>2 DEF Pass
    <2>4. PassInv'
      BY <1>1, <2>2 DEF PassInv, Marked
    <2> QED BY <1>5, <2>3, <2>4, PassStep DEF Store, RulesetInv, RulesetShape
  <1>7. CASE ~Refused(Kind[f], raw)
    <2>1. puller' = [puller EXCEPT !.pc = "next",
                       !.wrote = [x \in DOMAIN @ \cup {f} |->
                                    IF x = f THEN Stored(snapshots[f], raw) ELSE @[x]]]
      BY <1>7 DEF Store
    <2>2. puller' = [pc |-> "next", todo |-> puller.todo, feed |-> f, wrote |-> wrote,
                     failed |-> puller.failed, got |-> puller.got]
      BY <1>1, <2>1 DEF Pass
    <2>3. raw \in Offers[f] /\ raw.shape \notin {"undecodable", "unreachable"}
      BY <1>1, <1>2, <1>7 DEF PassInv, Refused
    <2>4. raw \in Answers
      BY <1>4, <2>3, RulesetAssumption
    <2>5. raw.shape \in {"list", "scalar"}
      BY <2>3, <2>4 DEF Answers
    <2>6. raw \in Payloads
      BY <1>4, <2>3, <2>5 DEF Payloads
    <2>7. Stored(snapshots[f], raw) \in Snapshots /\ Marked(Stored(snapshots[f], raw)) = {raw}
      BY <1>4, <2>6, StoredMarksOne
    <2>8. wrote \in UNION {[S -> Snapshots] : S \in SUBSET sources}
      <3>1. PICK S \in SUBSET sources : puller.wrote \in [S -> Snapshots]
        BY <1>1 DEF Pass
      <3>2. wrote \in [S \cup {f} -> Snapshots]
        BY <3>1, <2>7
      <3>3. S \cup {f} \in SUBSET sources
        BY <3>1, <1>4
      <3> QED BY <3>2, <3>3
    <2>9. DOMAIN wrote = DOMAIN puller.wrote \cup {f} /\ wrote[f] = Stored(snapshots[f], raw)
          /\ \A x \in DOMAIN puller.wrote \ {f} : wrote[x] = puller.wrote[x]
      OBVIOUS
    <2>10. \A x \in DOMAIN wrote : puller.got[x] \in Payloads /\ Marked(wrote[x]) = {puller.got[x]}
      BY <1>1, <2>6, <2>7, <2>9 DEF PassInv
    <2> HIDE DEF wrote
    <2>11. puller' \in Pass
      BY <1>1, <2>2, <2>8 DEF Pass
    <2>12. PassInv'
      BY <1>1, <1>2, <2>2, <2>9, <2>10 DEF PassInv, Marked
    <2> QED BY <1>5, <2>11, <2>12, PassStep DEF Store, RulesetInv, RulesetShape
  <1> QED BY <1>6, <1>7

\* The commit: each source written has one current snapshot, what was fetched.
LEMMA CommitStep == ASSUME RulesetInv, CommitPass PROVE RulesetInv'
  <1>1. puller \in Pass /\ PassInv /\ RulesetShape /\ CurrentIsLastGood /\ NothingBefore
    BY DEF RulesetInv, RulesetShape, Pass
  <1>2. puller' = AtRest /\ held' = Unheld /\ UNCHANGED <<offered, sources, lost>>
        /\ failing' = (failing \ DOMAIN puller.wrote) \cup puller.failed
        /\ snapshots' = [f \in Feeds |-> IF f \in DOMAIN puller.wrote THEN puller.wrote[f] ELSE snapshots[f]]
        /\ fetched' = [f \in Feeds |-> IF f \in DOMAIN puller.wrote THEN puller.got[f] ELSE fetched[f]]
    BY DEF CommitPass
  <1>3. \A f \in DOMAIN puller.wrote : puller.wrote[f] \in Snapshots
    BY <1>1 DEF Pass
  <1>4. snapshots' \in [Feeds -> Snapshots]
    BY <1>1, <1>2, <1>3 DEF RulesetShape
  <1>5. fetched' \in [Feeds -> Payloads \cup {NoFetch}]
    BY <1>1, <1>2 DEF RulesetShape, PassInv
  <1>6. failing' \subseteq sources
    BY <1>1, <1>2 DEF RulesetShape, Pass
  <1>7. puller' \in Pass
    BY <1>2, AtRestOK
  <1>8. RulesetShape'
    BY <1>1, <1>2, <1>4, <1>5, <1>6, <1>7, UnheldOK DEF RulesetShape, Pass
  <1>9. PassInv'
    BY <1>2, AtRestOK DEF PassInv
  <1>10. CurrentIsLastGood'
    <2>1. ASSUME NEW f \in Feeds, fetched'[f] # NoFetch
          PROVE  Marked(snapshots'[f]) = {fetched'[f]}
      <3>1. CASE f \in DOMAIN puller.wrote
        BY <1>1, <1>2, <3>1 DEF PassInv
      <3>2. CASE f \notin DOMAIN puller.wrote
        BY <1>1, <1>2, <2>1, <3>2 DEF CurrentIsLastGood
      <3> QED BY <3>1, <3>2
    <2> QED BY <2>1 DEF CurrentIsLastGood, Marked
  <1>11. NothingBefore'
    <2>1. ASSUME NEW f \in Feeds, fetched'[f] = NoFetch
          PROVE  Marked(snapshots'[f]) = {}
      <3>1. f \notin DOMAIN puller.wrote
        BY <1>1, <1>2, <2>1 DEF PassInv, Payloads, NoFetch
      <3> QED BY <1>1, <1>2, <2>1, <3>1 DEF NothingBefore
    <2> QED BY <2>1 DEF NothingBefore, Marked
  <1> QED BY <1>8, <1>9, <1>10, <1>11 DEF RulesetInv

LEMMA RulesetNextInv == RulesetInv /\ [RulesetNext]_rulesetVars => RulesetInv'
  <1> SUFFICES ASSUME RulesetInv, [RulesetNext]_rulesetVars PROVE RulesetInv'
    OBVIOUS
  <1>1. RulesetShape
    BY DEF RulesetInv
  <1>2. CASE BeginPass
    BY <1>2, BeginStep
  <1>3. CASE Store
    BY <1>3, StoreStep
  <1>4. CASE CommitPass
    BY <1>4, CommitStep
  <1>5. ASSUME NEW f \in Feeds, Fetch(f) \/ FetchRaises(f)
        PROVE  RulesetInv'
    BY <1>1, <1>5, FetchStep, EndStep DEF FetchRaises, RulesetShape
  <1>6. CASE LosePass
    <2>1. lost' \in 0 .. MaxLost
      BY <1>1, <1>6, RulesetAssumption DEF LosePass, RulesetShape
    <2> QED BY <1>6, <2>1, EndStep DEF LosePass
  <1>7. CASE SeedSources
    BY <1>1, <1>7, OutsideStep DEF SeedSources, RulesetShape
  <1>8. ASSUME NEW f \in Feeds, FeedChanges(f)
        PROVE  RulesetInv'
    <2>1. PICK o \in Offers[f] : offered' = [offered EXCEPT ![f] = o]
      BY <1>8 DEF FeedChanges
    <2>2. DOMAIN offered' = Feeds /\ \A x \in Feeds : offered'[x] \in Offers[x]
      BY <1>1, <2>1 DEF RulesetShape
    <2> QED BY <1>1, <1>8, <2>2, OutsideStep DEF FeedChanges, RulesetShape
  <1>9. ASSUME NEW f \in Feeds, AdminWrites(f) \/ AdminCloses(f)
        PROVE  RulesetInv'
    BY <1>1, <1>9, OutsideStep DEF AdminWrites, AdminCloses, RulesetShape
  <1>10. CASE UNCHANGED rulesetVars
    BY <1>1, <1>10, OutsideStep DEF rulesetVars, RulesetShape
  <1> QED BY <1>2, <1>3, <1>4, <1>5, <1>6, <1>7, <1>8, <1>9, <1>10 DEF RulesetNext, PullerStep

-----------------------------------------------------------------------------
(* Routes                                                                  *)

\* A set of numbers has a least one.
LEMMA LeastIndex ==
  ASSUME NEW S \in SUBSET Nat, S # {} PROVE \E i \in S : \A j \in S : i <= j
  <1> DEFINE R == OpToRel(<, Nat)
  <1>1. IsWellFoundedOn(R, Nat)
    BY NatLessThanWellFounded
  <1>2. \A x, y \in Nat : y < x => <<y, x>> \in R
    BY DEF OpToRel
  <1> HIDE DEF R
  <1>3. \E x \in S : \A y \in S : ~ (<<y, x>> \in R)
    BY <1>1, WFMin
  <1>4. PICK x \in S : \A y \in S : ~ (<<y, x>> \in R)
    BY <1>3
  <1>5. ASSUME NEW y \in S PROVE x <= y
    <2>1. x \in Nat /\ y \in Nat /\ ~ (y < x)
      BY <1>2, <1>4
    <2> QED BY <2>1
  <1> QED BY <1>5

\* A finite set can be listed.
LEMMA Listing ==
  ASSUME NEW S, IsFiniteSet(S)
  PROVE  /\ Cardinality(S) \in Nat
         /\ SetToSeq(S) \in [1 .. Cardinality(S) -> S]
         /\ \A x \in S : \E i \in 1 .. Cardinality(S) : SetToSeq(S)[i] = x
  <1> DEFINE n == Cardinality(S)
             order == SetToSeq(S)
  <1>1. n \in Nat /\ ExistsBijection(1 .. n, S)
    BY FS_CardinalityType
  <1>2. order \in [1 .. n -> S] /\ IsInjective(order)
    BY <1>1 DEF SetToSeq, ExistsBijection, Bijection, Injection
  <1>3. IsFiniteSet(1 .. n) /\ Cardinality(1 .. n) = n
    BY <1>1, FS_Interval
  <1>4. order \in Injection(1 .. n, S)
    BY <1>2 DEF Injection
  <1>5. order \in Surjection(1 .. n, S)
    BY <1>3, <1>4, FS_Injection
  <1> QED BY <1>1, <1>2, <1>5 DEF Surjection

\* The rules of a list, each with the same outbound.
RulesOf(o) == [match : SUBSET Domains, to : {o}]
Hit(rules, d) == \E i \in DOMAIN rules : Parents[d] \cap rules[i].match # {}

LEMMA EachRule ==
  ASSUME NEW S \in SUBSET Domains, NEW o, NEW d
  PROVE  /\ ForEach(S, o) \in Seq(RulesOf(o))
         /\ Hit(ForEach(S, o), d) <=> Parents[d] \cap S # {}
  <1> DEFINE order == SetToSeq(S)
             n == Cardinality(S)
             rules == [i \in 1 .. n |-> [match |-> {order[i]}, to |-> o]]
  <1>1. IsFiniteSet(S)
    BY RoutingAssumption, FS_Subset
  <1>2. n \in Nat /\ order \in [1 .. n -> S] /\ \A x \in S : \E i \in 1 .. n : order[i] = x
    BY <1>1, Listing
  <1>3. ForEach(S, o) = rules
    BY <1>2 DEF ForEach
  <1> HIDE DEF order, n
  <1>4. rules \in Seq(RulesOf(o))
    BY <1>2 DEF RulesOf
  <1>5. DOMAIN rules = 1 .. n /\ \A i \in 1 .. n : rules[i].match = {order[i]}
    OBVIOUS
  <1> HIDE DEF rules
  <1>6. Hit(rules, d) <=> Parents[d] \cap S # {}
    BY <1>2, <1>5 DEF Hit
  <1> QED BY <1>3, <1>4, <1>6

\* The first rule that matches decides.
LEMMA FirstHit ==
  ASSUME NEW R, NEW rules \in Seq(R), NEW d
  PROVE  /\ ~Hit(rules, d) => Route(rules, d) = "proxy"
         /\ Hit(rules, d) =>
              \E i \in DOMAIN rules :
                /\ Route(rules, d) = rules[i].to /\ Parents[d] \cap rules[i].match # {}
                /\ \A j \in DOMAIN rules : Parents[d] \cap rules[j].match # {} => i <= j
  <1> DEFINE hits == {i \in DOMAIN rules : Parents[d] \cap rules[i].match # {}}
             first == CHOOSE i \in hits : \A j \in hits : i <= j
  <1>1. Route(rules, d) = IF hits = {} THEN "proxy" ELSE rules[first].to
    BY DEF Route
  <1>2. hits \in SUBSET Nat
    <2>1. DOMAIN rules = 1 .. Len(rules) /\ Len(rules) \in Nat
      OBVIOUS
    <2> QED BY <2>1
  <1>3. hits # {} => first \in hits /\ \A j \in hits : first <= j
    <2> HIDE DEF hits
    <2> QED BY <1>2, LeastIndex
  <1>4. Hit(rules, d) <=> hits # {}
    BY DEF Hit
  <1> HIDE DEF first
  <1> QED BY <1>1, <1>3, <1>4

\* Rules that block come before rules that send direct.
LEMMA BlockFirst ==
  ASSUME NEW A \in Seq(RulesOf("block")), NEW B \in Seq(RulesOf("direct")), NEW d
  PROVE  Route(A \o B, d) = IF Hit(A, d) THEN "block" ELSE IF Hit(B, d) THEN "direct" ELSE "proxy"
  <1> DEFINE rules == A \o B
             R == RulesOf("block") \cup RulesOf("direct")
  <1>1. A \in Seq(R) /\ B \in Seq(R)
    OBVIOUS
  <1>2. /\ rules \in Seq(R) /\ Len(rules) = Len(A) + Len(B)
        /\ \A i \in 1 .. Len(A) + Len(B) : rules[i] = IF i <= Len(A) THEN A[i] ELSE B[i - Len(A)]
    <2> HIDE DEF R
    <2> QED BY <1>1, ConcatProperties
  <1>3. /\ Len(A) \in Nat /\ DOMAIN A = 1 .. Len(A) /\ Len(B) \in Nat /\ DOMAIN B = 1 .. Len(B)
        /\ DOMAIN rules = 1 .. Len(A) + Len(B)
    <2>1. Len(A) \in Nat /\ DOMAIN A = 1 .. Len(A) /\ Len(B) \in Nat /\ DOMAIN B = 1 .. Len(B)
      OBVIOUS
    <2> HIDE DEF rules, R
    <2>2. DOMAIN rules = 1 .. Len(rules)
      BY <1>2
    <2> QED BY <1>2, <2>1, <2>2
  <1>4. /\ \A i \in 1 .. Len(A) : A[i].to = "block"
        /\ \A i \in 1 .. Len(B) : B[i].to = "direct"
    <2>1. \A i \in 1 .. Len(A) : A[i] \in RulesOf("block")
      BY <1>3
    <2>2. \A i \in 1 .. Len(B) : B[i] \in RulesOf("direct")
      BY <1>3
    <2> QED BY <2>1, <2>2 DEF RulesOf
  <1>5. \A i \in 1 .. Len(A) : i \in DOMAIN rules /\ rules[i] = A[i]
    BY <1>2, <1>3
  <1>6. \A i \in 1 .. Len(B) : Len(A) + i \in DOMAIN rules /\ rules[Len(A) + i] = B[i]
    BY <1>2, <1>3
  <1>7. \A i \in DOMAIN rules : i \in 1 .. Len(A) \/ (i - Len(A) \in 1 .. Len(B) /\ ~(i <= Len(A)) /\ rules[i] = B[i - Len(A)])
    BY <1>2, <1>3
  <1>8. rules \in Seq(R)
    BY <1>2
  <1> HIDE DEF rules, R
  <1>9. CASE Hit(A, d)
    <2>1. PICK k \in 1 .. Len(A) : Parents[d] \cap A[k].match # {}
      BY <1>3, <1>9 DEF Hit
    <2>2. Hit(rules, d)
      BY <1>5, <2>1 DEF Hit
    <2>3. PICK i \in DOMAIN rules :
            /\ Route(rules, d) = rules[i].to
            /\ \A j \in DOMAIN rules : Parents[d] \cap rules[j].match # {} => i <= j
      BY <1>8, <2>2, FirstHit
    <2>4. i <= k
      BY <1>5, <2>1, <2>3
    <2>5. i \in 1 .. Len(A)
      BY <1>3, <2>1, <2>4
    <2> QED BY <1>4, <1>5, <1>9, <2>3, <2>5 DEF rules
  <1>10. CASE ~Hit(A, d) /\ Hit(B, d)
    <2>1. Hit(rules, d)
      BY <1>3, <1>6, <1>10 DEF Hit
    <2>2. PICK i \in DOMAIN rules :
            Route(rules, d) = rules[i].to /\ Parents[d] \cap rules[i].match # {}
      BY <1>8, <2>1, FirstHit
    <2>3. i \notin 1 .. Len(A)
      BY <1>3, <1>5, <1>10, <2>2 DEF Hit
    <2> QED BY <1>4, <1>7, <1>10, <2>2, <2>3 DEF rules
  <1>11. CASE ~Hit(A, d) /\ ~Hit(B, d)
    <2>1. ~Hit(rules, d)
      BY <1>3, <1>5, <1>7, <1>11 DEF Hit
    <2> QED BY <1>8, <1>11, <2>1, FirstHit DEF rules
  <1> QED BY <1>9, <1>10, <1>11

\* What both engines decide.
Blocked(profile, d) == WantsAds(profile) /\ Parents[d] \cap Bundle("ads") # {}
Direct(profile, d)  == WantsRu(profile) /\ Parents[d] \cap Bundle("ru") # {}
Decided(profile, d) ==
  IF Blocked(profile, d) THEN "block" ELSE IF Direct(profile, d) THEN "direct" ELSE "proxy"

\* A part that is not wanted has no rule.
LEMMA WhenRule ==
  ASSUME NEW rules, NEW o, rules \in Seq(RulesOf(o)), NEW wanted \in BOOLEAN, NEW d
  PROVE  /\ When(wanted, rules) \in Seq(RulesOf(o))
         /\ Hit(When(wanted, rules), d) <=> wanted /\ Hit(rules, d)
  <1>1. CASE wanted
    BY <1>1 DEF When
  <1>2. CASE ~wanted
    <2>1. When(wanted, rules) = <<>>
      BY <1>2 DEF When
    <2>2. <<>> \in Seq(RulesOf(o)) /\ DOMAIN <<>> = {}
      OBVIOUS
    <2> QED BY <1>2, <2>1, <2>2 DEF Hit
  <1> QED BY <1>1, <1>2

LEMMA OneRule ==
  ASSUME NEW S \in SUBSET Domains, NEW o, NEW d
  PROVE  /\ <<[match |-> S, to |-> o]>> \in Seq(RulesOf(o))
         /\ Hit(<<[match |-> S, to |-> o]>>, d) <=> Parents[d] \cap S # {}
  <1> DEFINE r == [match |-> S, to |-> o]
  <1>1. r \in RulesOf(o) /\ r.match = S
    BY DEF RulesOf
  <1> HIDE DEF r
  <1>2. <<r>> \in Seq(RulesOf(o)) /\ DOMAIN <<r>> = {1} /\ <<r>>[1] = r
    BY <1>1
  <1>3. Hit(<<r>>, d) <=> Parents[d] \cap S # {}
    BY <1>1, <1>2 DEF Hit
  <1> QED BY <1>2, <1>3 DEF r

LEMMA Engines ==
  ASSUME NEW profile \in Profiles, NEW d,
         Bundle("ads") \subseteq Domains, Bundle("ru") \subseteq Domains
  PROVE  /\ Route(SingboxRules(profile), d) = Decided(profile, d)
         /\ Route(ClashRules(profile), d) = Decided(profile, d)
  <1> DEFINE Ads == Bundle("ads")
             Ru  == Bundle("ru")
             ads == WantsAds(profile)
             ru  == WantsRu(profile)
  <1>1. Ads \in SUBSET Domains /\ Ru \in SUBSET Domains /\ ads \in BOOLEAN /\ ru \in BOOLEAN
    BY DEF WantsAds, WantsRu
  <1>2. Decided(profile, d) = IF ads /\ Parents[d] \cap Ads # {} THEN "block"
                              ELSE IF ru /\ Parents[d] \cap Ru # {} THEN "direct" ELSE "proxy"
    BY DEF Decided, Blocked, Direct
  <1>3. SingboxRules(profile) = When(ads /\ Ads # {}, <<[match |-> Ads, to |-> "block"]>>)
                                \o When(ru /\ Ru # {}, <<[match |-> Ru, to |-> "direct"]>>)
    BY DEF SingboxRules
  <1>4. ClashRules(profile) = When(ads, ForEach(Ads, "block")) \o When(ru, ForEach(Ru, "direct"))
    BY DEF ClashRules
  <1> HIDE DEF Ads, Ru, ads, ru
  <1>5. Route(SingboxRules(profile), d) = Decided(profile, d)
    <2> DEFINE A == When(ads /\ Ads # {}, <<[match |-> Ads, to |-> "block"]>>)
               B == When(ru /\ Ru # {}, <<[match |-> Ru, to |-> "direct"]>>)
    <2>1. A \in Seq(RulesOf("block")) /\ (Hit(A, d) <=> ads /\ Ads # {} /\ Parents[d] \cap Ads # {})
      BY <1>1, OneRule, WhenRule
    <2>2. B \in Seq(RulesOf("direct")) /\ (Hit(B, d) <=> ru /\ Ru # {} /\ Parents[d] \cap Ru # {})
      BY <1>1, OneRule, WhenRule
    <2> HIDE DEF A, B
    <2>3. Route(A \o B, d) = IF Hit(A, d) THEN "block" ELSE IF Hit(B, d) THEN "direct" ELSE "proxy"
      BY <2>1, <2>2, BlockFirst
    <2> QED BY <1>2, <1>3, <2>1, <2>2, <2>3 DEF A, B
  <1>6. Route(ClashRules(profile), d) = Decided(profile, d)
    <2> DEFINE A == When(ads, ForEach(Ads, "block"))
               B == When(ru, ForEach(Ru, "direct"))
    <2>1. A \in Seq(RulesOf("block")) /\ (Hit(A, d) <=> ads /\ Parents[d] \cap Ads # {})
      BY <1>1, EachRule, WhenRule
    <2>2. B \in Seq(RulesOf("direct")) /\ (Hit(B, d) <=> ru /\ Parents[d] \cap Ru # {})
      BY <1>1, EachRule, WhenRule
    <2> HIDE DEF A, B
    <2>3. Route(A \o B, d) = IF Hit(A, d) THEN "block" ELSE IF Hit(B, d) THEN "direct" ELSE "proxy"
      BY <2>1, <2>2, BlockFirst
    <2> QED BY <1>2, <1>4, <2>1, <2>2, <2>3 DEF A, B
  <1> QED BY <1>5, <1>6

-----------------------------------------------------------------------------
(* The lists                                                               *)

\* What is in a bundle stands on a line of the last list pulled of a source.
LEMMA BundleLines ==
  ASSUME RulesetInv, NEW category, NEW x \in Bundle(category)
  PROVE  /\ x \in Domains
         /\ \E f \in sources : /\ Category[f] = category /\ fetched[f] # NoFetch
                               /\ \E l \in fetched[f].lines : l.name = x /\ l.tag \in Keeps(Kind[f])
  <1>1. PICK f \in sources :
          Category[f] = category /\ \E p \in Marked(snapshots[f]) : x \in Parsed(Kind[f], p)
    BY DEF Bundle
  <1>2. PICK p \in Marked(snapshots[f]) : x \in Parsed(Kind[f], p)
    BY <1>1
  <1>3. f \in Feeds /\ snapshots[f] \in Snapshots
    BY DEF RulesetInv, RulesetShape
  <1>4. PICK l \in p.lines : l.name = x /\ l.tag \in Keeps(Kind[f])
    BY <1>2 DEF Parsed
  <1>5. fetched[f] # NoFetch /\ p = fetched[f]
    BY <1>1, <1>3 DEF RulesetInv, CurrentIsLastGood, NothingBefore
  <1>6. p \in Payloads
    BY <1>3 DEF Snapshots, Marked
  <1>7. p \in Answers
    BY <1>6, RulesetAssumption DEF Payloads
  <1>8. x \in Domains
    BY <1>4, <1>7 DEF Answers
  <1> QED BY <1>1, <1>4, <1>5, <1>8

LEMMA Agreement == RulesetInv => EnginesAgree
  <1> SUFFICES ASSUME RulesetInv, NEW profile \in Profiles, NEW d \in Domains
               PROVE  LET out == Route(SingboxRules(profile), d)
                      IN /\ out = Route(ClashRules(profile), d)
                         /\ WantsAds(profile) /\ Parents[d] \cap Bundle("ads") # {} => out = "block"
    BY DEF EnginesAgree
  <1>1. Bundle("ads") \subseteq Domains /\ Bundle("ru") \subseteq Domains
    BY BundleLines
  <1> QED BY <1>1, Engines DEF Decided, Blocked

LEMMA Listed == RulesetInv => EveryRouteIsListed
  <1> SUFFICES ASSUME RulesetInv, NEW profile \in Profiles, NEW d \in Domains,
                      Route(ClashRules(profile), d) # "proxy"
               PROVE  \E f \in sources :
                        /\ Category[f] = (IF Route(ClashRules(profile), d) = "block" THEN "ads" ELSE "ru")
                        /\ fetched[f] # NoFetch
                        /\ \E l \in fetched[f].lines :
                             l.name \in Parents[d] /\ l.tag \notin {"keyword:", "regexp:", "include:"}
    BY DEF EveryRouteIsListed
  <1> DEFINE out == Route(ClashRules(profile), d)
             category == IF out = "block" THEN "ads" ELSE "ru"
  <1>1. Bundle("ads") \subseteq Domains /\ Bundle("ru") \subseteq Domains
    BY BundleLines
  <1>2. out = Decided(profile, d) /\ out # "proxy"
    BY <1>1, Engines
  <1>3. Parents[d] \cap Bundle(category) # {}
    BY <1>2 DEF Decided, Blocked, Direct
  <1> HIDE DEF out, category
  <1>4. PICK x \in Parents[d] : x \in Bundle(category)
    BY <1>3
  <1>5. PICK f \in sources : /\ Category[f] = category /\ fetched[f] # NoFetch
                             /\ \E l \in fetched[f].lines : l.name = x /\ l.tag \in Keeps(Kind[f])
    BY <1>4, BundleLines
  <1>6. Keeps(Kind[f]) \subseteq {"", "domain:", "full:"}
    BY DEF Keeps
  <1> QED BY <1>4, <1>5, <1>6 DEF category, out

-----------------------------------------------------------------------------
(* Theorems                                                                *)

\* The inductive invariant of the puller's passes.
THEOREM RulesetSafety == RulesetSpec => []RulesetInv
  BY RulesetInitInv, RulesetNextInv, PTL DEF RulesetSpec

\* Sources, snapshots, locks and the pass in hand stay in their domains.
THEOREM RulesetTypeCorrect == RulesetSpec => []RulesetTypeOK
  <1>1. RulesetInv => RulesetTypeOK
    <2> SUFFICES ASSUME RulesetShape PROVE RulesetTypeOK
      BY DEF RulesetInv
    <2>1. puller \in Pass
      BY DEF RulesetShape
    <2>2. PICK S \in SUBSET sources : puller.wrote \in [S -> Snapshots]
      BY <2>1 DEF Pass
    <2>3. PICK T \in SUBSET sources : puller.got \in [T -> Answers]
      BY <2>1 DEF Pass
    <2>4. puller \in [pc : {"rest", "next", "store"}, feed : Feeds \cup {"none"},
                     todo : SUBSET sources, failed : SUBSET sources,
                     wrote : {puller.wrote}, got : {puller.got}]
      BY <2>1 DEF Pass
    <2> QED BY <2>2, <2>3, <2>4 DEF RulesetShape, RulesetTypeOK
  <1> QED BY <1>1, RulesetSafety, PTL

\* Whatever the feeds answer and whichever passes are lost, a source that was
\* pulled has one current snapshot: the payload of its last committed pull.
THEOREM OneCurrentSnapshot == RulesetSpec => []CurrentIsLastGood
  <1>1. RulesetInv => CurrentIsLastGood
    BY DEF RulesetInv
  <1> QED BY <1>1, RulesetSafety, PTL

\* Both engines route every domain alike, whatever the lists overlap in, and an
\* ad is blocked also on a domain that would go direct.
THEOREM EnginesRouteAlike == RulesetSpec => []EnginesAgree
  BY Agreement, RulesetSafety, PTL

\* A domain that is blocked or goes direct stands, or a parent of it, on a line of
\* the last list that was pulled and committed.
THEOREM RoutesAreListed == RulesetSpec => []EveryRouteIsListed
  BY Listed, RulesetSafety, PTL
=============================================================================
