------------------------------ MODULE Rulesets ------------------------------
(***************************************************************************)
(* Smart routing, the lists: services/ruleset/puller.py and parsers.py,    *)
(* the puller worker, the seed of the sources and the admin's requests.    *)
(* One transaction spans a whole pass of the puller; it keeps every source *)
(* it has touched locked until it ends.  An admin's request touches one    *)
(* source and never commits: its session is closed after the answer.       *)
(***************************************************************************)
EXTENDS Integers, Sequences, FiniteSets

CONSTANTS
  Feeds,        \* the sources of the seed, all of them enabled
  Kind,         \* their parser
  Category,     \* "ru" goes direct, "ads" is blocked
  Domains,
  Offers,       \* what each feed may answer
  MaxLost       \* bound: passes lost to a crash or a failed commit

\* A feed answers with lines, each a domain behind an optional tag (comments
\* and invalid names are no lines), with a document that has none ("scalar"),
\* not at all, or with a text that cannot be decoded or stored.
Answers == [shape : {"list", "scalar", "unreachable", "undecodable"},
            lines : SUBSET [tag  : {"", "domain:", "full:", "keyword:", "regexp:", "include:"},
                            name : Domains]]

Payloads == {a \in UNION {Offers[f] : f \in Feeds} : a.shape \in {"list", "scalar"}}

ASSUME RulesetAssumption ==
  /\ Kind \in [Feeds -> {"antifilter", "v2fly_geosite", "custom"}]
  /\ Category \in [Feeds -> {"ru", "ads"}]
  /\ DOMAIN Offers = Feeds /\ \A f \in Feeds : Offers[f] # {} /\ Offers[f] \subseteq Answers
  /\ MaxLost \in Nat

VARIABLES
  offered,     \* what each feed answers at the moment
  sources,     \* rows of ruleset_sources
  snapshots,   \* per source, the stored payloads and whether each is_current
  failing,     \* sources with a last_error
  held,        \* who keeps the rows of a source locked
  puller,      \* the pass in progress, with what its transaction has written
  fetched,     \* history: what the last committed passes got, per source
  lost

rulesetVars == <<offered, sources, snapshots, failing, held, puller, fetched, lost>>

NoFetch == [shape |-> "none", lines |-> {}]
AtRest  == [pc |-> "rest", todo |-> {}, feed |-> "none", wrote |-> <<>>, failed |-> {}, got |-> <<>>]

Snapshots == UNION {[S -> BOOLEAN] : S \in SUBSET Payloads}
Marked(rows) == {p \in DOMAIN rows : rows[p]}

RulesetTypeOK ==
  /\ DOMAIN offered = Feeds /\ \A f \in Feeds : offered[f] \in Offers[f]
  /\ sources \in {{}, Feeds} /\ failing \subseteq sources
  /\ snapshots \in [Feeds -> Snapshots]
  /\ held \in [Feeds -> {"nobody", "puller", "admin"}]
  /\ puller \in [pc : {"rest", "next", "store"}, feed : Feeds \cup {"none"},
                 todo : SUBSET sources, failed : SUBSET sources,
                 wrote : {puller.wrote}, got : {puller.got}]
  /\ puller.wrote \in [DOMAIN puller.wrote -> Snapshots] /\ DOMAIN puller.wrote \subseteq sources
  /\ puller.got \in [DOMAIN puller.got -> Answers] /\ DOMAIN puller.got \subseteq sources
  /\ fetched \in [Feeds -> Payloads \cup {NoFetch}]
  /\ lost \in 0 .. MaxLost

RulesetInit ==
  /\ offered = [f \in Feeds |-> CHOOSE o \in Offers[f] : TRUE]
  /\ sources = {} /\ failing = {}
  /\ snapshots = [f \in Feeds |-> <<>>]
  /\ held = [f \in Feeds |-> "nobody"]
  /\ puller = AtRest
  /\ fetched = [f \in Feeds |-> NoFetch]
  /\ lost = 0

-----------------------------------------------------------------------------
(* The feeds, the start of the API and the admin                           *)

FeedChanges(f) ==
  /\ offered' \in {[offered EXCEPT ![f] = o] : o \in Offers[f] \ {offered[f]}}
  /\ UNCHANGED <<sources, snapshots, failing, held, puller, fetched, lost>>

\* seed_default_ruleset_sources, committed by the lifespan of the API
SeedSources ==
  /\ sources # Feeds /\ sources' = Feeds
  /\ UNCHANGED <<offered, snapshots, failing, held, puller, fetched, lost>>

\* update_source and force_pull flush their changes, which locks the rows ...
AdminWrites(f) ==
  /\ f \in sources /\ held[f] = "nobody"
  /\ held' = [held EXCEPT ![f] = "admin"]
  /\ UNCHANGED <<offered, sources, snapshots, failing, puller, fetched, lost>>

\* ... and get_session closes the session: rolled back.
AdminCloses(f) ==
  /\ held[f] = "admin"
  /\ held' = [held EXCEPT ![f] = "nobody"]
  /\ UNCHANGED <<offered, sources, snapshots, failing, puller, fetched, lost>>

-----------------------------------------------------------------------------
(* parsers.py                                                              *)

\* Mutant: keywords are taken for suffixes.
KeepsKeywords(kind) == IF kind = "v2fly_geosite" THEN {"", "domain:", "full:", "keyword:"} ELSE {""}

Keeps(kind) == IF kind = "v2fly_geosite" THEN {"", "domain:", "full:"} ELSE {""}

Parsed(kind, raw) == {l.name : l \in {x \in raw.lines : x.tag \in Keeps(kind)}}

\* HTTP and file errors, and RulesetParseError: only a custom list has a
\* structure that can be wrong.
Refused(kind, raw) == raw.shape = "unreachable" \/ (kind = "custom" /\ raw.shape = "scalar")

-----------------------------------------------------------------------------
(* pull_all: one pass                                                      *)

BeginPass ==
  /\ puller.pc = "rest" /\ sources # {}
  /\ puller' = [AtRest EXCEPT !.pc = "next", !.todo = sources]
  /\ UNCHANGED <<offered, sources, snapshots, failing, held, fetched, lost>>

\* Mutant: a pass that raises keeps its locks.
UnheldNothing == held

Unheld == [f \in Feeds |-> IF held[f] = "puller" THEN "nobody" ELSE held[f]]

\* The sources come in no particular order.
Fetch(f) ==
  /\ puller.pc = "next" /\ f \in puller.todo
  /\ offered[f].shape # "undecodable"
  /\ puller' = [puller EXCEPT !.pc = "store", !.feed = f, !.todo = @ \ {f},
                              !.got = [x \in DOMAIN @ \cup {f} |-> IF x = f THEN offered[f] ELSE @[x]]]
  /\ UNCHANGED <<offered, sources, snapshots, failing, held, fetched, lost>>

\* An exception of another kind passes the savepoint, and the transaction.
FetchRaises(f) ==
  /\ puller.pc = "next" /\ f \in puller.todo
  /\ offered[f].shape = "undecodable"
  /\ puller' = AtRest
  /\ held' = Unheld
  /\ UNCHANGED <<offered, sources, snapshots, failing, fetched, lost>>

\* Mutant: a payload stored before is not marked again.
StoredUnmarked(rows, raw) ==
  IF raw \in DOMAIN rows
  THEN rows
  ELSE [p \in DOMAIN rows \cup {raw} |-> p = raw]

\* A payload stored before is marked again, a new one added; the one marked
\* until now is demoted.
Stored(rows, raw) == [p \in DOMAIN rows \cup {raw} |-> p = raw]

\* pull_source writes; an admin who has the rows locked comes first.
Store ==
  LET f == puller.feed IN
  /\ puller.pc = "store" /\ held[f] = "nobody"
  /\ held' = [held EXCEPT ![f] = "puller"]
  /\ puller' =
       IF Refused(Kind[f], puller.got[f])
       THEN [puller EXCEPT !.pc = "next", !.failed = @ \cup {f}]
       ELSE [puller EXCEPT !.pc = "next",
               !.wrote = [x \in DOMAIN @ \cup {f} |->
                            IF x = f THEN Stored(snapshots[f], puller.got[f]) ELSE @[x]]]
  /\ UNCHANGED <<offered, sources, snapshots, failing, fetched, lost>>

CommitPass ==
  /\ puller.pc = "next" /\ puller.todo = {}
  /\ snapshots' = [f \in Feeds |-> IF f \in DOMAIN puller.wrote THEN puller.wrote[f] ELSE snapshots[f]]
  /\ failing' = (failing \ DOMAIN puller.wrote) \cup puller.failed
  /\ fetched' = [f \in Feeds |-> IF f \in DOMAIN puller.wrote THEN puller.got[f] ELSE fetched[f]]
  /\ held' = Unheld
  /\ puller' = AtRest
  /\ UNCHANGED <<offered, sources, lost>>

\* The container restarts or the commit fails.
LosePass ==
  /\ puller.pc # "rest"
  /\ lost < MaxLost /\ lost' = lost + 1
  /\ puller' = AtRest
  /\ held' = Unheld
  /\ UNCHANGED <<offered, sources, snapshots, failing, fetched>>

PullerStep ==
  \/ BeginPass \/ Store \/ CommitPass
  \/ \E f \in Feeds : Fetch(f) \/ FetchRaises(f)

RulesetNext ==
  \/ PullerStep \/ LosePass \/ SeedSources
  \/ \E f \in Feeds : FeedChanges(f) \/ AdminWrites(f) \/ AdminCloses(f)

RulesetSpec == RulesetInit /\ [][RulesetNext]_rulesetVars

-----------------------------------------------------------------------------
(* Properties                                                              *)

\* Once a source has been pulled, exactly one of its snapshots is current: the
\* payload of the last pass that was committed, also when the feed goes back
\* to an earlier one.
CurrentIsLastGood ==
  \A f \in Feeds : fetched[f] # NoFetch => Marked(snapshots[f]) = {fetched[f]}

\* A feed that settles is followed: its payload becomes current, or its failure
\* is recorded, as long as no other feed raises what the puller does not expect.
FeedsAreFollowed ==
  (\A f \in Feeds : <>[](offered[f].shape # "undecodable"))
    => \A f \in Feeds : \A o \in Offers[f] :
         <>[](offered[f] = o)
           => <>[](IF Refused(Kind[f], o)
                   THEN f \in failing
                   ELSE Marked(snapshots[f]) = {o} /\ f \notin failing)
=============================================================================
