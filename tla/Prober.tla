------------------------------- MODULE Prober -------------------------------
(***************************************************************************)
(* The node prober, workers/prober.py with its backends, and the handlers  *)
(* of routers/admin/nodes.py that change a node while it runs.  A pass     *)
(* reads the nodes in one session, probes them, and writes its findings in *)
(* another; the nodes it holds by then are detached objects, so what it    *)
(* assigns to their status never reaches the table.  Its counters live in  *)
(* memory: a failed commit keeps them, a restart does not.                 *)
(***************************************************************************)
EXTENDS Integers, Sequences, FiniteSets

CONSTANTS
  Nodes,
  Unresolvable,       \* nodes whose hostname the resolver cannot encode
  Backends,            \* the probe backends: "edge", and "ru" with a proxy
  BurnThreshold,      \* probe_burn_threshold
  RecoverThreshold,   \* probe_recover_threshold
  MaxFaults           \* bound: restarts of the prober and failed commits

ASSUME ProberAssumption ==
  /\ "edge" \in Backends
  /\ BurnThreshold \in Nat \ {0} /\ RecoverThreshold \in Nat \ {0}
  /\ MaxFaults \in Nat

Statuses == {"HEALTHY", "BURNED", "MAINTENANCE"}

VARIABLES
  nodes,      \* the status column, "none" before the node is created
  up,         \* the nodes that answer on their port
  prober,     \* the pass in progress
  counters,   \* consecutive fails and oks per node, in the prober's memory
  verdict,    \* the last node_burned or node_recovered since an admin's change
  tail,       \* history: edge probes since the last ruling, the latest ones
  grounds,    \* history: the tail the verdict was given on
  faults

proberVars == <<nodes, up, prober, counters, verdict, tail, grounds, faults>>

Fresh   == [fails |-> 0, oks |-> 0]
Resting == [pc |-> "rest", seen |-> <<>>, failed |-> {}]

Larger(a, b)  == IF a >= b THEN a ELSE b
Smaller(a, b) == IF a <= b THEN a ELSE b
Memory        == Larger(BurnThreshold, RecoverThreshold)

Outcomes == {"ok", "fail"}

\* The latest outcomes, at most Memory of them.
Latest(s, r) ==
  LET t == Append(s, r) IN IF Len(t) > Memory THEN Tail(t) ELSE t

ProberTypeOK ==
  /\ nodes \in [Nodes -> Statuses \cup {"none"}]
  /\ up \subseteq Nodes
  /\ prober \in [pc : {"rest", "probe", "write"}, failed : SUBSET (Backends \X Nodes),
                 seen : UNION {[S -> {"HEALTHY", "BURNED"}] : S \in SUBSET Nodes}]
  /\ prober.failed \subseteq Backends \X DOMAIN prober.seen
  /\ counters \in [Nodes -> [fails : 0 .. BurnThreshold, oks : 0 .. RecoverThreshold]]
  /\ verdict \in [Nodes -> {"none", "burned", "recovered"}]
  /\ tail \in [Nodes -> Seq(Outcomes)] /\ grounds \in [Nodes -> Seq(Outcomes)]
  /\ \A n \in Nodes : Len(tail[n]) <= Memory
  /\ faults \in 0 .. MaxFaults

ProberInit ==
  /\ nodes = [n \in Nodes |-> "none"]
  /\ up = Nodes
  /\ prober = Resting
  /\ counters = [n \in Nodes |-> Fresh]
  /\ verdict = [n \in Nodes |-> "none"]
  /\ tail = [n \in Nodes |-> <<>>] /\ grounds = [n \in Nodes |-> <<>>]
  /\ faults = 0

-----------------------------------------------------------------------------
(* Administration, and the network                                         *)

\* An admin's word ends the last verdict.
AdminSets(n, s) ==
  /\ nodes' = [nodes EXCEPT ![n] = s]
  /\ verdict' = [verdict EXCEPT ![n] = "none"]
  /\ grounds' = [grounds EXCEPT ![n] = <<>>]
  /\ UNCHANGED <<up, prober, counters, tail, faults>>

CreateNode(n, s) == nodes[n] = "none" /\ AdminSets(n, s)
PatchNode(n, s)  == nodes[n] # "none" /\ AdminSets(n, s)
RotateNode(n)    == nodes[n] # "none" /\ AdminSets(n, "HEALTHY")

NodeFails(n) ==
  /\ n \in up /\ up' = up \ {n}
  /\ UNCHANGED <<nodes, prober, counters, verdict, tail, grounds, faults>>

NodeReturns(n) ==
  /\ n \in Nodes \ up /\ up' = up \cup {n}
  /\ UNCHANGED <<nodes, prober, counters, verdict, tail, grounds, faults>>

-----------------------------------------------------------------------------
(* Prober.run_once                                                         *)

Probed == {n \in Nodes : nodes[n] \in {"HEALTHY", "BURNED"}}

ReadNodes ==
  /\ prober.pc = "rest" /\ Probed # {}
  /\ prober' = [pc |-> "probe", seen |-> [n \in Probed |-> nodes[n]], failed |-> {}]
  /\ UNCHANGED <<nodes, up, counters, verdict, tail, grounds, faults>>

\* The edge backend finds out who answers; the proxy's results may be anything.
EdgeFailures  == {"edge"} \X (DOMAIN prober.seen \ up)
ProxyFailures == SUBSET ((Backends \ {"edge"}) \X DOMAIN prober.seen)

\* gather waits for all of them.
ProbeAll ==
  /\ prober.pc = "probe"
  /\ DOMAIN prober.seen \cap Unresolvable = {}
  /\ \E ru \in ProxyFailures :
       prober' = [prober EXCEPT !.pc = "write", !.failed = EdgeFailures \cup ru]
  /\ tail' = [n \in Nodes |-> IF n \in DOMAIN prober.seen
                               THEN Latest(tail[n], IF n \in up THEN "ok" ELSE "fail")
                               ELSE tail[n]]
  /\ UNCHANGED <<nodes, up, counters, verdict, grounds, faults>>

\* The encoding error is no OSError: gather raises and the pass ends.
ProbeRaises ==
  /\ prober.pc = "probe"
  /\ DOMAIN prober.seen \cap Unresolvable # {}
  /\ prober' = Resting
  /\ UNCHANGED <<nodes, up, counters, verdict, tail, grounds, faults>>

\* Mutant: every backend drives the state machine.
FailedAnywhere(n) == \E s \in Backends : <<s, n>> \in prober.failed

Failed(n) == <<"edge", n>> \in prober.failed

\* Only comparisons with the thresholds matter, so counting stops there.
Counted(n) ==
  IF Failed(n)
  THEN [fails |-> Smaller(counters[n].fails + 1, BurnThreshold), oks |-> 0]
  ELSE [fails |-> 0, oks |-> Smaller(counters[n].oks + 1, RecoverThreshold)]

Ruling(n) ==
  CASE prober.seen[n] = "HEALTHY" /\ Counted(n).fails >= BurnThreshold   -> "burned"
    [] prober.seen[n] = "BURNED"  /\ Counted(n).oks >= RecoverThreshold -> "recovered"
    [] OTHER                                                             -> "none"

Ruled == {n \in DOMAIN prober.seen : Ruling(n) # "none"}

\* _apply for every node: in memory, whatever becomes of the transaction.
Apply ==
  /\ prober.pc = "write"
  /\ counters' = [n \in Nodes |->
       IF n \notin DOMAIN prober.seen THEN counters[n]
       ELSE CASE Ruling(n) = "burned"    -> [Counted(n) EXCEPT !.fails = 0]
              [] Ruling(n) = "recovered" -> [Counted(n) EXCEPT !.oks = 0]
              [] OTHER                   -> Counted(n)]
  /\ tail' = [n \in Nodes |-> IF n \in Ruled THEN <<>> ELSE tail[n]]
  /\ UNCHANGED <<nodes, up>>

\* The audit rows are committed; the statuses are not part of the session.
WriteFindings ==
  /\ Apply
  /\ verdict' = [n \in Nodes |-> IF n \in Ruled THEN Ruling(n) ELSE verdict[n]]
  /\ grounds' = [n \in Nodes |-> IF n \in Ruled THEN tail[n] ELSE grounds[n]]
  /\ prober' = Resting
  /\ UNCHANGED faults

\* Mutant: main does not catch what a pass raises, and the worker is gone.
WriteFailsForGood ==
  /\ Apply
  /\ faults < MaxFaults /\ faults' = faults + 1
  /\ prober' = [prober EXCEPT !.pc = "gone"]
  /\ UNCHANGED <<verdict, grounds>>

\* The transaction fails; main logs it and goes on after the interval.
WriteFails ==
  /\ Apply
  /\ faults < MaxFaults /\ faults' = faults + 1
  /\ prober' = Resting
  /\ UNCHANGED <<verdict, grounds>>

ProberRestarts ==
  /\ faults < MaxFaults /\ faults' = faults + 1
  /\ prober' = Resting
  /\ counters' = [n \in Nodes |-> Fresh]
  /\ UNCHANGED <<nodes, up, verdict, tail, grounds>>

ProberStep == ReadNodes \/ ProbeAll \/ ProbeRaises \/ WriteFindings

ProberNext ==
  \/ ProberStep \/ WriteFails \/ ProberRestarts
  \/ \E n \in Nodes : NodeFails(n) \/ NodeReturns(n) \/ RotateNode(n)
  \/ \E n \in Nodes, s \in Statuses : CreateNode(n, s) \/ PatchNode(n, s)

ProberSpec == ProberInit /\ [][ProberNext]_proberVars

-----------------------------------------------------------------------------
(* Properties                                                              *)

\* Whether the last k outcomes are all r.
EndsWith(s, k, r) == Len(s) >= k /\ \A i \in 0 .. k - 1 : s[Len(s) - i] = r

\* node_burned takes probe_burn_threshold failures in a row of the edge
\* backend, none of them used for an earlier verdict; node_recovered likewise.
\* Telemetry through the proxy, lost commits and restarts lend it none.
VerdictBacked ==
  \A n \in Nodes :
    /\ verdict[n] = "burned"    => EndsWith(grounds[n], BurnThreshold, "fail")
    /\ verdict[n] = "recovered" => EndsWith(grounds[n], RecoverThreshold, "ok")

\* A node that stays down while the table calls it HEALTHY is reported burned,
\* and one that stays up while it is called BURNED is reported recovered,
\* unless a hostname that cannot be resolved stops every pass.
ProberConverges ==
  \A n \in Nodes \ Unresolvable :
    /\ <>[](n \notin up /\ nodes[n] = "HEALTHY" /\ Probed \cap Unresolvable = {})
         => []<>(verdict[n] = "burned")
    /\ <>[](n \in up /\ nodes[n] = "BURNED" /\ Probed \cap Unresolvable = {})
         => []<>(verdict[n] = "recovered")

\* ARCHITECTURE.md 16: "IF state transition: UPDATE nodes SET status = ...
\* INSERT audit_log": a verdict of burned changes the node's status with it.
VerdictIsKept ==
  [][\A n \in Nodes : verdict'[n] = "burned" /\ verdict[n] # "burned" => nodes'[n] = "BURNED"]_proberVars
=============================================================================
