----------------------------- MODULE WorkersProofs -----------------------------
(***************************************************************************)
(* Three of the background workers: the prober (module Prober), the        *)
(* reminders (Reminders) and the broadcaster with the rotations that feed  *)
(* it (MtprotoBroadcast), for every value of their constants.              *)
(***************************************************************************)
EXTENDS MtprotoBroadcast, Prober, Reminders, SequenceTheorems, TLAPS

-----------------------------------------------------------------------------
(* The prober.  What makes VerdictBacked inductive is that a counter never *)
(* promises more than the results it was counted from.                     *)

\* The counters as they are once the results in hand are counted.
Counts(n) == IF prober.pc = "write" /\ n \in DOMAIN prober.seen THEN Counted(n) ELSE counters[n]

CountBacked ==
  \A n \in Nodes : /\ EndsWith(tail[n], Counts(n).fails, "fail")
                   /\ EndsWith(tail[n], Counts(n).oks, "ok")

ProberInv == ProberTypeOK /\ CountBacked /\ VerdictBacked

-----------------------------------------------------------------------------
(* Results                                                                 *)

LEMMA MemoryNat ==
  Memory \in Nat \ {0} /\ BurnThreshold <= Memory /\ RecoverThreshold <= Memory
  BY ProberAssumption DEF Memory, Larger

LEMMA LatestType ==
  ASSUME NEW s \in Seq(Outcomes), Len(s) <= Memory, NEW r \in Outcomes
  PROVE  Latest(s, r) \in Seq(Outcomes) /\ Len(Latest(s, r)) <= Memory
  BY MemoryNat DEF Latest

\* A result that goes on with the run of equal ones at the end makes it longer,
\* up to what is remembered.
LEMMA RunGrows ==
  ASSUME NEW s \in Seq(Outcomes), Len(s) <= Memory, NEW r \in Outcomes,
         NEW k \in Nat, EndsWith(s, k, r), NEW j \in Nat, j <= k + 1, j <= Memory
  PROVE  EndsWith(Latest(s, r), j, r)
  <1> DEFINE a == Append(s, r)
  <1>1. a \in Seq(Outcomes) /\ Len(a) = Len(s) + 1 /\ a[Len(s) + 1] = r
        /\ \A i \in 1 .. Len(s) : a[i] = s[i]
    OBVIOUS
  <1>2. \A i \in 0 .. k - 1 : s[Len(s) - i] = r
    BY DEF EndsWith
  <1>3. Len(s) >= k
    BY DEF EndsWith
  <1>4. ASSUME NEW i \in 0 .. j - 1
        PROVE  a[Len(a) - i] = r
    <2>1. CASE i = 0
      BY <1>1, <2>1
    <2>2. CASE i # 0
      <3>1. i - 1 \in 0 .. k - 1 /\ Len(s) - (i - 1) \in 1 .. Len(s) /\ Len(a) - i = Len(s) - (i - 1)
        BY <2>2, <1>1, <1>3
      <3> HIDE DEF a
      <3> QED BY <3>1, <1>1, <1>2
    <2> QED BY <2>1, <2>2
  <1>5. CASE Len(a) <= Memory
    <2>1. Latest(s, r) = a
      BY <1>5, MemoryNat, <1>1 DEF Latest
    <2> HIDE DEF a
    <2> QED BY <2>1, <1>1, <1>3, <1>4 DEF EndsWith
  <1>6. CASE Len(a) > Memory
    <2>1. Latest(s, r) = Tail(a)
      BY <1>6 DEF Latest
    <2> HIDE DEF a
    <2>2. Len(a) >= 1 /\ Len(Tail(a)) = Len(a) - 1 /\ \A i \in 1 .. Len(a) - 1 : Tail(a)[i] = a[i + 1]
      BY <1>1
    <2>3. Len(Tail(a)) = Memory
      BY <2>2, <1>6, <1>1, MemoryNat
    <2>4. ASSUME NEW i \in 0 .. j - 1
          PROVE  Tail(a)[Len(Tail(a)) - i] = r
      <3>1. Len(Tail(a)) - i \in 1 .. Len(a) - 1 /\ (Len(Tail(a)) - i) + 1 = Len(a) - i
        BY <2>2, <2>3, MemoryNat, <1>1
      <3> QED BY <3>1, <2>2, <1>4
    <2> QED BY <2>1, <2>3, <2>4, MemoryNat DEF EndsWith
  <1> QED BY <1>5, <1>6, <1>1, MemoryNat

LEMMA NoRun ==
  ASSUME NEW s \in Seq(Outcomes), NEW r \in Outcomes
  PROVE  EndsWith(s, 0, r)
  BY DEF EndsWith

\* A shorter run is one as well.
LEMMA ShorterRun ==
  ASSUME NEW s \in Seq(Outcomes), NEW r \in Outcomes, NEW k \in Nat, NEW j \in Nat,
         EndsWith(s, k, r), j <= k
  PROVE  EndsWith(s, j, r)
  BY DEF EndsWith

-----------------------------------------------------------------------------
(* One step                                                                *)

LEMMA RestingType ==
  Resting \in [pc : {"rest", "probe"}, failed : {{}},
               seen : UNION {[S -> {"HEALTHY", "BURNED"}] : S \in SUBSET Nodes}]
  BY DEF Resting

LEMMA ProberInitInv == ProberInit => ProberInv
  <1> SUFFICES ASSUME ProberInit PROVE ProberInv
    OBVIOUS
  <1>1. ProberTypeOK
    <2>1. prober \in [pc : {"rest", "probe", "write"}, failed : SUBSET (Backends \X Nodes),
                     seen : UNION {[S -> {"HEALTHY", "BURNED"}] : S \in SUBSET Nodes}]
          /\ prober.failed = {}
      BY RestingType DEF ProberInit, Resting
    <2> QED BY <2>1, ProberAssumption, MemoryNat DEF ProberInit, ProberTypeOK, Resting, Fresh, Statuses
  <1>2. CountBacked
    BY DEF ProberInit, CountBacked, Counts, Resting, Fresh, EndsWith
  <1>3. VerdictBacked
    BY DEF ProberInit, VerdictBacked
  <1> QED BY <1>1, <1>2, <1>3 DEF ProberInv

LEMMA CountedType ==
  ASSUME ProberTypeOK, NEW n \in Nodes
  PROVE  Counted(n) \in [fails : 0 .. BurnThreshold, oks : 0 .. RecoverThreshold]
  BY ProberAssumption DEF Counted, ProberTypeOK, Smaller

\* An admin's change, a node that fails or returns: the prober's memory stays.
LEMMA NodeStep ==
  ASSUME ProberInv, prober' = prober, counters' = counters, tail' = tail,
         nodes' \in [Nodes -> Statuses \cup {"none"}], up' \subseteq Nodes, faults' = faults,
         verdict' \in [Nodes -> {"none", "burned", "recovered"}],
         grounds' \in [Nodes -> Seq(Outcomes)],
         \A n \in Nodes : verdict'[n] = "none" \/ (verdict'[n] = verdict[n] /\ grounds'[n] = grounds[n])
  PROVE  ProberInv'
  <1>1. ProberTypeOK'
    BY DEF ProberInv, ProberTypeOK, Statuses
  <1>2. CountBacked'
    BY DEF ProberInv, CountBacked, Counts, Counted, Failed, EndsWith
  <1>3. VerdictBacked'
    <2>1. ASSUME NEW n \in Nodes, verdict'[n] # "none"
          PROVE  verdict'[n] = verdict[n] /\ grounds'[n] = grounds[n]
      BY <2>1
    <2>2. ASSUME NEW n \in Nodes
          PROVE  /\ verdict'[n] = "burned"    => EndsWith(grounds'[n], BurnThreshold, "fail")
                 /\ verdict'[n] = "recovered" => EndsWith(grounds'[n], RecoverThreshold, "ok")
      BY <2>1 DEF ProberInv, VerdictBacked
    <2> QED BY <2>2 DEF VerdictBacked, EndsWith
  <1> QED BY <1>1, <1>2, <1>3 DEF ProberInv

\* A pass that has read its nodes or ends without results counts nothing.
LEMMA MovesOn ==
  ASSUME ProberInv, counters' = counters, tail' = tail, prober.pc # "write",
         prober' \in [pc : {"rest", "probe"}, failed : {{}},
                      seen : UNION {[S -> {"HEALTHY", "BURNED"}] : S \in SUBSET Nodes}],
         UNCHANGED <<nodes, up, verdict, grounds, faults>>
  PROVE  ProberInv'
  <1>1. ProberTypeOK'
    BY DEF ProberInv, ProberTypeOK, Statuses
  <1>2. CountBacked'
    BY DEF ProberInv, CountBacked, Counts, EndsWith
  <1>3. VerdictBacked'
    BY DEF ProberInv, VerdictBacked, EndsWith
  <1> QED BY <1>1, <1>2, <1>3 DEF ProberInv

LEMMA ReadStep == ASSUME ProberInv, ReadNodes PROVE ProberInv'
  <1> DEFINE seen == [n \in Probed |-> nodes[n]]
  <1>1. Probed \in SUBSET Nodes /\ seen \in [Probed -> {"HEALTHY", "BURNED"}]
    BY DEF Probed
  <1>2. seen \in UNION {[S -> {"HEALTHY", "BURNED"}] : S \in SUBSET Nodes}
    BY <1>1
  <1>3. prober' = [pc |-> "probe", seen |-> seen, failed |-> {}]
        /\ counters' = counters /\ tail' = tail /\ prober.pc # "write"
        /\ UNCHANGED <<nodes, up, verdict, grounds, faults>>
    BY DEF ReadNodes
  <1> HIDE DEF seen
  <1>4. prober' \in [pc : {"rest", "probe"}, failed : {{}},
                      seen : UNION {[S -> {"HEALTHY", "BURNED"}] : S \in SUBSET Nodes}]
    BY <1>2, <1>3
  <1> QED BY <1>3, <1>4, MovesOn

\* Probing adds one result to the tail of each node in hand, and the counters
\* are going to count the same one.
LEMMA ProbeStep == ASSUME ProberInv, ProbeAll PROVE ProberInv'
  <1> DEFINE Outcome(n) == IF n \in up THEN "ok" ELSE "fail"
  <1>1. PICK ru \in ProxyFailures :
          prober' = [prober EXCEPT !.pc = "write", !.failed = EdgeFailures \cup ru]
    BY DEF ProbeAll
  <1>2. /\ prober.pc = "probe"
        /\ tail' = [n \in Nodes |-> IF n \in DOMAIN prober.seen THEN Latest(tail[n], Outcome(n)) ELSE tail[n]]
        /\ UNCHANGED <<nodes, up, counters, verdict, grounds, faults>>
    BY DEF ProbeAll
  <1>3. ProberTypeOK
    BY DEF ProberInv
  <1>4. DOMAIN prober.seen \subseteq Nodes
        /\ prober.seen \in UNION {[S -> {"HEALTHY", "BURNED"}] : S \in SUBSET Nodes}
    BY <1>3 DEF ProberTypeOK
  <1>5. prober' = [pc |-> "write", seen |-> prober.seen, failed |-> EdgeFailures \cup ru]
    BY <1>1, <1>3 DEF ProberTypeOK
  <1>6. EdgeFailures \cup ru \subseteq Backends \X DOMAIN prober.seen
    BY ProberAssumption DEF EdgeFailures, ProxyFailures
  <1>7. \A n \in Nodes : /\ Latest(tail[n], Outcome(n)) \in Seq(Outcomes)
                         /\ Len(Latest(tail[n], Outcome(n))) <= Memory
    <2>1. \A n \in Nodes : tail[n] \in Seq(Outcomes) /\ Len(tail[n]) <= Memory /\ Outcome(n) \in Outcomes
      BY <1>3 DEF ProberTypeOK, Outcomes
    <2> HIDE DEF Outcome
    <2> QED BY <2>1, LatestType
  <1>8. tail' \in [Nodes -> Seq(Outcomes)] /\ \A n \in Nodes : Len(tail'[n]) <= Memory
    BY <1>2, <1>3, <1>7 DEF ProberTypeOK
  <1>9. ProberTypeOK'
    <2>1. prober' \in [pc : {"rest", "probe", "write"}, failed : SUBSET (Backends \X Nodes),
                       seen : UNION {[S -> {"HEALTHY", "BURNED"}] : S \in SUBSET Nodes}]
      BY <1>4, <1>5, <1>6
    <2>2. prober'.failed \subseteq Backends \X DOMAIN prober'.seen
      BY <1>5, <1>6
    <2>3. Memory' = Memory
      BY DEF Memory
    <2> QED BY <1>2, <1>3, <1>8, <2>1, <2>2, <2>3 DEF ProberTypeOK
  <1>10. CountBacked'
    <2> SUFFICES ASSUME NEW n \in Nodes
                 PROVE  EndsWith(tail'[n], Counts(n)'.fails, "fail") /\ EndsWith(tail'[n], Counts(n)'.oks, "ok")
      BY DEF CountBacked, EndsWith
    <2>1. EndsWith(tail[n], counters[n].fails, "fail") /\ EndsWith(tail[n], counters[n].oks, "ok")
      BY <1>2 DEF ProberInv, CountBacked, Counts
    <2>2. tail[n] \in Seq(Outcomes) /\ Len(tail[n]) <= Memory
          /\ counters[n] \in [fails : 0 .. BurnThreshold, oks : 0 .. RecoverThreshold]
      BY <1>3 DEF ProberTypeOK
    <2>3. CASE n \notin DOMAIN prober.seen
      <3>1. Counts(n)' = counters[n] /\ tail'[n] = tail[n]
        BY <1>2, <1>5, <2>3 DEF Counts
      <3> QED BY <2>1, <3>1
    <2>4. CASE n \in DOMAIN prober.seen
      <3>1. tail'[n] = Latest(tail[n], Outcome(n))
        BY <1>2, <2>4
      <3>2. Failed(n)' <=> n \notin up
        BY <1>5, <2>4 DEF Failed, EdgeFailures, ProxyFailures
      <3>3. Counts(n)' = Counted(n)'
        BY <1>5, <2>4 DEF Counts
      <3>4. EndsWith(tail'[n], 0, "ok") /\ EndsWith(tail'[n], 0, "fail")
        BY <1>8, NoRun DEF Outcomes
      <3>5. CASE n \notin up
        <4>1. Counts(n)' = [fails |-> Smaller(counters[n].fails + 1, BurnThreshold), oks |-> 0]
          BY <1>2, <3>2, <3>3, <3>5 DEF Counted, Smaller
        <4>2. /\ Smaller(counters[n].fails + 1, BurnThreshold) \in Nat
              /\ Smaller(counters[n].fails + 1, BurnThreshold) <= counters[n].fails + 1
              /\ Smaller(counters[n].fails + 1, BurnThreshold) <= Memory
          BY <2>2, MemoryNat, ProberAssumption DEF Smaller
        <4>3. EndsWith(Latest(tail[n], "fail"), Smaller(counters[n].fails + 1, BurnThreshold), "fail")
          BY <2>1, <2>2, <4>2, RunGrows, ProberAssumption DEF Outcomes
        <4>4. Outcome(n) = "fail"
          BY <3>5
        <4> QED BY <3>1, <3>4, <4>1, <4>3, <4>4
      <3>6. CASE n \in up
        <4>1. Counts(n)' = [fails |-> 0, oks |-> Smaller(counters[n].oks + 1, RecoverThreshold)]
          BY <1>2, <3>2, <3>3, <3>6 DEF Counted, Smaller
        <4>2. /\ Smaller(counters[n].oks + 1, RecoverThreshold) \in Nat
              /\ Smaller(counters[n].oks + 1, RecoverThreshold) <= counters[n].oks + 1
              /\ Smaller(counters[n].oks + 1, RecoverThreshold) <= Memory
          BY <2>2, MemoryNat, ProberAssumption DEF Smaller
        <4>3. EndsWith(Latest(tail[n], "ok"), Smaller(counters[n].oks + 1, RecoverThreshold), "ok")
          BY <2>1, <2>2, <4>2, RunGrows, ProberAssumption DEF Outcomes
        <4>4. Outcome(n) = "ok"
          BY <3>6
        <4> QED BY <3>1, <3>4, <4>1, <4>3, <4>4
      <3> QED BY <3>5, <3>6
    <2> QED BY <2>3, <2>4
  <1>11. VerdictBacked'
    BY <1>2 DEF ProberInv, VerdictBacked, EndsWith
  <1> QED BY <1>9, <1>10, <1>11 DEF ProberInv

\* Whatever becomes of the transaction, the counters have counted the results
\* in hand, a ruling starts them afresh, and rests on a full run of results.
LEMMA ApplyFacts ==
  ASSUME ProberInv, Apply
  PROVE  /\ counters' \in [Nodes -> [fails : 0 .. BurnThreshold, oks : 0 .. RecoverThreshold]]
         /\ tail' \in [Nodes -> Seq(Outcomes)]
         /\ \A n \in Nodes :
              /\ Len(tail'[n]) <= Memory
              /\ EndsWith(tail'[n], counters'[n].fails, "fail")
              /\ EndsWith(tail'[n], counters'[n].oks, "ok")
              /\ (n \in Ruled) => Ruling(n) \in {"burned", "recovered"}
              /\ n \in Ruled /\ Ruling(n) = "burned" => EndsWith(tail[n], BurnThreshold, "fail")
              /\ n \in Ruled /\ Ruling(n) = "recovered" => EndsWith(tail[n], RecoverThreshold, "ok")
  <1>1. ProberTypeOK /\ CountBacked /\ prober.pc = "write"
    BY DEF ProberInv, Apply
  <1>2. /\ counters' = [n \in Nodes |->
              IF n \notin DOMAIN prober.seen THEN counters[n]
              ELSE CASE Ruling(n) = "burned"    -> [Counted(n) EXCEPT !.fails = 0]
                     [] Ruling(n) = "recovered" -> [Counted(n) EXCEPT !.oks = 0]
                     [] OTHER                   -> Counted(n)]
        /\ tail' = [n \in Nodes |-> IF n \in Ruled THEN <<>> ELSE tail[n]]
    BY DEF Apply
  <1>3. ASSUME NEW n \in Nodes
        PROVE  /\ counters'[n] \in [fails : 0 .. BurnThreshold, oks : 0 .. RecoverThreshold]
               /\ tail'[n] \in Seq(Outcomes) /\ Len(tail'[n]) <= Memory
               /\ EndsWith(tail'[n], counters'[n].fails, "fail")
               /\ EndsWith(tail'[n], counters'[n].oks, "ok")
               /\ (n \in Ruled) => Ruling(n) \in {"burned", "recovered"}
               /\ n \in Ruled /\ Ruling(n) = "burned" => EndsWith(tail[n], BurnThreshold, "fail")
               /\ n \in Ruled /\ Ruling(n) = "recovered" => EndsWith(tail[n], RecoverThreshold, "ok")
    <2>1. /\ EndsWith(tail[n], Counts(n).fails, "fail") /\ EndsWith(tail[n], Counts(n).oks, "ok")
          /\ tail[n] \in Seq(Outcomes) /\ Len(tail[n]) <= Memory
          /\ counters[n] \in [fails : 0 .. BurnThreshold, oks : 0 .. RecoverThreshold]
      BY <1>1 DEF CountBacked, ProberTypeOK
    <2>2. <<>> \in Seq(Outcomes) /\ Len(<<>>) <= Memory
          /\ EndsWith(<<>>, 0, "fail") /\ EndsWith(<<>>, 0, "ok")
      <3>1. <<>> \in Seq(Outcomes) /\ Len(<<>>) = 0
        OBVIOUS
      <3>2. "fail" \in Outcomes /\ "ok" \in Outcomes
        BY DEF Outcomes
      <3>3. Len(<<>>) <= Memory
        BY <3>1, MemoryNat
      <3>4. EndsWith(<<>>, 0, "fail") /\ EndsWith(<<>>, 0, "ok")
        BY <3>1, <3>2, NoRun
      <3> QED BY <3>1, <3>3, <3>4
    <2>3. CASE n \notin DOMAIN prober.seen
      <3>1. n \notin Ruled
        BY <2>3 DEF Ruled
      <3>2. counters'[n] = counters[n] /\ tail'[n] = tail[n] /\ Counts(n) = counters[n]
        BY <1>2, <2>3, <3>1 DEF Counts
      <3> QED BY <2>1, <3>1, <3>2
    <2>4. CASE n \in DOMAIN prober.seen
      <3>1. Counts(n) = Counted(n)
            /\ Counted(n) \in [fails : 0 .. BurnThreshold, oks : 0 .. RecoverThreshold]
        BY <1>1, <2>4, CountedType DEF Counts
      <3>2. CASE Ruling(n) = "burned"
        <4>1. Counted(n).fails >= BurnThreshold
          BY <3>2 DEF Ruling
        <4>2. Counted(n).fails = BurnThreshold /\ Counted(n).oks = 0
          BY <3>1, <4>1, ProberAssumption DEF Counted
        <4>3. n \in Ruled
          BY <2>4, <3>2 DEF Ruled
        <4>4. counters'[n] = [Counted(n) EXCEPT !.fails = 0] /\ tail'[n] = <<>>
          BY <1>2, <2>4, <3>2, <4>3
        <4>5. counters'[n] = [fails |-> 0, oks |-> 0]
          BY <4>4, <4>2, <3>1
        <4> QED BY <2>1, <2>2, <3>1, <3>2, <4>2, <4>4, <4>5, ProberAssumption
      <3>3. CASE Ruling(n) = "recovered"
        <4>1. Counted(n).oks >= RecoverThreshold
          BY <3>3 DEF Ruling
        <4>2. Counted(n).oks = RecoverThreshold /\ Counted(n).fails = 0
          BY <3>1, <4>1, ProberAssumption DEF Counted
        <4>3. n \in Ruled
          BY <2>4, <3>3 DEF Ruled
        <4>4. counters'[n] = [Counted(n) EXCEPT !.oks = 0] /\ tail'[n] = <<>>
          BY <1>2, <2>4, <3>3, <4>3
        <4>5. counters'[n] = [fails |-> 0, oks |-> 0]
          BY <4>4, <4>2, <3>1
        <4> QED BY <2>1, <2>2, <3>1, <3>3, <4>2, <4>4, <4>5, ProberAssumption
      <3>4. CASE Ruling(n) \notin {"burned", "recovered"}
        <4>1. Ruling(n) = "none"
          BY <3>4 DEF Ruling
        <4>2. n \notin Ruled
          BY <4>1 DEF Ruled
        <4>3. counters'[n] = Counted(n) /\ tail'[n] = tail[n]
          BY <1>2, <2>4, <4>1, <4>2
        <4> QED BY <2>1, <3>1, <4>2, <4>3
      <3> QED BY <3>2, <3>3, <3>4
    <2> QED BY <2>3, <2>4
  <1>4. DOMAIN counters' = Nodes /\ DOMAIN tail' = Nodes
        /\ counters' = [n \in Nodes |-> counters'[n]] /\ tail' = [n \in Nodes |-> tail'[n]]
    BY <1>2
  <1> QED BY <1>3, <1>4

\* The pass is over: what is left is the memory of the prober, and what the
\* transaction committed.
LEMMA WriteStep ==
  ASSUME ProberInv, Apply, prober' = Resting, faults' \in 0 .. MaxFaults,
         \/ /\ verdict' = [n \in Nodes |-> IF n \in Ruled THEN Ruling(n) ELSE verdict[n]]
            /\ grounds' = [n \in Nodes |-> IF n \in Ruled THEN tail[n] ELSE grounds[n]]
         \/ UNCHANGED <<verdict, grounds>>
  PROVE  ProberInv'
  <1>1. ProberTypeOK /\ VerdictBacked
    BY DEF ProberInv
  <1>2. nodes' = nodes /\ up' = up
    BY DEF Apply
  <1>3. ProberTypeOK'
    <2>1. /\ prober' \in [pc : {"rest", "probe", "write"}, failed : SUBSET (Backends \X Nodes),
                           seen : UNION {[S -> {"HEALTHY", "BURNED"}] : S \in SUBSET Nodes}]
          /\ prober'.failed = {}
      BY RestingType DEF Resting
    <2>2. /\ verdict' \in [Nodes -> {"none", "burned", "recovered"}]
          /\ grounds' \in [Nodes -> Seq(Outcomes)]
      <3>1. \A n \in Nodes : /\ tail[n] \in Seq(Outcomes) /\ grounds[n] \in Seq(Outcomes)
                             /\ n \in Ruled => Ruling(n) \in {"none", "burned", "recovered"}
        BY <1>1, ApplyFacts DEF ProberTypeOK
      <3>2. verdict \in [Nodes -> {"none", "burned", "recovered"}] /\ grounds \in [Nodes -> Seq(Outcomes)]
        BY <1>1 DEF ProberTypeOK
      <3>3. CASE UNCHANGED <<verdict, grounds>>
        BY <3>2, <3>3
      <3>4. CASE /\ verdict' = [n \in Nodes |-> IF n \in Ruled THEN Ruling(n) ELSE verdict[n]]
                 /\ grounds' = [n \in Nodes |-> IF n \in Ruled THEN tail[n] ELSE grounds[n]]
        <4>1. \A n \in Nodes : (IF n \in Ruled THEN Ruling(n) ELSE verdict[n]) \in {"none", "burned", "recovered"}
          BY <3>1, <3>2
        <4>2. \A n \in Nodes : (IF n \in Ruled THEN tail[n] ELSE grounds[n]) \in Seq(Outcomes)
          BY <3>1
        <4> QED BY <3>4, <4>1, <4>2
      <3> QED BY <3>3, <3>4
    <2>3. Memory' = Memory
      BY DEF Memory
    <2> QED BY <1>1, <1>2, <2>1, <2>2, <2>3, ApplyFacts DEF ProberTypeOK, Statuses
  <1>4. CountBacked'
    <2>1. \A n \in Nodes : Counts(n)' = counters'[n]
      BY DEF Counts, Resting
    <2> QED BY <2>1, ApplyFacts DEF CountBacked, EndsWith
  <1>5. VerdictBacked'
    <2>1. ASSUME NEW n \in Nodes
          PROVE  /\ verdict'[n] = "burned"    => EndsWith(grounds'[n], BurnThreshold, "fail")
                 /\ verdict'[n] = "recovered" => EndsWith(grounds'[n], RecoverThreshold, "ok")
      BY <1>1, ApplyFacts DEF VerdictBacked
    <2> QED BY <2>1 DEF VerdictBacked, EndsWith
  <1> QED BY <1>3, <1>4, <1>5 DEF ProberInv

LEMMA ProberRestartStep == ASSUME ProberInv, ProberRestarts PROVE ProberInv'
  <1>1. ProberTypeOK /\ VerdictBacked
    BY DEF ProberInv
  <1>2. ProberTypeOK'
    <2>1. /\ prober' \in [pc : {"rest", "probe", "write"}, failed : SUBSET (Backends \X Nodes),
                           seen : UNION {[S -> {"HEALTHY", "BURNED"}] : S \in SUBSET Nodes}]
          /\ prober'.failed = {}
      BY RestingType DEF ProberRestarts, Resting
    <2>2. counters' \in [Nodes -> [fails : 0 .. BurnThreshold, oks : 0 .. RecoverThreshold]]
      BY ProberAssumption DEF ProberRestarts, Fresh
    <2>3. Memory' = Memory
      BY DEF Memory
    <2>4. faults' \in 0 .. MaxFaults
      BY <1>1, ProberAssumption DEF ProberRestarts, ProberTypeOK
    <2> QED BY <1>1, <2>1, <2>2, <2>3, <2>4 DEF ProberRestarts, ProberTypeOK, Statuses
  <1>3. CountBacked'
    <2>1. \A n \in Nodes : Counts(n)' = Fresh /\ tail'[n] = tail[n] /\ tail[n] \in Seq(Outcomes)
      BY <1>1 DEF Counts, Resting, ProberRestarts, ProberTypeOK
    <2>2. \A n \in Nodes : EndsWith(tail'[n], 0, "fail") /\ EndsWith(tail'[n], 0, "ok")
      BY <2>1, NoRun DEF Outcomes
    <2> QED BY <2>1, <2>2 DEF CountBacked, Fresh, EndsWith
  <1>4. VerdictBacked'
    BY <1>1 DEF ProberRestarts, VerdictBacked, EndsWith
  <1> QED BY <1>2, <1>3, <1>4 DEF ProberInv

LEMMA AdminStep ==
  ASSUME ProberInv, NEW n \in Nodes, NEW s \in Statuses, AdminSets(n, s)
  PROVE  ProberInv'
  <1>1. ProberTypeOK
    BY DEF ProberInv
  <1>2. <<>> \in Seq(Outcomes)
    OBVIOUS
  <1>3. /\ nodes' \in [Nodes -> Statuses \cup {"none"}]
        /\ verdict' \in [Nodes -> {"none", "burned", "recovered"}]
        /\ grounds' \in [Nodes -> Seq(Outcomes)]
    BY <1>1, <1>2 DEF AdminSets, ProberTypeOK
  <1>4. \A x \in Nodes : verdict'[x] = "none" \/ (verdict'[x] = verdict[x] /\ grounds'[x] = grounds[x])
    BY <1>1 DEF AdminSets, ProberTypeOK
  <1>5. prober' = prober /\ counters' = counters /\ tail' = tail /\ up' \subseteq Nodes /\ faults' = faults
    BY <1>1 DEF AdminSets, ProberTypeOK
  <1> QED BY <1>3, <1>4, <1>5, NodeStep

LEMMA NetworkStep ==
  ASSUME ProberInv, NEW n \in Nodes, NodeFails(n) \/ NodeReturns(n) \/ UNCHANGED proberVars
  PROVE  ProberInv'
  <1>1. ProberTypeOK
    BY DEF ProberInv
  <1>2. /\ prober' = prober /\ counters' = counters /\ tail' = tail /\ nodes' = nodes
        /\ verdict' = verdict /\ grounds' = grounds /\ faults' = faults /\ up' \subseteq Nodes
    BY <1>1 DEF NodeFails, NodeReturns, ProberTypeOK, proberVars
  <1> QED BY <1>1, <1>2, NodeStep DEF ProberTypeOK

-----------------------------------------------------------------------------
(* Theorems                                                                *)

\* A step of the prober, an admin or the network, or none.
LEMMA ProberNextInv == ProberInv /\ [ProberNext]_proberVars => ProberInv'
  <1> SUFFICES ASSUME ProberInv, [ProberNext]_proberVars PROVE ProberInv'
    OBVIOUS
  <1>1. CASE ReadNodes
    BY <1>1, ReadStep
  <1>2. CASE ProbeAll
    BY <1>2, ProbeStep
  <1>3. CASE ProbeRaises
    BY <1>3, RestingType, MovesOn DEF ProbeRaises
  <1>4. CASE WriteFindings
    BY <1>4, WriteStep DEF WriteFindings, ProberInv, ProberTypeOK
  <1>5. CASE WriteFails
    <2>1. faults' \in 0 .. MaxFaults
      BY <1>5, ProberAssumption DEF WriteFails, ProberInv, ProberTypeOK
    <2> QED BY <1>5, <2>1, WriteStep DEF WriteFails
  <1>6. CASE ProberRestarts
    BY <1>6, ProberRestartStep
  <1>7. ASSUME NEW n \in Nodes, NodeFails(n) \/ NodeReturns(n) \/ RotateNode(n)
        PROVE  ProberInv'
    BY <1>7, NetworkStep, AdminStep DEF RotateNode, Statuses
  <1>8. ASSUME NEW n \in Nodes, NEW s \in Statuses, CreateNode(n, s) \/ PatchNode(n, s)
        PROVE  ProberInv'
    BY <1>8, AdminStep DEF CreateNode, PatchNode
  <1>9. CASE UNCHANGED proberVars
    <2>1. /\ prober' = prober /\ counters' = counters /\ tail' = tail /\ nodes' = nodes
          /\ verdict' = verdict /\ grounds' = grounds /\ faults' = faults /\ up' = up
      BY <1>9 DEF proberVars
    <2> QED BY <2>1, NodeStep DEF ProberInv, ProberTypeOK
  <1> QED BY <1>1, <1>2, <1>3, <1>4, <1>5, <1>6, <1>7, <1>8, <1>9 DEF ProberNext, ProberStep

\* Verdicts, counters and their history go together in every run.
THEOREM ProberSafety == ProberSpec => []ProberInv
  BY ProberInitInv, ProberNextInv, PTL DEF ProberSpec

\* The pass in hand and the counters stay in their domains.
THEOREM ProberTypeCorrect == ProberSpec => []ProberTypeOK
  <1>1. ProberInv => ProberTypeOK
    BY DEF ProberInv
  <1> QED BY <1>1, ProberSafety, PTL

\* Whatever passes are lost, restarted or hindered, a verdict rests on as many
\* results in a row as its threshold demands.
THEOREM VerdictsAreBacked == ProberSpec => []VerdictBacked
  <1>1. ProberInv => VerdictBacked
    BY DEF ProberInv
  <1> QED BY <1>1, ProberSafety, PTL

-----------------------------------------------------------------------------
(* The reminders.  A reminder that has not been recorded was delivered     *)
(* once per upset at most; and who is in a bucket that a pass has seen is  *)
(* recorded in it, or in the hands of the pass, or was missed by Telegram. *)

Recording(d) == reminder.pc = "record" /\ reminder.item = d

\* What was sent and what was recorded.
CopyInv ==
  /\ reminder.todo \cap logged = {}
  /\ \A d \in Due :
       /\ Recording(d) => d \notin reminder.todo
       /\ IF d \in logged \/ Recording(d)
          THEN copies[d] >= 1 /\ copies[d] <= 1 + upsets
          ELSE copies[d] <= upsets

\* Where the reminder of a subscription's present bucket can be.
SeenInv ==
  /\ reminder.pc = "rest" => reminder.seen = {}
  /\ \A s \in Renewables : left[s] \in Buckets =>
       LET d == <<s, left[s]>> IN
       /\ s \in scanned       => d \in logged \cup missed
       /\ s \in reminder.seen => d \in logged \cup missed \cup reminder.todo \/ Recording(d)

RemindersInv == RemindersTypeOK /\ CopyInv /\ SeenInv /\ RemindedInTime

Reminder == [pc : {"rest", "send", "record"}, seen : SUBSET Renewables,
             todo : SUBSET Due, item : Due \cup {<<>>}]

-----------------------------------------------------------------------------
(* Subscriptions                                                           *)

LEMMA RemindersInitInv == RemindersInit => RemindersInv
  <1> SUFFICES ASSUME RemindersInit PROVE RemindersInv
    OBVIOUS
  <1>1. RemindersTypeOK
    BY ReminderAssumption DEF RemindersInit, RemindersTypeOK, Asleep, Plenty
  <1>2. CopyInv
    BY DEF RemindersInit, CopyInv, Asleep, Recording
  <1>3. SeenInv
    BY DEF RemindersInit, SeenInv, Asleep
  <1>4. RemindedInTime
    BY ReminderAssumption DEF RemindersInit, RemindedInTime, Plenty, Buckets
  <1> QED BY <1>1, <1>2, <1>3, <1>4 DEF RemindersInv

\* The reminders of a subscription that grows older, is renewed or ends.
LEMMA CopiesStay ==
  ASSUME RemindersInv, UNCHANGED <<logged, copies, upsets>>,
         reminder'.pc = reminder.pc, reminder'.item = reminder.item, reminder'.todo = reminder.todo
  PROVE  CopyInv'
  BY DEF RemindersInv, CopyInv, Recording

LEMMA AgeStep == ASSUME RemindersInv, NEW s \in Renewables, Age(s) PROVE RemindersInv'
  <1>1. /\ RemindersTypeOK /\ SeenInv /\ RemindedInTime
        /\ left[s] \in 0 .. Plenty /\ left[s] > 0 /\ (left[s] \in Buckets /\ s \in live => s \in scanned)
        /\ left' = [left EXCEPT ![s] = left[s] - 1] /\ scanned' = scanned \ {s}
        /\ UNCHANGED <<live, renewed, logged, copies, missed, upsets>>
    BY DEF RemindersInv, RemindersTypeOK, Age
  <1>2. reminder' = [pc |-> reminder.pc, seen |-> reminder.seen \ {s}, todo |-> reminder.todo,
                     item |-> reminder.item]
    BY <1>1 DEF Age, RemindersTypeOK
  <1>3. RemindersTypeOK'
    <2>1. left' \in [Renewables -> 0 .. Plenty]
      BY <1>1, ReminderAssumption DEF RemindersTypeOK, Plenty
    <2> QED BY <1>1, <1>2, <2>1 DEF RemindersTypeOK
  <1>4. CopyInv'
    BY <1>1, <1>2, CopiesStay
  <1>5. \A x \in Renewables : x # s => left'[x] = left[x]
    BY <1>1 DEF RemindersTypeOK
  <1>6. SeenInv'
    BY <1>1, <1>2, <1>5 DEF SeenInv, Recording
  <1>7. RemindedInTime'
    <2> SUFFICES ASSUME NEW x \in live \ renewed.who, NEW b \in Buckets,
                        left'[x] < b, <<x, b>> \notin missed
                 PROVE  <<x, b>> \in logged
      BY <1>1 DEF RemindedInTime
    <2>1. CASE x # s
      BY <1>1, <1>5, <2>1 DEF RemindedInTime, RemindersTypeOK
    <2>2. CASE x = s /\ left[s] < b
      BY <1>1, <2>2 DEF RemindedInTime
    <2>3. CASE x = s /\ ~(left[s] < b)
      <3>1. left'[s] = left[s] - 1
        BY <1>1 DEF RemindersTypeOK
      <3>2. left[s] = b
        BY <1>1, <2>3, <3>1, ReminderAssumption DEF Buckets, Plenty
      <3>3. s \in scanned
        BY <1>1, <2>3, <3>2
      <3> QED BY <1>1, <2>3, <3>2, <3>3 DEF SeenInv
    <2> QED BY <2>1, <2>2, <2>3
  <1> QED BY <1>3, <1>4, <1>6, <1>7 DEF RemindersInv

LEMMA RenewStep == ASSUME RemindersInv, NEW s \in Renewables, Renew(s) PROVE RemindersInv'
  <1>1. /\ RemindersTypeOK /\ SeenInv /\ RemindedInTime
        /\ left' = [left EXCEPT ![s] = Plenty] /\ scanned' = scanned \ {s}
        /\ renewed' = [who |-> renewed.who \cup {s}, times |-> renewed.times + 1]
        /\ renewed.times < MaxRenewals
        /\ UNCHANGED <<live, logged, copies, missed, upsets>>
    BY DEF RemindersInv, Renew
  <1>2. reminder' = [pc |-> reminder.pc, seen |-> reminder.seen \ {s}, todo |-> reminder.todo,
                     item |-> reminder.item]
    BY <1>1 DEF Renew, RemindersTypeOK
  <1>3. RemindersTypeOK'
    <2>1. left' \in [Renewables -> 0 .. Plenty]
      BY <1>1, ReminderAssumption DEF RemindersTypeOK, Plenty
    <2>2. renewed' \in [who : SUBSET Renewables, times : 0 .. MaxRenewals]
      BY <1>1, ReminderAssumption DEF RemindersTypeOK
    <2> QED BY <1>1, <1>2, <2>1, <2>2 DEF RemindersTypeOK
  <1>4. CopyInv'
    BY <1>1, <1>2, CopiesStay
  <1>5. \A x \in Renewables : x # s => left'[x] = left[x]
    BY <1>1 DEF RemindersTypeOK
  <1>6. SeenInv'
    BY <1>1, <1>2, <1>5 DEF SeenInv, Recording
  <1>7. RemindedInTime'
    BY <1>1, <1>5 DEF RemindedInTime, RemindersTypeOK
  <1> QED BY <1>3, <1>4, <1>6, <1>7 DEF RemindersInv

LEMMA TerminateStep == ASSUME RemindersInv, NEW s \in Renewables, Terminate(s) PROVE RemindersInv'
  <1>1. live' \subseteq live
        /\ UNCHANGED <<left, renewed, logged, reminder, scanned, copies, missed, upsets>>
    BY DEF Terminate
  <1>2. RemindersTypeOK'
    BY <1>1 DEF RemindersInv, RemindersTypeOK
  <1>3. CopyInv' /\ SeenInv'
    BY <1>1, CopiesStay DEF RemindersInv, SeenInv, Recording
  <1>4. RemindedInTime'
    BY <1>1 DEF RemindersInv, RemindedInTime
  <1> QED BY <1>2, <1>3, <1>4 DEF RemindersInv

-----------------------------------------------------------------------------
(* Passes                                                                  *)

\* A step of the worker: subscriptions stay, and records and misses only grow.
LEMMA ReminderPassStep ==
  ASSUME RemindersInv, reminder' \in Reminder, reminder'.pc = "record" => reminder'.item \in Due,
         UNCHANGED <<left, live, renewed>>, scanned' \subseteq Renewables,
         logged \subseteq logged', logged' \subseteq Due, missed \subseteq missed', missed' \subseteq Due,
         copies' \in [Due -> Nat], upsets' \in 0 .. MaxUpsets, CopyInv', SeenInv'
  PROVE  RemindersInv'
  <1>1. RemindersTypeOK'
    BY DEF RemindersInv, RemindersTypeOK, Reminder
  <1>2. RemindedInTime'
    BY DEF RemindersInv, RemindedInTime
  <1> QED BY <1>1, <1>2 DEF RemindersInv

LEMMA CollectStep == ASSUME RemindersInv, Collect PROVE RemindersInv'
  <1> DEFINE found == {<<s, left[s]>> : s \in {x \in live : left[x] \in Buckets}}
  <1>1. /\ RemindersTypeOK /\ CopyInv /\ SeenInv /\ reminder.pc = "rest"
        /\ reminder' = [pc |-> "send", item |-> <<>>, seen |-> live, todo |-> found \ logged]
        /\ UNCHANGED <<left, live, renewed, logged, scanned, copies, missed, upsets>>
    BY DEF RemindersInv, Collect, ChosenBucket
  <1>2. found \subseteq Due
    BY <1>1 DEF RemindersTypeOK, Due
  <1>3. \A s \in live : left[s] \in Buckets => <<s, left[s]>> \in found
    OBVIOUS
  <1> HIDE DEF found
  <1>4. reminder' \in Reminder /\ reminder'.pc # "record"
    BY <1>1, <1>2 DEF Reminder, RemindersTypeOK
  <1>5. CopyInv'
    BY <1>1 DEF CopyInv, Recording
  <1>6. SeenInv'
    BY <1>1, <1>3 DEF SeenInv, RemindersTypeOK
  <1> QED BY <1>1, <1>4, <1>5, <1>6, ReminderPassStep DEF RemindersTypeOK

\* Every step of the pass in hand starts from the same facts.
LEMMA PassFacts ==
  ASSUME RemindersInv
  PROVE  /\ RemindersTypeOK /\ CopyInv /\ SeenInv
         /\ reminder \in Reminder /\ upsets \in Nat /\ copies \in [Due -> Nat]
         /\ reminder.todo \subseteq Due /\ reminder.seen \subseteq Renewables
  BY ReminderAssumption DEF RemindersInv, RemindersTypeOK, Reminder

LEMMA SendStep == ASSUME RemindersInv, NEW d \in Due, SendReminder(d) PROVE RemindersInv'
  <1>1. /\ reminder.pc = "send" /\ d \in reminder.todo
        /\ copies' = [copies EXCEPT ![d] = copies[d] + 1]
        /\ UNCHANGED <<left, live, renewed, logged, scanned, missed, upsets>>
    BY DEF SendReminder, Take, Deliver
  <1>2. reminder' = [pc |-> "record", seen |-> reminder.seen, todo |-> reminder.todo \ {d}, item |-> d]
    BY PassFacts DEF SendReminder, Reminder
  <1>3. reminder' \in Reminder /\ reminder'.item \in Due
    BY <1>2, PassFacts DEF Reminder
  <1>4. copies' \in [Due -> Nat] /\ copies'[d] = copies[d] + 1
        /\ \A x \in Due : x # d => copies'[x] = copies[x]
    BY <1>1, PassFacts
  <1>5. CopyInv'
    <2>1. d \notin logged /\ copies[d] <= upsets /\ copies[d] \in Nat
      BY <1>1, PassFacts DEF CopyInv, Recording
    <2> QED BY <1>1, <1>2, <1>4, <2>1, PassFacts DEF CopyInv, Recording
  <1>6. SeenInv'
    BY <1>1, <1>2, PassFacts DEF SeenInv, Recording
  <1> QED BY <1>1, <1>3, <1>4, <1>5, <1>6, PassFacts, ReminderPassStep DEF RemindersTypeOK

LEMMA RefuseStep == ASSUME RemindersInv, NEW d \in Due, RefuseReminder(d) PROVE RemindersInv'
  <1>1. /\ reminder.pc = "send" /\ d \in reminder.todo
        /\ copies' = [copies EXCEPT ![d] = copies[d] + 1] \/ copies' = copies
        /\ upsets < MaxUpsets /\ upsets' = upsets + 1 /\ missed' = missed \cup {d}
        /\ UNCHANGED <<left, live, renewed, logged, scanned>>
    BY DEF RefuseReminder, Take, Deliver
  <1>2. reminder' = [pc |-> "send", seen |-> reminder.seen, todo |-> reminder.todo \ {d},
                     item |-> reminder.item]
    BY <1>1, PassFacts DEF RefuseReminder, Reminder
  <1>3. reminder' \in Reminder /\ reminder'.pc # "record"
    BY <1>2, PassFacts DEF Reminder
  <1>4. copies' \in [Due -> Nat] /\ copies'[d] <= copies[d] + 1
        /\ \A x \in Due : x # d => copies'[x] = copies[x]
    BY <1>1, PassFacts
  <1>5. CopyInv'
    <2>1. d \notin logged /\ copies[d] <= upsets
      BY <1>1, PassFacts DEF CopyInv, Recording
    <2>2. \A x \in Due : copies[x] \in Nat /\ copies'[x] \in Nat
      BY <1>4, PassFacts
    <2> QED BY <1>1, <1>2, <1>4, <2>1, <2>2, PassFacts DEF CopyInv, Recording
  <1>6. SeenInv'
    BY <1>1, <1>2, PassFacts DEF SeenInv, Recording
  <1>7. upsets' \in 0 .. MaxUpsets
    BY <1>1, PassFacts, ReminderAssumption
  <1> QED BY <1>1, <1>3, <1>4, <1>5, <1>6, <1>7, PassFacts, ReminderPassStep DEF RemindersTypeOK

LEMMA RecordStep == ASSUME RemindersInv, Record PROVE RemindersInv'
  <1>1. /\ reminder.pc = "record" /\ logged' = logged \cup {reminder.item}
        /\ UNCHANGED <<left, live, renewed, scanned, copies, missed, upsets>>
    BY DEF Record
  <1>2. reminder' = [pc |-> "send", seen |-> reminder.seen, todo |-> reminder.todo, item |-> <<>>]
    BY <1>1, PassFacts DEF Record, Reminder
  <1>3. reminder' \in Reminder /\ reminder'.pc # "record"
    BY <1>2, PassFacts DEF Reminder
  <1>4. reminder.item \in Due
    BY <1>1, PassFacts DEF RemindersTypeOK
  <1>5. CopyInv'
    BY <1>1, <1>2, <1>4, PassFacts DEF CopyInv, Recording
  <1>6. SeenInv'
    BY <1>1, <1>2, PassFacts DEF SeenInv, Recording
  <1> QED BY <1>1, <1>3, <1>4, <1>5, <1>6, PassFacts, ReminderPassStep DEF RemindersTypeOK

LEMMA EndPassStep == ASSUME RemindersInv, EndPass PROVE RemindersInv'
  <1>1. /\ reminder.pc = "send" /\ reminder.todo = {} /\ scanned' = scanned \cup reminder.seen
        /\ reminder' = [pc |-> "rest", seen |-> {}, todo |-> {}, item |-> <<>>]
        /\ UNCHANGED <<left, live, renewed, logged, copies, missed, upsets>>
    BY DEF EndPass, Asleep
  <1>2. reminder' \in Reminder /\ reminder'.pc # "record"
    BY <1>1 DEF Reminder
  <1>3. CopyInv'
    BY <1>1, PassFacts DEF CopyInv, Recording
  <1>4. SeenInv'
    BY <1>1, PassFacts DEF SeenInv, Recording
  <1> QED BY <1>1, <1>2, <1>3, <1>4, PassFacts, ReminderPassStep DEF RemindersTypeOK

\* A reminder that was delivered and not recorded is what the upset stands for.
LEMMA AbortStep == ASSUME RemindersInv, AbortPass PROVE RemindersInv'
  <1>1. /\ upsets < MaxUpsets /\ upsets' = upsets + 1
        /\ reminder' = [pc |-> "rest", seen |-> {}, todo |-> {}, item |-> <<>>]
        /\ UNCHANGED <<left, live, renewed, logged, scanned, copies, missed>>
    BY DEF AbortPass, Asleep
  <1>2. reminder' \in Reminder /\ reminder'.pc # "record"
    BY <1>1 DEF Reminder
  <1>3. CopyInv'
    <2>1. \A d \in Due : copies[d] \in Nat
      BY PassFacts
    <2> QED BY <1>1, <2>1, PassFacts DEF CopyInv, Recording
  <1>4. SeenInv'
    BY <1>1, PassFacts DEF SeenInv, Recording
  <1>5. upsets' \in 0 .. MaxUpsets
    BY <1>1, PassFacts, ReminderAssumption
  <1> QED BY <1>1, <1>2, <1>3, <1>4, <1>5, PassFacts, ReminderPassStep DEF RemindersTypeOK

LEMMA RemindersNextInv == RemindersInv /\ [RemindersNext]_reminderVars => RemindersInv'
  <1> SUFFICES ASSUME RemindersInv, [RemindersNext]_reminderVars PROVE RemindersInv'
    OBVIOUS
  <1>1. ASSUME NEW d \in Due, SendReminder(d) \/ RefuseReminder(d)
        PROVE  RemindersInv'
    BY <1>1, SendStep, RefuseStep
  <1>2. ASSUME NEW s \in Renewables, Age(s) \/ Renew(s) \/ Terminate(s)
        PROVE  RemindersInv'
    BY <1>2, AgeStep, RenewStep, TerminateStep
  <1>3. CASE UNCHANGED reminderVars
    <2>1. UNCHANGED <<left, live, renewed, logged, reminder, scanned, copies, missed, upsets>>
      BY <1>3 DEF reminderVars
    <2>2. CopyInv' /\ SeenInv'
      BY <2>1, CopiesStay DEF RemindersInv, SeenInv, Recording
    <2> QED BY <2>1, <2>2, PassFacts, ReminderPassStep DEF RemindersTypeOK
  <1> QED BY <1>1, <1>2, <1>3, CollectStep, RecordStep, EndPassStep, AbortStep DEF RemindersNext

-----------------------------------------------------------------------------
(* Theorems                                                                *)

\* The inductive invariant of the reminder worker.
THEOREM RemindersSafety == RemindersSpec => []RemindersInv
  BY RemindersInitInv, RemindersNextInv, PTL DEF RemindersSpec

\* Subscriptions, the log and the pass in hand stay in their domains.
THEOREM RemindersTypeCorrect == RemindersSpec => []RemindersTypeOK
  <1>1. RemindersInv => RemindersTypeOK
    BY DEF RemindersInv
  <1> QED BY <1>1, RemindersSafety, PTL

\* A reminder is delivered once, and once more per upset at most; none is
\* recorded that was not delivered.
THEOREM DeliveredOncePerUpset == RemindersSpec => []OncePerUpset
  <1>1. RemindersInv => OncePerUpset
    <2> SUFFICES ASSUME RemindersInv, NEW d \in Due
                 PROVE  copies[d] <= 1 + upsets /\ (d \in logged => copies[d] >= 1)
      BY DEF OncePerUpset
    <2>1. copies[d] \in Nat /\ upsets \in Nat /\ CopyInv
      BY PassFacts
    <2> QED BY <2>1 DEF CopyInv
  <1> QED BY <1>1, RemindersSafety, PTL

\* In its first term a subscription is reminded in every bucket it leaves,
\* unless Telegram failed for it.
THEOREM EveryBucketReminded == RemindersSpec => []RemindedInTime
  <1>1. RemindersInv => RemindedInTime
    BY DEF RemindersInv
  <1> QED BY <1>1, RemindersSafety, PTL

-----------------------------------------------------------------------------
(* The broadcaster.  The marker of the recipient in hand is the worker's   *)
(* own, every entry is read once, and a secret that another one replaced   *)
(* is revoked for good.                                                    *)

Known(s) == secret[s].status # "NONE"

\* A secret that another one replaced is revoked for good, and what is on the
\* stream was committed before.
SessionOK(p) ==
  /\ tx[p].pc = "emit" => tx[p].new \in Secrets /\ Known(tx[p].new)
  /\ tx[p].old # None => Known(tx[p].old)

RotationInv ==
  /\ RotationTypeOK /\ stream \in Seq(Secrets)
  /\ \A i \in Entries : Known(stream[i])
  /\ \A s \in Secrets : replaced[s] # None => secret[replaced[s]].status = "REVOKED"
  /\ \A p \in Sessions : SessionOK(p)

\* A message is about a rotation that was committed.
LinkInv == \A d \in dms : Known(d.event)

HandPlaces == {"cooldown", "slot", "global", "post", "mark", "release"}
InHand     == worker.pc \in HandPlaces
Endings   == {"answered", "rejected", "cooling", "duplicate", "given up"}

\* The entry that the worker has is pending, and every entry is read once.
EntryInv ==
  /\ pending \subseteq Entries /\ next \in Nat \ {0}
  /\ \A i \in pending : i < next
  /\ \A d \in due : d[1] < next
  /\ worker.pc # "poll" => worker.entry \in pending
  /\ InHand => worker.to \in Users

\* The marker of the recipient in hand is the worker's own: nobody was answered
\* under it, and it stays until the recipient is through.
MarkerInv ==
  /\ settled \subseteq Entries \X Users \X Endings
  /\ \A h \in settled : h[3] = "answered" => <<stream[h[1]], h[2]>> \in idem
  /\ InHand =>
       /\ <<Event, worker.to>> \in idem
       /\ \A h \in settled : h[3] = "answered" => stream[h[1]] # Event \/ h[2] # worker.to

Settled(d) == \E h \in settled : <<h[1], h[2]>> = d /\ h[3] # "given up"

\* Where the recipients of the entry in hand are.
DueInv ==
  /\ worker.pc = "resolve" => \A d \in due : d[1] # worker.entry
  /\ worker.pc \in HandPlaces \cup {"loop"} =>
       \A d \in due : d[1] = worker.entry =>
         \/ d[2] \in worker.todo
         \/ InHand /\ d[2] = worker.to
         \/ Settled(d)

BroadcastInv ==
  /\ TypeOK /\ RotationInv
  /\ EntryInv /\ MarkerInv /\ OneAnswerPerEvent
  /\ DueInv /\ AckMeansSettled
  /\ LinkInv /\ NeverTheOldLink

-----------------------------------------------------------------------------
(* Rotations                                                               *)

\* The stream is appended to, no secret is forgotten, and what a secret replaced
\* stays what it is.
GoesOn ==
  /\ Len(stream) <= Len(stream') /\ \A i \in Entries : stream'[i] = stream[i]
  /\ \A s \in Secrets : Known(s) => Known(s)' /\ replaced'[s] = replaced[s]

LEMMA IdleTxType == IdleTx \in Tx
  BY RotationAssumption DEF IdleTx, Tx

\* A session goes on without touching a row.
LEMMA TxStep ==
  ASSUME RotationInv, NEW p \in Sessions, NEW t \in Tx, tx' = [tx EXCEPT ![p] = t],
         UNCHANGED <<now, secret, stream, replaced>>, lock' \in [Secrets -> Sessions \cup {None}],
         t.pc # "emit", t.old # None => Known(t.old)
  PROVE  RotationInv' /\ GoesOn
  <1>1. RotationTypeOK'
    BY DEF RotationInv, RotationTypeOK
  <1>2. \A q \in Sessions : tx'[q] = IF q = p THEN t ELSE tx[q]
    BY DEF RotationInv, RotationTypeOK
  <1>3. \A s : Known(s)' = Known(s)
    BY DEF Known
  <1>4. \A q \in Sessions : SessionOK(q)'
    BY <1>2, <1>3 DEF RotationInv, SessionOK
  <1> QED BY <1>1, <1>3, <1>4 DEF RotationInv, GoesOn, Known, Entries

LEMMA UnlockType ==
  ASSUME RotationInv, NEW p, Unlock(p) PROVE lock' \in [Secrets -> Sessions \cup {None}]
  BY DEF RotationInv, RotationTypeOK, Unlock

LEMMA TransactionBeginStep ==
  ASSUME RotationInv, NEW p \in Sessions, SeedBegin(p) \/ RotateBegin(p) \/ AutoBegin(p)
  PROVE  RotationInv' /\ GoesOn
  <1>1. now \in Nat /\ lock \in [Secrets -> Sessions \cup {None}] /\ Active \in SUBSET Secrets
    BY DEF RotationInv, RotationTypeOK, Active
  <1>2. CASE SeedBegin(p)
    <2> DEFINE t == [IdleTx EXCEPT !.op = "seed", !.pc = "insert", !.began = now]
    <2>1. t \in Tx /\ t.pc = "insert" /\ t.old = None
      BY <1>1, IdleTxType DEF IdleTx, Tx
    <2>2. tx' = [tx EXCEPT ![p] = t] /\ UNCHANGED <<now, secret, lock, stream, replaced>>
      BY <1>2 DEF SeedBegin
    <2> HIDE DEF t
    <2> QED BY <1>1, <2>1, <2>2, TxStep
  <1>3. CASE RotateBegin(p)
    <2> DEFINE t == [IdleTx EXCEPT !.op = "rotate", !.pc = "lock", !.began = now, !.seen = Active]
    <2>1. t \in Tx /\ t.pc = "lock" /\ t.old = None
      BY <1>1, IdleTxType DEF IdleTx, Tx
    <2>2. tx' = [tx EXCEPT ![p] = t] /\ UNCHANGED <<now, secret, lock, stream, replaced>>
      BY <1>3 DEF RotateBegin
    <2> HIDE DEF t
    <2> QED BY <1>1, <2>1, <2>2, TxStep
  <1>4. CASE AutoBegin(p)
    <2> DEFINE t == [IdleTx EXCEPT !.op = "auto", !.pc = "select", !.began = now]
    <2>1. t \in Tx /\ t.pc = "select" /\ t.old = None
      BY <1>1, IdleTxType DEF IdleTx, Tx
    <2>2. tx' = [tx EXCEPT ![p] = t] /\ UNCHANGED <<now, secret, lock, stream, replaced>>
      BY <1>4 DEF AutoBegin
    <2> HIDE DEF t
    <2> QED BY <1>1, <2>1, <2>2, TxStep
  <1> QED BY <1>2, <1>3, <1>4

\* The row found and locked is ACTIVE, so it is known.
LEMMA SelectStep ==
  ASSUME RotationInv, NEW p \in Sessions, AutoSelect(p) \/ RotateLock(p)
  PROVE  RotationInv' /\ GoesOn
  <1>1. lock \in [Secrets -> Sessions \cup {None}] /\ Active \in SUBSET Secrets /\ tx[p] \in Tx
        /\ \A s \in Active : Known(s)
    BY DEF RotationInv, RotationTypeOK, Active, Known
  <1>2. CASE AutoSelect(p)
    <2> DEFINE t == [tx[p] EXCEPT !.pc = "lock", !.seen = Active]
    <2>1. t \in Tx /\ t.pc = "lock" /\ t.old = tx[p].old
      BY <1>1 DEF Tx
    <2>2. tx' = [tx EXCEPT ![p] = t] /\ UNCHANGED <<now, secret, lock, stream, replaced>>
      BY <1>2 DEF AutoSelect
    <2> HIDE DEF t
    <2> QED BY <1>1, <2>1, <2>2, TxStep DEF RotationInv, SessionOK
  <1>3. CASE RotateLock(p)
    <2>1. PICK o \in Active \cup {None} : tx' = [tx EXCEPT ![p].pc = "flush", ![p].old = o]
      BY <1>3 DEF RotateLock
    <2> DEFINE t == [tx[p] EXCEPT !.pc = "flush", !.old = o]
    <2>2. t \in Tx /\ t.pc = "flush" /\ t.old = o
      BY <1>1 DEF Tx
    <2>3. tx' = [tx EXCEPT ![p] = t] /\ UNCHANGED <<now, secret, stream, replaced>>
          /\ lock' \in [Secrets -> Sessions \cup {None}]
      BY <1>1, <1>3, <2>1 DEF RotateLock
    <2> HIDE DEF t
    <2> QED BY <1>1, <2>1, <2>2, <2>3, TxStep
  <1> QED BY <1>2, <1>3

\* A lost connection forgets the transaction.
LEMMA RollbackStep ==
  ASSUME RotationInv, NEW p \in Sessions, Rollback(p) PROVE RotationInv' /\ GoesOn
  <1>1. IdleTx.pc = "idle" /\ IdleTx.old = None
    BY DEF IdleTx
  <1> QED BY <1>1, IdleTxType, TxStep, UnlockType DEF Rollback

LEMMA SeedCommitStep ==
  ASSUME RotationInv, NEW p \in Sessions, SeedCommit(p) PROVE RotationInv' /\ GoesOn
  <1>1. /\ tx' = [tx EXCEPT ![p] = IdleTx] /\ secret' = [secret EXCEPT ![Seed] = Row(tx[p].began)]
        /\ secret[Seed].status = "NONE" /\ UNCHANGED <<now, lock, stream, replaced>>
    BY DEF SeedCommit
  <1>2. Row(tx[p].began) \in SecretRow /\ Row(tx[p].began).status = "ACTIVE"
    BY DEF RotationInv, RotationTypeOK, Row, SecretRow, Tx
  <1>3. Seed \in Secrets /\ IdleTx.pc = "idle" /\ IdleTx.old = None /\ IdleTx \in Tx
    BY RotationAssumption, IdleTxType DEF IdleTx
  <1>4. \A s \in Secrets : secret'[s] = IF s = Seed THEN Row(tx[p].began) ELSE secret[s]
    BY <1>1 DEF RotationInv, RotationTypeOK
  <1>5. RotationTypeOK'
    BY <1>1, <1>2, <1>3 DEF RotationInv, RotationTypeOK
  <1>6. \A s \in Secrets : Known(s) => Known(s)'
    BY <1>1, <1>4 DEF Known
  <1>7. \A q \in Sessions : tx'[q] = IF q = p THEN IdleTx ELSE tx[q]
    BY <1>1 DEF RotationInv, RotationTypeOK
  <1>8. \A q \in Sessions : SessionOK(q)'
    <2>1. \A q \in Sessions : tx[q].old \in Secrets \cup {None}
      BY DEF RotationInv, RotationTypeOK, Tx
    <2> QED BY <1>3, <1>6, <1>7, <2>1 DEF RotationInv, SessionOK
  <1>9. \A s \in Secrets : replaced'[s] # None => secret'[replaced'[s]].status = "REVOKED"
    <2>1. \A s \in Secrets : replaced[s] # None => replaced[s] \in Secrets
      BY DEF RotationInv, RotationTypeOK
    <2> QED BY <1>1, <1>4, <2>1 DEF RotationInv
  <1>10. \A i \in Entries : stream[i] \in Secrets
    BY DEF RotationInv, Entries
  <1> QED BY <1>1, <1>5, <1>6, <1>8, <1>9, <1>10 DEF RotationInv, GoesOn, Entries

\* The secret that is new was none of those that were replaced or announced.
LEMMA RotateCommitStep ==
  ASSUME RotationInv, NEW p \in Sessions, NEW s \in Secrets, RotateCommit(p, s)
  PROVE  RotationInv' /\ GoesOn
  <1> DEFINE o == tx[p].old
             t == [IdleTx EXCEPT !.op = tx[p].op, !.pc = "emit", !.new = s]
  <1>1. /\ tx' = [tx EXCEPT ![p] = t] /\ secret[s].status = "NONE" /\ ~Known(s)
        /\ replaced' = [replaced EXCEPT ![s] = o] /\ Unlock(p)
        /\ UNCHANGED <<now, stream>>
    BY DEF RotateCommit, Known
  <1>2. /\ tx[p] \in Tx /\ o \in Secrets \cup {None} /\ (o # None => Known(o))
        /\ t \in Tx /\ t.pc = "emit" /\ t.new = s /\ t.old = None
    <2>1. tx[p] \in Tx
      BY DEF RotationInv, RotationTypeOK
    <2> QED BY <2>1, IdleTxType DEF RotationInv, SessionOK, IdleTx, Tx
  <1>3. Row(tx[p].began) \in SecretRow /\ Row(tx[p].began).status = "ACTIVE"
    BY <1>2 DEF Row, SecretRow, Tx
  <1>4. \A z \in Secrets :
          secret'[z] = IF z = s THEN Row(tx[p].began)
                       ELSE IF z = o THEN [secret[z] EXCEPT !.status = "REVOKED"] ELSE secret[z]
    BY DEF RotateCommit
  <1>5. \A z \in Secrets : secret[z] \in SecretRow
    BY DEF RotationInv, RotationTypeOK
  <1> HIDE DEF o, t
  <1>6. \A z \in Secrets : secret'[z] \in SecretRow
    BY <1>3, <1>4, <1>5 DEF SecretRow
  <1>7. secret' \in [Secrets -> SecretRow]
    BY <1>6 DEF RotateCommit
  <1>8. RotationTypeOK'
    BY <1>1, <1>2, <1>7, UnlockType DEF RotationInv, RotationTypeOK
  <1>9. /\ \A z \in Secrets : Known(z) => Known(z)'
        /\ Known(s)' /\ (o # None => secret'[o].status = "REVOKED")
        /\ \A z \in Secrets : secret[z].status = "REVOKED" => secret'[z].status = "REVOKED"
    BY <1>1, <1>2, <1>3, <1>4, <1>5 DEF Known, SecretRow
  <1>10. \A z \in Secrets : replaced'[z] = IF z = s THEN o ELSE replaced[z]
    BY <1>1 DEF RotationInv, RotationTypeOK
  <1>11. \A z \in Secrets : replaced'[z] # None => secret'[replaced'[z]].status = "REVOKED"
    <2>1. \A z \in Secrets : replaced[z] # None => replaced[z] \in Secrets
      BY DEF RotationInv, RotationTypeOK
    <2> QED BY <1>9, <1>10, <2>1 DEF RotationInv
  <1>12. \A q \in Sessions : SessionOK(q)'
    <2>1. \A q \in Sessions : tx'[q] = IF q = p THEN t ELSE tx[q]
      BY <1>1 DEF RotationInv, RotationTypeOK
    <2>2. \A q \in Sessions : tx[q].old \in Secrets \cup {None}
      BY DEF RotationInv, RotationTypeOK, Tx
    <2> QED BY <1>2, <1>9, <2>1, <2>2 DEF RotationInv, SessionOK
  <1>13. \A i \in Entries : stream[i] \in Secrets
    BY DEF RotationInv, Entries
  <1>14. \A z \in Secrets : Known(z) => replaced'[z] = replaced[z]
    BY <1>1, <1>10
  <1> QED BY <1>1, <1>8, <1>9, <1>11, <1>12, <1>13, <1>14 DEF RotationInv, GoesOn, Entries

\* What is announced has been committed.
LEMMA EmitStep ==
  ASSUME RotationInv, NEW p \in Sessions, Emit(p) PROVE RotationInv' /\ GoesOn
  <1> DEFINE new == tx[p].new
  <1>1. PICK n \in 0 .. XaddTries : stream' = stream \o [i \in 1 .. n |-> new]
    BY DEF Emit
  <1>2. new \in Secrets /\ Known(new) /\ n \in Nat /\ stream \in Seq(Secrets)
    BY RotationAssumption DEF Emit, RotationInv, SessionOK
  <1>3. tx' = [tx EXCEPT ![p] = IdleTx] /\ UNCHANGED <<now, secret, lock, replaced>>
    BY DEF Emit
  <1> HIDE DEF new
  <1>4. [i \in 1 .. n |-> new] \in Seq(Secrets) /\ Len([i \in 1 .. n |-> new]) = n
    BY <1>2
  <1>5. /\ stream' \in Seq(Secrets) /\ Len(stream') = Len(stream) + n
        /\ \A i \in 1 .. Len(stream') : stream'[i] = IF i <= Len(stream) THEN stream[i] ELSE new
    <2> DEFINE more == [i \in 1 .. n |-> new]
    <2>1. \A i \in 1 .. n : more[i] = new
      OBVIOUS
    <2>2. more \in Seq(Secrets) /\ Len(more) = n /\ stream' = stream \o more
      BY <1>1, <1>4
    <2> HIDE DEF more
    <2>3. /\ stream \o more \in Seq(Secrets) /\ Len(stream \o more) = Len(stream) + n
          /\ \A i \in 1 .. Len(stream) + n :
               (stream \o more)[i] = IF i <= Len(stream) THEN stream[i] ELSE more[i - Len(stream)]
      BY <1>2, <2>2, ConcatProperties
    <2>4. \A i \in 1 .. Len(stream) + n : i > Len(stream) => i - Len(stream) \in 1 .. n
      BY <1>2
    <2> QED BY <2>1, <2>2, <2>3, <2>4
  <1>6. \A i \in 1 .. Len(stream') : Known(stream'[i])
    BY <1>2, <1>5 DEF RotationInv, Entries
  <1>7. \A q \in Sessions : tx'[q] = IF q = p THEN IdleTx ELSE tx[q]
    BY <1>3 DEF RotationInv, RotationTypeOK
  <1>8. \A s : Known(s)' = Known(s)
    BY <1>3 DEF Known
  <1>9. RotationTypeOK'
    BY <1>3, IdleTxType DEF RotationInv, RotationTypeOK
  <1>10. \A q \in Sessions : SessionOK(q)'
    BY <1>7, <1>8 DEF RotationInv, SessionOK, IdleTx
  <1>11. \A i \in Entries' : Known(stream[i])'
    BY <1>6, <1>8 DEF Entries
  <1>12. GoesOn
    BY <1>2, <1>3, <1>5 DEF GoesOn, Entries, Known
  <1>13. \A s \in Secrets : replaced'[s] # None => secret'[replaced'[s]].status = "REVOKED"
    BY <1>3 DEF RotationInv
  <1> HIDE DEF GoesOn
  <1> QED BY <1>5, <1>9, <1>10, <1>11, <1>12, <1>13 DEF RotationInv

LEMMA RotationNextInv ==
  ASSUME RotationInv, RotationNext \/ UNCHANGED rotation PROVE RotationInv' /\ GoesOn
  <1>1. CASE Tick \/ UNCHANGED rotation
    <2>1. UNCHANGED <<secret, lock, tx, stream, replaced>> /\ now' \in Nat
      BY <1>1 DEF Tick, rotation, RotationInv, RotationTypeOK
    <2>2. RotationTypeOK'
      BY <2>1 DEF RotationInv, RotationTypeOK
    <2>3. \A s : Known(s)' = Known(s)
      BY <2>1 DEF Known
    <2>4. \A p \in Sessions : SessionOK(p)'
      BY <2>1, <2>3 DEF RotationInv, SessionOK
    <2>5. GoesOn
      BY <2>1, <2>3 DEF GoesOn, Entries, RotationInv
    <2>6. \A i \in Entries' : Known(stream[i])'
      BY <2>1 DEF Entries, Known, RotationInv
    <2> HIDE DEF GoesOn
    <2> QED BY <2>1, <2>2, <2>4, <2>5, <2>6 DEF RotationInv
  <1>2. Requests \subseteq Sessions /\ Rotator \in Sessions
    BY DEF Sessions
  <1> QED BY <1>1, <1>2, TransactionBeginStep, SelectStep, RollbackStep, SeedCommitStep, RotateCommitStep, EmitStep
      DEF RotationNext

-----------------------------------------------------------------------------
(* The worker                                                              *)

\* A rotation goes on behind the worker's back: entries stay where they are.
LEMMA RotationStep ==
  ASSUME BroadcastInv, RotationNext \/ UNCHANGED rotation, UNCHANGED broadcast
  PROVE  BroadcastInv'
  <1>1. RotationInv' /\ GoesOn
    BY RotationNextInv DEF BroadcastInv
  <1>2. UNCHANGED <<next, unseen, pending, worker, idem, cooling, slots, sent, dms, due, settled>>
    BY DEF broadcast, markers
  <1>3. Entries \subseteq Entries' /\ \A i \in Entries : stream'[i] = stream[i]
    <2>1. Len(stream) \in Nat /\ Len(stream') \in Nat
      BY <1>1 DEF BroadcastInv, RotationInv
    <2> QED BY <1>1, <2>1 DEF GoesOn, Entries
  <1> USE DEF BroadcastInv
  <1>4. TypeOK'
    BY <1>1, <1>2, <1>3 DEF TypeOK, RotationInv
  <1>5. EntryInv'
    BY <1>2, <1>3 DEF EntryInv, InHand
  <1>6. MarkerInv'
    <2>1. \A h \in settled : h[1] \in Entries
      BY DEF MarkerInv
    <2>2. InHand => worker.entry \in Entries
      BY DEF EntryInv, InHand, HandPlaces
    <2>3. settled' \subseteq Entries' \X Users \X Endings
      BY <1>2, <1>3 DEF MarkerInv
    <2>4. InHand' = InHand
      BY <1>2 DEF InHand
    <2> QED BY <1>2, <1>3, <2>1, <2>2, <2>3, <2>4 DEF MarkerInv, Event
  <1>7. OneAnswerPerEvent'
    <2>1. \A h \in settled : h[1] \in Entries
      BY DEF MarkerInv
    <2> QED BY <1>2, <1>3, <2>1 DEF OneAnswerPerEvent
  <1>8. DueInv' /\ AckMeansSettled'
    BY <1>2 DEF DueInv, AckMeansSettled, InHand, Settled
  <1>9. LinkInv' /\ NeverTheOldLink'
    <2>1. \A d \in dms : d.event \in Secrets
      BY DEF TypeOK
    <2> QED BY <1>1, <1>2, <2>1 DEF LinkInv, NeverTheOldLink, GoesOn
  <1> QED BY <1>1, <1>4, <1>5, <1>6, <1>7, <1>8, <1>9

\* What a step of the worker leaves alone.
LEMMA RotationStays ==
  ASSUME BroadcastInv, UNCHANGED rotation
  PROVE  /\ RotationInv' /\ RotationTypeOK' /\ Entries' = Entries
         /\ UNCHANGED <<secret, stream, replaced>>
  BY RotationNextInv DEF BroadcastInv, RotationInv, Entries, rotation

LEMMA DmsStay ==
  ASSUME BroadcastInv, UNCHANGED <<rotation, dms>>
  PROVE  LinkInv' /\ NeverTheOldLink'
  BY RotationStays DEF BroadcastInv, LinkInv, NeverTheOldLink, Known

\* What is settled stays settled.
LEMMA AckStays ==
  ASSUME BroadcastInv, settled \subseteq settled', UNCHANGED <<next, unseen, pending, due>>
  PROVE  AckMeansSettled'
  BY DEF BroadcastInv, AckMeansSettled

\* A message carries a secret that is ACTIVE, and what a secret replaced is not.
LEMMA MessageStep ==
  ASSUME BroadcastInv, InHand, NEW s \in Secrets, Message(s), UNCHANGED rotation
  PROVE  /\ dms' \subseteq [event : Secrets, user : Users, link : Secrets]
         /\ LinkInv' /\ NeverTheOldLink'
  <1>1. Event \in Secrets /\ Known(Event) /\ worker.to \in Users
    <2>1. worker.entry \in Entries /\ worker.to \in Users
      BY DEF BroadcastInv, EntryInv, InHand, HandPlaces
    <2>2. Len(stream) \in Nat /\ stream \in [1 .. Len(stream) -> Secrets]
      BY DEF BroadcastInv, RotationInv
    <2> QED BY <2>1, <2>2 DEF BroadcastInv, RotationInv, Event, Entries
  <1>2. s # replaced[Event]
    <2>1. secret[s].status = "ACTIVE" /\ s # None
      BY RotationAssumption DEF Message, Oldest, Active
    <2> QED BY <1>1, <2>1 DEF BroadcastInv, RotationInv
  <1>3. UNCHANGED <<secret, replaced>>
    BY RotationStays
  <1>4. dms' = dms \cup {[event |-> Event, user |-> worker.to, link |-> s]}
    BY DEF Message
  <1>5. dms \subseteq [event : Secrets, user : Users, link : Secrets]
    BY DEF BroadcastInv, TypeOK
  <1>6. \A d \in dms' : d \in dms \/ (d.event = Event /\ d.link = s)
    BY <1>4
  <1> HIDE DEF Event
  <1>7. LinkInv' /\ NeverTheOldLink'
    BY <1>1, <1>2, <1>3, <1>6 DEF BroadcastInv, LinkInv, NeverTheOldLink, Known
  <1> QED BY <1>1, <1>4, <1>5, <1>7

\* Redis expires a marker.
LEMMA ExpiryStep ==
  ASSUME BroadcastInv, UNCHANGED <<rotation, next, unseen, pending, worker, idem, dms, due, settled>>,
         cooling' \subseteq Users, slots' \subseteq Users, sent' \in 0 .. PerSecond
  PROVE  BroadcastInv'
  <1>1. UNCHANGED <<next, unseen, pending, worker, idem, dms, due, settled>>
    OBVIOUS
  <1>2. RotationInv' /\ RotationTypeOK' /\ Entries' = Entries /\ UNCHANGED stream
    BY RotationStays
  <1> USE DEF BroadcastInv
  <1>3. TypeOK'
    BY <1>1, <1>2 DEF TypeOK
  <1>4. EntryInv'
    BY <1>1, <1>2 DEF EntryInv, InHand
  <1>5. MarkerInv' /\ OneAnswerPerEvent'
    BY <1>1, <1>2 DEF MarkerInv, OneAnswerPerEvent, InHand, Event
  <1>6. DueInv' /\ AckMeansSettled'
    BY <1>1 DEF DueInv, AckMeansSettled, InHand, Settled
  <1>7. LinkInv' /\ NeverTheOldLink'
    BY DmsStay
  <1> QED BY <1>2, <1>3, <1>4, <1>5, <1>6, <1>7

\* The recipient stays in hand.
LEMMA HandStep ==
  ASSUME BroadcastInv, InHand, NEW l \in HandPlaces, worker' \in Worker, worker'.pc = l,
         worker'.entry = worker.entry, worker'.to = worker.to, worker'.todo = worker.todo,
         UNCHANGED <<rotation, next, unseen, pending, idem, due, settled>>,
         cooling' \subseteq Users, slots' \subseteq Users, sent' \in 0 .. PerSecond,
         UNCHANGED dms \/ \E s \in Secrets : Message(s)
  PROVE  BroadcastInv'
  <1>1. UNCHANGED <<next, unseen, pending, idem, due, settled>>
    OBVIOUS
  <1>2. RotationInv' /\ RotationTypeOK' /\ Entries' = Entries /\ UNCHANGED stream
    BY RotationStays
  <1>3. InHand'
    BY DEF InHand
  <1>4. /\ LinkInv' /\ NeverTheOldLink'
        /\ dms' \subseteq [event : Secrets, user : Users, link : Secrets]
    BY DmsStay, MessageStep DEF BroadcastInv, TypeOK
  <1> USE DEF BroadcastInv
  <1>5. TypeOK'
    BY <1>1, <1>2, <1>3, <1>4 DEF TypeOK
  <1>6. worker.pc # "poll" /\ worker.pc # "resolve" /\ l # "poll" /\ l # "resolve"
    BY DEF InHand, HandPlaces
  <1>7. EntryInv'
    BY <1>1, <1>2, <1>3, <1>6 DEF EntryInv
  <1>8. Event' = Event
    BY <1>2, <1>3 DEF Event
  <1>9. MarkerInv' /\ OneAnswerPerEvent'
    BY <1>1, <1>2, <1>3, <1>8 DEF MarkerInv, OneAnswerPerEvent
  <1>10. DueInv' /\ AckMeansSettled'
    BY <1>1, <1>3, <1>6 DEF DueInv, AckMeansSettled, InHand, Settled
  <1> QED BY <1>2, <1>4, <1>5, <1>7, <1>9, <1>10

\* The steps between the marker and the answer.
LEMMA BetweenStep ==
  ASSUME BroadcastInv,
         Cooldown \/ ChatSlot \/ GlobalSlot \/ PostSkipped \/ PostFails \/ \E s \in Secrets : PostSent(s)
  PROVE  BroadcastInv'
  <1>1. /\ worker \in Worker /\ cooling \subseteq Users /\ slots \subseteq Users
        /\ sent \in 0 .. PerSecond
    BY DEF BroadcastInv, TypeOK
  <1>2. worker.to \in Users /\ InHand
    BY DEF BroadcastInv, EntryInv, InHand, HandPlaces, Cooldown, ChatSlot, GlobalSlot, PostSkipped,
           PostFails, PostSent
  <1>3. ASSUME NEW l \in HandPlaces, Goto(l)
        PROVE  /\ worker' \in Worker /\ worker'.pc = l
               /\ worker'.entry = worker.entry /\ worker'.to = worker.to /\ worker'.todo = worker.todo
    BY <1>1, <1>3 DEF Goto, Worker, HandPlaces
  <1>4. ASSUME GiveUp
        PROVE  /\ worker' \in Worker /\ worker'.pc = "release"
               /\ worker'.entry = worker.entry /\ worker'.to = worker.to /\ worker'.todo = worker.todo
    BY <1>1, <1>4 DEF GiveUp, Worker
  <1>5. {"release", "slot", "global", "post", "mark"} \subseteq HandPlaces
    BY DEF HandPlaces
  <1>6. CASE Cooldown
    <2>1. UNCHANGED <<rotation, next, unseen, pending, markers, dms, due, settled>>
          /\ (Goto("release") \/ Goto("slot"))
      BY <1>6 DEF Cooldown
    <2>2. UNCHANGED <<idem, cooling, slots, sent>>
      BY <2>1 DEF markers
    <2> QED BY <1>1, <1>2, <1>3, <1>5, <2>1, <2>2, HandStep
  <1>7. CASE ChatSlot
    <2>1. UNCHANGED <<rotation, next, unseen, pending, idem, cooling, sent, dms, due, settled>>
          /\ slots' \subseteq Users /\ (GiveUp \/ Goto("global"))
      BY <1>1, <1>2, <1>7 DEF ChatSlot
    <2> QED BY <1>1, <1>2, <1>3, <1>4, <1>5, <2>1, HandStep
  <1>8. CASE GlobalSlot
    <2>1. UNCHANGED <<rotation, next, unseen, pending, idem, cooling, dms, due, settled>>
          /\ slots' \subseteq Users /\ (GiveUp \/ Goto("post"))
      BY <1>1, <1>8 DEF GlobalSlot
    <2>2. sent' \in 0 .. PerSecond
      BY <1>1, <1>8, BroadcastAssumption DEF GlobalSlot
    <2> QED BY <1>1, <1>2, <1>3, <1>4, <1>5, <2>1, <2>2, HandStep
  <1>9. CASE PostSkipped \/ \E s \in Secrets : PostSent(s)
    <2>1. UNCHANGED <<rotation, next, unseen, pending, markers, due, settled>> /\ Goto("mark")
          /\ (UNCHANGED dms \/ \E s \in Secrets : Message(s))
      BY <1>9 DEF PostSkipped, PostSent
    <2>2. UNCHANGED <<idem, cooling, slots, sent>>
      BY <2>1 DEF markers
    <2> QED BY <1>1, <1>2, <1>3, <1>5, <2>1, <2>2, HandStep
  <1>10. CASE PostFails
    <2>1. UNCHANGED <<rotation, next, unseen, pending, markers, due, settled>> /\ GiveUp
          /\ (UNCHANGED dms \/ \E s \in Secrets : Message(s))
      BY <1>10 DEF PostFails
    <2>2. UNCHANGED <<idem, cooling, slots, sent>>
      BY <2>1 DEF markers
    <2> QED BY <1>1, <1>2, <1>4, <1>5, <2>1, <2>2, HandStep
  <1> QED BY <1>6, <1>7, <1>8, <1>9, <1>10

LEMMA DueIsPair ==
  ASSUME BroadcastInv, NEW d \in due PROVE d = <<d[1], d[2]>>
  BY DEF BroadcastInv, TypeOK

\* The recipient in hand is through: nobody else was answered under its marker,
\* which is given back only by one who has not been answered.
LEMMA ThroughStep ==
  ASSUME BroadcastInv, InHand, NEW how \in Endings,
         settled' = settled \cup {<<worker.entry, worker.to, how>>},
         idem' = idem \/ (idem' = idem \ {<<Event, worker.to>>} /\ how # "answered"),
         worker' \in Worker,
         \/ worker'.pc = "poll"
         \/ /\ worker'.pc = "loop" /\ worker'.entry = worker.entry
            /\ worker'.todo = worker.todo /\ how # "given up",
         UNCHANGED <<rotation, next, unseen, pending, slots, sent, dms, due>>, cooling' \subseteq Users
  PROVE  BroadcastInv'
  <1>1. UNCHANGED <<next, unseen, pending, slots, sent, dms, due>> /\ worker'.pc \in {"poll", "loop"}
    OBVIOUS
  <1>2. RotationInv' /\ RotationTypeOK' /\ Entries' = Entries /\ UNCHANGED stream
    BY RotationStays
  <1>3. worker.entry \in Entries /\ worker.to \in Users /\ ~InHand'
    BY <1>1 DEF BroadcastInv, EntryInv, InHand, HandPlaces
  <1> USE DEF BroadcastInv
  <1>4. TypeOK'
    <2>1. idem' \subseteq Secrets \X Users
      BY DEF TypeOK
    <2> QED BY <1>1, <1>2, <2>1 DEF TypeOK
  <1>5. EntryInv'
    BY <1>1, <1>2, <1>3 DEF EntryInv, InHand, HandPlaces
  <1>6. \A h \in settled : h[3] = "answered" =>
          stream[h[1]] # Event \/ h[2] # worker.to
    BY DEF MarkerInv
  <1>7. <<Event, worker.to>> \in idem
    BY DEF MarkerInv
  <1> DEFINE mine == <<worker.entry, worker.to, how>>
  <1>8. mine[1] = worker.entry /\ mine[2] = worker.to /\ mine[3] = how /\ stream[mine[1]] = Event
        /\ settled' = settled \cup {mine}
    BY DEF Event
  <1>9. mine \in Entries \X Users \X Endings
    BY <1>3
  <1> HIDE DEF mine
  <1>10. \A h \in settled' : h \in settled \/ h = mine
    BY <1>8
  <1>11. MarkerInv'
    <2>1. settled' \subseteq Entries' \X Users \X Endings
      BY <1>2, <1>8, <1>9 DEF MarkerInv
    <2>2. ASSUME NEW h \in settled', h[3] = "answered"
          PROVE  <<stream[h[1]], h[2]>> \in idem'
      <3>1. CASE h = mine
        BY <2>2, <3>1, <1>7, <1>8
      <3>2. CASE h \in settled
        <4>1. <<stream[h[1]], h[2]>> \in idem
          BY <2>2, <3>2 DEF MarkerInv
        <4>2. <<stream[h[1]], h[2]>> # <<Event, worker.to>>
          BY <2>2, <3>2, <1>6
        <4> QED BY <4>1, <4>2
      <3> QED BY <3>1, <3>2, <1>10
    <2> QED BY <1>2, <1>3, <2>1, <2>2 DEF MarkerInv
  <1>12. OneAnswerPerEvent'
    <2> SUFFICES ASSUME NEW a \in settled', NEW b \in settled', a[3] = "answered", b[3] = "answered",
                        a[2] = b[2], stream[a[1]] = stream[b[1]]
                 PROVE  a = b
      BY <1>2 DEF OneAnswerPerEvent
    <2>1. CASE a \in settled /\ b \in settled
      BY <2>1 DEF OneAnswerPerEvent
    <2>2. CASE a = mine
      BY <2>2, <1>6, <1>8, <1>10
    <2>3. CASE b = mine
      BY <2>3, <1>6, <1>8, <1>10
    <2> QED BY <2>1, <2>2, <2>3, <1>10
  <1>13. DueInv'
    <2> SUFFICES ASSUME worker'.pc = "loop", NEW d \in due, d[1] = worker.entry
                 PROVE  d[2] \in worker.todo \/ Settled(d)'
      BY <1>1, <1>3 DEF DueInv, HandPlaces
    <2>1. d[2] \in worker.todo \/ d[2] = worker.to \/ Settled(d)
      BY DEF DueInv, InHand
    <2>2. CASE d[2] = worker.to
      <3>1. d = <<d[1], d[2]>>
        BY DueIsPair
      <3>2. mine[3] # "given up" /\ mine \in settled'
        BY <1>8
      <3> QED BY <2>2, <3>1, <3>2, <1>8 DEF Settled
    <2>3. CASE Settled(d)
      BY <2>3 DEF Settled
    <2> QED BY <2>1, <2>2, <2>3
  <1>14. AckMeansSettled'
    BY <1>1, <1>8, AckStays
  <1>15. LinkInv' /\ NeverTheOldLink'
    BY DmsStay
  <1> QED BY <1>2, <1>4, <1>5, <1>11, <1>12, <1>13, <1>14, <1>15

LEMMA RecipientEndStep ==
  ASSUME BroadcastInv, MarkSent \/ PostRejected \/ Release
  PROVE  BroadcastInv'
  <1>1. worker \in Worker /\ cooling \subseteq Users /\ Polling \in Worker /\ Polling.pc = "poll"
    BY DEF BroadcastInv, TypeOK, Polling, Worker
  <1>2. worker.to \in Users /\ InHand
    BY DEF BroadcastInv, EntryInv, InHand, HandPlaces, MarkSent, PostRejected, Release
  <1>3. ASSUME NEW how, Settle(how)
        PROVE  /\ worker' \in Worker /\ worker'.pc = "loop" /\ worker'.entry = worker.entry
               /\ worker'.todo = worker.todo
               /\ settled' = settled \cup {<<worker.entry, worker.to, how>>}
    BY <1>1, <1>3 DEF Settle, Worker
  <1>4. {"answered", "rejected", "cooling", "given up"} \subseteq Endings
    BY DEF Endings
  <1>5. CASE MarkSent
    <2>1. UNCHANGED <<rotation, next, unseen, pending, idem, slots, sent, dms, due>>
          /\ Settle("answered") /\ cooling' \subseteq Users
      BY <1>1, <1>2, <1>5 DEF MarkSent
    <2> QED BY <1>2, <1>3, <1>4, <2>1, ThroughStep
  <1>6. CASE PostRejected
    <2>1. UNCHANGED <<rotation, next, unseen, pending, markers, dms, due>> /\ Settle("rejected")
      BY <1>6 DEF PostRejected
    <2>2. UNCHANGED <<idem, cooling, slots, sent>>
      BY <2>1 DEF markers
    <2> QED BY <1>1, <1>2, <1>3, <1>4, <2>1, <2>2, ThroughStep
  <1>7. CASE Release
    <2>1. UNCHANGED <<rotation, next, unseen, pending, cooling, slots, sent, dms, due>>
          /\ idem' = idem \ {<<Event, worker.to>>}
      BY <1>7 DEF Release
    <2>2. CASE worker.stop
      <3>1. worker' = Polling /\ settled' = settled \cup {<<worker.entry, worker.to, "given up">>}
        BY <1>7, <2>2 DEF Release
      <3> QED BY <1>1, <1>2, <1>4, <2>1, <3>1, ThroughStep
    <2>3. CASE ~worker.stop
      <3>1. Settle("cooling")
        BY <1>7, <2>3 DEF Release
      <3> QED BY <1>1, <1>2, <1>3, <1>4, <2>1, <3>1, ThroughStep
    <2> QED BY <2>2, <2>3
  <1> QED BY <1>5, <1>6, <1>7

\* An entry is read once; nobody has been resolved for it.
LEMMA PollStep == ASSUME BroadcastInv, Poll PROVE BroadcastInv'
  <1>1. /\ UNCHANGED <<idem, cooling, slots, sent, dms, due, settled>>
        /\ UNCHANGED rotation /\ UNCHANGED <<rotation, dms>>
        /\ next \in Entries /\ next' = next + 1 /\ pending' = pending \cup {next}
        /\ worker.pc = "poll"
        /\ worker' \in {[worker EXCEPT !.pc = "resolve", !.entry = next], worker}
        /\ unseen' \subseteq unseen \cup {next}
    BY DEF Poll, markers
  <1>2. RotationInv' /\ RotationTypeOK' /\ Entries' = Entries /\ UNCHANGED stream
    BY <1>1, RotationStays
  <1> USE DEF BroadcastInv
  <1>3. /\ worker' \in Worker /\ worker'.pc \in {"poll", "resolve"} /\ ~InHand'
        /\ worker'.pc = "resolve" => worker'.entry = next
    BY <1>1, <1>2 DEF TypeOK, Worker, Entries, InHand, HandPlaces
  <1>4. next \in Nat /\ \A d \in due : d[1] < next /\ d[1] \in Nat
    BY <1>1 DEF EntryInv, Entries, TypeOK
  <1>5. TypeOK'
    BY <1>1, <1>2, <1>3, <1>4 DEF TypeOK
  <1>6. EntryInv'
    <2>1. \A i \in pending : i \in Nat /\ i < next
      BY DEF EntryInv, Entries
    <2>2. pending' \subseteq Entries' /\ \A i \in pending' : i < next'
      BY <1>1, <1>2, <1>4, <2>1 DEF EntryInv
    <2>3. next' \in Nat \ {0} /\ \A d \in due' : d[1] < next'
      BY <1>1, <1>4
    <2> QED BY <1>1, <1>3, <2>2, <2>3 DEF EntryInv
  <1>7. MarkerInv' /\ OneAnswerPerEvent'
    BY <1>1, <1>2, <1>3 DEF MarkerInv, OneAnswerPerEvent
  <1>8. DueInv'
    BY <1>1, <1>3, <1>4 DEF DueInv, HandPlaces
  <1>9. AckMeansSettled'
    BY <1>1, <1>4 DEF AckMeansSettled
  <1>10. LinkInv' /\ NeverTheOldLink'
    BY <1>1, DmsStay
  <1> QED BY <1>2, <1>5, <1>6, <1>7, <1>8, <1>9, <1>10

LEMMA PollingType == Polling \in Worker /\ Polling.pc = "poll"
  BY DEF Polling, Worker

\* The worker starts over: the entry is acknowledged when no recipient is left,
\* and pending when it crashed.
LEMMA StartOver ==
  ASSUME BroadcastInv, Acknowledge \/ Crash PROVE BroadcastInv'
  <1>1. /\ UNCHANGED <<next, unseen, idem, cooling, slots, sent, dms, due, settled>>
        /\ UNCHANGED rotation /\ UNCHANGED <<rotation, dms>>
        /\ worker' = Polling /\ pending' \subseteq pending
        /\ \/ pending' = pending
           \/ /\ pending' = pending \ {worker.entry}
              /\ worker.pc = "loop" /\ worker.todo = {}
    BY DEF Acknowledge, Crash, markers
  <1>2. RotationInv' /\ RotationTypeOK' /\ Entries' = Entries /\ UNCHANGED stream
    BY <1>1, RotationStays
  <1> USE DEF BroadcastInv
  <1>3. worker' \in Worker /\ worker'.pc = "poll" /\ ~InHand'
    BY <1>1, PollingType DEF InHand, HandPlaces
  <1>4. TypeOK'
    BY <1>1, <1>2, <1>3 DEF TypeOK
  <1>5. EntryInv'
    BY <1>1, <1>2, <1>3 DEF EntryInv
  <1>6. MarkerInv' /\ OneAnswerPerEvent'
    BY <1>1, <1>2, <1>3 DEF MarkerInv, OneAnswerPerEvent
  <1>7. DueInv'
    BY <1>3 DEF DueInv, HandPlaces
  <1>8. AckMeansSettled'
    <2>1. CASE pending' = pending
      BY <1>1, <2>1, AckStays
    <2>2. CASE worker.pc = "loop" /\ worker.todo = {} /\ pending' = pending \ {worker.entry}
      <3>1. \A d \in due : d[1] = worker.entry => Settled(d)
        BY <2>2 DEF DueInv, InHand, HandPlaces
      <3> QED BY <1>1, <2>2, <3>1 DEF AckMeansSettled, Settled
    <2> QED BY <1>1, <2>1, <2>2
  <1>9. LinkInv' /\ NeverTheOldLink'
    BY <1>1, DmsStay
  <1> QED BY <1>2, <1>4, <1>5, <1>6, <1>7, <1>8, <1>9

LEMMA ResolveStep == ASSUME BroadcastInv, Resolve PROVE BroadcastInv'
  <1>1. PICK who \in SUBSET Users :
          /\ worker' = [worker EXCEPT !.pc = "loop", !.todo = who]
          /\ due' = due \cup {<<worker.entry, u>> : u \in who}
    BY DEF Resolve
  <1>2. /\ UNCHANGED <<next, unseen, pending, idem, cooling, slots, sent, dms, settled>>
        /\ UNCHANGED rotation /\ UNCHANGED <<rotation, dms>> /\ worker.pc = "resolve"
    BY DEF Resolve, markers
  <1>3. RotationInv' /\ RotationTypeOK' /\ Entries' = Entries /\ UNCHANGED stream
    BY <1>2, RotationStays
  <1> USE DEF BroadcastInv
  <1>4. /\ worker' \in Worker /\ worker'.pc = "loop" /\ ~InHand'
        /\ worker'.entry = worker.entry /\ worker'.todo = who
    BY <1>1 DEF TypeOK, Worker, InHand, HandPlaces
  <1>5. worker.entry \in pending /\ worker.entry \in Entries /\ worker.entry < next
    BY <1>2 DEF EntryInv
  <1>6. \A d \in due' : d \in due \/ (d[1] = worker.entry /\ d[2] \in who /\ d \in Entries \X Users)
    BY <1>1, <1>5
  <1>7. TypeOK'
    BY <1>2, <1>3, <1>4, <1>6 DEF TypeOK
  <1>8. EntryInv'
    BY <1>2, <1>3, <1>4, <1>5, <1>6 DEF EntryInv
  <1>9. MarkerInv' /\ OneAnswerPerEvent'
    BY <1>2, <1>3, <1>4 DEF MarkerInv, OneAnswerPerEvent
  <1>10. DueInv'
    <2>1. \A d \in due : d[1] # worker.entry
      BY <1>2 DEF DueInv
    <2> QED BY <1>4, <1>6, <2>1 DEF DueInv
  <1>11. AckMeansSettled'
    BY <1>2, <1>5, <1>6 DEF AckMeansSettled
  <1>12. LinkInv' /\ NeverTheOldLink'
    BY <1>2, DmsStay
  <1> QED BY <1>3, <1>7, <1>8, <1>9, <1>10, <1>11, <1>12

\* A marker that was not there: nobody has been answered under it.
LEMMA ClaimStep == ASSUME BroadcastInv, NEW u \in Users, Claim(u) PROVE BroadcastInv'
  <1>1. /\ UNCHANGED <<next, unseen, pending, cooling, slots, sent, dms, due, settled>>
        /\ UNCHANGED rotation /\ UNCHANGED <<rotation, dms>>
        /\ worker.pc = "loop" /\ u \in worker.todo
        /\ worker' = [worker EXCEPT !.pc = "cooldown", !.todo = worker.todo \ {u}, !.to = u]
        /\ <<Event, u>> \notin idem /\ idem' = idem \cup {<<Event, u>>}
    BY DEF Claim
  <1>2. RotationInv' /\ RotationTypeOK' /\ Entries' = Entries /\ UNCHANGED stream
    BY <1>1, RotationStays
  <1> USE DEF BroadcastInv
  <1>3. /\ worker' \in Worker /\ worker'.pc = "cooldown" /\ InHand'
        /\ worker'.entry = worker.entry /\ worker'.todo = worker.todo \ {u} /\ worker'.to = u
    BY <1>1 DEF TypeOK, Worker, InHand, HandPlaces
  <1>4. Event' = Event /\ Event \in Secrets
    <2>1. worker.entry \in Entries
      BY <1>1 DEF EntryInv
    <2>2. Len(stream) \in Nat /\ stream \in [1 .. Len(stream) -> Secrets]
      BY DEF RotationInv
    <2> QED BY <1>2, <1>3, <2>1, <2>2 DEF Event, Entries
  <1>5. TypeOK'
    <2>1. idem' \subseteq Secrets \X Users
      BY <1>1, <1>4 DEF TypeOK
    <2> QED BY <1>1, <1>2, <1>3, <2>1 DEF TypeOK
  <1>6. EntryInv'
    BY <1>1, <1>2, <1>3 DEF EntryInv
  <1>7. MarkerInv'
    <2>1. \A h \in settled : h[3] = "answered" => stream[h[1]] # Event \/ h[2] # u
      BY <1>1 DEF MarkerInv
    <2> QED BY <1>1, <1>2, <1>3, <1>4, <2>1 DEF MarkerInv
  <1>8. OneAnswerPerEvent'
    BY <1>1, <1>2 DEF OneAnswerPerEvent
  <1>9. DueInv' /\ AckMeansSettled'
    BY <1>1, <1>3 DEF DueInv, AckMeansSettled, InHand, HandPlaces, Settled
  <1>10. LinkInv' /\ NeverTheOldLink'
    BY <1>1, DmsStay
  <1> QED BY <1>2, <1>5, <1>6, <1>7, <1>8, <1>9, <1>10

LEMMA DuplicateStep == ASSUME BroadcastInv, NEW u \in Users, Duplicate(u) PROVE BroadcastInv'
  <1> DEFINE found == <<worker.entry, u, "duplicate">>
  <1>1. /\ UNCHANGED <<next, unseen, pending, idem, cooling, slots, sent, dms, due>>
        /\ UNCHANGED rotation /\ UNCHANGED <<rotation, dms>>
        /\ worker.pc = "loop" /\ u \in worker.todo
        /\ worker' = [worker EXCEPT !.todo = worker.todo \ {u}]
        /\ settled' = settled \cup {found}
    BY DEF Duplicate, markers
  <1>2. RotationInv' /\ RotationTypeOK' /\ Entries' = Entries /\ UNCHANGED stream
    BY <1>1, RotationStays
  <1> USE DEF BroadcastInv
  <1>3. /\ worker' \in Worker /\ worker'.pc = "loop" /\ ~InHand'
        /\ worker'.entry = worker.entry /\ worker'.todo = worker.todo \ {u}
    BY <1>1 DEF TypeOK, Worker, InHand, HandPlaces
  <1>4. worker.entry \in Entries
    BY <1>1 DEF EntryInv
  <1>5. /\ found \in Entries \X Users \X Endings
        /\ found[1] = worker.entry /\ found[2] = u /\ found[3] = "duplicate"
    BY <1>4 DEF Endings
  <1> HIDE DEF found
  <1>6. TypeOK' /\ EntryInv'
    BY <1>1, <1>2, <1>3 DEF TypeOK, EntryInv
  <1>7. MarkerInv' /\ OneAnswerPerEvent'
    BY <1>1, <1>2, <1>3, <1>5 DEF MarkerInv, OneAnswerPerEvent
  <1>8. DueInv'
    <2> SUFFICES ASSUME NEW d \in due, d[1] = worker.entry
                 PROVE  d[2] \in worker.todo \ {u} \/ Settled(d)'
      BY <1>1, <1>3 DEF DueInv, HandPlaces
    <2>1. d[2] \in worker.todo \/ Settled(d)
      BY <1>1 DEF DueInv, InHand, HandPlaces
    <2>2. CASE d[2] = u
      <3>1. d = <<d[1], d[2]>>
        BY DueIsPair
      <3>2. found[3] # "given up" /\ found \in settled'
        BY <1>1, <1>5
      <3> QED BY <2>2, <3>1, <3>2, <1>5 DEF Settled
    <2>3. CASE Settled(d)
      BY <1>1, <2>3 DEF Settled
    <2> QED BY <2>1, <2>2, <2>3
  <1>9. AckMeansSettled'
    BY <1>1, AckStays
  <1>10. LinkInv' /\ NeverTheOldLink'
    BY <1>1, DmsStay
  <1> QED BY <1>2, <1>6, <1>7, <1>8, <1>9, <1>10

-----------------------------------------------------------------------------
(* The theorem                                                             *)

LEMMA BroadcastInitInv == Init => BroadcastInv
  <1> SUFFICES ASSUME Init PROVE BroadcastInv
    OBVIOUS
  <1>1. /\ stream = <<>> /\ pending = {} /\ unseen = {} /\ dms = {} /\ due = {} /\ settled = {} /\ next = 1
        /\ idem = {} /\ cooling = {} /\ slots = {} /\ sent = 0 /\ worker = Polling
    BY DEF Init, RotationInit
  <1>2. RotationTypeOK
    BY RotationAssumption, IdleTxType DEF Init, RotationInit, RotationTypeOK, SecretRow
  <1>3. RotationInv
    BY <1>2, RotationAssumption DEF Init, RotationInit, RotationInv, Entries, SessionOK, IdleTx
  <1>4. TypeOK
    BY <1>1, <1>2, PollingType, BroadcastAssumption DEF TypeOK
  <1>5. EntryInv /\ MarkerInv /\ DueInv
    BY <1>1, PollingType DEF EntryInv, MarkerInv, DueInv, InHand, HandPlaces
  <1>6. OneAnswerPerEvent /\ AckMeansSettled /\ LinkInv /\ NeverTheOldLink
    BY <1>1 DEF OneAnswerPerEvent, AckMeansSettled, LinkInv, NeverTheOldLink
  <1> QED BY <1>3, <1>4, <1>5, <1>6 DEF BroadcastInv

LEMMA BroadcastStep == BroadcastInv /\ [Next]_vars => BroadcastInv'
  <1> SUFFICES ASSUME BroadcastInv, [Next]_vars PROVE BroadcastInv'
    OBVIOUS
  <1>1. CASE UNCHANGED broadcast /\ (RotationNext \/ UNCHANGED rotation)
    BY <1>1, RotationStep
  <1>2. CASE WorkerStep
    BY <1>2, PollStep, StartOver, ResolveStep, ClaimStep, DuplicateStep, BetweenStep, RecipientEndStep
       DEF WorkerStep
  <1>3. CASE Crash
    BY <1>3, StartOver
  <1>4. CASE NextSecond \/ \E u \in Users : CooldownExpires(u) \/ SlotExpires(u)
    <2>1. /\ UNCHANGED <<rotation, next, unseen, pending, worker, idem, dms, due, settled>>
          /\ cooling' \subseteq Users /\ slots' \subseteq Users /\ sent' \in 0 .. PerSecond
      BY <1>4, BroadcastAssumption
         DEF BroadcastInv, TypeOK, NextSecond, CooldownExpires, SlotExpires
    <2> QED BY <2>1, ExpiryStep
  <1> QED BY <1>1, <1>2, <1>3, <1>4 DEF Next, vars

\* The inductive invariant of the rotation, the worker and the bot's endpoint.
THEOREM BroadcastSafety == Spec => []BroadcastInv
  BY BroadcastInitInv, BroadcastStep, PTL DEF Spec

\* The state of the rotations, of the worker and of its markers keeps its type.
THEOREM BroadcastTyped == Spec => []TypeOK
  <1>1. BroadcastInv => TypeOK
    BY DEF BroadcastInv
  <1> QED BY <1>1, BroadcastSafety, PTL

\* An entry that is acknowledged has been settled for everybody resolved for it.
THEOREM AcknowledgedSettled == Spec => []AckMeansSettled
  <1>1. BroadcastInv => AckMeansSettled
    BY DEF BroadcastInv
  <1> QED BY <1>1, BroadcastSafety, PTL

\* Nobody is answered twice about one rotation, however often it is announced.
THEOREM AnsweredOnce == Spec => []OneAnswerPerEvent
  <1>1. BroadcastInv => OneAnswerPerEvent
    BY DEF BroadcastInv
  <1> QED BY <1>1, BroadcastSafety, PTL

\* No message about a rotation carries the secret that the rotation revoked.
THEOREM RevokedNotSent == Spec => []NeverTheOldLink
  <1>1. BroadcastInv => NeverTheOldLink
    BY DEF BroadcastInv
  <1> QED BY <1>1, BroadcastSafety, PTL
=============================================================================
