-------------------------- MODULE MtprotoPoolProofs --------------------------
(***************************************************************************)
(* The safety of MtprotoPool for every number of users, ports, secrets and *)
(* sessions: PoolInv is inductive, and the properties follow from it.      *)
(***************************************************************************)
EXTENDS MtprotoPool, TLAPS

-----------------------------------------------------------------------------
(* One open transaction.                                                   *)

\* What the invariant says of the transaction of one session.
LEMMA TxFacts ==
  ASSUME PoolInv, NEW p \in Sessions
  PROVE  /\ tx[p] \in Tx /\ Shaped(tx[p])
         /\ tx[p].old # None => tx[p].old \in Slots
         /\ tx[p].new # None => tx[p].new \in Slots
         /\ p # None
         /\ HoldsRows(p) /\ ClaimsAlone(p) /\ InsertsAlone(p)
  <1>1. tx[p] \in Tx /\ Shaped(tx[p])
    BY DEF PoolInv, PoolTypeOK
  <1>2. HoldsRows(p) /\ ClaimsAlone(p) /\ InsertsAlone(p)
    BY DEF PoolInv
  <1> QED BY <1>1, <1>2, PoolAssumption DEF Tx

\* An idle session has nothing in hand.
LEMMA IdleTxOK == IdleTx \in Tx /\ Shaped(IdleTx)
  <1>1. IdleTx \in Tx
    BY DEF IdleTx, Tx
  <1>2. /\ IdleTx.op = "idle" /\ IdleTx.pc = "idle" /\ IdleTx.want = {}
        /\ IdleTx.old = None /\ IdleTx.new = None
    BY DEF IdleTx
  <1> QED BY <1>1, <1>2 DEF Shaped

\* Session p goes on to the transaction t and writes no row: the invariant
\* holds when it holds for p, whatever the other sessions are doing.
LEMMA Step ==
  ASSUME PoolInv, NEW p \in Sessions, NEW t \in Tx, Shaped(t), tx' = [tx EXCEPT ![p] = t],
         slot' = slot, live' \subseteq Users,
         handed' \subseteq [user : Users, secret : Slots], HandedOver',
         lock' \in [Slots -> Sessions \cup {None}],
         \A s \in Slots : lock[s] \in Sessions \ {p} => lock'[s] = lock[s],
         \A s \in Slots : lock'[s] \in Sessions \ {p} => lock'[s] = lock[s],
         HoldsRows(p)', ClaimsAlone(p)', InsertsAlone(p)'
  PROVE  PoolInv'
  <1>1. \A q \in Sessions : tx'[q] = IF q = p THEN t ELSE tx[q]
    BY DEF PoolInv, PoolTypeOK
  <1>2. PoolTypeOK'
    BY DEF PoolInv, PoolTypeOK
  <1>3. ASSUME NEW q \in Sessions PROVE Shaped(tx[q])'
    <2>1. CASE q = p
      BY <1>1, <2>1 DEF Shaped, IdleTx
    <2>2. CASE q # p
      <3>1. tx'[q] = tx[q] /\ Shaped(tx[q])
        BY <1>1, <2>2, TxFacts
      <3> QED BY <3>1 DEF Shaped
    <2> QED BY <2>1, <2>2
  <1>4. ASSUME NEW q \in Sessions \ {p} PROVE HoldsRows(q)'
    BY <1>1, TxFacts DEF HoldsRows, PoolInv, Active
  <1>5. ASSUME NEW q \in Sessions \ {p} PROVE ClaimsAlone(q)'
    <2>1. SUFFICES ASSUME Flushed(q), tx[q].new # None
                   PROVE  /\ Active(tx[q].user)' \subseteq {tx[q].old}
                          /\ \A r \in Sessions \ {q} :
                               Flushed(r)' /\ tx'[r].new # None => tx'[r].user # tx[q].user
      BY <1>1 DEF ClaimsAlone, Flushed, Active
    <2>2. Active(tx[q].user)' \subseteq {tx[q].old}
      BY <2>1 DEF PoolInv, ClaimsAlone, Active
    <2>3. ASSUME NEW r \in Sessions \ {q}, Flushed(r)', tx'[r].new # None
          PROVE  tx'[r].user # tx[q].user
      <3>1. CASE r = p
        BY <1>1, <2>1, <2>3, <3>1 DEF ClaimsAlone, Flushed
      <3>2. CASE r # p
        BY <1>1, <2>1, <2>3, <3>2 DEF ClaimsAlone, Flushed, PoolInv
      <3> QED BY <3>1, <3>2
    <2> QED BY <2>2, <2>3
  <1>6. ASSUME NEW q \in Sessions \ {p} PROVE InsertsAlone(q)'
    <2>1. SUFFICES ASSUME Flushed(q)
                   PROVE  /\ \A port \in tx[q].want : Serving(port)' = {}
                          /\ \A r \in Sessions \ {q} :
                               Flushed(r)' => tx'[r].want \cap tx[q].want = {}
      BY <1>1 DEF InsertsAlone, Flushed, Serving
    <2>2. \A port \in tx[q].want : Serving(port)' = {}
      BY <2>1 DEF PoolInv, InsertsAlone, Serving
    <2>3. ASSUME NEW r \in Sessions \ {q}, Flushed(r)'
          PROVE  tx'[r].want \cap tx[q].want = {}
      <3>1. CASE r = p
        BY <1>1, <2>1, <2>3, <3>1 DEF InsertsAlone, Flushed
      <3>2. CASE r # p
        BY <1>1, <2>1, <2>3, <3>2 DEF InsertsAlone, Flushed, PoolInv
      <3> QED BY <3>1, <3>2
    <2> QED BY <2>2, <2>3
  <1>7. OneSecretPerUser' /\ PortServedOnce'
    BY DEF PoolInv, OneSecretPerUser, PortServedOnce, Active, Serving
  <1> QED BY <1>2, <1>3, <1>4, <1>5, <1>6, <1>7 DEF PoolInv

\* Ending a session frees its locks and no other.
LEMMA EndFacts ==
  ASSUME PoolInv, NEW p \in Sessions, End(p)
  PROVE  /\ tx' = [tx EXCEPT ![p] = IdleTx]
         /\ \A q \in Sessions : tx'[q] = IF q = p THEN IdleTx ELSE tx[q]
         /\ lock' \in [Slots -> Sessions \cup {None}]
         /\ \A s \in Slots : lock[s] \in Sessions \ {p} => lock'[s] = lock[s]
         /\ \A s \in Slots : lock'[s] \in Sessions \ {p} => lock'[s] = lock[s]
         /\ \A s \in Slots : lock'[s] # p
         /\ HoldsRows(p)' /\ ClaimsAlone(p)' /\ InsertsAlone(p)'
  <1>1. \A q \in Sessions : tx'[q] = IF q = p THEN IdleTx ELSE tx[q]
    BY DEF End, PoolInv, PoolTypeOK
  <1>2. /\ lock' \in [Slots -> Sessions \cup {None}]
        /\ \A s \in Slots : lock[s] \in Sessions \ {p} => lock'[s] = lock[s]
        /\ \A s \in Slots : lock'[s] \in Sessions \ {p} => lock'[s] = lock[s]
        /\ \A s \in Slots : lock'[s] # p
    BY TxFacts DEF End, PoolInv, PoolTypeOK
  <1>3. tx'[p].pc = "idle" /\ tx'[p].old = None /\ tx'[p].new = None
    BY <1>1 DEF IdleTx
  <1>4. HoldsRows(p)'
    BY <1>2, <1>3 DEF HoldsRows
  <1>5. ClaimsAlone(p)' /\ InsertsAlone(p)'
    BY <1>3 DEF ClaimsAlone, InsertsAlone, Flushed
  <1> QED BY <1>1, <1>2, <1>4, <1>5 DEF End

\* A session ends without a write.
LEMMA EndStep ==
  ASSUME PoolInv, NEW p \in Sessions, End(p), slot' = slot, live' \subseteq Users,
         handed' \subseteq [user : Users, secret : Slots], HandedOver'
  PROVE  PoolInv'
  BY EndFacts, IdleTxOK, Step

\* A commit writes rows that the session holds, or new ones on ports it was
\* the only one to insert for: nobody else relied on what they were.
LEMMA Commit ==
  ASSUME PoolInv, NEW p \in Sessions, Flushed(p), End(p), live' \subseteq Users,
         handed' \subseteq [user : Users, secret : Slots], HandedOver',
         slot' \in [Slots -> SlotRow],
         \A s \in Slots : slot'[s].user = None <=> slot'[s].status \in {"NONE", "FREE"},
         \A s \in Slots : slot'[s] = slot[s] \/ lock[s] = p \/ slot[s].status = "NONE",
         \A u \in Users : \/ Active(u)' \subseteq Active(u)
                          \/ u = tx[p].user /\ tx[p].new # None,
         \A port \in Ports : Serving(port)' \subseteq Serving(port) \/ port \in tx[p].want,
         OneSecretPerUser', PortServedOnce'
  PROVE  PoolInv'
  <1>1. /\ \A q \in Sessions : tx'[q] = IF q = p THEN IdleTx ELSE tx[q]
        /\ HoldsRows(p)' /\ ClaimsAlone(p)' /\ InsertsAlone(p)'
    BY EndFacts
  <1>2. PoolTypeOK'
    BY EndFacts, IdleTxOK DEF PoolInv, PoolTypeOK
  <1>3. ASSUME NEW q \in Sessions PROVE Shaped(tx[q])'
    <2>1. CASE q = p
      BY <1>1, <2>1, IdleTxOK DEF Shaped, IdleTx
    <2>2. CASE q # p
      <3>1. tx'[q] = tx[q] /\ Shaped(tx[q])
        BY <1>1, <2>2, TxFacts
      <3> QED BY <3>1 DEF Shaped
    <2> QED BY <2>1, <2>2
  <1>4. \A q \in Sessions : Flushed(q)' => q # p
    BY <1>1 DEF Flushed, IdleTx
  <1>5. ASSUME NEW q \in Sessions \ {p} PROVE HoldsRows(q)'
    <2>1. \A s \in Slots : lock[s] = q => lock'[s] = q
      BY EndFacts
    <2>2. \A s \in Slots : lock'[s] = q => tx'[q].pc \in {"claim", "flush", "commit"}
      BY <1>1, EndFacts DEF PoolInv, HoldsRows
    <2>3. ASSUME tx[q].old # None PROVE lock'[tx[q].old] = q /\ tx[q].old \in Active(tx[q].user)'
      <3>1. lock[tx[q].old] = q /\ tx[q].old \in Active(tx[q].user) /\ tx[q].old \in Slots
        <4>1. HoldsRows(q) /\ tx[q].old \in Slots
          BY <2>3, TxFacts
        <4> QED BY <2>3, <4>1 DEF HoldsRows
      <3> QED BY <1>1, <2>1, <3>1 DEF Active
    <2>4. ASSUME tx[q].new # None
          PROVE  lock'[tx[q].new] = q /\ slot'[tx[q].new].status = "FREE"
      <3>1. /\ lock[tx[q].new] = q /\ slot[tx[q].new].status = "FREE"
            /\ tx[q].new \in Slots
        BY <2>4, TxFacts DEF HoldsRows
      <3> QED BY <2>1, <3>1
    <2> QED BY <1>1, <2>2, <2>3, <2>4 DEF HoldsRows, Active
  <1>6. ASSUME NEW q \in Sessions \ {p} PROVE ClaimsAlone(q)'
    <2>1. SUFFICES ASSUME Flushed(q), tx[q].new # None
                   PROVE  Active(tx[q].user)' \subseteq {tx[q].old}
      <3>1. ASSUME Flushed(q), tx[q].new # None, NEW r \in Sessions \ {q}, Flushed(r)',
                   tx'[r].new # None
            PROVE  tx'[r].user # tx[q].user
        BY <1>1, <1>4, <3>1 DEF PoolInv, ClaimsAlone, Flushed
      <3> QED BY <1>1, <3>1 DEF ClaimsAlone, Flushed, Active
    <2>2. tx[q].user \in Users
      BY <2>1, TxFacts DEF Shaped, Tx, IdleTx, Flushed
    <2>3. ~(tx[q].user = tx[p].user /\ tx[p].new # None)
      BY <2>1 DEF PoolInv, ClaimsAlone
    <2>4. Active(tx[q].user)' \subseteq Active(tx[q].user)
      <3>1. tx'[q] = tx[q]
        BY <1>1
      <3>2. ASSUME NEW u \in Users, u = tx[q].user PROVE Active(u)' \subseteq Active(u)
        BY <2>3, <3>2
      <3> QED BY <2>2, <3>1, <3>2 DEF Active
    <2>5. ClaimsAlone(q)
      BY TxFacts
    <2> QED BY <2>1, <2>4, <2>5 DEF ClaimsAlone
  <1>7. ASSUME NEW q \in Sessions \ {p} PROVE InsertsAlone(q)'
    <2>1. SUFFICES ASSUME Flushed(q), NEW port \in tx[q].want PROVE Serving(port)' = {}
      <3>1. ASSUME Flushed(q), NEW r \in Sessions \ {q}, Flushed(r)'
            PROVE  tx'[r].want \cap tx[q].want = {}
        BY <1>1, <1>4, <3>1 DEF PoolInv, InsertsAlone, Flushed
      <3> QED BY <1>1, <3>1 DEF InsertsAlone, Flushed, Serving
    <2>2. port \in Ports
      BY <2>1, TxFacts DEF Tx
    <2>3. port \notin tx[p].want
      BY <2>1 DEF PoolInv, InsertsAlone
    <2> QED BY <2>1, <2>2, <2>3 DEF PoolInv, InsertsAlone
  <1> QED BY <1>1, <1>2, <1>3, <1>5, <1>6, <1>7 DEF PoolInv

-----------------------------------------------------------------------------
(* The steps that write no row.                                            *)

\* A session that locks nothing moves on to t, which is not yet flushed.
LEMMA Move ==
  ASSUME PoolInv, NEW p \in Sessions, NEW t \in Tx, Shaped(t), tx' = [tx EXCEPT ![p] = t],
         UNCHANGED <<live, slot, lock, handed>>, t.pc # "commit", t.new = None,
         t.old = tx[p].old, tx[p].pc \in {"claim", "flush", "commit"} => t.pc \in {"claim", "flush"},
         t.old # None => t.user = tx[p].user
  PROVE  PoolInv'
  <1>1. tx'[p] = t
    BY DEF PoolInv, PoolTypeOK
  <1>2. HoldsRows(p)'
    <2>1. HoldsRows(p)
      BY TxFacts
    <2> QED BY <1>1, <2>1 DEF HoldsRows, Active
  <1>3. ClaimsAlone(p)' /\ InsertsAlone(p)'
    BY <1>1 DEF ClaimsAlone, InsertsAlone, Flushed
  <1>4. HandedOver'
    BY DEF PoolInv, HandedOver
  <1> QED BY <1>2, <1>3, <1>4, Step DEF PoolInv, PoolTypeOK

\* A request begins: its session has been idle.
LEMMA BeginStep ==
  ASSUME PoolInv, NEW p \in Sessions,
         \/ \E u \in Users : IssueBegin(p, u)
         \/ \E u \in Users : AdminBegin(p, u, "rotate") \/ AdminBegin(p, u, "revoke")
         \/ \E P \in SUBSET Ports : BootstrapBegin(p, P)
  PROVE  PoolInv'
  <1>0. tx[p] = IdleTx /\ IdleTx.old = None /\ IdleTx.pc = "idle"
    <2>1. tx[p].op = "idle"
      BY DEF IssueBegin, AdminBegin, BootstrapBegin, Idle
    <2> QED BY <2>1, TxFacts DEF Shaped, IdleTx
  <1>1. ASSUME NEW u \in Users, IssueBegin(p, u) PROVE PoolInv'
    <2> DEFINE t == [IdleTx EXCEPT !.op = "issue", !.pc = "find", !.user = u]
    <2>1. t \in Tx /\ Shaped(t) /\ t.pc = "find" /\ t.new = None /\ t.old = None
      BY DEF IdleTx, Tx, Shaped
    <2> HIDE DEF t
    <2>2. tx' = [tx EXCEPT ![p] = t]
      BY <1>1 DEF IssueBegin, t
    <2> QED BY <1>0, <1>1, <2>1, <2>2, Move DEF IssueBegin
  <1>2. ASSUME NEW u \in Users, NEW op \in {"rotate", "revoke"}, AdminBegin(p, u, op)
        PROVE  PoolInv'
    <2> DEFINE t == [IdleTx EXCEPT !.op = op, !.pc = "lock", !.user = u, !.seen = Active(u)]
    <2>1. t \in Tx /\ Shaped(t) /\ t.pc = "lock" /\ t.new = None /\ t.old = None
      BY DEF IdleTx, Tx, Shaped, Active
    <2> HIDE DEF t
    <2>2. tx' = [tx EXCEPT ![p] = t]
      BY <1>2 DEF AdminBegin, t
    <2> QED BY <1>0, <1>2, <2>1, <2>2, Move DEF AdminBegin
  <1>3. ASSUME NEW P \in SUBSET Ports, BootstrapBegin(p, P) PROVE PoolInv'
    <2> DEFINE W == {port \in P : \A s \in Slots : s[1] = port => slot[s].status = "NONE"}
               t == [IdleTx EXCEPT !.op = "bootstrap", !.pc = "flush", !.want = W]
    <2>1. W \in SUBSET Ports
      OBVIOUS
    <2>2. t \in Tx /\ Shaped(t) /\ t.pc = "flush" /\ t.new = None /\ t.old = None
      <3> HIDE DEF W
      <3> QED BY <2>1 DEF IdleTx, Tx, Shaped
    <2> HIDE DEF t
    <2>3. tx' = [tx EXCEPT ![p] = t]
      BY <1>3 DEF BootstrapBegin, t
    <2> QED BY <1>0, <1>3, <2>2, <2>3, Move DEF BootstrapBegin
  <1> QED BY <1>1, <1>2, <1>3

\* The secret that issue finds belongs to the user it answers.
LEMMA FoundStep ==
  ASSUME PoolInv, NEW p \in Sessions, IssueFound(p)
  PROVE  PoolInv'
  <1>1. tx[p].user \in Users
    BY TxFacts DEF IssueFound, Shaped, IdleTx, Tx
  <1>2. PICK s \in Active(tx[p].user) :
          handed' = handed \cup {[user |-> tx[p].user, secret |-> s]}
    BY DEF IssueFound
  <1>3. handed' \subseteq [user : Users, secret : Slots]
    BY <1>1, <1>2 DEF PoolInv, PoolTypeOK, Active
  <1>4. HandedOver'
    BY <1>2 DEF IssueFound, PoolInv, HandedOver, Active
  <1> QED BY <1>3, <1>4, EndStep DEF IssueFound, PoolInv, PoolTypeOK

\* issue goes on to claim.
LEMMA MissingStep ==
  ASSUME PoolInv, NEW p \in Sessions, IssueMissing(p)
  PROVE  PoolInv'
  <1> DEFINE t == [tx[p] EXCEPT !.pc = "claim"]
  <1>1. tx[p] \in Tx /\ Shaped(tx[p]) /\ tx[p].pc = "find"
    BY TxFacts DEF IssueMissing
  <1>2. tx[p].op = "issue"
    BY <1>1 DEF Tx, Shaped, IdleTx
  <1>3. t \in Tx /\ Shaped(t) /\ t.pc = "claim" /\ t.new = None /\ t.old = tx[p].old
        /\ t.old = None
    BY <1>1, <1>2 DEF Tx, Shaped
  <1>4. tx' = [tx EXCEPT ![p] = t]
    BY DEF IssueMissing
  <1> HIDE DEF t
  <1> QED BY <1>1, <1>3, <1>4, Move DEF IssueMissing

\* A claim locks a FREE row that nobody holds.
LEMMA ClaimStep ==
  ASSUME PoolInv, NEW p \in Sessions, Claim(p)
  PROVE  PoolInv'
  <1>1. tx[p] \in Tx /\ Shaped(tx[p]) /\ tx[p].pc = "claim"
    BY TxFacts DEF Claim
  <1>2. tx[p].op \in {"issue", "rotate"}
    BY <1>1 DEF Tx, Shaped, IdleTx
  <1>3. PICK s \in Claimable : Take(p, {s}) /\ tx' = [tx EXCEPT ![p].pc = "flush", ![p].new = s]
    BY DEF Claim, Lowest
  <1>4. s \in Slots /\ slot[s].status = "FREE" /\ lock[s] = None
    BY DEF Claimable
  <1> DEFINE t == [tx[p] EXCEPT !.pc = "flush", !.new = s]
  <1>5. /\ t \in Tx /\ Shaped(t)
        /\ t.pc = "flush" /\ t.new = s /\ t.old = tx[p].old /\ t.user = tx[p].user
    BY <1>1, <1>2, <1>4, PoolAssumption DEF Tx, Shaped
  <1>6. tx' = [tx EXCEPT ![p] = t]
    BY <1>3
  <1> HIDE DEF t
  <1>7. tx'[p] = t
    BY <1>6 DEF PoolInv, PoolTypeOK
  <1>8. /\ lock' \in [Slots -> Sessions \cup {None}]
        /\ \A z \in Slots : lock'[z] = IF z = s THEN p ELSE lock[z]
    BY <1>3 DEF Take, PoolInv, PoolTypeOK
  <1>9. UNCHANGED <<live, slot, handed>>
    BY DEF Claim
  <1>10. HoldsRows(p)'
    <2>1. HoldsRows(p)
      BY TxFacts
    <2>2. tx[p].old # None => tx[p].old \in Slots
      BY TxFacts
    <2> QED BY <1>4, <1>5, <1>7, <1>8, <1>9, <2>1, <2>2 DEF HoldsRows, Active
  <1>11. ClaimsAlone(p)' /\ InsertsAlone(p)'
    BY <1>5, <1>7 DEF ClaimsAlone, InsertsAlone, Flushed
  <1>12. HandedOver' /\ live' \subseteq Users /\ handed' \subseteq [user : Users, secret : Slots]
    BY <1>9 DEF PoolInv, PoolTypeOK, HandedOver
  <1>13. /\ \A z \in Slots : lock[z] \in Sessions \ {p} => lock'[z] = lock[z]
         /\ \A z \in Slots : lock'[z] \in Sessions \ {p} => lock'[z] = lock[z]
    BY <1>4, <1>8, PoolAssumption
  <1> QED BY <1>5, <1>6, <1>8, <1>9, <1>10, <1>11, <1>12, <1>13, Step

\* An empty pool or an exception ends the session without a trace.
LEMMA AbandonStep ==
  ASSUME PoolInv, NEW p \in Sessions, PoolFull(p) \/ Rollback(p)
  PROVE  PoolInv'
  <1>1. HandedOver'
    BY DEF PoolFull, Rollback, PoolInv, HandedOver
  <1> QED BY <1>1, EndStep DEF PoolFull, Rollback, PoolInv, PoolTypeOK

\* A claim is flushed when the index has no other entry of its user.
LEMMA FlushStep ==
  ASSUME PoolInv, NEW p \in Sessions, Flush(p)
  PROVE  PoolInv'
  <1> DEFINE t == [tx[p] EXCEPT !.pc = "commit"]
  <1>1. tx[p] \in Tx /\ Shaped(tx[p]) /\ tx[p].pc = "flush" /\ tx[p].op \in {"issue", "rotate"}
    BY TxFacts DEF Flush
  <1>2. /\ t \in Tx /\ Shaped(t) /\ t.pc = "commit" /\ t.want = {}
        /\ t.new = tx[p].new /\ t.old = tx[p].old /\ t.user = tx[p].user
    BY <1>1 DEF Tx, Shaped
  <1>3. tx' = [tx EXCEPT ![p] = t] /\ UNCHANGED <<live, slot, lock, handed>>
    BY DEF Flush
  <1> HIDE DEF t
  <1>4. \A q \in Sessions : tx'[q] = IF q = p THEN t ELSE tx[q]
    BY <1>3 DEF PoolInv, PoolTypeOK
  <1>5. HoldsRows(p)'
    <2>1. HoldsRows(p)
      BY TxFacts
    <2> QED BY <1>2, <1>3, <1>4, <2>1 DEF HoldsRows, Active
  <1>6. ClaimsAlone(p)'
    <2>1. Active(tx[p].user)' \subseteq {tx[p].old}
      BY <1>2, <1>3, <1>4 DEF Flush, UserTaken, Active
    <2>2. ASSUME NEW q \in Sessions \ {p}, Flushed(q), tx[q].new # None
          PROVE  tx[q].user # tx[p].user
      BY <2>2 DEF Flush, UserIndexHolders
    <2> QED BY <1>2, <1>4, <2>1, <2>2 DEF ClaimsAlone, Flushed, Active
  <1>7. InsertsAlone(p)'
    BY <1>2, <1>4 DEF InsertsAlone
  <1>8. HandedOver'
    BY <1>3 DEF PoolInv, HandedOver
  <1> QED BY <1>2, <1>3, <1>5, <1>6, <1>7, <1>8, Step DEF PoolInv, PoolTypeOK

\* An admin's request locks the row it found and keeps it when it is still the
\* user's ACTIVE one.
LEMMA LockStep ==
  ASSUME PoolInv, NEW p \in Sessions, RotateLock(p) \/ RevokeLock(p)
  PROVE  PoolInv'
  <1>1. tx[p] \in Tx /\ Shaped(tx[p]) /\ tx[p].pc = "lock" /\ tx[p].op \in {"rotate", "revoke"}
    BY TxFacts DEF RotateLock, RevokeLock
  <1>2. PICK o \in Current(p) \cup {None} :
          /\ tx[p].op = "rotate" => tx' = [tx EXCEPT ![p].pc = "claim", ![p].old = o]
          /\ tx[p].op = "revoke" => o # None /\ tx' = [tx EXCEPT ![p].pc = "commit", ![p].old = o]
    <2>1. CASE RotateLock(p)
      BY <2>1 DEF RotateLock
    <2>2. CASE RevokeLock(p)
      BY <2>2, PoolAssumption DEF RevokeLock, Current, Active
    <2> QED BY <2>1, <2>2
  <1>3. o \in Slots \cup {None} /\ (o # None => o \in tx[p].seen /\ o \in Active(tx[p].user))
    BY DEF Current, Active
  <1> DEFINE t == [tx[p] EXCEPT !.pc = IF tx[p].op = "rotate" THEN "claim" ELSE "commit",
                                !.old = o]
  <1>4. /\ t \in Tx /\ Shaped(t) /\ t.pc \in {"claim", "commit"} /\ t.want = {}
        /\ t.new = None /\ t.old = o /\ t.user = tx[p].user
    BY <1>1, <1>2, <1>3 DEF Tx, Shaped
  <1>5. tx' = [tx EXCEPT ![p] = t]
    BY <1>1, <1>2
  <1> HIDE DEF t
  <1>6. tx'[p] = t
    BY <1>5 DEF PoolInv, PoolTypeOK
  <1>7. /\ UNCHANGED <<live, slot, handed>>
        /\ \A s \in tx[p].seen : Free(p, s)
        /\ Take(p, tx[p].seen)
    BY DEF RotateLock, RevokeLock
  <1>8. /\ lock' \in [Slots -> Sessions \cup {None}]
        /\ \A s \in Slots : lock'[s] = IF s \in tx[p].seen THEN p ELSE lock[s]
    BY <1>7 DEF Take, PoolInv, PoolTypeOK
  <1>9. HoldsRows(p)'
    BY <1>3, <1>4, <1>6, <1>7, <1>8 DEF HoldsRows, Active
  <1>10. ClaimsAlone(p)' /\ InsertsAlone(p)'
    BY <1>4, <1>6 DEF ClaimsAlone, InsertsAlone
  <1>11. HandedOver' /\ live' \subseteq Users /\ handed' \subseteq [user : Users, secret : Slots]
    BY <1>7 DEF PoolInv, PoolTypeOK, HandedOver
  <1>12. /\ \A s \in Slots : lock[s] \in Sessions \ {p} => lock'[s] = lock[s]
         /\ \A s \in Slots : lock'[s] \in Sessions \ {p} => lock'[s] = lock[s]
    BY <1>7, <1>8, PoolAssumption DEF Free
  <1> QED BY <1>4, <1>5, <1>7, <1>8, <1>9, <1>10, <1>11, <1>12, Step

\* A bootstrap is flushed when its ports serve nothing and nobody else inserts.
LEMMA InsertStep ==
  ASSUME PoolInv, NEW p \in Sessions, BootstrapFlush(p)
  PROVE  PoolInv'
  <1> DEFINE t == [tx[p] EXCEPT !.pc = "commit"]
  <1>1. tx[p] \in Tx /\ Shaped(tx[p]) /\ tx[p].pc = "flush" /\ tx[p].op = "bootstrap"
    BY TxFacts DEF BootstrapFlush
  <1>2. /\ t \in Tx /\ Shaped(t) /\ t.pc = "commit" /\ t.want = tx[p].want
        /\ t.new = None /\ t.old = None
    BY <1>1 DEF Tx, Shaped
  <1>3. tx' = [tx EXCEPT ![p] = t] /\ UNCHANGED <<live, slot, lock, handed>>
    BY DEF BootstrapFlush
  <1> HIDE DEF t
  <1>4. \A q \in Sessions : tx'[q] = IF q = p THEN t ELSE tx[q]
    BY <1>3 DEF PoolInv, PoolTypeOK
  <1>5. HoldsRows(p)'
    <2>1. HoldsRows(p)
      BY TxFacts
    <2> QED BY <1>1, <1>2, <1>3, <1>4, <2>1 DEF HoldsRows
  <1>6. ClaimsAlone(p)'
    BY <1>2, <1>4 DEF ClaimsAlone
  <1>7. InsertsAlone(p)'
    <2>1. ASSUME NEW port \in tx[p].want PROVE Serving(port)' = {}
      BY <1>3, <2>1 DEF BootstrapFlush, PortTaken, Serving
    <2>2. ASSUME NEW q \in Sessions \ {p}, Flushed(q) PROVE tx[q].want \cap tx[p].want = {}
      BY <2>2 DEF BootstrapFlush, PortIndexHolders
    <2> QED BY <1>2, <1>4, <2>1, <2>2 DEF InsertsAlone, Flushed
  <1>8. HandedOver'
    BY <1>3 DEF PoolInv, HandedOver
  <1> QED BY <1>2, <1>3, <1>5, <1>6, <1>7, <1>8, Step DEF PoolInv, PoolTypeOK

\* Subscriptions start and end beside the pool.
LEMMA LiveStep ==
  ASSUME PoolInv, NEW u \in Users, SubscriptionChanges(u)
  PROVE  PoolInv'
  <1>1. live' \subseteq Users /\ UNCHANGED <<slot, lock, tx, handed>>
    BY DEF SubscriptionChanges, PoolInv, PoolTypeOK
  <1>2. PoolTypeOK'
    BY <1>1 DEF PoolInv, PoolTypeOK
  <1>3. ASSUME NEW p \in Sessions
        PROVE  Shaped(tx[p])' /\ HoldsRows(p)' /\ ClaimsAlone(p)' /\ InsertsAlone(p)'
    <2>1. Shaped(tx[p]) /\ HoldsRows(p) /\ ClaimsAlone(p) /\ InsertsAlone(p)
      BY TxFacts
    <2> QED BY <1>1, <2>1
              DEF Shaped, HoldsRows, ClaimsAlone, InsertsAlone, Flushed, Active, Serving
  <1>4. HandedOver' /\ OneSecretPerUser' /\ PortServedOnce'
    BY <1>1 DEF PoolInv, HandedOver, OneSecretPerUser, PortServedOnce, Active, Serving
  <1> QED BY <1>2, <1>3, <1>4 DEF PoolInv

-----------------------------------------------------------------------------
(* The steps that write rows.                                              *)

\* A claim and a revocation write the two rows their session holds.
LEMMA WriteStep ==
  ASSUME PoolInv, NEW p \in Sessions, Flushed(p), tx[p].op \in {"issue", "rotate", "revoke"},
         slot' = Written(p), End(p), live' = live,
         \/ handed' = handed
         \/ /\ tx[p].new # None
            /\ handed' = handed \cup {[user |-> tx[p].user, secret |-> tx[p].new]}
  PROVE  PoolInv'
  <1> DEFINE u == tx[p].user
             new == tx[p].new
             old == tx[p].old
  <1>1. /\ u \in Users
        /\ tx[p].want = {}
        /\ new # None => new \in Slots /\ slot[new].status = "FREE" /\ lock[new] = p
        /\ old # None => old \in Slots /\ old \in Active(u) /\ lock[old] = p
    BY TxFacts DEF Shaped, HoldsRows
  <1>2. new # None => Active(u) \subseteq {old}
    BY DEF PoolInv, ClaimsAlone
  <1>3. \A s \in Slots : s # None
    BY PoolAssumption
  <1>4. \A s \in Slots : slot[s] \in SlotRow
    BY DEF PoolInv, PoolTypeOK
  <1>5. ASSUME NEW s \in Slots
        PROVE  /\ slot'[s] \in SlotRow
               /\ s = new => slot'[s].status = "ACTIVE" /\ slot'[s].user = u
               /\ s # new /\ s = old => slot'[s].status = "REVOKED" /\ slot'[s].user = slot[s].user
               /\ s # new /\ s # old => slot'[s] = slot[s]
    <2>1. CASE s = new
      <3>1. slot'[s] = [status |-> "ACTIVE", user |-> u]
        BY <2>1 DEF Written
      <3> QED BY <1>1, <1>3, <2>1, <3>1 DEF SlotRow
    <2>2. CASE s # new /\ s = old
      <3>1. slot'[s] = [slot[s] EXCEPT !.status = "REVOKED"]
        BY <2>2, Zenon DEF Written
      <3> HIDE DEF u, new, old
      <3> QED BY <1>4, <2>2, <3>1 DEF SlotRow
    <2>3. CASE s # new /\ s # old
      BY <1>4, <2>3, Zenon DEF Written
    <2> QED BY <2>1, <2>2, <2>3
  <1>6. \A s \in Slots : slot[s].user = None <=> slot[s].status \in {"NONE", "FREE"}
    BY DEF PoolInv, PoolTypeOK
  <1>7. u # None
    BY <1>1, PoolAssumption
  <1>8. \A s \in Slots : s = new => slot[s].status = "FREE" /\ slot[s].user = None /\ lock[s] = p
    BY <1>1, <1>3, <1>6
  <1>9. \A s \in Slots : s = old => slot[s].status = "ACTIVE" /\ slot[s].user = u /\ lock[s] = p
    BY <1>1, <1>3 DEF Active
  <1> HIDE DEF u, new, old
  <1>10. slot' \in [Slots -> SlotRow]
    <2>1. ASSUME NEW s \in Slots PROVE slot'[s] \in SlotRow
      BY <1>5
    <2>2. slot' = [s \in Slots |-> slot'[s]]
      BY Zenon DEF Written
    <2> QED BY <2>1, <2>2
  <1>11. ASSUME NEW s \in Slots
         PROVE  slot'[s].user = None <=> slot'[s].status \in {"NONE", "FREE"}
    BY <1>4, <1>5, <1>6, <1>7, <1>9 DEF SlotRow
  <1>12. \A s \in Slots : slot'[s] = slot[s] \/ lock[s] = p
    BY <1>5, <1>8, <1>9
  <1>13. ASSUME NEW w \in Users, NEW s \in Active(w)'
         PROVE  (s \in Active(w) /\ s # old) \/ (s = new /\ w = u)
    <2>1. s \in Slots /\ slot'[s].status = "ACTIVE" /\ slot'[s].user = w
      BY DEF Active
    <2>2. CASE s = new
      BY <1>5, <2>1, <2>2
    <2>3. CASE s # new
      <3>1. s # old
        BY <1>5, <2>1, <2>3
      <3> QED BY <1>5, <2>1, <2>3, <3>1 DEF Active
    <2> QED BY <2>2, <2>3
  <1>14. ASSUME NEW w \in Users PROVE Active(w)' \subseteq Active(w) \/ (w = u /\ new # None)
    <2>1. ASSUME NEW s \in Active(w)', ~(w = u /\ new # None) PROVE s \in Active(w)
      <3>1. s \in Slots
        BY DEF Active
      <3> QED BY <1>3, <1>13, <2>1, <3>1
    <2> QED BY <2>1
  <1>15. ASSUME NEW port \in Ports PROVE Serving(port)' \subseteq Serving(port)
    <2>1. SUFFICES ASSUME NEW s \in Slots, s[1] = port, slot'[s].status \in {"FREE", "ACTIVE"}
                   PROVE  slot[s].status \in {"FREE", "ACTIVE"}
      BY DEF Serving
    <2> QED BY <1>4, <1>5, <1>8, <1>9, <2>1
  <1>16. OneSecretPerUser'
    <2>1. ASSUME NEW w \in Users, NEW s \in Active(w)', NEW z \in Active(w)' PROVE s = z
      <3>1. s \in Slots /\ z \in Slots
        BY DEF Active
      <3>2. CASE w = u /\ new # None
        BY <1>2, <1>13, <3>2 DEF u, new, old
      <3>3. CASE ~(w = u /\ new # None)
        BY <1>14, <3>3 DEF PoolInv, OneSecretPerUser
      <3> QED BY <3>2, <3>3
    <2> QED BY <2>1 DEF OneSecretPerUser
  <1>17. PortServedOnce'
    BY <1>15 DEF PoolInv, PortServedOnce
  <1>18. ASSUME NEW h \in handed PROVE h.user \in Users /\ slot'[h.secret].user = h.user
    <2>1. h.user \in Users /\ h.secret \in Slots /\ slot[h.secret].user = h.user
      BY DEF PoolInv, PoolTypeOK, HandedOver
    <2>2. h.secret # new
      BY <1>8, <2>1, PoolAssumption
    <2>3. slot'[h.secret].user = slot[h.secret].user
      BY <1>4, <1>5, <2>1, <2>2 DEF SlotRow
    <2> QED BY <2>1, <2>3
  <1>19. new # None => slot'[new].user = u
    BY <1>1, <1>5 DEF new, u
  <1>20. HandedOver' /\ handed' \subseteq [user : Users, secret : Slots]
    <2>1. \A h \in handed' : h \in handed \/ (new # None /\ h = [user |-> u, secret |-> new])
      BY SMT DEF u, new
    <2>2. new # None => new \in Slots
      BY <1>1 DEF new
    <2>3. handed' \subseteq [user : Users, secret : Slots]
      BY <1>1, <2>1, <2>2 DEF PoolInv, PoolTypeOK, u
    <2> QED BY <1>18, <1>19, <2>1, <2>3 DEF HandedOver
  <1>21. live' \subseteq Users
    BY DEF PoolInv, PoolTypeOK
  <1> QED BY <1>10, <1>11, <1>12, <1>14, <1>15, <1>16, <1>17, <1>20, <1>21, Commit DEF u, new

\* A bootstrap writes new rows, on ports that nobody else was inserting for.
LEMMA CreateStep ==
  ASSUME PoolInv, NEW p \in Sessions, BootstrapCommit(p)
  PROVE  PoolInv'
  <1> DEFINE New(s) == \E port \in tx[p].want : s \in NextOn(port)
  <1>1. /\ Flushed(p) /\ End(p) /\ UNCHANGED <<live, handed>>
        /\ tx[p].new = None /\ tx[p].want \subseteq Ports
    BY TxFacts DEF BootstrapCommit, Flushed, Shaped, Tx
  <1>2. \A s \in Slots : New(s) => slot[s].status = "NONE" /\ s[1] \in tx[p].want
    BY DEF NextOn
  <1>3. slot' = [s \in Slots |-> IF New(s) THEN [status |-> "FREE", user |-> None] ELSE slot[s]]
    BY DEF BootstrapCommit
  <1>4. \A port \in tx[p].want : Serving(port) = {}
    BY <1>1 DEF PoolInv, InsertsAlone
  <1>5. /\ \A s \in Slots : slot[s] \in SlotRow
        /\ \A s \in Slots : slot[s].user = None <=> slot[s].status \in {"NONE", "FREE"}
    BY DEF PoolInv, PoolTypeOK
  <1>6. ASSUME NEW s \in Slots, NEW z \in Slots, NEW port \in Ports,
               s \in NextOn(port), z \in NextOn(port)
        PROVE  s = z
    <2>1. /\ s = <<port, s[2]>> /\ s[2] \in 1 .. MaxPerPort
          /\ z = <<port, z[2]>> /\ z[2] \in 1 .. MaxPerPort
      BY <1>6 DEF NextOn, Slots
    <2>2. /\ slot[s].status = "NONE" /\ \A n \in 1 .. s[2] - 1 : slot[<<port, n>>].status # "NONE"
          /\ slot[z].status = "NONE" /\ \A n \in 1 .. z[2] - 1 : slot[<<port, n>>].status # "NONE"
      BY <1>6 DEF NextOn
    <2>3. ~(s[2] < z[2]) /\ ~(z[2] < s[2])
      BY <2>1, <2>2, PoolAssumption
    <2> QED BY <2>1, <2>3, PoolAssumption
  <1>7. ASSUME NEW s \in Slots, NEW port \in Ports, New(s), s[1] = port
        PROVE  s \in NextOn(port)
    BY <1>7 DEF NextOn
  <1> HIDE DEF New
  <1>8. \A s \in Slots : /\ New(s) => slot'[s].status = "FREE" /\ slot'[s].user = None
                         /\ ~New(s) => slot'[s] = slot[s]
    BY <1>3
  <1>9. slot' \in [Slots -> SlotRow]
    BY <1>3, <1>5 DEF SlotRow
  <1>10. \A s \in Slots : slot'[s].user = None <=> slot'[s].status \in {"NONE", "FREE"}
    BY <1>5, <1>8
  <1>11. \A s \in Slots : slot'[s] = slot[s] \/ lock[s] = p \/ slot[s].status = "NONE"
    BY <1>2, <1>8
  <1>12. ASSUME NEW w \in Users PROVE Active(w)' \subseteq Active(w)
    BY <1>8 DEF Active
  <1>13. ASSUME NEW port \in Ports PROVE Serving(port)' \subseteq Serving(port) \/ port \in tx[p].want
    BY <1>2, <1>8 DEF Serving
  <1>14. OneSecretPerUser'
    BY <1>12 DEF PoolInv, OneSecretPerUser
  <1>15. ASSUME NEW port \in Ports, NEW s \in Serving(port)', NEW z \in Serving(port)'
         PROVE  s = z
    <2>1. /\ s \in Slots /\ s[1] = port /\ slot'[s].status \in {"FREE", "ACTIVE"}
          /\ z \in Slots /\ z[1] = port /\ slot'[z].status \in {"FREE", "ACTIVE"}
      BY DEF Serving
    <2>2. CASE port \notin tx[p].want
      <3>1. s \in Serving(port) /\ z \in Serving(port)
        BY <1>13, <2>2
      <3> QED BY <3>1 DEF PoolInv, PortServedOnce
    <2>3. CASE port \in tx[p].want
      <3>1. New(s) /\ New(z)
        BY <1>4, <1>8, <2>1, <2>3 DEF Serving
      <3> QED BY <1>6, <1>7, <2>1, <3>1
    <2> QED BY <2>2, <2>3
  <1>16. HandedOver'
    <2>1. ASSUME NEW h \in handed PROVE slot'[h.secret].user = h.user
      <3>1. h.user \in Users /\ h.secret \in Slots /\ slot[h.secret].user = h.user
        BY DEF PoolInv, PoolTypeOK, HandedOver
      <3>2. slot[h.secret].status # "NONE"
        BY <1>5, <3>1, PoolAssumption
      <3> QED BY <1>2, <1>8, <3>1, <3>2
    <2> QED BY <1>1, <2>1 DEF HandedOver
  <1>17. PortServedOnce'
    BY <1>15 DEF PortServedOnce
  <1>18. live' \subseteq Users /\ handed' \subseteq [user : Users, secret : Slots]
    BY <1>1 DEF PoolInv, PoolTypeOK
  <1> QED BY <1>1, <1>9, <1>10, <1>11, <1>12, <1>13, <1>14, <1>16, <1>17, <1>18, Commit

-----------------------------------------------------------------------------
(* Theorems                                                                *)

\* The pool starts empty.
LEMMA InitInv == Init => PoolInv
  <1> SUFFICES ASSUME Init PROVE PoolInv
    OBVIOUS
  <1>1. /\ \A s \in Slots : slot[s] = [status |-> "NONE", user |-> None] /\ lock[s] = None
        /\ \A p \in Sessions : tx[p] = IdleTx /\ p # None
    BY PoolAssumption DEF Init
  <1>2. IdleTx.pc = "idle" /\ IdleTx.old = None /\ IdleTx.new = None
    BY DEF IdleTx
  <1>3. PoolTypeOK
    BY IdleTxOK DEF Init, PoolTypeOK, SlotRow
  <1>4. ASSUME NEW p \in Sessions
        PROVE  Shaped(tx[p]) /\ HoldsRows(p) /\ ClaimsAlone(p) /\ InsertsAlone(p)
    BY <1>1, <1>2, IdleTxOK DEF HoldsRows, ClaimsAlone, InsertsAlone, Flushed
  <1>5. HandedOver
    BY DEF Init, HandedOver
  <1>6. OneSecretPerUser /\ PortServedOnce
    BY <1>1 DEF OneSecretPerUser, PortServedOnce, Active, Serving
  <1> QED BY <1>3, <1>4, <1>5, <1>6 DEF PoolInv

\* Every step of every session keeps the invariant.
LEMMA NextInv == PoolInv /\ [Next]_vars => PoolInv'
  <1> SUFFICES ASSUME PoolInv, [Next]_vars PROVE PoolInv'
    OBVIOUS
  <1>1. ASSUME NEW p \in Sessions, IssueCommit(p) \/ RotateCommit(p) \/ RevokeCommit(p)
        PROVE  PoolInv'
    <2>1. /\ Flushed(p) /\ tx[p].op \in {"issue", "rotate", "revoke"}
          /\ slot' = Written(p) /\ End(p) /\ live' = live
      BY <1>1 DEF IssueCommit, RotateCommit, RevokeCommit, Flushed
    <2>2. \/ handed' = handed
          \/ /\ tx[p].new # None
             /\ handed' = handed \cup {[user |-> tx[p].user, secret |-> tx[p].new]}
      BY <1>1, TxFacts DEF IssueCommit, RotateCommit, RevokeCommit, Shaped
    <2> QED BY <2>1, <2>2, WriteStep
  <1>2. CASE UNCHANGED vars
    BY <1>2 DEF vars, PoolInv, PoolTypeOK, Shaped, HoldsRows, ClaimsAlone, InsertsAlone,
                HandedOver, OneSecretPerUser, PortServedOnce, Flushed, Active, Serving
  <1>3. ASSUME NEW p \in Sessions, NEW P \in SUBSET Ports, BootstrapBegin(p, P)
        PROVE  PoolInv'
    BY <1>3, BeginStep
  <1>4. ASSUME NEW p \in Sessions, NEW u \in Users,
               IssueBegin(p, u) \/ AdminBegin(p, u, "rotate") \/ AdminBegin(p, u, "revoke")
        PROVE  PoolInv'
    BY <1>4, BeginStep
  <1> QED BY <1>1, <1>2, <1>3, <1>4, FoundStep, MissingStep, ClaimStep, AbandonStep, FlushStep,
             LockStep, InsertStep, CreateStep, LiveStep DEF Next

\* The inductive invariant holds in every run of the pool.
THEOREM PoolSafety == Spec => []PoolInv
  BY InitInv, NextInv, PTL DEF Spec

\* The rows, locks and transactions stay in their domains, and a secret belongs
\* to a user exactly from its claim on.
THEOREM PoolTypeCorrect == Spec => []PoolTypeOK
  <1>1. PoolInv => PoolTypeOK
    BY DEF PoolInv
  <1> QED BY <1>1, PoolSafety, PTL

\* Issue, rotate and revoke leave a user with at most one ACTIVE secret.
THEOREM OneSecret == Spec => []OneSecretPerUser
  <1>1. PoolInv => OneSecretPerUser
    BY DEF PoolInv
  <1> QED BY <1>1, PoolSafety, PTL

\* Bootstraps, claims and revocations leave at most one live secret on a port.
THEOREM PortOnce == Spec => []PortServedOnce
  <1>1. PoolInv => PortServedOnce
    BY DEF PoolInv
  <1> QED BY <1>1, PoolSafety, PTL

\* issue answers two users with two secrets: each is still the row of the user
\* it was handed to.
THEOREM Private == Spec => []PrivateSecrets
  <1>1. PoolInv => PrivateSecrets
    BY DEF PoolInv, HandedOver, PrivateSecrets
  <1> QED BY <1>1, PoolSafety, PTL

\* Whom a statement waits for is past its own locks; a claim and a commit wait
\* for nobody.
LEMMA Waiting ==
  ASSUME PoolInv, NEW p \in Sessions, NEW q \in Sessions, q \in WaitsFor(p)
  PROVE  /\ q # p /\ tx[p].pc \in {"lock", "flush"}
         /\ tx[q].pc \in {"claim", "flush", "commit"}
         /\ tx[p].pc = "flush" =>
              \/ tx[q].pc = "commit"
              \/ tx[q].old # None /\ tx[q].user = tx[p].user
  <1>1. CASE tx[p].pc = "lock"
    <2>1. PICK s \in tx[p].seen : lock[s] = q /\ q # p
      BY <1>1 DEF WaitsFor
    <2>2. s \in Slots
      BY TxFacts DEF Tx
    <2>3. HoldsRows(q)
      BY TxFacts
    <2> QED BY <1>1, <2>1, <2>2, <2>3 DEF HoldsRows
  <1>2. CASE tx[p].pc = "claim"
    BY <1>2, PoolAssumption DEF WaitsFor, Claimable, Lowest
  <1>3. CASE tx[p].pc = "flush"
    <2>1. CASE tx[p].op = "bootstrap"
      BY <1>3, <2>1 DEF WaitsFor, PortIndexHolders, Flushed
    <2>2. CASE tx[p].op # "bootstrap"
      BY <1>3, <2>2 DEF WaitsFor, UserIndexHolders, Flushed
    <2> QED BY <2>1, <2>2
  <1>4. CASE tx[p].pc \notin {"lock", "claim", "flush"}
    BY <1>4 DEF WaitsFor
  <1> QED BY <1>1, <1>2, <1>3, <1>4

\* The handlers of the pool never deadlock on row locks and index entries: in a
\* cycle everyone would be flushing, behind two sessions that revoke the same
\* row.
THEOREM NoCycle == Spec => []NoWaitCycle
  <1>1. ASSUME PoolInv PROVE NoWaitCycle
    <2>1. SUFFICES ASSUME NEW C \in SUBSET Sessions, C # {},
                          \A p \in C : WaitsFor(p) \cap C # {}
                   PROVE  FALSE
      BY DEF NoWaitCycle
    <2>2. ASSUME NEW p \in C
          PROVE  \E q \in C : q \in WaitsFor(p)
      BY <2>1
    <2>3. ASSUME NEW p \in C
          PROVE  tx[p].pc \in {"lock", "flush"}
      BY <1>1, <2>2, Waiting
    <2>4. ASSUME NEW p \in C
          PROVE  \E q \in C : q # p /\ tx[q].pc = "flush"
                              /\ (tx[p].pc = "flush" => tx[q].old # None /\ tx[q].user = tx[p].user)
      <3>1. PICK q \in C : q \in WaitsFor(p)
        BY <2>2
      <3>2. /\ q # p /\ tx[q].pc \in {"claim", "flush", "commit"}
            /\ tx[p].pc = "flush" =>
                 \/ tx[q].pc = "commit"
                 \/ tx[q].old # None /\ tx[q].user = tx[p].user
        BY <1>1, <3>1, Waiting
      <3>3. tx[q].pc \in {"lock", "flush"}
        BY <2>3
      <3> QED BY <3>2, <3>3
    <2>5. PICK p \in C : tx[p].pc = "flush"
      BY <2>1, <2>4
    <2>6. PICK q \in C : tx[q].pc = "flush" /\ tx[q].old # None /\ tx[q].user = tx[p].user
      BY <2>4, <2>5
    <2>7. PICK r \in C : /\ r # q /\ tx[r].pc = "flush"
                         /\ tx[r].old # None /\ tx[r].user = tx[q].user
      BY <2>4, <2>6
    <2>8. /\ lock[tx[q].old] = q /\ tx[q].old \in Active(tx[q].user)
          /\ lock[tx[r].old] = r /\ tx[r].old \in Active(tx[q].user)
      BY <1>1, <2>6, <2>7, TxFacts DEF HoldsRows
    <2>9. tx[q].user \in Users
      BY <1>1, <2>6, TxFacts DEF Shaped, Tx, IdleTx
    <2>10. tx[q].old = tx[r].old
      BY <1>1, <2>8, <2>9 DEF PoolInv, OneSecretPerUser
    <2> QED BY <2>7, <2>8, <2>10
  <1> QED BY <1>1, PoolSafety, PTL

\* Only the commit of a revocation takes the last secret from its user; a
\* rotation that fails, or finds the pool empty, leaves the old one.
THEOREM AccessKept == Spec => RotationKeepsAccess
  <1> DEFINE Kept == \A u \in Users : Active(u) # {} /\ Active(u)' = {} =>
                       \E p \in Sessions : tx[p].op = "revoke" /\ tx[p].user = u
                                           /\ tx[p].pc = "commit"
  <1>1. ASSUME PoolInv, Next PROVE Kept
    <2>1. ASSUME NEW p \in Sessions, IssueCommit(p) \/ RotateCommit(p) \/ RevokeCommit(p)
          PROVE  Kept
      <3>1. /\ tx[p].pc = "commit" /\ slot' = Written(p)
            /\ tx[p].new # None => tx[p].new \in Slots /\ slot[tx[p].new].status = "FREE"
            /\ tx[p].old # None => tx[p].old \in Active(tx[p].user)
            /\ tx[p].op = "revoke" \/ tx[p].new # None
        BY <1>1, <2>1, TxFacts
           DEF IssueCommit, RotateCommit, RevokeCommit, Shaped, HoldsRows
      <3>2. ASSUME NEW u \in Users, u # tx[p].user, NEW s \in Active(u) PROVE s \in Active(u)'
        <4>1. s \in Slots /\ slot[s].status = "ACTIVE" /\ slot[s].user = u /\ s # None
          BY PoolAssumption DEF Active
        <4>2. s # tx[p].new /\ s # tx[p].old
          BY <3>1, <3>2, <4>1 DEF Active
        <4>3. slot'[s] = slot[s]
          BY <3>1, <4>1, <4>2, Zenon DEF Written
        <4> QED BY <4>1, <4>3 DEF Active
      <3>3. ASSUME tx[p].op # "revoke", tx[p].user \in Users
            PROVE  tx[p].new \in {s \in Slots : slot'[s].status = "ACTIVE" /\ slot'[s].user = tx[p].user}
        <4>1. slot'[tx[p].new] = [status |-> "ACTIVE", user |-> tx[p].user]
          BY <3>1, <3>3, Zenon DEF Written
        <4> QED BY <3>1, <3>3, <4>1
      <3>4. ASSUME NEW u \in Users, Active(u) # {}, Active(u)' = {}
            PROVE  tx[p].op = "revoke" /\ tx[p].user = u /\ tx[p].pc = "commit"
        <4>1. u = tx[p].user
          BY <3>2, <3>4
        <4>2. tx[p].op = "revoke"
          BY <3>3, <3>4, <4>1 DEF Active
        <4> QED BY <3>1, <4>1, <4>2
      <3> QED BY <3>4
    <2>2. ASSUME NEW p \in Sessions, BootstrapCommit(p) PROVE Kept
      <3>1. ASSUME NEW u \in Users, NEW s \in Active(u) PROVE s \in Active(u)'
        BY <2>2 DEF BootstrapCommit, NextOn, Active
      <3> QED BY <3>1
    <2>3. ASSUME slot' = slot PROVE Kept
      BY <2>3 DEF Active
    <2> QED BY <1>1, <2>1, <2>2, <2>3
            DEF Next, IssueBegin, IssueFound, IssueMissing, Claim, PoolFull, Flush, AdminBegin,
                RotateLock, RevokeLock, BootstrapBegin, BootstrapFlush, Rollback,
                SubscriptionChanges
  <1>2. ASSUME UNCHANGED vars PROVE Kept
    BY <1>2 DEF vars, Active
  <1>3. PoolInv /\ [Next]_vars => [Kept]_vars
    BY <1>1, <1>2
  <1> QED BY <1>3, PoolSafety, PTL DEF Spec, RotationKeepsAccess

=============================================================================
