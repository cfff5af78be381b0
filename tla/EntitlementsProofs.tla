------------------------- MODULE EntitlementsProofs -------------------------
(***************************************************************************)
(* The safety of Entitlements, for every value of the constants: Invariant *)
(* holds initially and every step of a session, of the admin and of the    *)
(* clock preserves it.                                                     *)
(***************************************************************************)
EXTENDS TypeProofs

USE DEF Live, Rows, Sources

\* What the tables promise, whatever the open transactions are about to do.
Tables ==
  /\ TrialRecorded /\ OneLiveSubscription /\ GrantedOnce /\ LiveIsPaidFor /\ NoGrantLost
  /\ PanelCovers /\ OneTrial /\ OnePendingOrder

-----------------------------------------------------------------------------
(* Locks and transactions.                                                 *)

\* What Shape says of one open transaction.
LEMMA TxFacts ==
  ASSUME Shape, NEW p \in Sessions
  PROVE  /\ tx[p] \in Tx /\ Shaped(tx[p])
         /\ tx[p].mode # "none" => tx[p].sub \in Subs /\ tx[p].sub \in Rows
         /\ tx[p].op \in {"pay", "refund"} => tx[p].order \in Orders /\ tx[p].order \in Rows
         /\ tx[p].op = "activate" => tx[p].code \in Codes /\ tx[p].code \in Rows
         /\ tx[p].old # None => tx[p].old \in Subs /\ tx[p].old \in Rows
  <1>1. tx[p] \in Tx /\ Shaped(tx[p])
    BY DEF Shape, TypeOK, TxShape
  <1>2. /\ tx[p].sub \in Subs \cup {None}
        /\ tx[p].old \in Subs \cup {None}
        /\ tx[p].mode = "none" <=> tx[p].sub = None
        /\ tx[p].op \in {"pay", "refund"} => tx[p].order \in Orders
        /\ tx[p].op = "activate" => tx[p].code \in Codes
    <2>1. tx[p].sub \in Subs \cup {None} /\ tx[p].old \in Subs \cup {None}
      BY <1>1 DEF Tx
    <2>2. tx[p].mode = "none" <=> tx[p].sub = None
      BY <1>1 DEF Shaped
    <2>3. tx[p].op \in {"pay", "refund"} => tx[p].order \in Orders
      BY <1>1 DEF Shaped
    <2>4. tx[p].op = "activate" => tx[p].code \in Codes
      BY <1>1 DEF Shaped
    <2> QED BY <2>1, <2>2, <2>3, <2>4
  <1>3. tx[p].mode # "none" => tx[p].sub \in Subs /\ tx[p].sub \in Rows
    BY <1>2
  <1>4. /\ tx[p].op \in {"pay", "refund"} => tx[p].order \in Orders /\ tx[p].order \in Rows
        /\ tx[p].op = "activate" => tx[p].code \in Codes /\ tx[p].code \in Rows
    BY <1>2
  <1>5. tx[p].old # None => tx[p].old \in Subs /\ tx[p].old \in Rows
    BY <1>2
  <1> QED BY <1>1, <1>3, <1>4, <1>5

\* Locking what is free takes no lock from another session.
LEMMA TakeKeeps ==
  ASSUME Shape, NEW p \in Sessions, NEW R \in SUBSET Rows, Take(p, R), \A r \in R : Free(p, r)
  PROVE  /\ \A r \in Rows : lock[r] \in Sessions => lock'[r] = lock[r]
         /\ \A r \in R : lock'[r] = p
  BY StorageAssumption DEF Take, Free

\* Ending a session takes no lock from another one.
LEMMA EndKeeps ==
  ASSUME Shape, NEW p \in Sessions, End(p)
  PROVE  /\ \A r \in Rows : lock[r] \in Sessions \ {p} => lock'[r] = lock[r]
         /\ \A q \in Sessions : tx'[q] = IF q = p THEN IdleTx ELSE tx[q]
  BY DEF End, Shape, TypeOK

\* No two sessions write the same subscription.
LEMMA SubsDistinct ==
  ASSUME IInv, NEW p \in Sessions, NEW q \in Sessions, p # q,
         tx[p].mode # "none", tx[q].mode # "none"
  PROVE  tx[p].sub # tx[q].sub
  <1>1. /\ tx[p].mode \in {"insert", "extend"} /\ tx[q].mode \in {"insert", "extend"}
        /\ tx[p].mode = "insert" => Inserted(p)
        /\ tx[q].mode = "insert" => Inserted(q)
    BY TxFacts DEF IInv, Shaped, Tx, Inserted
  <1>2. CASE tx[p].mode = "extend" /\ tx[q].mode = "extend"
    BY <1>2 DEF IInv, Reliant, HoldsSub
  <1>3. CASE Inserted(p) \/ Inserted(q)
    BY <1>3 DEF IInv, InsertsAlone
  <1> QED BY <1>1, <1>2, <1>3

\* A session keeps what it relies on when others leave alone the rows it locked,
\* the row it inserts and the panel user it writes.
LEMMA OthersRely ==
  ASSUME Shape, NEW q \in Sessions, Reliant(q), tx'[q] = tx[q],
         \A r \in Rows : lock[r] = q => lock'[r] = q,
         tx[q].op \in {"pay", "refund"} => order'[tx[q].order] = order[tx[q].order],
         \A o \in Orders : order[o].status # "NONE"
                         => order'[o].status # "NONE" /\ order'[o].user = order[o].user,
         \A k \in Codes : lock[k] = q => code'[k] = code[k],
         \A s \in Subs : tx[q].mode # "none" /\ s = tx[q].sub
                         => sub'[s] = sub[s] /\ term'[s] = term[s],
         \A s \in Subs : s = tx[q].old => sub'[s] = sub[s],
         \A s \in Subs : \/ sub'[s].order \in {None, sub[s].order}
                         \/ lock[sub'[s].order] # q,
         tx[q].mode # "none" => panel'[tx[q].sub].days = panel[tx[q].sub].days
  PROVE  Reliant(q)'
  <1>0. /\ tx[q] \in Tx /\ Shaped(tx[q])
        /\ tx[q].mode # "none" => tx[q].sub \in Subs /\ tx[q].sub \in Rows
        /\ tx[q].op \in {"pay", "refund"} => tx[q].order \in Orders /\ tx[q].order \in Rows
        /\ tx[q].op = "activate" => tx[q].code \in Codes /\ tx[q].code \in Rows
        /\ tx[q].old # None => tx[q].old \in Subs /\ tx[q].old \in Rows
    BY TxFacts
  <1>1. HoldsOrder(q)'
    <2>1. CASE tx[q].op = "pay"
      BY <1>0, <2>1 DEF Reliant, HoldsOrder
    <2>2. CASE tx[q].op = "refund"
      <3>1. lock'[tx[q].order] = q /\ order'[tx[q].order].status = "PAID"
        BY <1>0, <2>2 DEF Reliant, HoldsOrder
      <3>2. tx[q].order # None /\ lock[tx[q].order] = q
        BY <1>0, <2>2, StorageAssumption DEF Reliant, HoldsOrder
      <3>3. ASSUME NEW s \in Subs, sub'[s].order = tx[q].order PROVE s \in tx[q].seen
        BY <2>2, <3>2, <3>3 DEF Reliant, HoldsOrder
      <3> QED BY <2>2, <3>1, <3>3 DEF HoldsOrder
    <2>3. CASE tx[q].op = "order"
      BY <2>3 DEF Reliant, HoldsOrder
    <2>4. CASE tx[q].op \notin {"pay", "refund", "order"}
      BY <2>4 DEF HoldsOrder
    <2> QED BY <2>1, <2>2, <2>3, <2>4
  <1>2. HoldsCode(q)'
    BY <1>0 DEF Reliant, HoldsCode
  <1>3. HoldsSub(q)'
    <2>1. CASE tx[q].mode = "extend"
      BY <1>0, <2>1 DEF Reliant, HoldsSub, Shaped
    <2>2. CASE tx[q].mode # "extend"
      BY <1>0, <2>2 DEF Reliant, HoldsSub
    <2> QED BY <2>1, <2>2
  <1>4. CoversTerm(q)'
    <2>1. CASE tx[q].mode = "extend"
      <3>1. sub'[tx[q].sub] = sub[tx[q].sub] /\ term'[tx[q].sub] = term[tx[q].sub]
        BY <1>0, <2>1 DEF Reliant, HoldsSub
      <3> QED BY <1>0, <2>1, <3>1 DEF Reliant, CoversTerm
    <2>2. CASE tx[q].mode # "extend"
      <3>1. tx[q].pc = "commit" => Inserted(q)
        BY <1>0, <2>2 DEF Shaped, Tx, Inserted
      <3> QED BY <1>0, <2>2, <3>1 DEF Reliant, CoversTerm, Shaped, Tx
    <2> QED BY <2>1, <2>2
  <1> QED BY <1>1, <1>2, <1>3, <1>4 DEF Reliant

\* An INSERT under way stays the only one of its user when others finish.
LEMMA OthersAlone ==
  ASSUME Shape, NEW q \in Sessions, InsertsAlone(q), tx'[q] = tx[q],
         Inserted(q) => sub'[tx[q].sub] = sub[tx[q].sub],
         Inserted(q) => LiveSubs(tx[q].user)' \subseteq LiveSubs(tx[q].user),
         Inserted(q) => \A r \in Sessions \ {q} :
           tx'[r] = tx[r] \/ (tx'[r].sub # tx[q].sub
                              /\ (tx'[r].user = tx[q].user => ~Inserted(r)'))
  PROVE  InsertsAlone(q)'
  <1> SUFFICES ASSUME Inserted(q)'
               PROVE  /\ sub'[tx'[q].sub].status = "NONE"
                      /\ LiveSubs(tx[q].user)' \subseteq {tx'[q].old}
                      /\ \A r \in Sessions \ {q} : /\ tx'[r].sub # tx'[q].sub
                                                   /\ tx'[r].user = tx'[q].user => ~Inserted(r)'
    BY DEF InsertsAlone
  <1>1. Inserted(q)
    BY DEF Inserted
  <1>2. sub'[tx[q].sub].status = "NONE"
    BY <1>1 DEF InsertsAlone
  <1>3. LiveSubs(tx[q].user)' \subseteq {tx[q].old}
    BY <1>1 DEF InsertsAlone
  <1>4. ASSUME NEW r \in Sessions \ {q}
        PROVE  tx'[r].sub # tx[q].sub /\ (tx'[r].user = tx[q].user => ~Inserted(r)')
    <2>1. CASE tx'[r] = tx[r]
      BY <1>1, <2>1 DEF InsertsAlone, Inserted
    <2>2. CASE tx'[r] # tx[r]
      BY <1>1, <2>2
    <2> QED BY <2>1, <2>2
  <1> QED BY <1>2, <1>3, <1>4

\* A step that writes no row of a table, and takes no day off the panel.
LEMMA QuietTables ==
  ASSUME IInv, UNCHANGED <<order, sub, code, trial, grants, term>>,
         Shape', \A s \in Subs : sub[s].status \in Live => panel'[s].days >= panel[s].days
  PROVE  Tables'
  <1>1. (TrialRecorded /\ OneLiveSubscription /\ GrantedOnce /\ LiveIsPaidFor)'
    BY DEF IInv, TrialRecorded, OneLiveSubscription, GrantedOnce, LiveIsPaidFor
  <1>2. (NoGrantLost /\ OneTrial /\ OnePendingOrder)'
    BY DEF IInv, NoGrantLost, OneTrial, OnePendingOrder
  <1>3. PanelCovers'
    <2>1. \A s \in Subs : panel[s].days \in Nat /\ panel'[s].days \in Nat /\ term[s] \in Nat
      BY DEF IInv, Shape, TypeOK, PanelUser
    <2> QED BY <2>1 DEF IInv, PanelCovers
  <1> QED BY <1>1, <1>2, <1>3 DEF Tables

\* IInv is what the tables promise and what every session relies on.
LEMMA Assembled ==
  ASSUME Shape', Tables', \A q \in Sessions : Reliant(q)' /\ InsertsAlone(q)'
  PROVE  IInv'
  BY DEF IInv, Tables

\* A step of session p that writes no row of a table.
LEMMA QuietStep ==
  ASSUME IInv, Shape', NEW p \in Sessions,
         UNCHANGED <<order, sub, code, trial, grants, term>>,
         \A q \in Sessions \ {p} : tx'[q] = tx[q],
         \A r \in Rows : lock[r] \in Sessions \ {p} => lock'[r] = lock[r],
         \A s \in Subs : sub[s].status \in Live => panel'[s].days >= panel[s].days,
         \A s \in Subs : s # tx[p].sub => panel'[s].days = panel[s].days,
         Reliant(p)', InsertsAlone(p)',
         \A q \in Sessions \ {p} : Inserted(q) =>
           tx'[p].sub # tx[q].sub /\ (tx'[p].user = tx[q].user => ~Inserted(p)')
  PROVE  IInv'
  <1>1. Tables'
    BY QuietTables
  <1>2. ASSUME NEW q \in Sessions \ {p} PROVE Reliant(q)'
    <2>1. tx[q].mode # "none" => tx[q].sub \in Subs /\ tx[q].sub # tx[p].sub
      <3>1. tx[q].mode # "none" => tx[q].sub \in Subs
        BY TxFacts DEF IInv
      <3>2. tx[p].mode = "none" => tx[p].sub = None
        BY TxFacts DEF IInv, Shaped
      <3>3. None \notin Subs
        BY StorageAssumption
      <3> QED BY <3>1, <3>2, <3>3, SubsDistinct
    <2>2. Shape /\ Reliant(q)
      BY DEF IInv
    <2>3. \A s \in Subs : sub'[s].order \in {None, sub[s].order}
      OBVIOUS
    <2>4. \A r \in Rows : lock[r] = q => lock'[r] = q
      OBVIOUS
    <2>5. tx[q].mode # "none" => panel'[tx[q].sub].days = panel[tx[q].sub].days
      BY <2>1
    <2>6. tx'[q] = tx[q]
      OBVIOUS
    <2> QED BY <2>2, <2>3, <2>4, <2>5, <2>6, OthersRely
  <1>3. ASSUME NEW q \in Sessions \ {p} PROVE InsertsAlone(q)'
    <2>1. Shape /\ InsertsAlone(q)
      BY DEF IInv
    <2>2. LiveSubs(tx[q].user)' \subseteq LiveSubs(tx[q].user)
      BY DEF LiveSubs
    <2> QED BY <2>1, <2>2, OthersAlone
  <1> QED BY <1>1, <1>2, <1>3, Assembled

\* A session begins, or ends without a commit: it has no row to write.
LEMMA BlankStep ==
  ASSUME IInv, Shape', NEW p \in Sessions, NEW t,
         UNCHANGED <<order, sub, code, trial, grants, term>>,
         tx' = [tx EXCEPT ![p] = t], t.mode = "none", t.old = None, t.pc # "commit",
         \A r \in Rows : lock[r] \in Sessions \ {p} => lock'[r] = lock[r],
         \A s \in Subs : sub[s].status \in Live => panel'[s].days >= panel[s].days,
         \A s \in Subs : s # tx[p].sub => panel'[s].days = panel[s].days,
         HoldsOrder(p)', HoldsCode(p)'
  PROVE  IInv'
  <1>1. \A q \in Sessions : tx'[q] = IF q = p THEN t ELSE tx[q]
    BY DEF IInv, Shape, TypeOK
  <1>2. HoldsSub(p)' /\ CoversTerm(p)'
    BY <1>1 DEF HoldsSub, CoversTerm
  <1>3. InsertsAlone(p)' /\ ~Inserted(p)'
    BY <1>1 DEF InsertsAlone, Inserted
  <1>4. ASSUME NEW q \in Sessions \ {p}, Inserted(q) PROVE tx'[p].sub # tx[q].sub
    <2>1. tx'[p].sub = None
      BY <1>1 DEF Shape, TxShape, Shaped
    <2>2. tx[q].sub \in Subs
      BY <1>4, TxFacts DEF IInv, Inserted
    <2> QED BY <2>1, <2>2, StorageAssumption
  <1>5. Reliant(p)'
    BY <1>2 DEF Reliant
  <1>6. \A q \in Sessions \ {p} : tx'[q] = tx[q]
    BY <1>1
  <1> QED BY <1>3, <1>4, <1>5, <1>6, QuietStep

\* A session moves on to its next statement with the same rows in hand.
LEMMA MovesOn ==
  ASSUME IInv, Shape', NEW p \in Sessions, NEW t,
         UNCHANGED <<order, sub, code, trial, grants, term>>,
         tx' = [tx EXCEPT ![p] = t],
         t.op = tx[p].op, t.op \notin {"refund", "order"}, t.user = tx[p].user, t.order = tx[p].order,
         t.code = tx[p].code, t.days = tx[p].days, t.mode = tx[p].mode, t.sub = tx[p].sub,
         t.old = tx[p].old, t.exp = tx[p].exp, t.plan = tx[p].plan,
         tx[p].mode = "insert" => Inserted(p),
         tx[p].op = "activate" => tx[p].pc # "code",
         t.pc = "commit" => panel'[t.sub].days >= term[t.sub] + t.days,
         \A r \in Rows : lock[r] \in Sessions => lock'[r] = lock[r],
         \A s \in Subs : sub[s].status \in Live => panel'[s].days >= panel[s].days,
         \A s \in Subs : s # tx[p].sub => panel'[s].days = panel[s].days
  PROVE  IInv'
  <1>1. \A q \in Sessions : tx'[q] = IF q = p THEN t ELSE tx[q]
    BY DEF IInv, Shape, TypeOK
  <1>2. \A r \in Rows : lock[r] = p => lock'[r] = p
    OBVIOUS
  <1>3. Shape /\ Reliant(p) /\ InsertsAlone(p)
    BY DEF IInv
  <1>4. /\ tx[p].mode # "none" => tx[p].sub \in Subs /\ tx[p].sub \in Rows
        /\ tx[p].op \in {"pay", "refund"} => tx[p].order \in Orders /\ tx[p].order \in Rows
        /\ tx[p].op = "activate" => tx[p].code \in Codes /\ tx[p].code \in Rows
        /\ tx[p].old # None => tx[p].old \in Subs /\ tx[p].old \in Rows
    BY <1>3, TxFacts
  <1>5. HoldsOrder(p)'
    BY <1>1, <1>2, <1>3, <1>4 DEF Reliant, HoldsOrder
  <1>6. HoldsCode(p)'
    BY <1>1, <1>2, <1>3, <1>4 DEF Reliant, HoldsCode
  <1>7. HoldsSub(p)'
    BY <1>1, <1>2, <1>3, <1>4 DEF Reliant, HoldsSub
  <1>8. CoversTerm(p)'
    BY <1>1, <1>3 DEF Reliant, CoversTerm
  <1>9. Inserted(p)' => Inserted(p)
    BY <1>1 DEF Inserted
  <1>10. InsertsAlone(p)'
    <2> SUFFICES ASSUME Inserted(p)'
                 PROVE  /\ sub[tx[p].sub].status = "NONE"
                        /\ LiveSubs(tx[p].user) \subseteq {tx[p].old}
                        /\ \A q \in Sessions \ {p} : /\ tx[q].sub # tx[p].sub
                                                     /\ tx[q].user = tx[p].user => ~Inserted(q)'
      BY <1>1 DEF InsertsAlone, LiveSubs
    <2>1. \A q \in Sessions \ {p} : Inserted(q)' => Inserted(q)
      BY <1>1 DEF Inserted
    <2> QED BY <1>3, <1>9, <2>1 DEF InsertsAlone
  <1>11. ASSUME NEW q \in Sessions \ {p}, Inserted(q)
         PROVE  tx'[p].sub # tx[q].sub /\ (tx'[p].user = tx[q].user => ~Inserted(p)')
    <2>1. InsertsAlone(q)
      BY DEF IInv
    <2> QED BY <1>1, <1>9, <1>11, <2>1 DEF InsertsAlone
  <1>12. Reliant(p)'
    BY <1>5, <1>6, <1>7, <1>8 DEF Reliant
  <1>13. /\ \A q \in Sessions \ {p} : tx'[q] = tx[q]
         /\ \A r \in Rows : lock[r] \in Sessions \ {p} => lock'[r] = lock[r]
    BY <1>1
  <1> QED BY <1>10, <1>11, <1>12, <1>13, QuietStep

-----------------------------------------------------------------------------
(* Steps that write no row: the beginnings and the waits.                  *)

\* The types of the next state, and the two facts every step starts from.
LEMMA Start == ASSUME IInv, NEW p \in Sessions PROVE
  Shape /\ Reliant(p) /\ InsertsAlone(p) /\ tx[p] \in Tx /\ Shaped(tx[p])
  BY TxFacts DEF IInv

\* The inductive invariant survives create_order taking its snapshot.
LEMMA SafeOrderBegin ==
  ASSUME IInv, NEW p \in Sessions, NEW u \in Users, NEW pl \in Plans, OrderBegin(p, u, pl), Shape'
  PROVE  IInv'
  <1> DEFINE t == [IdleTx EXCEPT !.op = "order", !.pc = "lock", !.user = u, !.plan = pl,
                                 !.now = now, !.seen = PendingOrders(u)]
  <1>1. tx' = [tx EXCEPT ![p] = t] /\ tx'[p] = t
    BY DEF OrderBegin, IInv, Shape, TypeOK
  <1>2. /\ t.op = "order" /\ t.mode = "none" /\ t.old = None /\ t.pc = "lock"
        /\ t.user = u /\ t.seen = PendingOrders(u)
    BY DEF IdleTx
  <1>3. HoldsOrder(p)' /\ HoldsCode(p)'
    <2> HIDE DEF t
    <2>1. \A o \in t.seen : order'[o].status = "PENDING" /\ order'[o].user = u
      BY <1>2 DEF PendingOrders, OrderBegin
    <2> QED BY <1>1, <1>2, <2>1 DEF HoldsOrder, HoldsCode
  <1>4. \A s \in Subs : panel'[s].days >= panel[s].days
    BY DEF OrderBegin, IInv, Shape, TypeOK, PanelUser
  <1> HIDE DEF t
  <1> QED BY <1>1, <1>2, <1>3, <1>4, BlankStep DEF OrderBegin

\* The inductive invariant survives mark_paid locking its order.
LEMMA SafePayBegin ==
  ASSUME IInv, NEW p \in Sessions, NEW c \in Charges, PayBegin(p, c), Shape'
  PROVE  IInv'
  <1> DEFINE o == charge[c]
             t == [IdleTx EXCEPT !.op = "pay", !.pc = "read", !.user = order[o].user,
                                 !.order = o, !.charge = c, !.plan = order[o].plan,
                                 !.days = Days[order[o].plan], !.now = now]
  <1>0. o \in Orders
    BY DEF PayBegin, IInv, Shape, TypeOK
  <1>1. tx' = [tx EXCEPT ![p] = t] /\ tx'[p] = t
    BY DEF PayBegin, IInv, Shape, TypeOK
  <1>2. /\ t.op = "pay" /\ t.mode = "none" /\ t.old = None /\ t.pc = "read"
        /\ t.order = o /\ t.user = order[o].user /\ t.plan = order[o].plan
    BY DEF IdleTx
  <1>3. HoldsOrder(p)'
    <2>1. lock'[o] = p /\ order'[o].status = "PENDING" /\ order'[o] = order[o]
      BY <1>0 DEF PayBegin, Take
    <2> HIDE DEF t, o
    <2> QED BY <1>1, <1>2, <2>1 DEF HoldsOrder
  <1>4. HoldsCode(p)'
    BY <1>1, <1>2 DEF HoldsCode
  <1>5. \A r \in Rows : lock[r] \in Sessions \ {p} => lock'[r] = lock[r]
    BY StorageAssumption DEF PayBegin, Take, Free
  <1>6. \A s \in Subs : panel'[s].days >= panel[s].days
    BY DEF PayBegin, IInv, Shape, TypeOK, PanelUser
  <1>7. UNCHANGED <<order, sub, code, trial, grants, term, panel>>
    BY DEF PayBegin
  <1> HIDE DEF t, o
  <1> QED BY <1>1, <1>2, <1>3, <1>4, <1>5, <1>6, <1>7, BlankStep

\* The inductive invariant survives refund locking its order.
LEMMA SafeRefundBegin ==
  ASSUME IInv, NEW p \in Sessions, NEW o \in Orders, RefundBegin(p, o), Shape'
  PROVE  IInv'
  <1> DEFINE t == [IdleTx EXCEPT !.op = "refund", !.pc = "lock", !.order = o,
                                 !.seen = {s \in Subs : sub[s].order = o}]
  <1>1. tx' = [tx EXCEPT ![p] = t] /\ tx'[p] = t
    BY DEF RefundBegin, IInv, Shape, TypeOK
  <1>2. /\ t.op = "refund" /\ t.mode = "none" /\ t.old = None /\ t.pc = "lock"
        /\ t.order = o /\ t.seen = {s \in Subs : sub[s].order = o}
    BY DEF IdleTx
  <1>3. HoldsOrder(p)'
    <2>1. lock'[o] = p /\ order'[o].status = "PAID" /\ sub' = sub
      BY DEF RefundBegin, Take
    <2> QED BY <1>1, <1>2, <2>1 DEF HoldsOrder
  <1>4. HoldsCode(p)'
    BY <1>1, <1>2 DEF HoldsCode
  <1>5. \A r \in Rows : lock[r] \in Sessions \ {p} => lock'[r] = lock[r]
    BY StorageAssumption DEF RefundBegin, Take, Free
  <1>6. \A s \in Subs : panel'[s].days >= panel[s].days
    BY DEF RefundBegin, IInv, Shape, TypeOK, PanelUser
  <1>7. UNCHANGED <<order, sub, code, trial, grants, term, panel>>
    BY DEF RefundBegin
  <1> HIDE DEF t
  <1> QED BY <1>1, <1>2, <1>3, <1>4, <1>5, <1>6, <1>7, BlankStep

\* The inductive invariant survives activate's start.
LEMMA SafeActivateBegin ==
  ASSUME IInv, NEW p \in Sessions, NEW u \in Users, NEW k \in Codes, ActivateBegin(p, u, k), Shape'
  PROVE  IInv'
  <1> DEFINE t == [IdleTx EXCEPT !.op = "activate", !.pc = "code", !.user = u, !.code = k,
                                 !.plan = CodePlan[k], !.days = Days[CodePlan[k]], !.now = now]
  <1>1. tx' = [tx EXCEPT ![p] = t] /\ tx'[p] = t
    BY DEF ActivateBegin, IInv, Shape, TypeOK
  <1>2. t.op = "activate" /\ t.mode = "none" /\ t.old = None /\ t.pc = "code"
    BY DEF IdleTx
  <1>3. HoldsOrder(p)' /\ HoldsCode(p)'
    BY <1>1, <1>2 DEF HoldsOrder, HoldsCode
  <1>4. \A s \in Subs : panel'[s].days >= panel[s].days
    BY DEF ActivateBegin, IInv, Shape, TypeOK, PanelUser
  <1> HIDE DEF t
  <1> QED BY <1>1, <1>2, <1>3, <1>4, BlankStep DEF ActivateBegin

\* The inductive invariant survives activate locking its code.
LEMMA SafeActivateCode ==
  ASSUME IInv, NEW p \in Sessions, ActivateCode(p), Shape'
  PROVE  IInv'
  <1> DEFINE t == [tx[p] EXCEPT !.pc = "user"]
  <1>0. tx[p] \in Tx /\ Shaped(tx[p]) /\ tx[p].code \in Codes
    BY Start DEF ActivateCode, Shaped
  <1>1. tx' = [tx EXCEPT ![p] = t] /\ tx'[p] = t
    BY DEF ActivateCode, Goto, IInv, Shape, TypeOK
  <1>2. t.op = "activate" /\ t.code = tx[p].code /\ t.pc = "user"
    BY <1>0 DEF ActivateCode, Tx
  <1>3. t.mode = "none" /\ t.old = None
    BY <1>0 DEF ActivateCode, Shaped, Tx
  <1>4. HoldsOrder(p)'
    BY <1>1, <1>2 DEF HoldsOrder
  <1>5. HoldsCode(p)'
    <2>1. lock'[tx[p].code] = p /\ code'[tx[p].code] = "ACTIVE"
      BY <1>0 DEF ActivateCode, Take
    <2> QED BY <1>1, <1>2, <2>1 DEF HoldsCode
  <1>6. \A r \in Rows : lock[r] \in Sessions \ {p} => lock'[r] = lock[r]
    BY StorageAssumption DEF ActivateCode, Take, Free
  <1>7. \A s \in Subs : panel'[s].days >= panel[s].days
    BY DEF ActivateCode, IInv, Shape, TypeOK, PanelUser
  <1>8. UNCHANGED <<order, sub, code, trial, grants, term, panel>>
    BY DEF ActivateCode
  <1> HIDE DEF t
  <1> QED BY <1>1, <1>2, <1>3, <1>4, <1>5, <1>6, <1>7, <1>8, BlankStep

\* The inductive invariant survives create_trial's look-up of the trials row.
LEMMA SafeTrialBegin ==
  ASSUME IInv, NEW p \in Sessions, NEW u \in Users, TrialBegin(p, u), Shape'
  PROVE  IInv'
  <1> DEFINE t == [IdleTx EXCEPT !.op = "trial", !.pc = "user", !.user = u,
                                 !.plan = Trial, !.days = TrialDays]
  <1>1. tx' = [tx EXCEPT ![p] = t] /\ tx'[p] = t
    BY DEF TrialBegin, IInv, Shape, TypeOK
  <1>2. t.op = "trial" /\ t.mode = "none" /\ t.old = None /\ t.pc = "user"
    BY DEF IdleTx
  <1>3. HoldsOrder(p)' /\ HoldsCode(p)'
    BY <1>1, <1>2 DEF HoldsOrder, HoldsCode
  <1>4. \A s \in Subs : panel'[s].days >= panel[s].days
    BY DEF TrialBegin, IInv, Shape, TypeOK, PanelUser
  <1> HIDE DEF t
  <1> QED BY <1>1, <1>2, <1>3, <1>4, BlankStep DEF TrialBegin

\* A rollback, whatever the panel has applied before it.
LEMMA RollbackSafe ==
  ASSUME IInv, Shape', NEW p \in Sessions, End(p),
         UNCHANGED <<order, sub, code, trial, grants, term>>,
         \A s \in Subs : sub[s].status \in Live => panel'[s].days >= panel[s].days,
         \A s \in Subs : s # tx[p].sub => panel'[s].days = panel[s].days
  PROVE  IInv'
  <1>1. tx' = [tx EXCEPT ![p] = IdleTx] /\ tx'[p] = IdleTx
    BY DEF End, IInv, Shape, TypeOK
  <1>2. /\ IdleTx.op = "idle" /\ IdleTx.mode = "none" /\ IdleTx.old = None
        /\ IdleTx.pc = "idle"
    BY DEF IdleTx
  <1>3. HoldsOrder(p)' /\ HoldsCode(p)'
    BY <1>1, <1>2 DEF HoldsOrder, HoldsCode
  <1>4. \A r \in Rows : lock[r] \in Sessions \ {p} => lock'[r] = lock[r]
    BY DEF End
  <1> QED BY <1>1, <1>2, <1>3, <1>4, BlankStep

\* The inductive invariant survives a rollback.
LEMMA SafeAbort ==
  ASSUME IInv, NEW p \in Sessions, Abort(p), Shape'
  PROVE  IInv'
  <1>1. \A s \in Subs : panel'[s].days >= panel[s].days
    BY DEF Abort, IInv, Shape, TypeOK, PanelUser
  <1> QED BY <1>1, RollbackSafe DEF Abort

\* n deliveries of a call that adds d days add at least d of them.
LEMMA Repeated == ASSUME NEW n \in Nat, n >= 1, NEW d \in Nat PROVE n * d \in Nat /\ n * d >= d
  <1>1. n - 1 \in Nat /\ n * d = (n - 1) * d + d
    OBVIOUS
  <1>2. (n - 1) * d \in Nat
    BY <1>1
  <1> QED BY <1>1, <1>2

\* What a panel call leaves: the session's subscription has the new days on top
\* of all it had been granted, and nobody lost a day.
LEMMA PanelEffect ==
  ASSUME IInv, NEW p \in Sessions, NEW n \in 1 .. PanelTries, PanelCall(p, n)
  PROVE  /\ \A s \in Subs : sub[s].status \in Live => panel'[s].days >= panel[s].days
         /\ \A s \in Subs : s # tx[p].sub => panel'[s].days = panel[s].days
         /\ panel'[tx[p].sub].days >= term[tx[p].sub] + tx[p].days
  <1> DEFINE s == tx[p].sub
  <1>0. /\ Shape /\ Reliant(p) /\ InsertsAlone(p) /\ tx[p] \in Tx /\ Shaped(tx[p])
        /\ PanelCovers
    BY Start DEF IInv
  <1>1. s \in Subs /\ tx[p].days \in Nat /\ tx[p].mode \in {"insert", "extend"}
    BY <1>0 DEF PanelCall, Shaped, Tx
  <1>2. /\ panel \in [Subs -> PanelUser] /\ panel[s].days \in Nat /\ term[s] \in Nat
        /\ \A z \in Subs : panel[z].days \in Nat
    BY <1>0, <1>1 DEF Shape, TypeOK, PanelUser
  <1>3. SubShaped(s)
    BY <1>0, <1>1 DEF Shape, RowShape
  <1>4. n * tx[p].days \in Nat /\ n * tx[p].days >= tx[p].days
    BY <1>1, StorageAssumption, Repeated
  <1>5. CASE tx[p].mode = "insert" \/ ~sub[s].handle
    <2>1. panel' = [panel EXCEPT ![s] = [state |-> "enabled", days |-> tx[p].days]]
      BY <1>5 DEF PanelCall, Applied
    <2>2. \A z \in Subs : panel'[z].days = IF z = s THEN tx[p].days ELSE panel[z].days
      BY <1>1, <1>2, <2>1
    <2>3. sub[s].status \notin Live
      <3>1. CASE tx[p].mode = "insert"
        BY <1>0, <3>1 DEF InsertsAlone, Inserted, PanelCall
      <3>2. CASE ~sub[s].handle
        BY <1>3, <3>2 DEF SubShaped
      <3> QED BY <1>5, <3>1, <3>2
    <2>4. term[s] = 0
      <3>1. sub[s].status \in {"NONE", "EXPIRED"}
        <4>1. CASE tx[p].mode = "insert"
          BY <1>0, <4>1 DEF InsertsAlone, Inserted, PanelCall
        <4>2. CASE tx[p].mode = "extend"
          BY <1>0, <2>3, <4>2 DEF Reliant, HoldsSub
        <4> QED BY <1>1, <4>1, <4>2
      <3> QED BY <1>3, <3>1 DEF SubShaped
    <2> QED BY <1>1, <1>2, <2>2, <2>3, <2>4
  <1>6. CASE ~(tx[p].mode = "insert" \/ ~sub[s].handle)
    <2>1. panel' = [panel EXCEPT ![s].days = @ + n * tx[p].days]
      BY <1>6 DEF PanelCall, Applied
    <2>2. \A z \in Subs : panel'[z].days = IF z = s THEN panel[z].days + n * tx[p].days
                                                    ELSE panel[z].days
      BY <1>1, <1>2, <2>1 DEF PanelUser
    <2>3. panel[s].days >= term[s]
      <3>1. sub[s].status \in Live \cup {"EXPIRED"}
        BY <1>0, <1>1, <1>6 DEF Reliant, HoldsSub
      <3>2. CASE sub[s].status \in Live
        BY <1>0, <1>1, <1>6, <3>2 DEF PanelCovers
      <3>3. CASE sub[s].status = "EXPIRED"
        BY <1>2, <1>3, <3>3 DEF SubShaped
      <3> QED BY <3>1, <3>2, <3>3
    <2> QED BY <1>1, <1>2, <1>4, <2>2, <2>3
  <1> QED BY <1>5, <1>6

\* The inductive invariant survives a panel call whose answers are all lost.
LEMMA SafePanelFails ==
  ASSUME IInv, NEW p \in Sessions, PanelFails(p), Shape'
  PROVE  IInv'
  BY PanelEffect, RollbackSafe DEF PanelFails

-----------------------------------------------------------------------------
(* Steps that keep the rows in hand.                                       *)

\* The inductive invariant survives mark_paid taking its snapshot of subscriptions.
LEMMA SafePayRead ==
  ASSUME IInv, NEW p \in Sessions, PayRead(p), Shape'
  PROVE  IInv'
  <1> DEFINE t == [tx[p] EXCEPT !.pc = "lock", !.seen = Renewable(tx[p].user)]
  <1>0. /\ tx[p] \in Tx /\ Shaped(tx[p])
        /\ UNCHANGED <<order, sub, code, trial, grants, term, panel>>
    BY Start DEF PayRead
  <1>1. tx' = [tx EXCEPT ![p] = t]
    BY DEF PayRead, Goto
  <1>2. /\ t.op = tx[p].op /\ t.user = tx[p].user /\ t.order = tx[p].order
        /\ t.code = tx[p].code /\ t.days = tx[p].days /\ t.mode = tx[p].mode
        /\ t.sub = tx[p].sub /\ t.old = tx[p].old /\ t.exp = tx[p].exp
        /\ t.plan = tx[p].plan /\ t.pc = "lock"
    BY <1>0 DEF Tx
  <1>3. tx[p].op \notin {"refund", "order"} /\ (tx[p].op = "activate" => tx[p].pc # "code")
    BY <1>0 DEF PayRead, Shaped
  <1>4. tx[p].mode = "insert" => Inserted(p)
    BY <1>0 DEF Shaped, Inserted
  <1>5. \A r \in Rows : lock[r] \in Sessions => lock'[r] = lock[r]
    BY StorageAssumption DEF PayRead
  <1>6. \A s \in Subs : panel'[s].days >= panel[s].days /\ panel'[s].days = panel[s].days
    BY <1>0 DEF IInv, Shape, TypeOK, PanelUser
  <1> HIDE DEF t
  <1> QED BY <1>0, <1>1, <1>2, <1>3, <1>4, <1>5, <1>6, MovesOn

\* The inductive invariant survives mark_paid's foreign key check.
LEMMA SafePayForeignKey ==
  ASSUME IInv, NEW p \in Sessions, PayForeignKey(p), Shape'
  PROVE  IInv'
  <1> DEFINE t == [tx[p] EXCEPT !.pc = "panel"]
  <1>0. /\ tx[p] \in Tx /\ Shaped(tx[p])
        /\ UNCHANGED <<order, sub, code, trial, grants, term, panel>>
    BY Start DEF PayForeignKey
  <1>1. tx' = [tx EXCEPT ![p] = t]
    BY DEF PayForeignKey, Goto
  <1>2. /\ t.op = tx[p].op /\ t.user = tx[p].user /\ t.order = tx[p].order
        /\ t.code = tx[p].code /\ t.days = tx[p].days /\ t.mode = tx[p].mode
        /\ t.sub = tx[p].sub /\ t.old = tx[p].old /\ t.exp = tx[p].exp
        /\ t.plan = tx[p].plan /\ t.pc = "panel"
    BY <1>0 DEF Tx
  <1>3. tx[p].op \notin {"refund", "order"} /\ (tx[p].op = "activate" => tx[p].pc # "code")
    BY <1>0 DEF PayForeignKey, Shaped
  <1>4. tx[p].mode = "insert" => Inserted(p)
    BY <1>0 DEF Shaped, Inserted
  <1>5. \A r \in Rows : lock[r] \in Sessions => lock'[r] = lock[r]
    BY StorageAssumption DEF PayForeignKey
  <1>6. \A s \in Subs : panel'[s].days >= panel[s].days /\ panel'[s].days = panel[s].days
    BY <1>0 DEF IInv, Shape, TypeOK, PanelUser
  <1> HIDE DEF t
  <1> QED BY <1>0, <1>1, <1>2, <1>3, <1>4, <1>5, <1>6, MovesOn

\* The inductive invariant survives activate taking its snapshot.
LEMMA SafeActivateRead ==
  ASSUME IInv, NEW p \in Sessions, ActivateRead(p), Shape'
  PROVE  IInv'
  <1> DEFINE t == [tx[p] EXCEPT !.pc = "lock", !.seen = LiveSubs(tx[p].user)]
  <1>0. /\ tx[p] \in Tx /\ Shaped(tx[p])
        /\ UNCHANGED <<order, sub, code, trial, grants, term, panel>>
    BY Start DEF ActivateRead
  <1>1. tx' = [tx EXCEPT ![p] = t]
    BY DEF ActivateRead, Goto
  <1>2. /\ t.op = tx[p].op /\ t.user = tx[p].user /\ t.order = tx[p].order
        /\ t.code = tx[p].code /\ t.days = tx[p].days /\ t.mode = tx[p].mode
        /\ t.sub = tx[p].sub /\ t.old = tx[p].old /\ t.exp = tx[p].exp
        /\ t.plan = tx[p].plan /\ t.pc = "lock"
    BY <1>0 DEF Tx
  <1>3. tx[p].op \notin {"refund", "order"} /\ (tx[p].op = "activate" => tx[p].pc # "code")
    BY <1>0 DEF ActivateRead, Shaped
  <1>4. tx[p].mode = "insert" => Inserted(p)
    BY <1>0 DEF Shaped, Inserted
  <1>5. \A r \in Rows : lock[r] \in Sessions => lock'[r] = lock[r]
    BY StorageAssumption DEF ActivateRead
  <1>6. \A s \in Subs : panel'[s].days >= panel[s].days /\ panel'[s].days = panel[s].days
    BY <1>0 DEF IInv, Shape, TypeOK, PanelUser
  <1> HIDE DEF t
  <1> QED BY <1>0, <1>1, <1>2, <1>3, <1>4, <1>5, <1>6, MovesOn

\* The inductive invariant survives create_trial's look-up of a live subscription.
LEMMA SafeTrialRead ==
  ASSUME IInv, NEW p \in Sessions, TrialRead(p), Shape'
  PROVE  IInv'
  <1> DEFINE t == [tx[p] EXCEPT !.pc = "insert", !.now = now]
  <1>0. /\ tx[p] \in Tx /\ Shaped(tx[p])
        /\ UNCHANGED <<order, sub, code, trial, grants, term, panel>>
    BY Start DEF TrialRead
  <1>1. tx' = [tx EXCEPT ![p] = t]
    BY DEF TrialRead, Goto
  <1>2. /\ t.op = tx[p].op /\ t.user = tx[p].user /\ t.order = tx[p].order
        /\ t.code = tx[p].code /\ t.days = tx[p].days /\ t.mode = tx[p].mode
        /\ t.sub = tx[p].sub /\ t.old = tx[p].old /\ t.exp = tx[p].exp
        /\ t.plan = tx[p].plan /\ t.pc = "insert"
    BY <1>0 DEF Tx
  <1>3. tx[p].op \notin {"refund", "order"} /\ (tx[p].op = "activate" => tx[p].pc # "code")
    BY <1>0 DEF TrialRead, Shaped
  <1>4. tx[p].mode = "insert" => Inserted(p)
    BY <1>0 DEF Shaped, Inserted
  <1>5. \A r \in Rows : lock[r] \in Sessions => lock'[r] = lock[r]
    BY StorageAssumption DEF TrialRead
  <1>6. \A s \in Subs : panel'[s].days >= panel[s].days /\ panel'[s].days = panel[s].days
    BY <1>0 DEF IInv, Shape, TypeOK, PanelUser
  <1> HIDE DEF t
  <1> QED BY <1>0, <1>1, <1>2, <1>3, <1>4, <1>5, <1>6, MovesOn

\* The inductive invariant survives the INSERT of a users row.
LEMMA SafeInsertUser ==
  ASSUME IInv, NEW p \in Sessions, InsertUser(p), Shape'
  PROVE  IInv'
  <1> DEFINE t == [tx[p] EXCEPT !.pc = "read"]
  <1>0. /\ tx[p] \in Tx /\ Shaped(tx[p])
        /\ UNCHANGED <<order, sub, code, trial, grants, term, panel>>
    BY Start DEF InsertUser
  <1>1. tx' = [tx EXCEPT ![p] = t]
    BY DEF InsertUser, Goto
  <1>2. /\ t.op = tx[p].op /\ t.user = tx[p].user /\ t.order = tx[p].order
        /\ t.code = tx[p].code /\ t.days = tx[p].days /\ t.mode = tx[p].mode
        /\ t.sub = tx[p].sub /\ t.old = tx[p].old /\ t.exp = tx[p].exp
        /\ t.plan = tx[p].plan /\ t.pc = "read"
    BY <1>0 DEF Tx
  <1>3. tx[p].op \notin {"refund", "order"} /\ (tx[p].op = "activate" => tx[p].pc # "code")
    BY <1>0 DEF InsertUser, Shaped, Issuing
  <1>4. tx[p].mode = "insert" => Inserted(p)
    BY <1>0 DEF Shaped, Inserted
  <1>5. \A r \in Rows : lock[r] \in Sessions => lock'[r] = lock[r]
    BY StorageAssumption DEF InsertUser, Take, Free
  <1>6. \A s \in Subs : panel'[s].days >= panel[s].days /\ panel'[s].days = panel[s].days
    BY <1>0 DEF IInv, Shape, TypeOK, PanelUser
  <1> HIDE DEF t
  <1> QED BY <1>0, <1>1, <1>2, <1>3, <1>4, <1>5, <1>6, MovesOn

\* The inductive invariant survives an answered panel call.
LEMMA SafePanelAnswers ==
  ASSUME IInv, NEW p \in Sessions, PanelAnswers(p), Shape'
  PROVE  IInv'
  <1> DEFINE t == [tx[p] EXCEPT !.pc = "commit"]
  <1>0. /\ tx[p] \in Tx /\ Shaped(tx[p])
        /\ UNCHANGED <<order, sub, code, trial, grants, term>>
    BY Start DEF PanelAnswers
  <1>1. tx' = [tx EXCEPT ![p] = t]
    BY DEF PanelAnswers, Goto
  <1>2. /\ t.op = tx[p].op /\ t.user = tx[p].user /\ t.order = tx[p].order
        /\ t.code = tx[p].code /\ t.days = tx[p].days /\ t.mode = tx[p].mode
        /\ t.sub = tx[p].sub /\ t.old = tx[p].old /\ t.exp = tx[p].exp
        /\ t.plan = tx[p].plan /\ t.pc = "commit"
    BY <1>0 DEF Tx
  <1>3. tx[p].op \notin {"refund", "order"} /\ (tx[p].op = "activate" => tx[p].pc # "code")
    BY <1>0 DEF PanelAnswers, Shaped, PanelCall
  <1>4. tx[p].mode = "insert" => Inserted(p)
    BY <1>0 DEF Shaped, Inserted
  <1>5. \A r \in Rows : lock[r] \in Sessions => lock'[r] = lock[r]
    BY StorageAssumption DEF PanelAnswers
  <1>6. /\ \A s \in Subs : sub[s].status \in Live => panel'[s].days >= panel[s].days
        /\ \A s \in Subs : s # tx[p].sub => panel'[s].days = panel[s].days
        /\ panel'[tx[p].sub].days >= term[tx[p].sub] + tx[p].days
    BY PanelEffect DEF PanelAnswers
  <1> HIDE DEF t
  <1> QED BY <1>0, <1>1, <1>2, <1>3, <1>4, <1>5, <1>6, MovesOn

\* The inductive invariant survives activate disabling the row it replaces.
LEMMA SafeActivateUnlink ==
  ASSUME IInv, NEW p \in Sessions, ActivateUnlink(p), Shape'
  PROVE  IInv'
  <1> DEFINE t == [tx[p] EXCEPT !.pc = "insert"]
  <1>0. /\ tx[p] \in Tx /\ Shaped(tx[p])
        /\ UNCHANGED <<order, sub, code, trial, grants, term>>
    BY Start DEF ActivateUnlink
  <1>1. tx' = [tx EXCEPT ![p] = t]
    BY DEF ActivateUnlink, Goto
  <1>2. /\ t.op = tx[p].op /\ t.user = tx[p].user /\ t.order = tx[p].order
        /\ t.code = tx[p].code /\ t.days = tx[p].days /\ t.mode = tx[p].mode
        /\ t.sub = tx[p].sub /\ t.old = tx[p].old /\ t.exp = tx[p].exp
        /\ t.plan = tx[p].plan /\ t.pc = "insert"
    BY <1>0 DEF Tx
  <1>3. tx[p].op \notin {"refund", "order"} /\ (tx[p].op = "activate" => tx[p].pc # "code")
    BY <1>0 DEF ActivateUnlink, Shaped
  <1>4. tx[p].mode = "insert" => Inserted(p)
    BY <1>0 DEF Shaped, Inserted
  <1>5. \A r \in Rows : lock[r] \in Sessions => lock'[r] = lock[r]
    BY StorageAssumption DEF ActivateUnlink
  <1>6. \A s \in Subs : panel'[s].days >= panel[s].days /\ panel'[s].days = panel[s].days
    <2>1. panel' = [panel EXCEPT ![tx[p].old].state = "disabled"]
      BY DEF ActivateUnlink
    <2> QED BY <2>1 DEF IInv, Shape, TypeOK, PanelUser
  <1> HIDE DEF t
  <1> QED BY <1>0, <1>1, <1>2, <1>3, <1>4, <1>5, <1>6, MovesOn

\* The inductive invariant survives locking the users row.
LEMMA SafeLockUser ==
  ASSUME IInv, NEW p \in Sessions, LockUser(p), Shape'
  PROVE  IInv'
  <1>0. PICK l \in {"read", "insertUser"} : tx' = [tx EXCEPT ![p].pc = l]
    BY DEF LockUser, Goto
  <1> DEFINE t == [tx[p] EXCEPT !.pc = l]
  <1>1. /\ tx[p] \in Tx /\ Shaped(tx[p])
        /\ UNCHANGED <<order, sub, code, trial, grants, term, panel>>
    BY Start DEF LockUser
  <1>2. tx' = [tx EXCEPT ![p] = t]
    BY <1>0
  <1>3. /\ t.op = tx[p].op /\ t.user = tx[p].user /\ t.order = tx[p].order
        /\ t.code = tx[p].code /\ t.days = tx[p].days /\ t.mode = tx[p].mode
        /\ t.sub = tx[p].sub /\ t.old = tx[p].old /\ t.exp = tx[p].exp
        /\ t.plan = tx[p].plan /\ t.pc = l
    BY <1>1 DEF Tx
  <1>4. tx[p].op \notin {"refund", "order"} /\ (tx[p].op = "activate" => tx[p].pc # "code")
    BY <1>1 DEF LockUser, Shaped, Issuing
  <1>5. tx[p].mode = "insert" => Inserted(p)
    BY <1>1 DEF Shaped, Inserted
  <1>6. \A r \in Rows : lock[r] \in Sessions => lock'[r] = lock[r]
    BY StorageAssumption DEF LockUser, Take, Free
  <1>7. \A s \in Subs : panel'[s].days >= panel[s].days /\ panel'[s].days = panel[s].days
    BY <1>1 DEF IInv, Shape, TypeOK, PanelUser
  <1> HIDE DEF t
  <1> QED BY <1>1, <1>2, <1>3, <1>4, <1>5, <1>6, <1>7, MovesOn

-----------------------------------------------------------------------------
(* Steps that take the row to write in hand.                               *)

\* A row inserted under the free index entry, with a fresh id, is its user's only one.
LEMMA InsertSafe ==
  ASSUME IInv, Shape', NEW p \in Sessions, NEW s \in Subs, NEW l \in {"fk", "panel"},
         InsertSub(p, s, l), tx[p].op \in {"pay", "activate", "trial"},
         UNCHANGED <<order, sub, code, trial, lock, panel, grants, term>>
  PROVE  IInv'
  <1> DEFINE t == [tx[p] EXCEPT !.pc = l, !.mode = "insert", !.sub = s,
                                !.exp = tx[p].now + tx[p].days]
  <1>0. /\ Shape /\ Reliant(p) /\ tx[p] \in Tx /\ Shaped(tx[p])
        /\ tx[p].pc = "insert" /\ tx[p].mode = "none"
    BY Start DEF InsertSub, Shaped, Tx
  <1>1. \A q \in Sessions : tx'[q] = IF q = p THEN t ELSE tx[q]
    BY DEF InsertSub, IInv, Shape, TypeOK
  <1>2. /\ t.op = tx[p].op /\ t.user = tx[p].user /\ t.order = tx[p].order
        /\ t.code = tx[p].code /\ t.old = tx[p].old /\ t.plan = tx[p].plan
        /\ t.mode = "insert" /\ t.sub = s /\ t.pc = l
    BY <1>0 DEF Tx
  <1>3. /\ sub[s].status = "NONE"
        /\ \A q \in Sessions : tx[q].sub # s
        /\ \A q \in Sessions \ {p} : tx[q].user = tx[p].user => ~Inserted(q)
        /\ LiveSubs(tx[p].user) \subseteq {tx[p].old}
    BY DEF InsertSub, Fresh, IndexHolders, IndexTaken
  <1> HIDE DEF t
  <1>4. HoldsOrder(p)' /\ HoldsCode(p)'
    BY <1>0, <1>1, <1>2 DEF Reliant, HoldsOrder, HoldsCode
  <1>5. HoldsSub(p)' /\ CoversTerm(p)'
    BY <1>0, <1>1, <1>2 DEF Reliant, HoldsSub, CoversTerm
  <1>6. InsertsAlone(p)'
    <2>1. \A q \in Sessions \ {p} : Inserted(q)' <=> Inserted(q)
      BY <1>1 DEF Inserted
    <2>2. LiveSubs(tx[p].user)' \subseteq {tx[p].old}
      <3>1. tx'[p].user = tx[p].user
        BY <1>1, <1>2
      <3> QED BY <1>3, <3>1 DEF LiveSubs
    <2>3. tx'[p].user = tx[p].user /\ tx'[p].old = tx[p].old /\ tx'[p].sub = s
      BY <1>1, <1>2
    <2> QED BY <1>1, <1>3, <2>1, <2>2, <2>3 DEF InsertsAlone
  <1>7. \A q \in Sessions \ {p} : Inserted(q) =>
           tx'[p].sub # tx[q].sub /\ (tx'[p].user = tx[q].user => ~Inserted(p)')
    BY <1>1, <1>2, <1>3
  <1>8. \A z \in Subs : panel'[z].days >= panel[z].days /\ panel'[z].days = panel[z].days
    BY DEF IInv, Shape, TypeOK, PanelUser
  <1>9. Reliant(p)'
    BY <1>4, <1>5 DEF Reliant
  <1>10. /\ \A q \in Sessions \ {p} : tx'[q] = tx[q]
         /\ \A r \in Rows : lock'[r] = lock[r]
    BY <1>1
  <1> QED BY <1>6, <1>7, <1>8, <1>9, <1>10, QuietStep

\* The inductive invariant survives mark_paid's INSERT.
LEMMA SafePayInsert ==
  ASSUME IInv, NEW p \in Sessions, NEW s \in Subs, PayInsert(p, s), Shape'
  PROVE  IInv'
  BY InsertSafe DEF PayInsert

\* The inductive invariant survives the INSERT of activate and create_trial.
LEMMA SafeIssueInsert ==
  ASSUME IInv, NEW p \in Sessions, NEW s \in Subs, IssueInsert(p, s), Shape'
  PROVE  IInv'
  BY InsertSafe DEF IssueInsert, Issuing

\* A session with nothing in hand takes a row of its user to extend, or (an
\* activation) to replace.
LEMMA AdoptSafe ==
  ASSUME IInv, Shape', NEW p \in Sessions, NEW t, NEW s \in Subs,
         UNCHANGED <<order, sub, code, trial, panel, grants, term>>,
         tx' = [tx EXCEPT ![p] = t],
         tx[p].pc = "lock", tx[p].op \in {"pay", "activate"},
         t.op = tx[p].op, t.user = tx[p].user, t.order = tx[p].order, t.code = tx[p].code,
         t.days = tx[p].days, t.plan = tx[p].plan, t.pc \in {"panel", "unlink"},
         sub[s].user = tx[p].user, sub[s].status \in Live \cup {"EXPIRED"},
         tx[p].op = "activate" => sub[s].status \in Live,
         \/ t.mode = "extend" /\ t.sub = s /\ t.old = None
              /\ t.exp >= sub[s].started + term[s] + t.days
         \/ t.mode = "none" /\ t.sub = None /\ t.old = s /\ tx[p].op = "activate",
         \A r \in Rows : lock[r] \in Sessions => lock'[r] = lock[r],
         lock'[s] = p
  PROVE  IInv'
  <1>1. \A q \in Sessions : tx'[q] = IF q = p THEN t ELSE tx[q]
    BY DEF IInv, Shape, TypeOK
  <1>2. Shape /\ Reliant(p)
    BY DEF IInv
  <1>3. /\ tx[p].op \in {"pay", "refund"} => tx[p].order \in Orders /\ tx[p].order \in Rows
        /\ tx[p].op = "activate" => tx[p].code \in Codes /\ tx[p].code \in Rows
    BY <1>2, TxFacts
  <1>4. HoldsOrder(p)'
    BY <1>1, <1>2, <1>3 DEF Reliant, HoldsOrder
  <1>5. HoldsCode(p)'
    BY <1>1, <1>2, <1>3 DEF Reliant, HoldsCode
  <1>6. HoldsSub(p)'
    BY <1>1 DEF HoldsSub
  <1>7. CoversTerm(p)'
    BY <1>1 DEF CoversTerm
  <1>8. ~Inserted(p)' /\ InsertsAlone(p)'
    BY <1>1 DEF Inserted, InsertsAlone
  <1>9. ASSUME NEW q \in Sessions \ {p}, Inserted(q) PROVE tx'[p].sub # tx[q].sub
    <2>1. tx[q].sub \in Subs /\ sub[tx[q].sub].status = "NONE"
      BY <1>9, TxFacts DEF IInv, InsertsAlone, Inserted
    <2> QED BY <1>1, <2>1, StorageAssumption
  <1>10. \A z \in Subs : panel'[z].days >= panel[z].days /\ panel'[z].days = panel[z].days
    BY DEF IInv, Shape, TypeOK, PanelUser
  <1>11. Reliant(p)'
    BY <1>4, <1>5, <1>6, <1>7 DEF Reliant
  <1>12. \A q \in Sessions \ {p} : tx'[q] = tx[q]
    BY <1>1
  <1> QED BY <1>8, <1>9, <1>10, <1>11, <1>12, QuietStep

\* The inductive invariant survives mark_paid choosing the row to extend.
LEMMA SafePayLock ==
  ASSUME IInv, NEW p \in Sessions, PayLock(p), Shape'
  PROVE  IInv'
  <1>0. /\ tx[p] \in Tx /\ Shaped(tx[p]) /\ tx[p].op = "pay" /\ tx[p].pc = "lock"
        /\ UNCHANGED <<order, sub, code, trial, panel, grants, term>>
    BY Start DEF PayLock
  <1>1. \A r \in Rows : lock[r] \in Sessions => lock'[r] = lock[r]
    BY StorageAssumption DEF PayLock, Take, Free
  <1>2. \A s \in tx[p].seen \cap Subs : lock'[s] = p
    BY DEF PayLock, Take
  <1>3. CASE Goto(p, "insert")
    <2> DEFINE t == [tx[p] EXCEPT !.pc = "insert"]
    <2>1. tx' = [tx EXCEPT ![p] = t]
      BY <1>3 DEF Goto
    <2>2. /\ t.op = tx[p].op /\ t.user = tx[p].user /\ t.order = tx[p].order
          /\ t.code = tx[p].code /\ t.days = tx[p].days /\ t.mode = tx[p].mode
          /\ t.sub = tx[p].sub /\ t.old = tx[p].old /\ t.exp = tx[p].exp
        /\ t.plan = tx[p].plan /\ t.pc = "insert"
      BY <1>0 DEF Tx
    <2>3. tx[p].mode # "insert"
      BY <1>0 DEF PayLock, Shaped
    <2>4. \A s \in Subs : panel'[s].days >= panel[s].days /\ panel'[s].days = panel[s].days
      BY <1>0 DEF IInv, Shape, TypeOK, PanelUser
    <2> HIDE DEF t
    <2> QED BY <1>0, <1>1, <2>1, <2>2, <2>3, <2>4, MovesOn
  <1>4. ASSUME NEW s \in Newest(StillRenewable(p)),
               tx' = [tx EXCEPT ![p].pc = "panel", ![p].mode = "extend", ![p].sub = s,
                                ![p].exp = Extended(s, tx[p].days, tx[p].now)]
        PROVE  IInv'
    <2> DEFINE t == [tx[p] EXCEPT !.pc = "panel", !.mode = "extend", !.sub = s,
                                  !.exp = Extended(s, tx[p].days, tx[p].now)]
    <2>1. /\ t.op = tx[p].op /\ t.user = tx[p].user /\ t.order = tx[p].order
          /\ t.code = tx[p].code /\ t.days = tx[p].days /\ t.old = tx[p].old
          /\ t.plan = tx[p].plan
          /\ t.pc = "panel" /\ t.mode = "extend" /\ t.sub = s
          /\ t.exp = Extended(s, tx[p].days, tx[p].now)
      BY <1>0 DEF Tx
    <2>2. tx' = [tx EXCEPT ![p] = t]
      BY <1>4
    <2>3. /\ s \in Subs /\ lock'[s] = p /\ sub[s].user = tx[p].user
          /\ sub[s].status \in Live \cup {"EXPIRED"}
      BY <1>2 DEF Newest, StillRenewable, Renewable
    <2>4. t.old = None
      BY <1>0, <2>1 DEF Shaped
    <2>5. t.exp >= sub[s].started + term[s] + t.days
      <3>1. /\ sub[s].started \in Nat /\ sub[s].exp \in Nat /\ term[s] \in Nat
            /\ tx[p].days \in Nat /\ tx[p].now \in Nat
        BY <1>0, <2>3 DEF IInv, Shape, TypeOK, SubRow, Tx
      <3>2. CASE sub[s].status \in Live
        <4>1. sub[s].exp >= sub[s].started + term[s]
          BY <2>3, <3>2 DEF IInv, NoGrantLost
        <4> QED BY <2>1, <3>1, <3>2, <4>1 DEF Extended, Later
      <3>3. CASE sub[s].status = "EXPIRED"
        <4>1. sub[s].started < Opening /\ term[s] = 0
          BY <2>3, <3>3 DEF IInv, Shape, RowShape, SubShaped
        <4>2. Opening \in Nat /\ tx[p].now >= Opening
          BY <1>0, StorageAssumption DEF Shaped
        <4>3. Extended(s, tx[p].days, tx[p].now) = tx[p].days + tx[p].now
          BY <3>3 DEF Extended
        <4> QED BY <2>1, <3>1, <4>1, <4>2, <4>3
      <3> QED BY <2>3, <3>2, <3>3
    <2> HIDE DEF t
    <2> QED BY <1>0, <1>1, <2>1, <2>2, <2>3, <2>4, <2>5, AdoptSafe
  <1> QED BY <1>3, <1>4 DEF PayLock

\* The inductive invariant survives activate choosing to create, extend or replace.
LEMMA SafeActivateLock ==
  ASSUME IInv, NEW p \in Sessions, ActivateLock(p), Shape'
  PROVE  IInv'
  <1>0. /\ tx[p] \in Tx /\ Shaped(tx[p]) /\ tx[p].op = "activate" /\ tx[p].pc = "lock"
        /\ UNCHANGED <<order, sub, code, trial, panel, grants, term>>
    BY Start DEF ActivateLock
  <1>1. \A r \in Rows : lock[r] \in Sessions => lock'[r] = lock[r]
    BY StorageAssumption DEF ActivateLock, Take, Free
  <1>2. \A s \in tx[p].seen \cap Subs : lock'[s] = p
    BY DEF ActivateLock, Take
  <1>3. CASE Goto(p, "insert")
    <2> DEFINE t == [tx[p] EXCEPT !.pc = "insert"]
    <2>1. tx' = [tx EXCEPT ![p] = t]
      BY <1>3 DEF Goto
    <2>2. /\ t.op = tx[p].op /\ t.user = tx[p].user /\ t.order = tx[p].order
          /\ t.code = tx[p].code /\ t.days = tx[p].days /\ t.mode = tx[p].mode
          /\ t.sub = tx[p].sub /\ t.old = tx[p].old /\ t.exp = tx[p].exp
        /\ t.plan = tx[p].plan /\ t.pc = "insert"
      BY <1>0 DEF Tx
    <2>3. tx[p].mode # "insert"
      BY <1>0 DEF ActivateLock, Shaped
    <2>4. \A s \in Subs : panel'[s].days >= panel[s].days /\ panel'[s].days = panel[s].days
      BY <1>0 DEF IInv, Shape, TypeOK, PanelUser
    <2> HIDE DEF t
    <2> QED BY <1>0, <1>1, <2>1, <2>2, <2>3, <2>4, MovesOn
  <1>4. ASSUME NEW s \in tx[p].seen \cap LiveSubs(tx[p].user),
               tx' = [tx EXCEPT ![p].pc = "panel", ![p].mode = "extend", ![p].sub = s,
                                ![p].exp = Later(sub[s].exp, tx[p].now) + tx[p].days]
        PROVE  IInv'
    <2> DEFINE t == [tx[p] EXCEPT !.pc = "panel", !.mode = "extend", !.sub = s,
                                  !.exp = Later(sub[s].exp, tx[p].now) + tx[p].days]
    <2>1. /\ t.op = tx[p].op /\ t.user = tx[p].user /\ t.order = tx[p].order
          /\ t.code = tx[p].code /\ t.days = tx[p].days /\ t.old = tx[p].old
          /\ t.plan = tx[p].plan
          /\ t.pc = "panel" /\ t.mode = "extend" /\ t.sub = s
          /\ t.exp = Later(sub[s].exp, tx[p].now) + tx[p].days
      BY <1>0 DEF Tx
    <2>2. tx' = [tx EXCEPT ![p] = t]
      BY <1>4
    <2>3. /\ s \in Subs /\ lock'[s] = p /\ sub[s].user = tx[p].user
          /\ sub[s].status \in Live
      BY <1>2 DEF LiveSubs
    <2>4. t.old = None
      BY <1>0, <2>1 DEF Shaped
    <2>5. t.exp >= sub[s].started + term[s] + t.days
      <3>1. /\ sub[s].started \in Nat /\ sub[s].exp \in Nat /\ term[s] \in Nat
            /\ tx[p].days \in Nat /\ tx[p].now \in Nat
        BY <1>0, <2>3 DEF IInv, Shape, TypeOK, SubRow, Tx
      <3>2. sub[s].exp >= sub[s].started + term[s]
        BY <2>3 DEF IInv, NoGrantLost
      <3> QED BY <2>1, <3>1, <3>2 DEF Later
    <2> HIDE DEF t
    <2> QED BY <1>0, <1>1, <2>1, <2>2, <2>3, <2>4, <2>5, AdoptSafe
  <1>5. ASSUME NEW s \in tx[p].seen \cap LiveSubs(tx[p].user),
               tx' = [tx EXCEPT ![p].pc = "unlink", ![p].old = s]
        PROVE  IInv'
    <2> DEFINE t == [tx[p] EXCEPT !.pc = "unlink", !.old = s]
    <2>1. /\ t.op = tx[p].op /\ t.user = tx[p].user /\ t.order = tx[p].order
          /\ t.code = tx[p].code /\ t.days = tx[p].days /\ t.mode = tx[p].mode
          /\ t.sub = tx[p].sub /\ t.pc = "unlink" /\ t.old = s /\ t.plan = tx[p].plan
      BY <1>0 DEF Tx
    <2>2. tx' = [tx EXCEPT ![p] = t]
      BY <1>5
    <2>3. /\ s \in Subs /\ lock'[s] = p /\ sub[s].user = tx[p].user
          /\ sub[s].status \in Live
      BY <1>2 DEF LiveSubs
    <2>4. t.mode = "none" /\ t.sub = None
      BY <1>0, <2>1 DEF Shaped, Tx
    <2> HIDE DEF t
    <2> QED BY <1>0, <1>1, <2>1, <2>2, <2>3, <2>4, AdoptSafe
  <1> QED BY <1>3, <1>4, <1>5 DEF ActivateLock
-----------------------------------------------------------------------------
(* Commits.                                                                *)

\* A commit of session p, which writes the subscriptions W: those it locked and
\* the one it inserts.
LEMMA CommitStep ==
  ASSUME IInv, Shape', Tables', NEW p \in Sessions, End(p), panel' = panel,
         NEW W \in SUBSET Subs,
         \A s \in W : \/ Free(p, s) /\ sub[s].status # "NONE"
                      \/ Inserted(p) /\ s = tx[p].sub,
         \A s \in Subs \ W : sub'[s] = sub[s] /\ term'[s] = term[s],
         \A s \in Subs : \/ sub'[s].order \in {None, sub[s].order}
                         \/ lock[sub'[s].order] = p,
         \A o \in Orders : order'[o] = order[o] \/ order[o].status = "NONE" \/ Free(p, o),
         \A o \in Orders : order[o].status # "NONE"
                         => order'[o].status # "NONE" /\ order'[o].user = order[o].user,
         \A k \in Codes : code'[k] = code[k] \/ Free(p, k),
         \A s \in Subs : sub'[s].status \in Live =>
           \/ sub[s].status \in Live /\ sub[s].user = sub'[s].user
           \/ \A q \in Sessions \ {p} : tx[q].user = sub'[s].user => ~Inserted(q)
  PROVE  IInv'
  <1>1. /\ \A r \in Rows : lock[r] \in Sessions \ {p} => lock'[r] = lock[r]
        /\ \A q \in Sessions : tx'[q] = IF q = p THEN IdleTx ELSE tx[q]
    BY EndKeeps DEF IInv
  <1>2. Reliant(p)' /\ InsertsAlone(p)' /\ ~Inserted(p)'
    <2>1. tx'[p] = IdleTx
      BY <1>1
    <2>2. /\ IdleTx.op = "idle" /\ IdleTx.mode = "none" /\ IdleTx.old = None
          /\ IdleTx.pc = "idle"
      BY DEF IdleTx
    <2> QED BY <2>1, <2>2 DEF Reliant, HoldsOrder, HoldsCode, HoldsSub, CoversTerm,
                              InsertsAlone, Inserted
  <1>3. ASSUME NEW q \in Sessions \ {p} PROVE Reliant(q)' /\ InsertsAlone(q)'
    <2>0. /\ Shape /\ Reliant(q) /\ InsertsAlone(q) /\ InsertsAlone(p)
          /\ tx[q] \in Tx /\ Shaped(tx[q])
      BY Start DEF IInv
    <2>1. /\ tx[q].mode # "none" => tx[q].sub \in Subs
          /\ tx[q].op \in {"pay", "refund"} => tx[q].order \in Orders
      BY <2>0, TxFacts
    <2>2. p \in Sessions /\ None \notin Sessions /\ p # q
      BY StorageAssumption
    <2>3. tx[q].mode # "none" => tx[q].sub \notin W
      <3>1. CASE tx[q].mode = "insert"
        <4>1. Inserted(q) /\ sub[tx[q].sub].status = "NONE"
          BY <2>0, <3>1 DEF Shaped, Inserted, InsertsAlone
        <4>2. tx[p].sub # tx[q].sub
          BY <2>0, <4>1 DEF InsertsAlone
        <4> QED BY <4>1, <4>2
      <3>2. CASE tx[q].mode = "extend"
        <4>1. lock[tx[q].sub] = q
          BY <2>0, <3>2 DEF Reliant, HoldsSub
        <4>2. Inserted(p) => tx[q].sub # tx[p].sub
          BY <2>0 DEF InsertsAlone
        <4> QED BY <2>2, <4>1, <4>2 DEF Free
      <3> QED BY <2>0, <3>1, <3>2 DEF Tx
    <2>4. tx[q].old # None => tx[q].old \notin W
      <3> SUFFICES ASSUME tx[q].old # None PROVE tx[q].old \notin W
        OBVIOUS
      <3>1. lock[tx[q].old] = q /\ sub[tx[q].old].status \in Live
        BY <2>0 DEF Reliant, HoldsSub
      <3>2. Inserted(p) => tx[q].old # tx[p].sub
        BY <2>0, <3>1 DEF InsertsAlone
      <3> QED BY <2>2, <3>1, <3>2 DEF Free
    <2>5. tx[q].op \in {"pay", "refund"} => order'[tx[q].order] = order[tx[q].order]
      <3> SUFFICES ASSUME tx[q].op \in {"pay", "refund"}
                   PROVE  order'[tx[q].order] = order[tx[q].order]
        OBVIOUS
      <3>1. lock[tx[q].order] = q /\ order[tx[q].order].status \in {"PENDING", "PAID"}
        BY <2>0 DEF Reliant, HoldsOrder
      <3> QED BY <2>1, <2>2, <3>1 DEF Free
    <2>6. \A k \in Codes : lock[k] = q => code'[k] = code[k]
      BY <2>2 DEF Free
    <2>7. \A s \in Subs : tx[q].mode # "none" /\ s = tx[q].sub
                          => sub'[s] = sub[s] /\ term'[s] = term[s]
      BY <2>3
    <2>8. \A s \in Subs : s = tx[q].old => sub'[s] = sub[s]
      BY <2>4, StorageAssumption
    <2>9. \A s \in Subs : sub'[s].order \in {None, sub[s].order} \/ lock[sub'[s].order] # q
      BY <2>2
    <2>10. \A r \in Rows : lock[r] = q => lock'[r] = q
      BY <1>1
    <2>11. tx'[q] = tx[q]
      BY <1>1
    <2>12. Reliant(q)'
      BY <2>0, <2>5, <2>6, <2>7, <2>8, <2>9, <2>10, <2>11, OthersRely
    <2>13. Inserted(q) => LiveSubs(tx[q].user)' \subseteq LiveSubs(tx[q].user)
      <3> SUFFICES ASSUME Inserted(q), NEW s \in Subs, sub'[s].user = tx[q].user,
                          sub'[s].status \in Live
                   PROVE  sub[s].user = tx[q].user /\ sub[s].status \in Live
        BY <2>11 DEF LiveSubs
      <3> QED OBVIOUS
    <2>14. Inserted(q) => \A r \in Sessions \ {q} :
             tx'[r] = tx[r] \/ (tx'[r].sub # tx[q].sub
                                /\ (tx'[r].user = tx[q].user => ~Inserted(r)'))
      <3> SUFFICES ASSUME Inserted(q), NEW r \in Sessions \ {q}, tx'[r] # tx[r]
                   PROVE  tx'[r].sub # tx[q].sub /\ ~Inserted(r)'
        OBVIOUS
      <3>1. r = p /\ tx'[r].sub = None
        BY <1>1 DEF IdleTx
      <3>2. tx[q].sub # None
        BY <2>1, StorageAssumption DEF Inserted
      <3> QED BY <1>2, <3>1, <3>2
    <2>15. Inserted(q) => sub'[tx[q].sub] = sub[tx[q].sub]
      BY <2>1, <2>7 DEF Inserted
    <2> QED BY <2>0, <2>11, <2>12, <2>13, <2>14, <2>15, OthersAlone
  <1> QED BY <1>2, <1>3, Assembled

\* The inductive invariant survives mark_paid's commit.
LEMMA SafePayCommit ==
  ASSUME IInv, NEW p \in Sessions, PayCommit(p), Shape'
  PROVE  IInv'
  <1> DEFINE t == tx[p]
             s == tx[p].sub
             o == tx[p].order
             row == PaidRow(p)
  <1>0. /\ Shape /\ Reliant(p) /\ InsertsAlone(p) /\ t \in Tx /\ Shaped(t)
        /\ t.op = "pay" /\ t.pc = "commit"
    BY Start DEF PayCommit
  <1>1. /\ s \in Subs /\ o \in Orders /\ t.mode \in {"insert", "extend"} /\ t.old = None
        /\ t.user \in Users /\ t.plan \in Plans /\ t.days \in Nat
    BY <1>0 DEF Shaped, Tx
  <1>2. /\ \A z \in Subs : sub'[z] = IF z = s THEN row ELSE sub[z]
        /\ \A z \in Subs : term'[z] = IF z = s THEN term[s] + t.days ELSE term[z]
        /\ sub \in [Subs -> SubRow] /\ term \in [Subs -> Nat]
    BY <1>0, <1>1 DEF PayCommit, Shape, TypeOK
  <1>3. /\ \A d \in Orders : d # o => order'[d] = order[d]
        /\ order'[o].status = "PAID" /\ order'[o].user = order[o].user
    BY <1>0, <1>1 DEF PayCommit, Shape, TypeOK, OrderRow
  <1>4. /\ \A g \in Sources : grants'[g] = IF g = o THEN grants[g] + 1 ELSE grants[g]
        /\ UNCHANGED <<code, trial, panel>>
    BY <1>0, <1>1 DEF PayCommit, Shape, TypeOK
  <1>5. order[o].status = "PENDING" /\ order[o].user = t.user /\ lock[o] = p
    BY <1>0 DEF Reliant, HoldsOrder
  <1>6. /\ row.status = "ACTIVE" /\ row.order = o /\ row.exp = t.exp /\ row.user = t.user
        /\ t.mode = "insert" => row.plan \in Plans /\ row.started = t.now
        /\ t.mode = "extend" => row.plan = sub[s].plan /\ row.started = sub[s].started
    <2>1. CASE t.mode = "insert"
      BY <1>1, <2>1 DEF PaidRow, NoSub
    <2>2. CASE t.mode = "extend"
      <3>1. sub[s] \in SubRow /\ sub[s].user = t.user
        BY <1>0, <1>1, <1>2, <2>2 DEF Reliant, HoldsSub
      <3> QED BY <2>2, <3>1 DEF PaidRow, SubRow
    <2> QED BY <1>1, <2>1, <2>2
  <1>7. /\ t.mode = "insert" => /\ sub[s].status = "NONE" /\ LiveSubs(t.user) = {}
                                /\ Inserted(p)
        /\ t.mode = "extend" => sub[s].user = t.user /\ lock[s] = p
                                /\ sub[s].status \in Live \cup {"EXPIRED"}
    BY <1>0, <1>1, StorageAssumption DEF Reliant, HoldsSub, InsertsAlone, Inserted, LiveSubs
  <1>8. \A z \in Subs : sub[z].status \in Live /\ sub[z].user = t.user => z = s
    <2>1. CASE t.mode = "insert"
      BY <1>7, <2>1 DEF LiveSubs
    <2>2. CASE t.mode = "extend" /\ sub[s].status \in Live
      BY <1>1, <1>7, <2>2 DEF IInv, OneLiveSubscription
    <2>3. CASE t.mode = "extend" /\ sub[s].status = "EXPIRED"
      <3>1. ~IndexTaken(p, t.user)
        BY <2>3 DEF PayCommit, Revives
      <3> QED BY <1>1, <3>1, StorageAssumption DEF IndexTaken, LiveSubs
    <2> QED BY <1>1, <1>7, <2>1, <2>2, <2>3
  <1> HIDE DEF row, s, o, t
  <1>9. Tables'
    <2>1. TrialRecorded'
      <3> SUFFICES ASSUME NEW z \in Subs \ DOMAIN Legacy, sub'[z].plan = Trial
                   PROVE  sub'[z].user \in trial
        BY <1>4 DEF TrialRecorded
      <3>1. CASE z # s
        BY <1>2, <3>1 DEF IInv, TrialRecorded
      <3>2. CASE z = s
        BY <1>1, <1>2, <1>6, <1>7, <3>2, StorageAssumption DEF IInv, TrialRecorded
      <3> QED BY <3>1, <3>2
    <2>2. OneLiveSubscription'
      BY <1>2, <1>6, <1>8 DEF IInv, OneLiveSubscription
    <2>3. GrantedOnce'
      <3>1. o \notin Codes
        BY <1>1, StorageAssumption
      <3>2. \A d \in Orders : grants'[d] = IF order'[d].status \in {"PAID", "REFUNDED"} THEN 1 ELSE 0
        BY <1>1, <1>3, <1>4, <1>5 DEF IInv, GrantedOnce
      <3>3. \A k \in SingleUse : grants'[k] = grants[k] /\ code'[k] = code[k]
        BY <1>4, <3>1, StorageAssumption
      <3> QED BY <3>2, <3>3 DEF IInv, GrantedOnce
    <2>4. LiveIsPaidFor'
      BY <1>0, <1>2, <1>3, <1>5, <1>6 DEF IInv, LiveIsPaidFor, SubRow
    <2>5. NoGrantLost'
      <3>1. t.exp >= row.started + term[s] + t.days
        <4>1. CASE t.mode = "insert"
          <5>1. term[s] = 0
            BY <1>0, <1>1, <1>7, <4>1 DEF Shape, RowShape, SubShaped
          <5>2. t.exp = t.now + t.days /\ t.now \in Nat
            BY <1>0, <4>1 DEF Shaped, Tx
          <5> QED BY <1>1, <1>6, <4>1, <5>1, <5>2
        <4>2. CASE t.mode = "extend"
          BY <1>0, <1>6, <4>2 DEF Reliant, CoversTerm, t, s
        <4> QED BY <1>1, <4>1, <4>2
      <3>2. /\ row.started \in Nat /\ term[s] \in Nat
        BY <1>0, <1>1, <1>2, <1>6 DEF SubRow, Tx
      <3>3. \A z \in Subs : z # s => sub'[z] = sub[z] /\ term'[z] = term[z]
        BY <1>2
      <3>4. sub'[s] = row /\ term'[s] = term[s] + t.days
        BY <1>1, <1>2
      <3>5. row.exp >= row.started + term'[s]
        BY <1>1, <1>6, <3>1, <3>2, <3>4
      <3> QED BY <3>3, <3>4, <3>5 DEF IInv, NoGrantLost
    <2>6. PanelCovers'
      <3>1. panel[s].days >= term[s] + t.days
        BY <1>0 DEF Reliant, CoversTerm, t, s
      <3> QED BY <1>1, <1>2, <1>4, <3>1 DEF IInv, PanelCovers
    <2>7. OneTrial'
      <3>1. \A z \in Subs : sub'[z].plan = Trial
                            => sub[z].plan = Trial /\ sub[z].user = sub'[z].user
        BY <1>1, <1>2, <1>6, <1>7, StorageAssumption
      <3> QED BY <3>1 DEF IInv, OneTrial
    <2>8. OnePendingOrder'
      BY <1>3 DEF IInv, OnePendingOrder
    <2> QED BY <2>1, <2>2, <2>3, <2>4, <2>5, <2>6, <2>7, <2>8 DEF Tables
  <1>10. {s} \in SUBSET Subs /\ End(p)
    BY <1>1 DEF PayCommit
  <1>11. \A z \in {s} : \/ Free(p, z) /\ sub[z].status # "NONE"
                        \/ Inserted(p) /\ z = tx[p].sub
    BY <1>1, <1>7 DEF Free, s
  <1>12. \A z \in Subs \ {s} : sub'[z] = sub[z] /\ term'[z] = term[z]
    BY <1>2
  <1>13. \A z \in Subs : sub'[z].order \in {None, sub[z].order} \/ lock[sub'[z].order] = p
    BY <1>2, <1>5, <1>6
  <1>14. \A d \in Orders : order'[d] = order[d] \/ order[d].status = "NONE" \/ Free(p, d)
    BY <1>3, <1>5 DEF Free
  <1>15. \A z \in Subs : sub'[z].status \in Live =>
           \/ sub[z].status \in Live /\ sub[z].user = sub'[z].user
           \/ \A q \in Sessions \ {p} : tx[q].user = sub'[z].user => ~Inserted(q)
    <2>1. CASE t.mode = "insert"
      <3>1. \A q \in Sessions \ {p} : tx[q].user = t.user => ~Inserted(q)
        BY <1>0, <1>7, <2>1 DEF InsertsAlone, t
      <3> QED BY <1>2, <1>6, <3>1
    <2>2. CASE t.mode = "extend" /\ sub[s].status \in Live
      BY <1>2, <1>6, <1>7, <2>2
    <2>3. CASE t.mode = "extend" /\ sub[s].status = "EXPIRED"
      <3>1. IndexHolders(p, t.user) = {}
        BY <2>3 DEF PayCommit, Revives, s, t
      <3> QED BY <1>2, <1>6, <3>1 DEF IndexHolders
    <2> QED BY <1>1, <1>7, <2>1, <2>2, <2>3
  <1>16. \A d \in Orders : order[d].status # "NONE"
                           => order'[d].status # "NONE" /\ order'[d].user = order[d].user
    BY <1>3
  <1> QED BY <1>4, <1>9, <1>10, <1>11, <1>12, <1>13, <1>14, <1>15, <1>16, CommitStep

\* The inductive invariant survives refund's commit.
LEMMA SafeRefundCommit ==
  ASSUME IInv, NEW p \in Sessions, RefundCommit(p), Shape'
  PROVE  IInv'
  <1> DEFINE o == tx[p].order
             W == Funded(p) \cap Subs
             gone(z) == [sub[z] EXCEPT !.status = "REVOKED", !.order = None]
  <1>0. /\ Shape /\ Reliant(p) /\ tx[p].op = "refund" /\ o \in Orders
        /\ sub \in [Subs -> SubRow]
    BY Start DEF RefundCommit, Shaped, Shape, TypeOK
  <1>1. /\ lock[o] = p /\ order[o].status = "PAID"
        /\ \A z \in Subs : sub[z].order = o => z \in tx[p].seen
    BY <1>0 DEF Reliant, HoldsOrder
  <1>2. \A z \in Subs : sub'[z] = IF z \in W THEN gone(z) ELSE sub[z]
    BY DEF RefundCommit
  <1>3. \A z \in Subs : /\ gone(z).status = "REVOKED" /\ gone(z).order = None
                        /\ gone(z).plan = sub[z].plan /\ gone(z).user = sub[z].user
    BY <1>0 DEF SubRow
  <1>4. /\ \A d \in Orders : d # o => order'[d] = order[d]
        /\ order'[o].status = "REFUNDED" /\ order'[o].user = order[o].user
    BY <1>0 DEF RefundCommit, Shape, TypeOK, OrderRow
  <1>5. UNCHANGED <<code, trial, panel, grants, term>>
    BY DEF RefundCommit
  <1>6. \A z \in W : z \in tx[p].seen /\ sub[z].order = o /\ sub[z].status \in Live
    BY DEF Funded
  <1>7. \A z \in Subs : sub[z].status \in Live /\ sub[z].order = o => z \in W
    BY <1>1 DEF Funded
  <1> HIDE DEF W, gone, o
  <1>8. \A z \in Subs : /\ sub'[z].status \in Live => z \notin W /\ sub'[z] = sub[z]
                        /\ sub'[z].plan = sub[z].plan /\ sub'[z].user = sub[z].user
                        /\ sub'[z].order \in {None, sub[z].order}
    BY <1>2, <1>3
  <1>9. Tables'
    <2>1. TrialRecorded' /\ OneTrial'
      BY <1>5, <1>8 DEF IInv, TrialRecorded, OneTrial
    <2>2. OneLiveSubscription'
      BY <1>8 DEF IInv, OneLiveSubscription
    <2>3. GrantedOnce'
      BY <1>1, <1>4, <1>5 DEF IInv, GrantedOnce
    <2>4. LiveIsPaidFor'
      BY <1>0, <1>4, <1>7, <1>8 DEF IInv, LiveIsPaidFor, SubRow
    <2>5. NoGrantLost' /\ PanelCovers'
      BY <1>5, <1>8 DEF IInv, NoGrantLost, PanelCovers
    <2>6. OnePendingOrder'
      BY <1>4 DEF IInv, OnePendingOrder
    <2> QED BY <2>1, <2>2, <2>3, <2>4, <2>5, <2>6 DEF Tables
  <1>10. W \in SUBSET Subs /\ \A z \in W : Free(p, z) /\ sub[z].status # "NONE"
    <2>1. \A z \in tx[p].seen : Free(p, z)
      BY DEF RefundCommit
    <2>2. W \in SUBSET Subs
      BY DEF W
    <2> QED BY <1>6, <2>1, <2>2
  <1>11. \A z \in Subs \ W : sub'[z] = sub[z] /\ term'[z] = term[z]
    BY <1>2, <1>5
  <1>12. \A d \in Orders : order'[d] = order[d] \/ order[d].status = "NONE" \/ Free(p, d)
    BY <1>1, <1>4 DEF Free
  <1>13. End(p)
    BY DEF RefundCommit
  <1>14. \A z \in Subs : sub'[z].status \in Live
                         => sub[z].status \in Live /\ sub[z].user = sub'[z].user
    BY <1>8
  <1>15. \A d \in Orders : order[d].status # "NONE"
                           => order'[d].status # "NONE" /\ order'[d].user = order[d].user
    BY <1>4
  <1> QED BY <1>5, <1>8, <1>9, <1>10, <1>11, <1>12, <1>13, <1>14, <1>15, CommitStep

\* The inductive invariant survives create_order's commit.
LEMMA SafeOrderCommit ==
  ASSUME IInv, NEW p \in Sessions, NEW o \in Orders, OrderCommit(p, o), Shape'
  PROVE  IInv'
  <1> DEFINE u == tx[p].user
  <1>0. Shape /\ u \in Users /\ order \in [Orders -> OrderRow]
    BY Start DEF OrderCommit, Shaped, Shape, TypeOK
  <1>1. /\ order[o].status = "NONE"
        /\ order'[o].status = "PENDING" /\ order'[o].user = u
    BY DEF OrderCommit, NoOrder
  <1>2. \A d \in Orders : d # o =>
          IF d \in Draft(p) THEN order'[d].status = "FAILED" /\ order'[d].user = order[d].user
          ELSE order'[d] = order[d]
    BY <1>0 DEF OrderCommit, OrderRow
  <1>3. \A d \in Draft(p) : order[d].status = "PENDING" /\ Free(p, d)
    BY DEF OrderCommit, Draft
  <1>4. \A d \in Orders : order[d].status = "PENDING" /\ order[d].user = u => d \in Draft(p)
    BY DEF OrderCommit, PendingTaken, PendingOrders
  <1>5. UNCHANGED <<sub, code, trial, panel, grants, term>> /\ End(p)
    BY DEF OrderCommit
  <1> HIDE DEF u
  <1>6. Tables'
    <2>1. TrialRecorded' /\ OneTrial'
      BY <1>5 DEF IInv, TrialRecorded, OneTrial
    <2>2. OneLiveSubscription'
      BY <1>5 DEF IInv, OneLiveSubscription
    <2>3. GrantedOnce'
      <3>1. \A d \in Orders : order'[d].status \in {"PAID", "REFUNDED"}
                              <=> order[d].status \in {"PAID", "REFUNDED"}
        BY <1>1, <1>2, <1>3
      <3> QED BY <1>5, <3>1 DEF IInv, GrantedOnce
    <2>4. LiveIsPaidFor'
      <3>1. \A d \in Orders : order[d].status = "PAID" => order'[d].status = "PAID"
        BY <1>1, <1>2, <1>3
      <3>2. \A z \in Subs : sub[z].order \in Orders \cup {None}
        BY <1>0 DEF Shape, TypeOK, SubRow
      <3> QED BY <1>5, <3>1, <3>2 DEF IInv, LiveIsPaidFor
    <2>5. NoGrantLost' /\ PanelCovers'
      BY <1>5 DEF IInv, NoGrantLost, PanelCovers
    <2>6. OnePendingOrder'
      <3>1. \A d \in Orders : d # o /\ order'[d].status = "PENDING"
                              => order[d].status = "PENDING" /\ order'[d].user = order[d].user
                                 /\ order[d].user # u
        BY <1>2, <1>4
      <3> QED BY <1>1, <3>1 DEF IInv, OnePendingOrder
    <2> QED BY <2>1, <2>2, <2>3, <2>4, <2>5, <2>6 DEF Tables
  <1>7. \A d \in Orders : order'[d] = order[d] \/ order[d].status = "NONE" \/ Free(p, d)
    BY <1>1, <1>2, <1>3
  <1>8. /\ \A z \in Subs \ {} : sub'[z] = sub[z] /\ term'[z] = term[z]
        /\ {} \in SUBSET Subs
    BY <1>5
  <1>9. \A d \in Orders : order[d].status # "NONE"
                          => order'[d].status # "NONE" /\ order'[d].user = order[d].user
    BY <1>1, <1>2
  <1> QED BY <1>5, <1>6, <1>7, <1>8, <1>9, CommitStep

\* The inductive invariant survives activate's commit.
LEMMA SafeActivateCommit ==
  ASSUME IInv, NEW p \in Sessions, ActivateCommit(p), Shape'
  PROVE  IInv'
  <1> DEFINE t == tx[p]
             s == tx[p].sub
             k == tx[p].code
             w == tx[p].old
  <1>0. /\ Shape /\ Reliant(p) /\ InsertsAlone(p) /\ t \in Tx /\ Shaped(t)
        /\ t.op = "activate" /\ t.pc = "commit" /\ sub \in [Subs -> SubRow]
    BY Start DEF ActivateCommit, Shape, TypeOK
  <1>1. /\ s \in Subs /\ k \in Codes /\ t.mode \in {"insert", "extend"}
        /\ t.user \in Users /\ t.plan \in Plans /\ t.days \in Nat
        /\ t.mode = "extend" => w = None
    BY <1>0, StorageAssumption DEF Shaped, Tx
  <1>2. /\ t.mode = "insert" => /\ sub[s].status = "NONE" /\ Inserted(p)
                                /\ LiveSubs(t.user) \subseteq {w}
        /\ t.mode = "extend" => sub[s].user = t.user /\ lock[s] = p /\ sub[s].status \in Live
        /\ w # None => sub[w].user = t.user /\ lock[w] = p /\ sub[w].status \in Live
    BY <1>0 DEF Reliant, HoldsSub, InsertsAlone, Inserted
  <1>3. w # s
    BY <1>1, <1>2, StorageAssumption
  <1>4. /\ sub'[s].status = "ACTIVE" /\ sub'[s].user = t.user /\ sub'[s].exp = t.exp
        /\ t.mode = "insert" => /\ sub'[s].plan \in Plans /\ sub'[s].started = t.now
                                /\ sub'[s].order = None
        /\ t.mode = "extend" => /\ sub'[s].plan = sub[s].plan /\ sub'[s].order = sub[s].order
                                /\ sub'[s].started = sub[s].started
    <2>1. CASE t.mode = "insert"
      <3>1. sub'[s] = NewRow(p, "ACTIVE")
        BY <1>1, <2>1 DEF ActivateCommit
      <3> QED BY <1>1, <2>1, <3>1 DEF NewRow, NoSub
    <2>2. CASE t.mode = "extend"
      <3>1. sub'[s] = [sub[s] EXCEPT !.status = "ACTIVE", !.exp = t.exp]
        BY <1>1, <2>2 DEF ActivateCommit
      <3>2. sub[s] \in SubRow
        BY <1>0, <1>1
      <3> QED BY <1>2, <2>2, <3>1, <3>2 DEF SubRow
    <2> QED BY <1>1, <2>1, <2>2
  <1>5. w \in Subs => /\ sub'[w].status = "REVOKED" /\ sub'[w].user = sub[w].user
                      /\ sub'[w].plan = sub[w].plan /\ sub'[w].order = sub[w].order
    <2> SUFFICES ASSUME w \in Subs
                 PROVE  /\ sub'[w].status = "REVOKED" /\ sub'[w].user = sub[w].user
                        /\ sub'[w].plan = sub[w].plan /\ sub'[w].order = sub[w].order
      OBVIOUS
    <2>1. sub'[w] = [sub[w] EXCEPT !.status = "REVOKED"]
      BY <1>3 DEF ActivateCommit
    <2>2. sub[w] \in SubRow
      BY <1>0
    <2> QED BY <2>1, <2>2 DEF SubRow
  <1>6. \A z \in Subs : z # s /\ z # w => sub'[z] = sub[z]
    BY DEF ActivateCommit
  <1>7. \A z \in Subs : term'[z] = IF z = s THEN term[s] + t.days ELSE term[z]
    BY <1>0, <1>1 DEF ActivateCommit, Shape, TypeOK
  <1>8. /\ \A g \in Sources : grants'[g] = IF g = k THEN grants[g] + 1 ELSE grants[g]
        /\ UNCHANGED <<order, trial, panel>>
    BY <1>0, <1>1 DEF ActivateCommit, Shape, TypeOK
  <1>9. /\ \A c \in Codes : c # k => code'[c] = code[c]
        /\ k \in SingleUse => code'[k] = "USED"
        /\ code[k] = "ACTIVE" /\ lock[k] = p
    BY <1>0, <1>1 DEF ActivateCommit, Spent, Shape, TypeOK, Reliant, HoldsCode
  <1> HIDE DEF s, k, t, w
  <1>10. \A z \in Subs : sub[z].status \in Live /\ sub[z].user = t.user => z = s \/ z = w
    <2>1. CASE t.mode = "insert"
      BY <1>2, <2>1 DEF LiveSubs
    <2>2. CASE t.mode = "extend"
      BY <1>1, <1>2, <2>2 DEF IInv, OneLiveSubscription
    <2> QED BY <1>1, <2>1, <2>2
  <1>11. \A z \in Subs : z # s => /\ sub'[z].user = sub[z].user /\ sub'[z].plan = sub[z].plan
                                  /\ sub'[z].order = sub[z].order
                                  /\ sub'[z].status \in Live
                                       => z # w /\ sub'[z] = sub[z] /\ sub[z].status \in Live
    BY <1>5, <1>6
  <1>12. Tables'
    <2>1. \A z \in Subs : sub'[z].plan = Trial
                          => sub[z].plan = Trial /\ sub[z].user = sub'[z].user
      <3>1. sub'[s].plan = Trial => sub[s].plan = Trial /\ sub[s].user = sub'[s].user
        BY <1>1, <1>2, <1>4, StorageAssumption
      <3> QED BY <1>11, <3>1
    <2>2. TrialRecorded' /\ OneTrial'
      BY <1>8, <2>1 DEF IInv, TrialRecorded, OneTrial
    <2>3. OneLiveSubscription'
      BY <1>4, <1>10, <1>11 DEF IInv, OneLiveSubscription
    <2>4. GrantedOnce'
      <3>1. k \notin Orders /\ SingleUse \subseteq Codes
        BY <1>1, StorageAssumption
      <3>2. \A o \in Orders : grants'[o] = grants[o] /\ order'[o] = order[o]
        BY <1>8, <3>1
      <3>3. \A c \in SingleUse : grants'[c] <= 1 /\ (code'[c] = "ACTIVE" => grants'[c] = 0)
        BY <1>1, <1>8, <1>9, <3>1 DEF IInv, GrantedOnce
      <3> QED BY <3>2, <3>3 DEF IInv, GrantedOnce
    <2>5. LiveIsPaidFor'
      <3>1. sub'[s].order # None => sub[s].status \in Live /\ sub'[s].order = sub[s].order
        BY <1>1, <1>2, <1>4
      <3> QED BY <1>1, <1>8, <1>11, <3>1 DEF IInv, LiveIsPaidFor
    <2>6. NoGrantLost'
      <3>1. t.exp >= sub'[s].started + term[s] + t.days
        <4>1. CASE t.mode = "insert"
          <5>1. term[s] = 0
            BY <1>0, <1>1, <1>2, <4>1 DEF Shape, RowShape, SubShaped
          <5>2. t.exp = t.now + t.days /\ t.now \in Nat
            BY <1>0, <4>1 DEF Shaped, Tx
          <5> QED BY <1>1, <1>4, <4>1, <5>1, <5>2
        <4>2. CASE t.mode = "extend"
          BY <1>0, <1>4, <4>2 DEF Reliant, CoversTerm, t, s
        <4> QED BY <1>1, <4>1, <4>2
      <3>2. sub'[s].started \in Nat /\ term[s] \in Nat
        <4>1. t.now \in Nat /\ sub[s].started \in Nat /\ term[s] \in Nat
          BY <1>0, <1>1 DEF Shape, TypeOK, SubRow, Tx
        <4> QED BY <1>1, <1>4, <4>1
      <3>3. \A z \in Subs : z # s => term'[z] = term[z]
        BY <1>7
      <3>4. sub'[s].exp >= sub'[s].started + term'[s]
        BY <1>1, <1>4, <1>7, <3>1, <3>2
      <3> QED BY <1>11, <3>3, <3>4 DEF IInv, NoGrantLost
    <2>7. PanelCovers'
      <3>1. panel[s].days >= term[s] + t.days
        BY <1>0 DEF Reliant, CoversTerm, t, s
      <3>2. \A z \in Subs : z # s => term'[z] = term[z]
        BY <1>7
      <3>3. panel'[s].days >= term'[s]
        BY <1>1, <1>7, <1>8, <3>1
      <3> QED BY <1>8, <1>11, <3>2, <3>3 DEF IInv, PanelCovers
    <2>8. OnePendingOrder'
      BY <1>8 DEF IInv, OnePendingOrder
    <2> QED BY <2>2, <2>3, <2>4, <2>5, <2>6, <2>7, <2>8 DEF Tables
  <1> DEFINE W == {s, w} \cap Subs
  <1>13. /\ W \in SUBSET Subs /\ End(p)
         /\ \A z \in Subs \ W : sub'[z] = sub[z] /\ term'[z] = term[z]
    BY <1>6, <1>7 DEF ActivateCommit
  <1>14. \A z \in W : \/ Free(p, z) /\ sub[z].status # "NONE"
                      \/ Inserted(p) /\ z = tx[p].sub
    <2>1. s = tx[p].sub
      BY DEF s
    <2>2. (Free(p, s) /\ sub[s].status # "NONE") \/ Inserted(p)
      BY <1>1, <1>2 DEF Free
    <2>3. w \in Subs => Free(p, w) /\ sub[w].status # "NONE"
      BY <1>2, StorageAssumption DEF Free
    <2> QED BY <2>1, <2>2, <2>3
  <1>15. \A z \in Subs : sub'[z].order \in {None, sub[z].order} \/ lock[sub'[z].order] = p
    BY <1>1, <1>4, <1>11
  <1>16. /\ \A d \in Orders : order'[d] = order[d]
         /\ \A c \in Codes : code'[c] = code[c] \/ Free(p, c)
    BY <1>8, <1>9 DEF Free
  <1>17. \A z \in Subs : sub'[z].status \in Live =>
           \/ sub[z].status \in Live /\ sub[z].user = sub'[z].user
           \/ \A q \in Sessions \ {p} : tx[q].user = sub'[z].user => ~Inserted(q)
    <2>1. CASE t.mode = "insert"
      <3>1. \A q \in Sessions \ {p} : tx[q].user = t.user => ~Inserted(q)
        BY <1>0, <1>2, <2>1 DEF InsertsAlone, t
      <3> QED BY <1>4, <1>11, <3>1
    <2>2. CASE t.mode = "extend"
      BY <1>2, <1>4, <1>11, <2>2
    <2> QED BY <1>1, <2>1, <2>2
  <1> HIDE DEF W
  <1> QED BY <1>8, <1>12, <1>13, <1>14, <1>15, <1>16, <1>17, CommitStep

\* The inductive invariant survives create_trial's commit.
LEMMA SafeTrialCommit ==
  ASSUME IInv, NEW p \in Sessions, TrialCommit(p), Shape'
  PROVE  IInv'
  <1> DEFINE t == tx[p]
             s == tx[p].sub
             row == NewRow(p, "TRIAL")
  <1>0. /\ Shape /\ Reliant(p) /\ InsertsAlone(p) /\ t \in Tx /\ Shaped(t)
        /\ t.op = "trial" /\ t.pc = "commit" /\ t.user \notin trial
    BY Start DEF TrialCommit, TrialFree
  <1>1. /\ s \in Subs /\ t.mode = "insert" /\ t.old = None /\ t.user \in Users
        /\ t.days \in Nat /\ t.now \in Nat
    BY <1>0 DEF Shaped, Tx
  <1>2. /\ Inserted(p) /\ sub[s].status = "NONE" /\ term[s] = 0
        /\ \A z \in Subs : ~(sub[z].user = t.user /\ sub[z].status \in Live)
    <2>1. Inserted(p)
      BY <1>0, <1>1 DEF Inserted
    <2>2. sub[s].status = "NONE" /\ LiveSubs(t.user) \subseteq {t.old}
      BY <1>0, <2>1 DEF InsertsAlone
    <2>3. LiveSubs(t.user) = {}
      BY <1>1, <2>2, StorageAssumption DEF LiveSubs
    <2> QED BY <1>0, <1>1, <2>1, <2>2, <2>3 DEF LiveSubs, Shape, RowShape, SubShaped
  <1>3. /\ \A z \in Subs : sub'[z] = IF z = s THEN row ELSE sub[z]
        /\ \A z \in Subs : term'[z] = IF z = s THEN term[s] + t.days ELSE term[z]
        /\ trial' = trial \cup {t.user} /\ UNCHANGED <<order, code, panel, grants>>
    BY <1>0, <1>1 DEF TrialCommit, Shape, TypeOK
  <1>4. /\ row.status = "TRIAL" /\ row.user = t.user /\ row.order = None
        /\ row.started = t.now /\ row.exp = t.now + t.days
    BY <1>0, <1>1 DEF NewRow, NoSub, Shaped
  <1> HIDE DEF row, s, t
  <1>5. Tables'
    <2>1. TrialRecorded'
      BY <1>3, <1>4 DEF IInv, TrialRecorded
    <2>2. OneTrial'
      <3>1. \A z \in Subs \ DOMAIN Legacy : sub[z].plan = Trial => sub[z].user # t.user
        BY <1>0 DEF IInv, TrialRecorded
      <3> QED BY <1>3, <1>4, <3>1 DEF IInv, OneTrial
    <2>3. OneLiveSubscription'
      BY <1>2, <1>3, <1>4 DEF IInv, OneLiveSubscription
    <2>4. GrantedOnce'
      BY <1>3 DEF IInv, GrantedOnce
    <2>5. LiveIsPaidFor'
      BY <1>3, <1>4 DEF IInv, LiveIsPaidFor
    <2>6. NoGrantLost'
      <3>1. row.exp >= row.started + term'[s]
        BY <1>1, <1>2, <1>3, <1>4
      <3> QED BY <1>3, <3>1 DEF IInv, NoGrantLost
    <2>7. PanelCovers'
      <3>1. panel[s].days >= term[s] + t.days
        BY <1>0 DEF Reliant, CoversTerm, t, s
      <3> QED BY <1>1, <1>3, <3>1 DEF IInv, PanelCovers
    <2>8. OnePendingOrder'
      BY <1>3 DEF IInv, OnePendingOrder
    <2> QED BY <2>1, <2>2, <2>3, <2>4, <2>5, <2>6, <2>7, <2>8 DEF Tables
  <1>6. {s} \in SUBSET Subs /\ End(p)
    BY <1>1 DEF TrialCommit
  <1>7. \A z \in {s} : Inserted(p) /\ z = tx[p].sub
    BY <1>2 DEF s
  <1>8. \A z \in Subs \ {s} : sub'[z] = sub[z] /\ term'[z] = term[z]
    BY <1>3
  <1>9. \A z \in Subs : sub'[z].order \in {None, sub[z].order}
    BY <1>3, <1>4
  <1>10. \A z \in Subs : sub'[z].status \in Live =>
           \/ sub[z].status \in Live /\ sub[z].user = sub'[z].user
           \/ \A q \in Sessions \ {p} : tx[q].user = sub'[z].user => ~Inserted(q)
    <2>1. \A q \in Sessions \ {p} : tx[q].user = t.user => ~Inserted(q)
      BY <1>0, <1>2 DEF InsertsAlone, t
    <2> QED BY <1>3, <1>4, <2>1
  <1> QED BY <1>3, <1>5, <1>6, <1>7, <1>8, <1>9, <1>10, CommitStep

-----------------------------------------------------------------------------
(* The admin, the bot and the clock.                                       *)

\* The inductive invariant survives the admin's revocation of a subscription.
LEMMA SafeRevokeSubscription ==
  ASSUME IInv, NEW s \in Subs, RevokeSubscription(s), Shape'
  PROVE  IInv'
  <1>0. Shape /\ sub \in [Subs -> SubRow]
    BY DEF IInv, Shape, TypeOK
  <1>1. /\ lock[s] = None /\ sub[s].status \in Live
        /\ UNCHANGED <<order, code, trial, lock, tx, panel, grants, term>>
    BY DEF RevokeSubscription
  <1>2. /\ \A z \in Subs : z # s => sub'[z] = sub[z]
        /\ sub'[s].status = "REVOKED" /\ sub'[s].user = sub[s].user
        /\ sub'[s].plan = sub[s].plan /\ sub'[s].order = sub[s].order
    BY <1>0 DEF RevokeSubscription, SubRow
  <1>3. \A z \in Subs : /\ sub'[z].status \in Live => sub'[z] = sub[z]
                        /\ sub'[z].user = sub[z].user /\ sub'[z].plan = sub[z].plan
                        /\ sub'[z].order = sub[z].order
    BY <1>2
  <1>4. Tables'
    <2>1. TrialRecorded' /\ OneTrial'
      BY <1>1, <1>3 DEF IInv, TrialRecorded, OneTrial
    <2>2. OneLiveSubscription' /\ LiveIsPaidFor'
      BY <1>1, <1>3 DEF IInv, OneLiveSubscription, LiveIsPaidFor
    <2>3. GrantedOnce' /\ OnePendingOrder'
      BY <1>1 DEF IInv, GrantedOnce, OnePendingOrder
    <2>4. NoGrantLost' /\ PanelCovers'
      BY <1>1, <1>3 DEF IInv, NoGrantLost, PanelCovers
    <2> QED BY <2>1, <2>2, <2>3, <2>4 DEF Tables
  <1>5. ASSUME NEW q \in Sessions PROVE Reliant(q)' /\ InsertsAlone(q)'
    <2>0. /\ Reliant(q) /\ InsertsAlone(q) /\ tx[q] \in Tx /\ Shaped(tx[q])
          /\ None \notin Sessions
      BY Start, StorageAssumption
    <2>1. tx[q].mode # "none" => tx[q].sub # s
      <3>1. CASE tx[q].mode = "insert"
        BY <1>1, <2>0, <3>1 DEF Shaped, Inserted, InsertsAlone
      <3>2. CASE tx[q].mode = "extend"
        BY <1>1, <2>0, <3>2 DEF Reliant, HoldsSub
      <3> QED BY <2>0, <3>1, <3>2 DEF Tx
    <2>2. tx[q].old # None => tx[q].old # s
      BY <1>1, <2>0 DEF Reliant, HoldsSub
    <2>3. \A z \in Subs : z = tx[q].old => sub'[z] = sub[z]
      BY <1>2, <2>2, StorageAssumption
    <2>4. \A z \in Subs : tx[q].mode # "none" /\ z = tx[q].sub
                          => sub'[z] = sub[z] /\ term'[z] = term[z]
      BY <1>1, <1>2, <2>1
    <2>5. Reliant(q)'
      <3>1. /\ tx'[q] = tx[q] /\ \A r \in Rows : lock[r] = q => lock'[r] = q
            /\ tx[q].op \in {"pay", "refund"} => order'[tx[q].order] = order[tx[q].order]
            /\ \A k \in Codes : lock[k] = q => code'[k] = code[k]
            /\ tx[q].mode # "none" => panel'[tx[q].sub].days = panel[tx[q].sub].days
            /\ \A o \in Orders : order'[o] = order[o]
        BY <1>1
      <3>2. \A z \in Subs : sub'[z].order \in {None, sub[z].order}
        BY <1>3
      <3> QED BY <1>0, <2>0, <2>3, <2>4, <3>1, <3>2, OthersRely
    <2>6. InsertsAlone(q)'
      <3>1. tx'[q] = tx[q] /\ \A r \in Sessions : tx'[r] = tx[r]
        BY <1>1
      <3>2. Inserted(q) => sub'[tx[q].sub] = sub[tx[q].sub]
        <4>1. Inserted(q) => tx[q].sub \in Subs
          BY <1>0, TxFacts DEF Inserted
        <4> QED BY <2>4, <4>1 DEF Inserted
      <3>3. LiveSubs(tx[q].user)' \subseteq LiveSubs(tx[q].user)
        BY <1>1, <1>3 DEF LiveSubs
      <3> QED BY <1>0, <2>0, <3>1, <3>2, <3>3, OthersAlone
    <2> QED BY <2>5, <2>6
  <1> QED BY <1>4, <1>5, Assembled

\* The inductive invariant survives the admin's revocation of a code.
LEMMA SafeRevokeCode ==
  ASSUME IInv, NEW k \in Codes, RevokeCode(k), Shape'
  PROVE  IInv'
  <1>0. Shape /\ code \in [Codes -> {"ACTIVE", "USED", "REVOKED"}]
    BY DEF IInv, Shape, TypeOK
  <1>1. /\ lock[k] = None
        /\ UNCHANGED <<order, sub, trial, lock, tx, panel, grants, term>>
    BY DEF RevokeCode
  <1>2. code'[k] = "REVOKED" /\ \A c \in Codes : c # k => code'[c] = code[c]
    BY <1>0 DEF RevokeCode
  <1>3. Tables'
    <2>1. TrialRecorded' /\ OneTrial' /\ OneLiveSubscription'
      BY <1>1 DEF IInv, TrialRecorded, OneTrial, OneLiveSubscription
    <2>2. LiveIsPaidFor' /\ OnePendingOrder' /\ NoGrantLost' /\ PanelCovers'
      BY <1>1 DEF IInv, LiveIsPaidFor, OnePendingOrder, NoGrantLost, PanelCovers
    <2>3. GrantedOnce'
      BY <1>1, <1>2, StorageAssumption DEF IInv, GrantedOnce
    <2> QED BY <2>1, <2>2, <2>3 DEF Tables
  <1>4. ASSUME NEW q \in Sessions PROVE Reliant(q)' /\ InsertsAlone(q)'
    <2>0. Reliant(q) /\ InsertsAlone(q) /\ None \notin Sessions
      BY StorageAssumption DEF IInv
    <2>1. HoldsCode(q)'
      <3>1. tx[q].op = "activate" => tx[q].code \in Codes
        BY <1>0, TxFacts
      <3> QED BY <1>1, <1>2, <2>0, <3>1 DEF Reliant, HoldsCode
    <2>2. HoldsOrder(q)' /\ HoldsSub(q)' /\ CoversTerm(q)'
      BY <1>1, <2>0 DEF Reliant, HoldsOrder, HoldsSub, CoversTerm
    <2>3. InsertsAlone(q)'
      BY <1>1, <2>0 DEF InsertsAlone, Inserted, LiveSubs
    <2> QED BY <2>1, <2>2, <2>3 DEF Reliant
  <1> QED BY <1>3, <1>4, Assembled

\* A step that touches at most the clock and the charges.
LEMMA IdleStep ==
  ASSUME IInv, Shape', UNCHANGED <<order, sub, code, trial, lock, tx, panel, grants, term>>
  PROVE  IInv'
  <1>1. Tables'
    <2>1. TrialRecorded' /\ OneTrial' /\ OneLiveSubscription'
      BY DEF IInv, TrialRecorded, OneTrial, OneLiveSubscription
    <2>2. LiveIsPaidFor' /\ OnePendingOrder' /\ NoGrantLost' /\ PanelCovers'
      BY DEF IInv, LiveIsPaidFor, OnePendingOrder, NoGrantLost, PanelCovers
    <2>3. GrantedOnce'
      BY DEF IInv, GrantedOnce
    <2> QED BY <2>1, <2>2, <2>3 DEF Tables
  <1>2. ASSUME NEW q \in Sessions PROVE Reliant(q)' /\ InsertsAlone(q)'
    <2>0. Reliant(q) /\ InsertsAlone(q)
      BY DEF IInv
    <2>1. HoldsOrder(q)' /\ HoldsCode(q)' /\ HoldsSub(q)' /\ CoversTerm(q)'
      BY <2>0 DEF Reliant, HoldsOrder, HoldsCode, HoldsSub, CoversTerm
    <2>2. InsertsAlone(q)'
      BY <2>0 DEF InsertsAlone, Inserted, LiveSubs
    <2> QED BY <2>1, <2>2 DEF Reliant
  <1> QED BY <1>1, <1>2, Assembled

-----------------------------------------------------------------------------
(* The theorems.                                                           *)

\* The initial state satisfies the inductive invariant.
LEMMA SafeInit == Init => IInv
  <1> SUFFICES ASSUME Init PROVE IInv
    OBVIOUS
  <1>0. Shape
    BY TypeInit
  <1>1. /\ \A s \in Subs : /\ sub[s].status \notin Live /\ sub[s].status # "REVOKED"
                           /\ sub[s].plan = Trial => s \in DOMAIN Legacy
        /\ \A o \in Orders : order[o].status = "NONE"
        /\ \A g \in Sources : grants[g] = 0
        /\ \A q \in Sessions : tx[q] = IdleTx
    <2>1. \A s \in Subs : /\ sub[s].status \notin Live /\ sub[s].status # "REVOKED"
                          /\ sub[s].plan = Trial => s \in DOMAIN Legacy
      BY StorageAssumption DEF Init, NoSub
    <2>2. \A o \in Orders : order[o].status = "NONE"
      BY DEF Init, NoOrder
    <2> QED BY <2>1, <2>2 DEF Init
  <1>2. TrialRecorded /\ OneTrial /\ OneLiveSubscription
    BY <1>1 DEF TrialRecorded, OneTrial, OneLiveSubscription
  <1>3. LiveIsPaidFor /\ OnePendingOrder /\ NoGrantLost /\ PanelCovers
    BY <1>1 DEF LiveIsPaidFor, OnePendingOrder, NoGrantLost, PanelCovers
  <1>4. GrantedOnce
    BY <1>1, StorageAssumption DEF GrantedOnce
  <1>5. ASSUME NEW q \in Sessions PROVE Reliant(q) /\ InsertsAlone(q)
    <2>1. tx[q] = IdleTx
      BY <1>1
    <2>2. /\ IdleTx.op = "idle" /\ IdleTx.mode = "none" /\ IdleTx.old = None
          /\ IdleTx.pc = "idle"
      BY DEF IdleTx
    <2> QED BY <2>1, <2>2 DEF Reliant, HoldsOrder, HoldsCode, HoldsSub, CoversTerm,
                              InsertsAlone, Inserted
  <1> QED BY <1>0, <1>2, <1>3, <1>4, <1>5 DEF IInv

\* IInv is inductive: no step of any session, of the admin, of the bot or of the
\* clock breaks it, whatever the other sessions are doing.
THEOREM SafeStep == IInv /\ [Next]_vars => IInv'
  <1> SUFFICES ASSUME IInv, [Next]_vars PROVE IInv'
    OBVIOUS
  <1>0. Shape'
    BY TypeStep DEF IInv
  <1>1. ASSUME NEW p \in Sessions, PaymentStep(p) PROVE IInv'
    BY <1>0, <1>1, SafeOrderBegin, SafeOrderCommit, SafePayBegin, SafePayRead, SafePayLock,
       SafePayInsert, SafePayForeignKey, SafePayCommit, SafeRefundBegin, SafeRefundCommit
       DEF PaymentStep
  <1>2. ASSUME NEW p \in Sessions, ActivationStep(p) PROVE IInv'
    BY <1>0, <1>2, SafeLockUser, SafeInsertUser, SafeIssueInsert, SafeActivateBegin,
       SafeActivateCode, SafeActivateRead, SafeActivateLock, SafeActivateUnlink,
       SafeActivateCommit, SafeTrialBegin, SafeTrialRead, SafeTrialCommit
       DEF ActivationStep
  <1>3. ASSUME NEW p \in Sessions, PanelAnswers(p) \/ PanelFails(p) \/ Abort(p) PROVE IInv'
    BY <1>0, <1>3, SafePanelAnswers, SafePanelFails, SafeAbort
  <1>4. ASSUME NEW c \in Charges, NEW o \in Orders, Precheck(c, o) PROVE IInv'
    BY <1>0, <1>4, IdleStep DEF Precheck
  <1>5. CASE AdminStep
    BY <1>0, <1>5, SafeRevokeSubscription, SafeRevokeCode DEF AdminStep
  <1>6. CASE Tick \/ UNCHANGED vars
    BY <1>0, <1>6, IdleStep DEF Tick, vars
  <1> QED BY <1>1, <1>2, <1>3, <1>4, <1>5, <1>6 DEF Next

\* In every reachable state the tables are right and every open transaction can
\* rely on what it has locked, inserted and told the panel.
THEOREM Safety == Spec => []IInv
  BY SafeInit, SafeStep, PTL DEF Spec

\* However handlers race, a user has at most one live subscription.
THEOREM OneLive == Spec => []OneLiveSubscription
  <1>1. IInv => OneLiveSubscription
    BY DEF IInv
  <1> QED BY <1>1, Safety, PTL

\* However often a payment is reported, an order grants days exactly once; a
\* single-use code grants at most once.
THEOREM ExactlyOnce == Spec => []GrantedOnce
  <1>1. IInv => GrantedOnce
    BY DEF IInv
  <1> QED BY <1>1, Safety, PTL

\* A live subscription never rests on an unpaid or refunded order.
THEOREM PaidFor == Spec => []LiveIsPaidFor
  <1>1. IInv => LiveIsPaidFor
    BY DEF IInv
  <1> QED BY <1>1, Safety, PTL

\* Concurrent extensions of one subscription lose no day, in the database...
THEOREM NoDayLost == Spec => []NoGrantLost
  <1>1. IInv => NoGrantLost
    BY DEF IInv
  <1> QED BY <1>1, Safety, PTL

\* One trial per user although the trials row is looked up without a lock.
THEOREM TrialOnce == Spec => []OneTrial
  <1>1. IInv => OneTrial
    BY DEF IInv
  <1> QED BY <1>1, Safety, PTL

\* A user never has two orders that can be paid.
THEOREM OneDraft == Spec => []OnePendingOrder
  <1>1. IInv => OnePendingOrder
    BY DEF IInv
  <1> QED BY <1>1, Safety, PTL
-----------------------------------------------------------------------------
(* What a step may never do.                                               *)

\* Only the three commits of the billing service write an order.
LEMMA OrderMoves ==
  ASSUME IInv, [Next]_vars, NEW o \in Orders, order'[o].status # order[o].status
  PROVE  <<order[o].status, order'[o].status>> \in
           {<<"NONE", "PENDING">>, <<"PENDING", "PAID">>, <<"PENDING", "FAILED">>,
            <<"PAID", "REFUNDED">>}
  <1>0. order \in [Orders -> OrderRow]
    BY DEF IInv, Shape, TypeOK
  <1>1. CASE order' = order
    BY <1>1
  <1>2. ASSUME NEW p \in Sessions, NEW d \in Orders, OrderCommit(p, d)
        PROVE  \/ order[o].status = "NONE" /\ order'[o].status = "PENDING"
               \/ order[o].status = "PENDING" /\ order'[o].status = "FAILED"
    <2>1. CASE o = d
      BY <1>2, <2>1 DEF OrderCommit, NoOrder
    <2>2. CASE o # d
      <3>1. o \in Draft(p) /\ order'[o] = [order[o] EXCEPT !.status = "FAILED"]
        BY <1>2, <2>2 DEF OrderCommit
      <3> QED BY <1>0, <3>1 DEF Draft, OrderRow
    <2> QED BY <2>1, <2>2
  <1>3. ASSUME NEW p \in Sessions, PayCommit(p)
        PROVE  order[o].status = "PENDING" /\ order'[o].status = "PAID"
    <2>1. order[tx[p].order].status = "PENDING"
      BY <1>3 DEF IInv, Reliant, HoldsOrder, PayCommit
    <2>2. order' = [order EXCEPT ![tx[p].order].status = "PAID",
                                 ![tx[p].order].charge = tx[p].charge]
      BY <1>3 DEF PayCommit
    <2> QED BY <1>0, <2>1, <2>2 DEF OrderRow
  <1>4. ASSUME NEW p \in Sessions, RefundCommit(p)
        PROVE  order[o].status = "PAID" /\ order'[o].status = "REFUNDED"
    <2>1. order[tx[p].order].status = "PAID"
      BY <1>4 DEF IInv, Reliant, HoldsOrder, RefundCommit
    <2>2. order' = [order EXCEPT ![tx[p].order].status = "REFUNDED"]
      BY <1>4 DEF RefundCommit
    <2> QED BY <1>0, <2>1, <2>2 DEF OrderRow
  <1>5. ASSUME NEW p \in Sessions, PaymentStep(p)
        PROVE  \/ order' = order \/ PayCommit(p) \/ RefundCommit(p)
               \/ \E d \in Orders : OrderCommit(p, d)
    BY <1>5 DEF PaymentStep, OrderBegin, PayBegin, PayRead, PayLock, PayInsert,
                PayForeignKey, RefundBegin
  <1>6. ASSUME NEW p \in Sessions, ActivationStep(p) PROVE order' = order
    BY <1>6 DEF ActivationStep, LockUser, InsertUser, IssueInsert, ActivateBegin, ActivateCode,
                ActivateRead, ActivateLock, ActivateUnlink, ActivateCommit, TrialBegin,
                TrialRead, TrialCommit
  <1>7. \/ order' = order
        \/ \E p \in Sessions : PaymentStep(p) \/ ActivationStep(p)
    BY DEF Next, PanelAnswers, PanelFails, Abort, Precheck, AdminStep, RevokeSubscription,
           RevokeCode, Tick, vars
  <1> QED BY <1>1, <1>2, <1>3, <1>4, <1>5, <1>6, <1>7

\* No commit writes a subscription that is REVOKED.
LEMMA RevokedStays ==
  ASSUME IInv, [Next]_vars, NEW s \in Subs, sub[s].status = "REVOKED"
  PROVE  sub'[s] = sub[s]
  <1>0. sub \in [Subs -> SubRow]
    BY DEF IInv, Shape, TypeOK
  <1>1. ASSUME NEW p \in Sessions, tx[p].mode # "none" PROVE s # tx[p].sub
    <2>1. Reliant(p) /\ InsertsAlone(p) /\ tx[p] \in Tx /\ Shaped(tx[p])
      BY Start
    <2>2. CASE tx[p].mode = "insert"
      BY <2>1, <2>2 DEF Shaped, Inserted, InsertsAlone
    <2>3. CASE tx[p].mode = "extend"
      BY <2>1, <2>3 DEF Reliant, HoldsSub
    <2> QED BY <1>1, <2>1, <2>2, <2>3 DEF Tx
  <1>2. ASSUME NEW p \in Sessions, PayCommit(p) PROVE sub'[s] = sub[s]
    <2>1. tx[p].mode # "none"
      BY <1>2, Start DEF PayCommit, Shaped
    <2> QED BY <1>0, <1>1, <1>2, <2>1 DEF PayCommit
  <1>3. ASSUME NEW p \in Sessions, ActivateCommit(p) PROVE sub'[s] = sub[s]
    <2>1. tx[p].mode # "none"
      BY <1>3, Start DEF ActivateCommit, Shaped
    <2>2. s # tx[p].old
      BY StorageAssumption DEF IInv, Reliant, HoldsSub
    <2> QED BY <1>1, <1>3, <2>1, <2>2 DEF ActivateCommit
  <1>4. ASSUME NEW p \in Sessions, TrialCommit(p) PROVE sub'[s] = sub[s]
    <2>1. tx[p].mode # "none"
      BY <1>4, Start DEF TrialCommit, Shaped
    <2> QED BY <1>0, <1>1, <1>4, <2>1 DEF TrialCommit
  <1>5. ASSUME NEW p \in Sessions, RefundCommit(p) PROVE sub'[s] = sub[s]
    BY <1>5 DEF RefundCommit, Funded
  <1>6. ASSUME NEW z \in Subs, RevokeSubscription(z) PROVE sub'[s] = sub[s]
    BY <1>0, <1>6 DEF RevokeSubscription
  <1>7. ASSUME NEW p \in Sessions, PaymentStep(p)
        PROVE  sub' = sub \/ PayCommit(p) \/ RefundCommit(p)
    BY <1>7 DEF PaymentStep, OrderBegin, OrderCommit, PayBegin, PayRead, PayLock, PayInsert,
                PayForeignKey, RefundBegin
  <1>8. ASSUME NEW p \in Sessions, ActivationStep(p)
        PROVE  sub' = sub \/ ActivateCommit(p) \/ TrialCommit(p)
    BY <1>8 DEF ActivationStep, LockUser, InsertUser, IssueInsert, ActivateBegin, ActivateCode,
                ActivateRead, ActivateLock, ActivateUnlink, TrialBegin, TrialRead
  <1>9. \/ sub' = sub
        \/ \E p \in Sessions : PaymentStep(p) \/ ActivationStep(p)
        \/ \E z \in Subs : RevokeSubscription(z)
    BY DEF Next, PanelAnswers, PanelFails, Abort, Precheck, AdminStep, RevokeCode, Tick, vars
  <1> QED BY <1>2, <1>3, <1>4, <1>5, <1>6, <1>7, <1>8, <1>9

\* Every change of an order's status is one of the documented transitions.
THEOREM LifeCycle == Spec => OrderLifeCycle
  <1> DEFINE A == \A o \in Orders : order'[o].status # order[o].status =>
       <<order[o].status, order'[o].status>> \in
         {<<"NONE", "PENDING">>, <<"PENDING", "PAID">>, <<"PENDING", "FAILED">>,
          <<"PAID", "REFUNDED">>}
  <1>1. IInv /\ [Next]_vars => A
    BY OrderMoves
  <1>2. OrderLifeCycle <=> [][A]_vars
    BY DEF OrderLifeCycle
  <1> HIDE DEF A
  <1>3. Spec => [][A]_vars
    BY <1>1, Safety, PTL DEF Spec
  <1> QED BY <1>2, <1>3

\* A subscription that was revoked is never written again.
THEOREM RevokedForGood == Spec => RevokedIsFinal
  <1> DEFINE A == \A s \in Subs : sub[s].status = "REVOKED" => sub'[s] = sub[s]
  <1>1. IInv /\ [Next]_vars => A
    BY RevokedStays
  <1>2. RevokedIsFinal <=> [][A]_vars
    BY DEF RevokedIsFinal
  <1> HIDE DEF A
  <1>3. Spec => [][A]_vars
    BY <1>1, Safety, PTL DEF Spec
  <1> QED BY <1>2, <1>3
-----------------------------------------------------------------------------
(* Whose term a payment extends.                                           *)

\* At a payment's commit no subscription of its user is live but the one in hand.
LEMMA PaysTheLiveOne ==
  ASSUME IInv, NEW p \in Sessions, PayCommit(p), NEW z \in LiveSubs(tx[p].user)
  PROVE  z = tx[p].sub /\ tx[p].mode = "extend"
  <1>1. /\ Reliant(p) /\ InsertsAlone(p) /\ tx[p] \in Tx /\ Shaped(tx[p])
        /\ tx[p].op = "pay" /\ tx[p].pc = "commit"
    BY Start DEF PayCommit
  <1>2. /\ tx[p].mode \in {"insert", "extend"} /\ tx[p].sub \in Subs /\ tx[p].old = None
        /\ z \in Subs /\ z # None
    BY <1>1, StorageAssumption DEF Shaped, Tx, LiveSubs
  <1>3. tx[p].mode = "extend"
    BY <1>1, <1>2 DEF InsertsAlone, Inserted
  <1>4. /\ sub[tx[p].sub].user = tx[p].user
        /\ sub[tx[p].sub].status \in Live \cup {"EXPIRED"}
    BY <1>1, <1>3 DEF Reliant, HoldsSub
  <1>5. CASE sub[tx[p].sub].status \in Live
    BY <1>2, <1>3, <1>4, <1>5 DEF IInv, OneLiveSubscription, LiveSubs
  <1>6. CASE sub[tx[p].sub].status = "EXPIRED"
    BY <1>2, <1>3, <1>6 DEF PayCommit, Revives, IndexTaken
  <1> QED BY <1>4, <1>5, <1>6

\* A step that writes a subscription ends it, or leaves it live: then the row is
\* new, or keeps its user and its start.  A session that was extending it ends.
Written(z) ==
  /\ \/ sub'[z].status = "REVOKED"
     \/ sub'[z].status \in Live /\ sub'[z].started >= Opening
     \/ /\ sub'[z].status \in Live
        /\ sub'[z].user = sub[z].user /\ sub'[z].started = sub[z].started
        /\ \/ sub[z].status \in Live
           \/ /\ sub[z].status = "EXPIRED"
              /\ \E p \in Sessions : /\ tx[p].op = "pay" /\ tx[p].mode = "extend"
                                     /\ tx[p].sub = z /\ tx[p].user = sub[z].user
  /\ \A q \in Sessions : tx[q].mode = "extend" /\ tx[q].sub = z => tx'[q] = IdleTx

\* A session that ends frees whoever else could extend the rows it may write.
LEMMA EndFrees ==
  ASSUME IInv, NEW p \in Sessions, End(p), NEW z \in Subs,
         lock[z] \in {None, p} \/ sub[z].status = "NONE"
  PROVE  \A q \in Sessions : tx[q].mode = "extend" /\ tx[q].sub = z => tx'[q] = IdleTx
  <1>1. \A q \in Sessions : tx[q].mode = "extend" /\ tx[q].sub = z
                            => lock[z] = q /\ sub[z].status \in Live \cup {"EXPIRED"}
    BY Start DEF Reliant, HoldsSub
  <1>2. tx \in [Sessions -> Tx] /\ None \notin Sessions
    BY StorageAssumption DEF IInv, Shape, TypeOK
  <1> QED BY <1>1, <1>2 DEF End

\* mark_paid writes the row it inserted, or the one it holds.
LEMMA PayWrites ==
  ASSUME IInv, NEW p \in Sessions, PayCommit(p), NEW z \in Subs
  PROVE  sub'[z] = sub[z] \/ Written(z)
  <1>0. sub \in [Subs -> SubRow]
    BY DEF IInv, Shape, TypeOK
  <1>1. /\ Reliant(p) /\ InsertsAlone(p) /\ tx[p] \in Tx /\ Shaped(tx[p])
        /\ tx[p].op = "pay" /\ tx[p].pc = "commit" /\ End(p)
    BY Start DEF PayCommit
  <1>2. tx[p].mode \in {"insert", "extend"} /\ tx[p].now >= Opening
    BY <1>1 DEF Shaped, Tx
  <1>3. CASE z # tx[p].sub
    BY <1>0, <1>3 DEF PayCommit
  <1>4. CASE z = tx[p].sub
    <2>1. sub'[z] = PaidRow(p)
      BY <1>0, <1>4 DEF PayCommit
    <2>2. CASE tx[p].mode = "insert"
      <3>1. sub'[z].status = "ACTIVE" /\ sub'[z].started = tx[p].now
        BY <2>1, <2>2 DEF PaidRow, NoSub
      <3>2. sub[z].status = "NONE"
        BY <1>1, <1>4, <2>2 DEF InsertsAlone, Inserted
      <3> QED BY <1>1, <1>2, <3>1, <3>2, EndFrees DEF Written
    <2>3. CASE tx[p].mode = "extend"
      <3>1. sub'[z].status = "ACTIVE" /\ sub'[z].started = sub[z].started /\ sub'[z].user = sub[z].user
        BY <1>0, <2>1, <2>3, <1>4 DEF PaidRow, SubRow
      <3>2. /\ lock[z] = p /\ sub[z].user = tx[p].user
            /\ sub[z].status \in Live \cup {"EXPIRED"}
        BY <1>1, <1>4, <2>3 DEF Reliant, HoldsSub
      <3>3. \A q \in Sessions : tx[q].mode = "extend" /\ tx[q].sub = z => tx'[q] = IdleTx
        BY <1>1, <3>2, EndFrees
      <3> QED BY <1>1, <1>4, <2>3, <3>1, <3>2, <3>3 DEF Written
    <2> QED BY <1>2, <2>2, <2>3
  <1> QED BY <1>3, <1>4

\* activate writes the row it inserted or holds, and ends the one it replaces.
LEMMA ActivateWrites ==
  ASSUME IInv, NEW p \in Sessions, ActivateCommit(p), NEW z \in Subs
  PROVE  sub'[z] = sub[z] \/ Written(z)
  <1>0. sub \in [Subs -> SubRow]
    BY DEF IInv, Shape, TypeOK
  <1>1. /\ Reliant(p) /\ InsertsAlone(p) /\ tx[p] \in Tx /\ Shaped(tx[p])
        /\ tx[p].op = "activate" /\ tx[p].pc = "commit" /\ End(p)
    BY Start DEF ActivateCommit
  <1>2. tx[p].mode \in {"insert", "extend"} /\ tx[p].now >= Opening
    BY <1>1 DEF Shaped, Tx
  <1>3. CASE z = tx[p].sub /\ tx[p].mode = "insert"
    <2>1. sub'[z] = NewRow(p, "ACTIVE")
      BY <1>3 DEF ActivateCommit
    <2>2. sub'[z].status = "ACTIVE" /\ sub'[z].started = tx[p].now
      BY <2>1 DEF NewRow, NoSub
    <2>3. sub[z].status = "NONE"
      BY <1>1, <1>3 DEF InsertsAlone, Inserted
    <2> QED BY <1>1, <1>2, <2>2, <2>3, EndFrees DEF Written
  <1>4. CASE z = tx[p].sub /\ tx[p].mode = "extend"
    <2>1. sub'[z] = [sub[z] EXCEPT !.status = "ACTIVE", !.exp = tx[p].exp]
      BY <1>4 DEF ActivateCommit
    <2>2. sub[z] \in SubRow
      BY <1>0
    <2>3. /\ sub'[z].status = "ACTIVE" /\ sub'[z].started = sub[z].started
          /\ sub'[z].user = sub[z].user
      BY <2>1, <2>2 DEF SubRow
    <2>4. lock[z] = p /\ sub[z].status \in Live
      BY <1>1, <1>4 DEF Reliant, HoldsSub
    <2>5. \A q \in Sessions : tx[q].mode = "extend" /\ tx[q].sub = z => tx'[q] = IdleTx
      BY <1>1, <2>4, EndFrees
    <2> QED BY <2>3, <2>4, <2>5 DEF Written
  <1>5. CASE z # tx[p].sub /\ z = tx[p].old
    <2>1. sub'[z] = [sub[z] EXCEPT !.status = "REVOKED"]
      BY <1>5 DEF ActivateCommit
    <2>2. sub[z] \in SubRow /\ z # None
      BY <1>0, StorageAssumption
    <2>3. sub'[z].status = "REVOKED"
      BY <2>1, <2>2 DEF SubRow
    <2>4. lock[z] = p
      BY <1>1, <1>5, <2>2 DEF Reliant, HoldsSub
    <2> QED BY <1>1, <2>3, <2>4, EndFrees DEF Written
  <1>6. CASE z # tx[p].sub /\ z # tx[p].old
    BY <1>6 DEF ActivateCommit
  <1> QED BY <1>2, <1>3, <1>4, <1>5, <1>6

\* create_trial writes the row it inserted.
LEMMA TrialWrites ==
  ASSUME IInv, NEW p \in Sessions, TrialCommit(p), NEW z \in Subs
  PROVE  sub'[z] = sub[z] \/ Written(z)
  <1>0. sub \in [Subs -> SubRow]
    BY DEF IInv, Shape, TypeOK
  <1>1. /\ InsertsAlone(p) /\ tx[p] \in Tx /\ Shaped(tx[p])
        /\ tx[p].op = "trial" /\ tx[p].pc = "commit" /\ End(p)
    BY Start DEF TrialCommit
  <1>2. tx[p].mode = "insert" /\ tx[p].now >= Opening
    BY <1>1 DEF Shaped, Tx
  <1>3. CASE z # tx[p].sub
    BY <1>0, <1>3 DEF TrialCommit
  <1>4. CASE z = tx[p].sub
    <2>1. sub'[z] = NewRow(p, "TRIAL")
      BY <1>0, <1>4 DEF TrialCommit
    <2>2. sub'[z].status = "TRIAL" /\ sub'[z].started = tx[p].now
      BY <2>1 DEF NewRow, NoSub
    <2>3. sub[z].status = "NONE"
      BY <1>1, <1>2, <1>4 DEF InsertsAlone, Inserted
    <2> QED BY <1>1, <1>2, <2>2, <2>3, EndFrees DEF Written
  <1> QED BY <1>3, <1>4

\* A refund and an admin end a row nobody holds.
LEMMA RevocationWrites ==
  ASSUME IInv, NEW z \in Subs,
         \/ \E p \in Sessions : RefundCommit(p)
         \/ \E s \in Subs : RevokeSubscription(s)
  PROVE  sub'[z] = sub[z] \/ Written(z)
  <1>0. sub \in [Subs -> SubRow] /\ None \notin Sessions
    BY StorageAssumption DEF IInv, Shape, TypeOK
  <1>1. ASSUME NEW p \in Sessions, RefundCommit(p), z \in Funded(p) PROVE Written(z)
    <2>1. sub'[z] = [sub[z] EXCEPT !.status = "REVOKED", !.order = None]
      BY <1>1 DEF RefundCommit
    <2>2. sub[z] \in SubRow
      BY <1>0
    <2>3. sub'[z].status = "REVOKED"
      BY <2>1, <2>2 DEF SubRow
    <2>4. lock[z] \in {None, p} /\ End(p)
      BY <1>1 DEF RefundCommit, Funded, Free
    <2> QED BY <2>3, <2>4, EndFrees DEF Written
  <1>2. ASSUME NEW p \in Sessions, RefundCommit(p), z \notin Funded(p) PROVE sub'[z] = sub[z]
    BY <1>2 DEF RefundCommit
  <1>3. ASSUME NEW s \in Subs, RevokeSubscription(s) PROVE sub'[z] = sub[z] \/ Written(z)
    <2>1. CASE z # s
      BY <1>0, <1>3, <2>1 DEF RevokeSubscription
    <2>2. CASE z = s
      <3>1. sub'[z] = [sub[z] EXCEPT !.status = "REVOKED", !.exp = now] /\ lock[z] = None
        BY <1>0, <1>3, <2>2 DEF RevokeSubscription
      <3>2. sub[z] \in SubRow
        BY <1>0
      <3>3. sub'[z].status = "REVOKED"
        BY <3>1, <3>2 DEF SubRow
      <3>4. \A q \in Sessions : ~(tx[q].mode = "extend" /\ tx[q].sub = z)
        BY <1>0, <3>1, Start DEF Reliant, HoldsSub
      <3> QED BY <3>3, <3>4 DEF Written
    <2> QED BY <2>1, <2>2
  <1> QED BY <1>1, <1>2, <1>3

\* Nothing else writes a subscription.
LEMMA Writes ==
  ASSUME IInv, [Next]_vars, NEW z \in Subs
  PROVE  sub'[z] = sub[z] \/ Written(z)
  <1>1. ASSUME NEW p \in Sessions, PaymentStep(p)
        PROVE  sub' = sub \/ PayCommit(p) \/ RefundCommit(p)
    BY <1>1 DEF PaymentStep, OrderBegin, OrderCommit, PayBegin, PayRead, PayLock, PayInsert,
                PayForeignKey, RefundBegin
  <1>2. ASSUME NEW p \in Sessions, ActivationStep(p)
        PROVE  sub' = sub \/ ActivateCommit(p) \/ TrialCommit(p)
    BY <1>2 DEF ActivationStep, LockUser, InsertUser, IssueInsert, ActivateBegin, ActivateCode,
                ActivateRead, ActivateLock, ActivateUnlink, TrialBegin, TrialRead
  <1>3. \/ sub' = sub
        \/ \E p \in Sessions : PaymentStep(p) \/ ActivationStep(p)
        \/ \E s \in Subs : RevokeSubscription(s)
    BY DEF Next, PanelAnswers, PanelFails, Abort, Precheck, AdminStep, RevokeCode, Tick, vars
  <1> QED BY <1>1, <1>2, <1>3, PayWrites, ActivateWrites, TrialWrites, RevocationWrites


\* How a payment comes to hold a row to extend: it locks it; later statements
\* keep it.  Only its look-up makes it wait for the locks of what it has seen.
LEMMA PayMoves ==
  ASSUME IInv, [Next]_vars, NEW q \in Sessions, tx'[q] # tx[q], tx'[q].op = "pay"
  PROVE  \/ tx'[q].mode # "extend" /\ tx'[q].pc # "lock"
         \/ PayRead(q)
         \/ PayLock(q)
         \/ /\ tx[q].op = "pay" /\ tx[q].mode = "extend" /\ tx'[q].pc # "lock"
            /\ tx'[q].user = tx[q].user /\ tx'[q].sub = tx[q].sub /\ tx'[q].exp = tx[q].exp
            /\ sub' = sub
  <1> DEFINE Settled == tx'[q].mode # "extend" /\ tx'[q].pc # "lock"
  <1>0. tx \in [Sessions -> Tx]
    BY DEF IInv, Shape, TypeOK
  <1>1. ASSUME NEW p \in Sessions, NEW t, tx' = [tx EXCEPT ![p] = t]
        PROVE  q = p /\ tx'[q] = t
    BY <1>0, <1>1
  <1>2. ASSUME NEW p \in Sessions, End(p) PROVE FALSE
    BY <1>0, <1>2 DEF End, IdleTx
  <1>3. ASSUME NEW p \in Sessions, NEW l, Goto(p, l)
        PROVE  /\ q = p /\ tx'[q] = [tx[q] EXCEPT !.pc = l]
               /\ tx[q].op = "pay" /\ tx'[q].pc = l /\ tx'[q].mode = tx[q].mode
    BY <1>0, <1>3 DEF Goto, Tx
  <1>4. ASSUME NEW p \in Sessions, NEW c \in Charges, PayBegin(p, c) PROVE Settled
    BY <1>0, <1>4 DEF PayBegin, IdleTx
  <1>5. ASSUME NEW p \in Sessions, NEW s \in Subs, NEW l \in {"fk", "panel"}, InsertSub(p, s, l)
        PROVE  Settled
    <2>1. tx[p] \in Tx
      BY <1>0
    <2>2. tx'[p].mode = "insert" /\ tx'[p].pc = l /\ \A r \in Sessions \ {p} : tx'[r] = tx[r]
      BY <1>0, <1>5, <2>1 DEF InsertSub, Tx
    <2> QED BY <2>2
  <1>6. ASSUME NEW p \in Sessions, PayForeignKey(p) PROVE Settled
    <2>1. Shaped(tx[p]) /\ tx[p].pc = "fk" /\ Goto(p, "panel")
      BY <1>6, Start DEF PayForeignKey
    <2>2. tx[p].mode # "extend"
      BY <2>1 DEF Shaped
    <2>3. q = p /\ tx'[q].pc = "panel" /\ tx'[q].mode = tx[q].mode
      BY <1>3, <2>1
    <2> QED BY <2>2, <2>3
  <1>7. ASSUME NEW p \in Sessions, PanelAnswers(p)
        PROVE  \/ Settled
               \/ /\ tx[q].op = "pay" /\ tx[q].mode = "extend" /\ tx'[q].pc # "lock"
                  /\ tx'[q].user = tx[q].user /\ tx'[q].sub = tx[q].sub
                  /\ tx'[q].exp = tx[q].exp /\ sub' = sub
    <2>1. q = p /\ tx'[q] = [tx[q] EXCEPT !.pc = "commit"] /\ tx[q] \in Tx
      BY <1>0, <1>3, <1>7 DEF PanelAnswers
    <2>2. /\ tx'[q].op = tx[q].op /\ tx'[q].mode = tx[q].mode /\ tx'[q].pc = "commit"
          /\ tx'[q].user = tx[q].user /\ tx'[q].sub = tx[q].sub /\ tx'[q].exp = tx[q].exp
      BY <2>1 DEF Tx
    <2> QED BY <1>7, <2>2 DEF PanelAnswers
  <1>8. ASSUME NEW p \in Sessions, NEW u \in Users, NEW pl \in Plans, OrderBegin(p, u, pl) PROVE FALSE
    BY <1>0, <1>8 DEF OrderBegin, IdleTx
  <1>9. ASSUME NEW p \in Sessions, NEW o \in Orders, RefundBegin(p, o) PROVE FALSE
    BY <1>0, <1>9 DEF RefundBegin, IdleTx
  <1>10. ASSUME NEW p \in Sessions, PayRead(p) \/ PayLock(p) PROVE q = p
    BY <1>0, <1>10 DEF PayRead, PayLock, Goto
  <1>11. ASSUME NEW p \in Sessions, PaymentStep(p) PROVE Settled \/ PayRead(q) \/ PayLock(q)
    BY <1>2, <1>4, <1>5, <1>6, <1>8, <1>9, <1>10, <1>11
       DEF PaymentStep, OrderCommit, PayInsert, PayCommit, RefundCommit
  <1>12. ASSUME NEW p \in Sessions, ActivationStep(p) PROVE Settled
    <2>1. ASSUME NEW u \in Users, NEW k \in Codes, ActivateBegin(p, u, k) PROVE FALSE
      BY <1>0, <2>1 DEF ActivateBegin, IdleTx
    <2>2. ASSUME NEW u \in Users, TrialBegin(p, u) PROVE FALSE
      BY <1>0, <2>2 DEF TrialBegin, IdleTx
    <2>3. ASSUME tx[p].op # "pay", \A r \in Sessions \ {p} : tx'[r] = tx[r], tx'[p].op = tx[p].op
          PROVE  FALSE
      BY <2>3
    <2>4. ASSUME NEW l, Goto(p, l), tx[p].op # "pay" PROVE FALSE
      BY <1>3, <2>4
    <2>5. CASE LockUser(p) \/ InsertUser(p) \/ ActivateCode(p) \/ ActivateUnlink(p)
      BY <2>4, <2>5 DEF LockUser, InsertUser, ActivateCode, ActivateUnlink, Issuing
    <2>6. ASSUME NEW s \in Subs, IssueInsert(p, s) PROVE Settled
      BY <1>5, <2>6 DEF IssueInsert
    <2>7. CASE ActivateRead(p) \/ TrialRead(p)
      <3>1. tx[p].op # "pay" /\ (\A r \in Sessions \ {p} : tx'[r] = tx[r]) /\ tx'[p].op = tx[p].op
        BY <1>0, <2>7 DEF ActivateRead, TrialRead, Tx
      <3> QED BY <2>3, <3>1
    <2>8. CASE ActivateLock(p)
      <3>1. tx[p].op # "pay" /\ (\A r \in Sessions \ {p} : tx'[r] = tx[r]) /\ tx'[p].op = tx[p].op
        <4>1. CASE Goto(p, "insert")
          BY <1>0, <2>8, <4>1 DEF ActivateLock, Goto, Tx
        <4>2. ASSUME NEW s, NEW e, tx' = [tx EXCEPT ![p].pc = "panel", ![p].mode = "extend",
                                                   ![p].sub = s, ![p].exp = e]
              PROVE  (\A r \in Sessions \ {p} : tx'[r] = tx[r]) /\ tx'[p].op = tx[p].op
          BY <1>0, <4>2 DEF Tx
        <4>3. ASSUME NEW s, tx' = [tx EXCEPT ![p].pc = "unlink", ![p].old = s]
              PROVE  (\A r \in Sessions \ {p} : tx'[r] = tx[r]) /\ tx'[p].op = tx[p].op
          BY <1>0, <4>3 DEF Tx
        <4>4. tx[p].op # "pay"
          BY <2>8 DEF ActivateLock
        <4>5. CASE ~Goto(p, "insert")
          <5>1. PICK s \in tx[p].seen \cap LiveSubs(tx[p].user) :
                  IF sub[s].plan = tx[p].plan
                  THEN tx' = [tx EXCEPT ![p].pc = "panel", ![p].mode = "extend", ![p].sub = s,
                                ![p].exp = Later(sub[s].exp, tx[p].now) + tx[p].days]
                  ELSE tx' = [tx EXCEPT ![p].pc = "unlink", ![p].old = s]
            BY <2>8, <4>5 DEF ActivateLock
          <5>2. CASE sub[s].plan = tx[p].plan
            <6>1. tx' = [tx EXCEPT ![p].pc = "panel", ![p].mode = "extend", ![p].sub = s,
                           ![p].exp = Later(sub[s].exp, tx[p].now) + tx[p].days]
              BY <5>1, <5>2
            <6> QED BY <4>2, <4>4, <6>1
          <5>3. CASE sub[s].plan # tx[p].plan
            <6>1. tx' = [tx EXCEPT ![p].pc = "unlink", ![p].old = s]
              BY <5>1, <5>3
            <6> QED BY <4>3, <4>4, <6>1
          <5> QED BY <5>2, <5>3
        <4> QED BY <4>1, <4>4, <4>5
      <3> QED BY <2>3, <3>1
    <2>9. CASE ActivateCommit(p) \/ TrialCommit(p)
      BY <1>2, <2>9 DEF ActivateCommit, TrialCommit
    <2> QED BY <1>12, <2>1, <2>2, <2>5, <2>6, <2>7, <2>8, <2>9 DEF ActivationStep
  <1>13. ASSUME NEW p \in Sessions, PanelFails(p) \/ Abort(p) PROVE FALSE
    BY <1>2, <1>13 DEF PanelFails, Abort
  <1>14. \E p \in Sessions : \/ PaymentStep(p) \/ ActivationStep(p) \/ PanelAnswers(p)
                             \/ PanelFails(p) \/ Abort(p)
    BY DEF Next, Precheck, AdminStep, RevokeSubscription, RevokeCode, Tick, vars
  <1> HIDE DEF Settled
  <1>15. \/ Settled \/ PayRead(q) \/ PayLock(q)
         \/ /\ tx[q].op = "pay" /\ tx[q].mode = "extend" /\ tx'[q].pc # "lock"
            /\ tx'[q].user = tx[q].user /\ tx'[q].sub = tx[q].sub /\ tx'[q].exp = tx[q].exp
            /\ sub' = sub
    BY <1>7, <1>11, <1>12, <1>13, <1>14
  <1> QED BY <1>15 DEF Settled

\* The rows differ in their start at first, and there are no payments.
LEMMA SeniorityInit == Init => Seniority
  <1> SUFFICES ASSUME Init PROVE Seniority
    OBVIOUS
  <1>1. ASSUME NEW s \in Subs, sub[s].status = "EXPIRED"
        PROVE  /\ s \in DOMAIN Legacy
               /\ sub[s].user = Legacy[s].user /\ sub[s].started = Legacy[s].started
    BY <1>1 DEF Init, NoSub
  <1>2. \A s \in Subs : sub[s].status \notin Live
    BY DEF Init, NoSub
  <1>3. \A s, z \in Subs : sub[s].status = "EXPIRED" => Elder(s, z)
    BY <1>1, <1>2, StorageAssumption DEF Elder, Expired, LiveSubs
  <1>4. \A p \in Sessions : tx[p].op # "pay"
    BY DEF Init, IdleTx
  <1> QED BY <1>3, <1>4 DEF Seniority

\* No step makes an expired row, and none writes one but to revive or end it.
LEMMA ExpiredStays ==
  ASSUME IInv, [Next]_vars, NEW z \in Subs, sub'[z].status = "EXPIRED"
  PROVE  sub'[z] = sub[z] /\ sub[z].status = "EXPIRED" /\ sub[z].started < Opening
  <1>1. sub'[z] = sub[z]
    BY Writes DEF Written
  <1> QED BY <1>1 DEF IInv, Shape, RowShape, SubShaped

\* Rows keep their order when one is written.
LEMMA ElderStep ==
  ASSUME IInv, Seniority, [Next]_vars, NEW s \in Subs, NEW z \in Subs,
         sub'[s].status = "EXPIRED"
  PROVE  Elder(s, z)'
  <1>1. /\ sub'[s] = sub[s] /\ sub[s].status = "EXPIRED" /\ sub[s].started < Opening
        /\ Elder(s, z)
    BY ExpiredStays DEF Seniority
  <1>2. sub \in [Subs -> SubRow] /\ sub[s].started \in Nat /\ Opening \in Nat
    BY StorageAssumption DEF IInv, Shape, TypeOK, SubRow
  <1>3. CASE sub'[z] = sub[z]
    BY <1>1, <1>3 DEF Elder, Expired, LiveSubs
  <1>4. CASE Written(z) /\ sub'[z] # sub[z]
    <2>1. sub'[z].status # "EXPIRED" /\ s # z
      BY <1>1, <1>4 DEF Written
    <2> SUFFICES ASSUME sub'[z].status \in Live, sub'[z].user = sub[s].user
                 PROVE  sub[s].started < sub'[z].started
      BY <1>1, <2>1 DEF Elder, Expired, LiveSubs
    <2>2. CASE sub'[z].started >= Opening
      <3>1. sub'[z].started \in Nat
        BY SafeStep DEF IInv, Shape, TypeOK, SubRow
      <3> QED BY <1>1, <1>2, <2>2, <3>1
    <2>3. CASE /\ sub'[z].user = sub[z].user /\ sub'[z].started = sub[z].started
               /\ sub[z].status \in Live
      BY <1>1, <2>3 DEF Elder, LiveSubs
    <2>4. ASSUME /\ sub'[z].user = sub[z].user /\ sub'[z].started = sub[z].started
                 /\ sub[z].status = "EXPIRED",
                 NEW p \in Sessions, tx[p].op = "pay", tx[p].mode = "extend",
                 tx[p].sub = z, tx[p].user = sub[z].user
          PROVE  sub[s].started < sub'[z].started
      BY <1>1, <2>1, <2>4 DEF Seniority, Renews, Expired
    <2> QED BY <1>4, <2>2, <2>3, <2>4 DEF Written
  <1> QED BY <1>3, <1>4, Writes

\* A payment keeps what it knows of its user's rows, or learns it at its locks.
LEMMA RenewsStep ==
  ASSUME IInv, Seniority, [Next]_vars, NEW q \in Sessions, tx'[q].op = "pay"
  PROVE  Renews(q)'
  <1>0. /\ sub \in [Subs -> SubRow] /\ tx[q] \in Tx /\ Shaped(tx[q])
        /\ tx \in [Sessions -> Tx]
    BY Start DEF IInv, Shape, TypeOK
  <1>1. ASSUME NEW u, NEW z \in Expired(u)'
        PROVE  z \in Expired(u) /\ sub'[z] = sub[z]
    BY <1>1, ExpiredStays DEF Expired
  <1>2. CASE tx'[q].mode # "extend" /\ tx'[q].pc # "lock"
    BY <1>2 DEF Renews
  <1>3. ASSUME tx[q].op = "pay", tx[q].mode = "extend", tx'[q].pc # "lock",
               tx'[q].user = tx[q].user, tx'[q].sub = tx[q].sub, tx'[q].exp = tx[q].exp,
               sub'[tx[q].sub] = sub[tx[q].sub]
        PROVE  Renews(q)'
    <2>1. Renews(q)
      BY <1>3 DEF Seniority
    <2> QED BY <1>1, <1>3, <2>1 DEF Renews, LiveSubs
  <1>4. CASE tx'[q] = tx[q]
    <2>1. Renews(q)
      BY <1>4 DEF Seniority
    <2>2. CASE tx[q].pc = "lock"
      <3>1. tx[q].mode # "extend"
        BY <1>0, <2>2 DEF Shaped
      <3> QED BY <1>1, <1>4, <2>1, <2>2, <3>1 DEF Renews
    <2>3. CASE tx[q].pc # "lock" /\ tx[q].mode = "extend"
      <3>1. tx[q].sub \in Subs
        BY <1>0, <2>3 DEF Shaped, Tx
      <3>2. sub'[tx[q].sub] = sub[tx[q].sub]
        <4>1. tx'[q] # IdleTx
          BY DEF IdleTx
        <4> QED BY <2>3, <3>1, <4>1, Writes DEF Written
      <3> QED BY <1>3, <1>4, <2>3, <3>2
    <2> QED BY <1>2, <1>4, <2>2, <2>3
  <1>5. CASE PayRead(q)
    <2>1. sub' = sub /\ tx[q].mode = "none" /\ tx' = [tx EXCEPT ![q].pc = "lock", ![q].seen = Renewable(tx[q].user)]
      BY <1>0, <1>5 DEF PayRead, Shaped, Tx
    <2>2. tx'[q].seen = Renewable(tx[q].user) /\ tx'[q].user = tx[q].user /\ tx'[q].mode = "none"
      BY <1>0, <2>1 DEF Tx
    <2> QED BY <2>1, <2>2 DEF Renews, Expired, Renewable
  <1>6. CASE PayLock(q)
    <2>1. sub' = sub /\ tx[q].op = "pay" /\ tx[q].pc = "lock" /\ Renews(q)
      BY <1>6 DEF PayLock, Seniority
    <2>2. CASE Goto(q, "insert")
      <3>1. tx[q].mode # "extend"
        BY <1>0, <2>1 DEF Shaped
      <3>2. tx'[q].pc = "insert" /\ tx'[q].mode = tx[q].mode
        BY <1>0, <2>2 DEF Goto, Tx
      <3> QED BY <1>2, <3>1, <3>2
    <2>3. ASSUME NEW s \in Newest(StillRenewable(q)),
                 tx' = [tx EXCEPT ![q].pc = "panel", ![q].mode = "extend", ![q].sub = s,
                                  ![q].exp = Extended(s, tx[q].days, tx[q].now)]
          PROVE  Renews(q)'
      <3>1. /\ s \in Subs /\ sub[s].user = tx[q].user
            /\ \A z \in StillRenewable(q) : sub[z].started <= sub[s].started
        BY DEF Newest, StillRenewable, Renewable
      <3>2. /\ tx'[q].pc = "panel" /\ tx'[q].sub = s /\ tx'[q].user = tx[q].user
            /\ tx'[q].exp = Extended(s, tx[q].days, tx[q].now)
        BY <1>0, <2>3 DEF Tx
      <3>3. ASSUME s \in Expired(tx[q].user), NEW z \in Expired(tx[q].user) \ {s}
            PROVE  sub[z].started < sub[s].started
        <4>1. z \in Subs /\ z \in StillRenewable(q)
          BY <2>1, <3>3 DEF Renews, StillRenewable, Renewable, Expired
        <4>2. sub[z].started # sub[s].started
          BY <3>1, <3>3, <4>1 DEF Seniority, Elder, Expired
        <4>3. sub[z].started \in Nat /\ sub[s].started \in Nat
          BY <1>0, <3>1, <4>1 DEF SubRow
        <4> QED BY <3>1, <4>1, <4>2, <4>3
      <3>4. s \in LiveSubs(tx[q].user) => tx'[q].exp >= sub[s].exp
        <4>1. sub[s].exp \in Nat /\ tx[q].days \in Nat /\ tx[q].now \in Nat
          BY <1>0, <3>1 DEF SubRow, Tx
        <4> QED BY <3>2, <4>1 DEF Extended, Later, LiveSubs
      <3> QED BY <2>1, <3>2, <3>3, <3>4 DEF Renews, Expired, LiveSubs
    <2> QED BY <1>6, <2>2, <2>3 DEF PayLock
  <1> QED BY <1>2, <1>3, <1>4, <1>5, <1>6, PayMoves

\* The order of a user's rows, and what his payments know of it, is kept.
THEOREM Ordered == Spec => []Seniority
  <1>1. IInv /\ Seniority /\ [Next]_vars => Seniority'
    <2> SUFFICES ASSUME IInv, Seniority, [Next]_vars PROVE Seniority'
      OBVIOUS
    <2>1. \A s, z \in Subs : sub'[s].status = "EXPIRED" => Elder(s, z)'
      BY ElderStep
    <2>2. \A q \in Sessions : tx'[q].op = "pay" => Renews(q)'
      BY RenewsStep
    <2> QED BY <2>1, <2>2 DEF Seniority
  <1> QED BY <1>1, SeniorityInit, Safety, PTL DEF Spec

\* A session that handles a payment handles nothing else until it ends.
LEMMA PayGoesOn ==
  ASSUME IInv, [Next]_vars, NEW q \in Sessions, tx[q].op = "pay", tx'[q] # IdleTx
  PROVE  tx'[q].op = "pay"
  <1>0. tx \in [Sessions -> Tx] /\ tx[q] \in Tx /\ tx[q].pc # "idle"
    BY Start DEF IInv, Shape, TypeOK, Shaped
  <1>1. ASSUME NEW p \in Sessions, End(p) PROVE tx'[q].op = "pay"
    BY <1>0, <1>1 DEF End
  <1>2. ASSUME NEW p \in Sessions, NEW l, Goto(p, l) PROVE tx'[q].op = "pay"
    BY <1>0, <1>2 DEF Goto, Tx
  <1>3. ASSUME NEW p \in Sessions, Idle(p), NEW t, tx' = [tx EXCEPT ![p] = t]
        PROVE  tx'[q].op = "pay"
    BY <1>0, <1>3 DEF Idle
  <1>4. ASSUME NEW p \in Sessions, NEW s \in Subs, NEW l, InsertSub(p, s, l)
        PROVE  tx'[q].op = "pay"
    BY <1>0, <1>4 DEF InsertSub, Tx
  <1>5. ASSUME NEW p \in Sessions, tx[p].op # "pay", \A r \in Sessions \ {p} : tx'[r] = tx[r]
        PROVE  tx'[q].op = "pay"
    BY <1>5
  <1>6. ASSUME NEW p \in Sessions, PayLock(p) PROVE tx'[q].op = "pay"
    <2>1. CASE Goto(p, "insert")
      BY <1>2, <2>1
    <2>2. ASSUME NEW s \in Newest(StillRenewable(p)),
                 tx' = [tx EXCEPT ![p].pc = "panel", ![p].mode = "extend", ![p].sub = s,
                                  ![p].exp = Extended(s, tx[p].days, tx[p].now)]
          PROVE  tx'[q].op = "pay"
      BY <1>0, <2>2 DEF Tx
    <2> QED BY <1>6, <2>1, <2>2 DEF PayLock
  <1>7. ASSUME NEW p \in Sessions, PayRead(p) PROVE tx'[q].op = "pay"
    BY <1>0, <1>7 DEF PayRead, Tx
  <1>8. ASSUME NEW p \in Sessions, PaymentStep(p) PROVE tx'[q].op = "pay"
    BY <1>1, <1>2, <1>3, <1>4, <1>6, <1>7, <1>8
       DEF PaymentStep, OrderBegin, OrderCommit, PayBegin, PayInsert, PayForeignKey, PayCommit,
           RefundBegin, RefundCommit
  <1>9. ASSUME NEW p \in Sessions, ActivationStep(p) PROVE tx'[q].op = "pay"
    <2>1. CASE ActivateRead(p) \/ TrialRead(p)
      <3>1. tx[p].op # "pay" /\ \A r \in Sessions \ {p} : tx'[r] = tx[r]
        BY <1>0, <2>1 DEF ActivateRead, TrialRead
      <3> QED BY <1>5, <3>1
    <2>2. CASE ActivateLock(p)
      <3>1. tx[p].op # "pay" /\ \A r \in Sessions \ {p} : tx'[r] = tx[r]
        BY <1>0, <2>2 DEF ActivateLock, Goto
      <3> QED BY <1>5, <3>1
    <2> QED BY <1>1, <1>2, <1>3, <1>4, <1>9, <2>1, <2>2
            DEF ActivationStep, LockUser, InsertUser, IssueInsert, ActivateBegin, ActivateCode,
                ActivateUnlink, ActivateCommit, TrialBegin, TrialCommit
  <1>10. \/ \E p \in Sessions : \/ PaymentStep(p) \/ ActivationStep(p) \/ PanelAnswers(p)
                                \/ PanelFails(p) \/ Abort(p)
         \/ tx' = tx
    BY DEF Next, Precheck, AdminStep, RevokeSubscription, RevokeCode, Tick, vars
  <1> QED BY <1>1, <1>2, <1>8, <1>9, <1>10 DEF PanelAnswers, PanelFails, Abort

\* An order becomes PAID by the commit of a payment of it, and by nothing else.
LEMMA OnlyPaymentPays ==
  ASSUME IInv, [Next]_vars, NEW o \in Orders,
         order[o].status = "PENDING", order'[o].status = "PAID"
  PROVE  \E p \in Sessions : PayCommit(p) /\ tx[p].order = o
  <1>0. order \in [Orders -> OrderRow]
    BY DEF IInv, Shape, TypeOK
  <1>1. ASSUME NEW p \in Sessions, NEW d \in Orders, OrderCommit(p, d) PROVE FALSE
    <2>1. CASE o = d
      BY <1>1, <2>1 DEF OrderCommit, NoOrder
    <2>2. CASE o # d /\ o \in Draft(p)
      <3>1. order'[o] = [order[o] EXCEPT !.status = "FAILED"]
        BY <1>1, <2>2 DEF OrderCommit
      <3> QED BY <1>0, <3>1 DEF OrderRow
    <2>3. CASE o # d /\ o \notin Draft(p)
      BY <1>1, <2>3 DEF OrderCommit
    <2> QED BY <2>1, <2>2, <2>3
  <1>2. ASSUME NEW p \in Sessions, RefundCommit(p) PROVE FALSE
    BY <1>0, <1>2 DEF RefundCommit, OrderRow
  <1>3. ASSUME NEW p \in Sessions, PayCommit(p) PROVE tx[p].order = o
    BY <1>0, <1>3 DEF PayCommit
  <1>4. ASSUME NEW p \in Sessions, PaymentStep(p)
        PROVE  \/ order' = order \/ PayCommit(p) \/ RefundCommit(p)
               \/ \E d \in Orders : OrderCommit(p, d)
    BY <1>4 DEF PaymentStep, OrderBegin, PayBegin, PayRead, PayLock, PayInsert,
                PayForeignKey, RefundBegin
  <1>5. ASSUME NEW p \in Sessions, ActivationStep(p) PROVE order' = order
    BY <1>5 DEF ActivationStep, LockUser, InsertUser, IssueInsert, ActivateBegin, ActivateCode,
                ActivateRead, ActivateLock, ActivateUnlink, ActivateCommit, TrialBegin,
                TrialRead, TrialCommit
  <1>6. \/ order' = order
        \/ \E p \in Sessions : PaymentStep(p) \/ ActivationStep(p)
    BY DEF Next, PanelAnswers, PanelFails, Abort, Precheck, AdminStep, RevokeSubscription,
           RevokeCode, Tick, vars
  <1> QED BY <1>1, <1>2, <1>3, <1>4, <1>5, <1>6

\* A payment that finds a live subscription takes that one.
LEMMA TakesTheLiveOne ==
  ASSUME IInv, Seniority, [Next]_vars, NEW p \in Sessions,
         tx[p].op = "pay", tx[p].mode = "none", tx'[p].mode = "extend",
         tx[p].seen \cap LiveSubs(tx[p].user) # {}
  PROVE  sub[tx'[p].sub].status \in Live
  <1>0. sub \in [Subs -> SubRow] /\ tx \in [Sessions -> Tx] /\ tx[p] \in Tx
    BY DEF IInv, Shape, TypeOK
  <1>1. PayLock(p)
    <2>1. ~PayRead(p)
      BY <1>0 DEF PayRead, Tx
    <2>2. tx'[p] # IdleTx
      BY DEF IdleTx
    <2> QED BY <2>1, <2>2, PayMoves, PayGoesOn
  <1>2. PICK s \in Newest(StillRenewable(p)) :
          tx' = [tx EXCEPT ![p].pc = "panel", ![p].mode = "extend", ![p].sub = s,
                           ![p].exp = Extended(s, tx[p].days, tx[p].now)]
    <2>1. ~Goto(p, "insert")
      BY <1>0 DEF Goto, Tx
    <2> QED BY <1>1, <2>1 DEF PayLock
  <1>3. tx'[p].sub = s
    BY <1>0, <1>2 DEF Tx
  <1>4. /\ s \in Subs /\ sub[s].user = tx[p].user
        /\ sub[s].status \in Live \cup {"EXPIRED"}
        /\ \A z \in StillRenewable(p) : sub[z].started <= sub[s].started
    BY DEF Newest, StillRenewable, Renewable
  <1>5. ASSUME sub[s].status = "EXPIRED" PROVE FALSE
    <2>1. PICK z \in tx[p].seen : z \in LiveSubs(tx[p].user)
      OBVIOUS
    <2>2. z \in Subs /\ z \in StillRenewable(p)
      BY <2>1 DEF LiveSubs, StillRenewable, Renewable
    <2>3. sub[s].started < sub[z].started
      BY <1>4, <1>5, <2>1, <2>2 DEF Seniority, Elder, LiveSubs
    <2>4. sub[s].started \in Nat /\ sub[z].started \in Nat
      BY <1>0, <1>4, <2>2 DEF SubRow
    <2> QED BY <1>4, <2>2, <2>3, <2>4
  <1> QED BY <1>3, <1>4, <1>5

\* A payment leaves the live subscription of its user ACTIVE, resting on its
\* order, and no shorter than it was.
LEMMA LeavesItLonger ==
  ASSUME IInv, Seniority, [Next]_vars, NEW o \in Orders,
         order[o].status = "PENDING", order'[o].status = "PAID",
         NEW s \in LiveSubs(order[o].user)
  PROVE  sub'[s].status = "ACTIVE" /\ sub'[s].order = o /\ sub'[s].exp >= sub[s].exp
  <1>0. sub \in [Subs -> SubRow]
    BY DEF IInv, Shape, TypeOK
  <1>1. PICK p \in Sessions : PayCommit(p) /\ tx[p].order = o
    BY OnlyPaymentPays
  <1>2. order[o].user = tx[p].user /\ tx[p].op = "pay"
    BY <1>1 DEF PayCommit, IInv, Reliant, HoldsOrder
  <1>3. s = tx[p].sub /\ tx[p].mode = "extend" /\ s \in Subs
    BY <1>1, <1>2, PaysTheLiveOne DEF LiveSubs
  <1>4. tx[p].exp >= sub[s].exp
    BY <1>2, <1>3 DEF Seniority, Renews
  <1>5. sub'[s] = [sub[s] EXCEPT !.status = "ACTIVE", !.exp = tx[p].exp,
                                !.order = tx[p].order, !.handle = TRUE]
    BY <1>0, <1>1, <1>3 DEF PayCommit, PaidRow
  <1>6. sub[s] \in SubRow
    BY <1>0, <1>3
  <1>7. sub'[s].status = "ACTIVE" /\ sub'[s].order = o /\ sub'[s].exp = tx[p].exp
    BY <1>1, <1>5, <1>6 DEF SubRow
  <1> QED BY <1>4, <1>7

\* A payment extends the subscription its user has, for any number of rows he
\* has had before and whatever other handlers do to them meanwhile.
THEOREM PaymentExtends == Spec => PaymentExtendsLive
  <1> DEFINE A == /\ \A p \in Sessions :
                      /\ tx[p].op = "pay" /\ tx[p].mode = "none" /\ tx'[p].mode = "extend"
                      /\ tx[p].seen \cap LiveSubs(tx[p].user) # {}
                      => sub[tx'[p].sub].status \in Live
                  /\ \A o \in Orders : order[o].status = "PENDING" /\ order'[o].status = "PAID"
                      => \A s \in LiveSubs(order[o].user) :
                           sub'[s].status = "ACTIVE" /\ sub'[s].order = o /\ sub'[s].exp >= sub[s].exp
  <1>1. IInv /\ Seniority /\ [Next]_vars => A
    BY TakesTheLiveOne, LeavesItLonger
  <1>2. PaymentExtendsLive <=> [][A]_vars
    BY DEF PaymentExtendsLive
  <1> HIDE DEF A
  <1>3. Spec => [][A]_vars
    BY <1>1, Safety, Ordered, PTL DEF Spec
  <1> QED BY <1>2, <1>3

-----------------------------------------------------------------------------
(* What the panel serves.                                                  *)

\* Row z is left alone, or withdrawn.
Kept(z) == sub'[z] = sub[z] \/ (sub'[z].status = "REVOKED" /\ sub'[z].handle = sub[z].handle)

\* No session gets to its commit.
NoneReady ==
  \A q \in Sessions : tx'[q].pc = "commit" => tx[q].pc = "commit" /\ tx'[q].sub = tx[q].sub

\* Session p grants its days: it was about to commit, and writes no other row but
\* to withdraw it.
GrantsDays(p) ==
  /\ tx[p].pc = "commit" /\ tx[p].sub \in Subs
  /\ UNCHANGED panel /\ NoneReady
  /\ term' = [term EXCEPT ![tx[p].sub] = @ + tx[p].days]
  /\ \A z \in Subs : z # tx[p].sub => Kept(z)

\* Session p calls the panel for its own row, and may then be about to commit.
CallsPanel(p) ==
  /\ \E n \in 1 .. PanelTries : PanelCall(p, n)
  /\ UNCHANGED <<sub, term>>
  /\ \A q \in Sessions \ {p} : tx'[q] = tx[q]
  /\ tx'[p].pc = "commit" => tx'[p].sub = tx[p].sub

\* One session moves, and not to its commit.
LEMMA OneMoves ==
  ASSUME NEW p \in Sessions, \A q \in Sessions \ {p} : tx'[q] = tx[q], tx'[p].pc # "commit"
  PROVE  NoneReady
  BY DEF NoneReady

LEMMA EndReadies == ASSUME IInv, NEW p \in Sessions, End(p) PROVE NoneReady
  <1>1. \A q \in Sessions : tx'[q] = IF q = p THEN IdleTx ELSE tx[q]
    BY DEF End, IInv, Shape, TypeOK
  <1> QED BY <1>1, OneMoves DEF IdleTx

LEMMA GotoReadies ==
  ASSUME IInv, NEW p \in Sessions, NEW l, l # "commit", Goto(p, l) PROVE NoneReady
  <1>1. tx'[p].pc = l /\ \A q \in Sessions \ {p} : tx'[q] = tx[q]
    BY DEF Goto, IInv, Shape, TypeOK, Tx
  <1> QED BY <1>1, OneMoves

\* Look-ups, locks and inserts.
LEMMA ReadReadies ==
  ASSUME IInv, NEW p \in Sessions,
         PayRead(p) \/ PayLock(p) \/ ActivateRead(p) \/ ActivateLock(p) \/ TrialRead(p)
         \/ \E s \in Subs, l \in {"fk", "panel"} : InsertSub(p, s, l)
  PROVE  NoneReady
  <1>0. tx \in [Sessions -> Tx] /\ tx[p] \in Tx
    BY DEF IInv, Shape, TypeOK
  <1>1. CASE PayRead(p) \/ ActivateRead(p) \/ TrialRead(p)
    <2>1. tx'[p].pc # "commit" /\ \A q \in Sessions \ {p} : tx'[q] = tx[q]
      BY <1>0, <1>1 DEF PayRead, ActivateRead, TrialRead, Tx
    <2> QED BY <2>1, OneMoves
  <1>2. CASE PayLock(p)
    <2>1. ASSUME NEW s, NEW e, tx' = [tx EXCEPT ![p].pc = "panel", ![p].mode = "extend",
                                                ![p].sub = s, ![p].exp = e]
          PROVE  NoneReady
      <3>1. tx'[p].pc # "commit" /\ \A q \in Sessions \ {p} : tx'[q] = tx[q]
        BY <1>0, <2>1 DEF Tx
      <3> QED BY <3>1, OneMoves
    <2> QED BY <1>2, <2>1, GotoReadies DEF PayLock
  <1>3. CASE ActivateLock(p)
    <2>1. ASSUME NEW s, NEW e, tx' = [tx EXCEPT ![p].pc = "panel", ![p].mode = "extend",
                                                ![p].sub = s, ![p].exp = e]
          PROVE  NoneReady
      <3>1. tx'[p].pc # "commit" /\ \A q \in Sessions \ {p} : tx'[q] = tx[q]
        BY <1>0, <2>1 DEF Tx
      <3> QED BY <3>1, OneMoves
    <2>2. ASSUME NEW s, tx' = [tx EXCEPT ![p].pc = "unlink", ![p].old = s]
          PROVE  NoneReady
      <3>1. tx'[p].pc # "commit" /\ \A q \in Sessions \ {p} : tx'[q] = tx[q]
        BY <1>0, <2>2 DEF Tx
      <3> QED BY <3>1, OneMoves
    <2> QED BY <1>3, <2>1, <2>2, GotoReadies DEF ActivateLock
  <1>4. ASSUME NEW s \in Subs, NEW l \in {"fk", "panel"}, InsertSub(p, s, l) PROVE NoneReady
    <2>1. tx'[p].pc # "commit" /\ \A q \in Sessions \ {p} : tx'[q] = tx[q]
      BY <1>0, <1>4 DEF InsertSub, Tx
    <2> QED BY <2>1, OneMoves
  <1> QED BY <1>1, <1>2, <1>3, <1>4

\* A session begins.
LEMMA BeginReadies ==
  ASSUME IInv, NEW p \in Sessions, NEW t, tx' = [tx EXCEPT ![p] = t], t.pc # "commit"
  PROVE  NoneReady
  <1>1. tx'[p] = t /\ \A q \in Sessions \ {p} : tx'[q] = tx[q]
    BY DEF IInv, Shape, TypeOK
  <1> QED BY <1>1, OneMoves

LEMMA SessionBegins ==
  ASSUME IInv, NEW p \in Sessions,
         \/ \E u \in Users, pl \in Plans : OrderBegin(p, u, pl)
         \/ \E c \in Charges : PayBegin(p, c)
         \/ \E o \in Orders : RefundBegin(p, o)
         \/ \E u \in Users, k \in Codes : ActivateBegin(p, u, k)
         \/ \E u \in Users : TrialBegin(p, u)
  PROVE  UNCHANGED <<sub, panel, term>> /\ NoneReady
  <1>1. ASSUME NEW u \in Users, NEW pl \in Plans, OrderBegin(p, u, pl)
       PROVE  UNCHANGED <<sub, panel, term>> /\ NoneReady
    <2> DEFINE t == [IdleTx EXCEPT !.op = "order", !.pc = "lock", !.user = u, !.plan = pl, !.now = now,
                       !.seen = PendingOrders(u)]
    <2>1. t.pc = "lock"
      BY DEF IdleTx
    <2>2. tx' = [tx EXCEPT ![p] = t] /\ UNCHANGED <<sub, panel, term>>
      BY <1>1 DEF OrderBegin
    <2> HIDE DEF t
    <2> QED BY <2>1, <2>2, BeginReadies
  <1>2. ASSUME NEW c \in Charges, PayBegin(p, c)
       PROVE  UNCHANGED <<sub, panel, term>> /\ NoneReady
    <2> DEFINE t == [IdleTx EXCEPT !.op = "pay", !.pc = "read", !.user = order[charge[c]].user,
                       !.order = charge[c], !.charge = c, !.plan = order[charge[c]].plan,
                       !.days = Days[order[charge[c]].plan], !.now = now]
    <2>1. t.pc = "read"
      BY DEF IdleTx
    <2>2. tx' = [tx EXCEPT ![p] = t] /\ UNCHANGED <<sub, panel, term>>
      BY <1>2 DEF PayBegin
    <2> HIDE DEF t
    <2> QED BY <2>1, <2>2, BeginReadies
  <1>3. ASSUME NEW o \in Orders, RefundBegin(p, o)
       PROVE  UNCHANGED <<sub, panel, term>> /\ NoneReady
    <2> DEFINE t == [IdleTx EXCEPT !.op = "refund", !.pc = "lock", !.order = o,
                       !.seen = {s \in Subs : sub[s].order = o}]
    <2>1. t.pc = "lock"
      BY DEF IdleTx
    <2>2. tx' = [tx EXCEPT ![p] = t] /\ UNCHANGED <<sub, panel, term>>
      BY <1>3 DEF RefundBegin
    <2> HIDE DEF t
    <2> QED BY <2>1, <2>2, BeginReadies
  <1>4. ASSUME NEW u \in Users, NEW k \in Codes, ActivateBegin(p, u, k)
       PROVE  UNCHANGED <<sub, panel, term>> /\ NoneReady
    <2> DEFINE t == [IdleTx EXCEPT !.op = "activate", !.pc = "code", !.user = u, !.code = k,
                       !.plan = CodePlan[k], !.days = Days[CodePlan[k]], !.now = now]
    <2>1. t.pc = "code"
      BY DEF IdleTx
    <2>2. tx' = [tx EXCEPT ![p] = t] /\ UNCHANGED <<sub, panel, term>>
      BY <1>4 DEF ActivateBegin
    <2> HIDE DEF t
    <2> QED BY <2>1, <2>2, BeginReadies
  <1>5. ASSUME NEW u \in Users, TrialBegin(p, u)
       PROVE  UNCHANGED <<sub, panel, term>> /\ NoneReady
    <2> DEFINE t == [IdleTx EXCEPT !.op = "trial", !.pc = "user", !.user = u, !.plan = Trial,
                       !.days = TrialDays]
    <2>1. t.pc = "user"
      BY DEF IdleTx
    <2>2. tx' = [tx EXCEPT ![p] = t] /\ UNCHANGED <<sub, panel, term>>
      BY <1>5 DEF TrialBegin
    <2> HIDE DEF t
    <2> QED BY <2>1, <2>2, BeginReadies
  <1> QED BY <1>1, <1>2, <1>3, <1>4, <1>5

\* The three commits that grant days.
LEMMA CommitsGrant ==
  ASSUME IInv, NEW p \in Sessions, PayCommit(p) \/ ActivateCommit(p) \/ TrialCommit(p)
  PROVE  GrantsDays(p)
  <1>0. sub \in [Subs -> SubRow] /\ tx[p] \in Tx /\ Shaped(tx[p])
    BY Start DEF IInv, Shape, TypeOK
  <1>1. /\ tx[p].pc = "commit" /\ UNCHANGED panel /\ End(p)
        /\ term' = [term EXCEPT ![tx[p].sub] = @ + tx[p].days]
    BY DEF PayCommit, ActivateCommit, TrialCommit
  <1>2. tx[p].sub \in Subs
    BY <1>0, <1>1 DEF Shaped, Tx
  <1>3. ASSUME NEW z \in Subs, z # tx[p].sub PROVE Kept(z)
    <2>1. CASE PayCommit(p) \/ TrialCommit(p)
      BY <1>0, <1>3, <2>1 DEF PayCommit, TrialCommit, Kept
    <2>2. CASE ActivateCommit(p)
      <3>1. sub'[z] = sub[z] \/ sub'[z] = [sub[z] EXCEPT !.status = "REVOKED"]
        BY <1>3, <2>2 DEF ActivateCommit
      <3>2. sub[z] \in SubRow
        BY <1>0
      <3> QED BY <3>1, <3>2 DEF Kept, SubRow
    <2> QED BY <2>1, <2>2
  <1> QED BY <1>1, <1>2, <1>3, EndReadies DEF GrantsDays

\* Refunds and admins only withdraw.
LEMMA WithdrawalKeeps ==
  ASSUME IInv, NEW z \in Subs,
         (\E p \in Sessions : RefundCommit(p)) \/ (\E s \in Subs : RevokeSubscription(s))
  PROVE  Kept(z)
  <1>0. sub \in [Subs -> SubRow] /\ sub[z] \in SubRow
    BY DEF IInv, Shape, TypeOK
  <1>1. ASSUME NEW p \in Sessions, RefundCommit(p) PROVE Kept(z)
    <2>1. sub'[z] = sub[z] \/ sub'[z] = [sub[z] EXCEPT !.status = "REVOKED", !.order = None]
      BY <1>1 DEF RefundCommit
    <2> QED BY <1>0, <2>1 DEF Kept, SubRow
  <1>2. ASSUME NEW s \in Subs, RevokeSubscription(s) PROVE Kept(z)
    <2>1. sub' = [sub EXCEPT ![s].status = "REVOKED", ![s].exp = now]
      BY <1>2 DEF RevokeSubscription
    <2>2. CASE z = s
      <3>1. sub'[z] = [sub[z] EXCEPT !.status = "REVOKED", !.exp = now]
        BY <1>0, <2>1, <2>2
      <3> QED BY <1>0, <3>1 DEF Kept, SubRow
    <2>3. CASE z # s
      BY <1>0, <2>1, <2>3 DEF Kept
    <2> QED BY <2>2, <2>3
  <1> QED BY <1>1, <1>2

\* What a step can do to the service: grant days, call the panel, disable the row
\* that an activation replaces, or none of these.
LEMMA ServiceSteps ==
  ASSUME IInv, [Next]_vars
  PROVE  \/ \E p \in Sessions : GrantsDays(p) \/ CallsPanel(p) \/ ActivateUnlink(p)
         \/ UNCHANGED <<panel, term>> /\ NoneReady /\ \A z \in Subs : Kept(z)
  <1> DEFINE Quiet == UNCHANGED <<panel, term>> /\ NoneReady /\ \A z \in Subs : Kept(z)
  <1>0. tx \in [Sessions -> Tx]
    BY DEF IInv, Shape, TypeOK
  <1>1. ASSUME NEW p \in Sessions, PaymentStep(p) PROVE PayCommit(p) \/ Quiet
    <2>1. CASE PayCommit(p)
      BY <2>1
    <2>2. CASE RefundCommit(p)
      BY <2>2, EndReadies, WithdrawalKeeps DEF RefundCommit
    <2>3. CASE \E u \in Users, pl \in Plans : OrderBegin(p, u, pl)
      BY <2>3, SessionBegins DEF Kept
    <2>4. CASE \E o \in Orders : OrderCommit(p, o)
      BY <2>4, EndReadies DEF OrderCommit, Kept
    <2>5. CASE \E c \in Charges : PayBegin(p, c)
      BY <2>5, SessionBegins DEF Kept
    <2>6. CASE PayRead(p)
      BY <2>6, ReadReadies DEF PayRead, Kept
    <2>7. CASE PayLock(p)
      BY <2>7, ReadReadies DEF PayLock, Kept
    <2>8. CASE \E s \in Subs : PayInsert(p, s)
      BY <2>8, ReadReadies DEF PayInsert, Kept
    <2>9. CASE PayForeignKey(p)
      BY <2>9, GotoReadies DEF PayForeignKey, Kept
    <2>10. CASE \E o \in Orders : RefundBegin(p, o)
      BY <2>10, SessionBegins DEF Kept
    <2> QED BY <1>1, <2>1, <2>2, <2>3, <2>4, <2>5, <2>6, <2>7, <2>8, <2>9, <2>10 DEF PaymentStep
  <1>2. ASSUME NEW p \in Sessions, ActivationStep(p)
        PROVE  ActivateCommit(p) \/ TrialCommit(p) \/ ActivateUnlink(p) \/ Quiet
    <2>1. CASE LockUser(p)
      BY <2>1, GotoReadies DEF LockUser, Kept
    <2>2. CASE InsertUser(p)
      BY <2>2, GotoReadies DEF InsertUser, Kept
    <2>3. CASE \E s \in Subs : IssueInsert(p, s)
      BY <2>3, ReadReadies DEF IssueInsert, Kept
    <2>4. CASE \E u \in Users, k \in Codes : ActivateBegin(p, u, k)
      BY <2>4, SessionBegins DEF Kept
    <2>5. CASE ActivateCode(p)
      BY <2>5, GotoReadies DEF ActivateCode, Kept
    <2>6. CASE ActivateRead(p)
      BY <2>6, ReadReadies DEF ActivateRead, Kept
    <2>7. CASE ActivateLock(p)
      BY <2>7, ReadReadies DEF ActivateLock, Kept
    <2>8. CASE \E u \in Users : TrialBegin(p, u)
      BY <2>8, SessionBegins DEF Kept
    <2>9. CASE TrialRead(p)
      BY <2>9, ReadReadies DEF TrialRead, Kept
    <2> QED BY <1>2, <2>1, <2>2, <2>3, <2>4, <2>5, <2>6, <2>7, <2>8, <2>9 DEF ActivationStep
  <1>3. ASSUME NEW p \in Sessions, PanelAnswers(p) \/ PanelFails(p) PROVE CallsPanel(p)
    <2>1. CASE PanelAnswers(p)
      BY <1>0, <2>1 DEF PanelAnswers, CallsPanel, Goto, Tx
    <2>2. CASE PanelFails(p)
      BY <1>0, <2>2 DEF PanelFails, CallsPanel, End, IdleTx
    <2> QED BY <1>3, <2>1, <2>2
  <1>4. ASSUME NEW p \in Sessions, Abort(p) PROVE Quiet
    BY <1>4, EndReadies DEF Abort, Kept
  <1>5. CASE UNCHANGED <<sub, tx, panel, term>>
    BY <1>5 DEF Kept, NoneReady
  <1>6. ASSUME NEW s \in Subs, RevokeSubscription(s) PROVE Quiet
    BY <1>6, WithdrawalKeeps DEF RevokeSubscription, NoneReady
  <1>7. \/ \E p \in Sessions : \/ PaymentStep(p) \/ ActivationStep(p) \/ PanelAnswers(p)
                               \/ PanelFails(p) \/ Abort(p)
        \/ \E s \in Subs : RevokeSubscription(s)
        \/ UNCHANGED <<sub, tx, panel, term>>
    BY DEF Next, Precheck, AdminStep, RevokeCode, Tick, vars
  <1> HIDE DEF Quiet
  <1>8. Quiet \/ \E p \in Sessions : GrantsDays(p) \/ CallsPanel(p) \/ ActivateUnlink(p)
    <2>1. CASE UNCHANGED <<sub, tx, panel, term>>
      BY <1>5, <2>1 DEF Quiet
    <2> QED BY <1>1, <1>2, <1>3, <1>4, <1>6, <1>7, <2>1, CommitsGrant
  <1> QED BY <1>8 DEF Quiet

\* A call leaves its own row enabled, and no other is touched.
LEMMA CallEnables ==
  ASSUME IInv, Serving, NEW p \in Sessions, CallsPanel(p)
  PROVE  /\ tx[p].sub \in Subs /\ panel'[tx[p].sub].state = "enabled"
         /\ \A s \in Subs : s # tx[p].sub => panel'[s] = panel[s]
         /\ \A s \in Subs : sub[s].status \in Live => panel'[s].days >= panel[s].days
  <1>1. PICK n \in 1 .. PanelTries : PanelCall(p, n)
    BY DEF CallsPanel
  <1>2. tx[p].sub \in Subs /\ tx[p].mode \in {"insert", "extend"}
    BY <1>1, Start DEF PanelCall, Shaped, Tx
  <1>3. panel \in [Subs -> PanelUser] /\ panel[tx[p].sub] \in PanelUser
    BY <1>2 DEF IInv, Shape, TypeOK
  <1>4. CASE tx[p].mode = "insert" \/ ~sub[tx[p].sub].handle
    <2>1. panel' = [panel EXCEPT ![tx[p].sub] = [state |-> "enabled", days |-> tx[p].days]]
      BY <1>1, <1>4 DEF PanelCall, Applied
    <2> QED BY <1>1, <1>2, <1>3, <2>1, PanelEffect
  <1>5. CASE ~(tx[p].mode = "insert" \/ ~sub[tx[p].sub].handle)
    <2>1. panel' = [panel EXCEPT ![tx[p].sub].days = @ + n * tx[p].days]
      BY <1>1, <1>5 DEF PanelCall, Applied
    <2>2. panel[tx[p].sub].state \notin {"absent", "disabled"}
      BY <1>1, <1>2, <1>5 DEF PanelCall, Serving
    <2>3. panel'[tx[p].sub].state = panel[tx[p].sub].state
          /\ \A s \in Subs : s # tx[p].sub => panel'[s] = panel[s]
      BY <1>2, <1>3, <2>1 DEF PanelUser
    <2> QED BY <1>1, <1>2, <1>3, <2>2, <2>3, PanelEffect DEF PanelUser
  <1> QED BY <1>4, <1>5

\* Disabling the row that is replaced leaves the rows of other sessions alone.
LEMMA UnlinkDisables ==
  ASSUME IInv, NEW p \in Sessions, ActivateUnlink(p)
  PROVE  /\ tx[p].pc = "unlink" /\ UNCHANGED <<sub, term>> /\ NoneReady
         /\ \A s \in Subs : s # tx[p].old => panel'[s] = panel[s]
         /\ \A s \in Subs : panel[s].state # "absent" => panel'[s].state # "absent"
         /\ \A q \in Sessions : tx[q].pc = "commit" => tx[q].sub # tx[p].old
  <1>1. /\ tx[p].pc = "unlink" /\ UNCHANGED <<sub, term>> /\ Goto(p, "insert")
        /\ panel' = [panel EXCEPT ![tx[p].old].state = "disabled"]
    BY DEF ActivateUnlink
  <1>2. panel \in [Subs -> PanelUser]
    BY DEF IInv, Shape, TypeOK
  <1>3. \A s \in Subs : panel[s].state # "absent" => panel'[s].state # "absent"
    BY <1>1, <1>2 DEF PanelUser
  <1>4. ASSUME NEW q \in Sessions, tx[q].pc = "commit" PROVE tx[q].sub # tx[p].old
    <2>1. /\ Reliant(p) /\ Reliant(q) /\ InsertsAlone(q) /\ Shaped(tx[q])
          /\ tx[q] \in Tx /\ q # p
      BY <1>1, <1>4, Start
    <2>2. tx[q].sub \in Subs /\ tx[q].sub # None /\ tx[q].mode \in {"insert", "extend"}
      BY <1>4, <2>1, StorageAssumption DEF Shaped, Tx
    <2>3. CASE tx[q].mode = "extend"
      BY <2>1, <2>2, <2>3 DEF Reliant, HoldsSub
    <2>4. CASE tx[q].mode = "insert"
      BY <1>4, <2>1, <2>2, <2>4 DEF Reliant, HoldsSub, InsertsAlone, Inserted
    <2> QED BY <2>2, <2>3, <2>4
  <1> QED BY <1>1, <1>2, <1>3, <1>4, GotoReadies

LEMMA ServingStep == IInv /\ Serving /\ [Next]_vars => Serving'
  <1> SUFFICES ASSUME IInv, Serving, [Next]_vars PROVE Serving'
    OBVIOUS
  <1>1. CASE UNCHANGED <<panel, term>> /\ NoneReady /\ \A z \in Subs : Kept(z)
    BY <1>1 DEF Serving, NoneReady, Kept
  <1>2. ASSUME NEW p \in Sessions, GrantsDays(p) PROVE Serving'
    <2>1. ASSUME NEW z \in Subs, sub'[z].handle PROVE panel'[z].state # "absent"
      BY <1>2, <2>1 DEF GrantsDays, Serving, Kept
    <2> QED BY <1>2, <2>1 DEF GrantsDays, Serving, NoneReady
  <1>3. ASSUME NEW p \in Sessions, CallsPanel(p) PROVE Serving'
    <2>1. ASSUME NEW z \in Subs, sub'[z].handle PROVE panel'[z].state # "absent"
      BY <1>3, <2>1, CallEnables DEF CallsPanel, Serving
    <2>2. ASSUME NEW q \in Sessions, tx'[q].pc = "commit"
          PROVE  panel'[tx'[q].sub].state = "enabled"
      <3>1. CASE q = p
        BY <1>3, <2>2, <3>1, CallEnables DEF CallsPanel
      <3>2. CASE q # p
        <4>1. tx'[q] = tx[q] /\ tx[q].pc = "commit"
          BY <1>3, <2>2, <3>2 DEF CallsPanel
        <4>2. tx[q].mode # "none" /\ tx[p].mode # "none" /\ tx[q].sub \in Subs
          BY <1>3, <4>1, Start DEF CallsPanel, PanelCall, Shaped, Tx
        <4>3. tx[q].sub # tx[p].sub
          BY <3>2, <4>2, SubsDistinct
        <4> QED BY <1>3, <4>1, <4>2, <4>3, CallEnables DEF Serving
      <3> QED BY <3>1, <3>2
    <2> QED BY <2>1, <2>2 DEF Serving
  <1>4. ASSUME NEW p \in Sessions, ActivateUnlink(p) PROVE Serving'
    <2>1. ASSUME NEW q \in Sessions, tx'[q].pc = "commit"
          PROVE  panel'[tx'[q].sub].state = "enabled"
      <3>1. tx[q].pc = "commit" /\ tx'[q].sub = tx[q].sub
        BY <1>4, <2>1, UnlinkDisables DEF NoneReady
      <3>2. tx[q].sub \in Subs
        BY <3>1, Start DEF Shaped, Tx
      <3> QED BY <1>4, <3>1, <3>2, UnlinkDisables DEF Serving
    <2>2. ASSUME NEW z \in Subs, sub'[z].handle PROVE panel'[z].state # "absent"
      BY <1>4, <2>2, UnlinkDisables DEF Serving
    <2> QED BY <2>1, <2>2 DEF Serving
  <1> QED BY <1>1, <1>2, <1>3, <1>4, ServiceSteps

LEMMA GrantsStep ==
  ASSUME IInv, Serving, [Next]_vars, NEW s \in Subs
  PROVE  /\ (sub[s].status \notin Live /\ sub'[s].status \in Live) \/ term'[s] # term[s]
              => Served(s)'
         /\ sub[s].status \in Live /\ Served(s) /\ ~Served(s)'
              => \E p \in Sessions : tx[p].pc = "unlink" /\ tx[p].old = s
  <1>0. panel[s] \in PanelUser /\ panel'[s] \in PanelUser /\ term[s] \in Nat
        /\ term \in [Subs -> Nat]
    BY SafeStep DEF IInv, Shape, TypeOK
  <1>1. CASE UNCHANGED <<panel, term>> /\ NoneReady /\ \A z \in Subs : Kept(z)
    BY <1>1 DEF Kept, Served
  <1>2. ASSUME NEW p \in Sessions, GrantsDays(p)
        PROVE  /\ (sub[s].status \notin Live /\ sub'[s].status \in Live) \/ term'[s] # term[s]
                    => Served(s)'
               /\ Served(s) => Served(s)'
    <2>1. CASE s = tx[p].sub
      <3>1. panel[s].days >= term[s] + tx[p].days /\ panel[s].state = "enabled"
        BY <1>2, <2>1, Start DEF GrantsDays, Reliant, CoversTerm, Serving
      <3>2. term'[s] = term[s] + tx[p].days /\ panel'[s] = panel[s]
        BY <1>0, <1>2, <2>1 DEF GrantsDays
      <3> QED BY <3>1, <3>2 DEF Served
    <2>2. CASE s # tx[p].sub
      <3>1. term'[s] = term[s] /\ panel'[s] = panel[s] /\ Kept(s)
        BY <1>0, <1>2, <2>2 DEF GrantsDays
      <3> QED BY <3>1 DEF Served, Kept
    <2> QED BY <2>1, <2>2
  <1>3. ASSUME NEW p \in Sessions, CallsPanel(p)
        PROVE  UNCHANGED <<sub, term>> /\ (sub[s].status \in Live /\ Served(s) => Served(s)')
    <2>1. UNCHANGED <<sub, term>>
      BY <1>3 DEF CallsPanel
    <2>2. panel'[s].state = "enabled" \/ panel'[s] = panel[s]
      BY <1>3, CallEnables
    <2>3. sub[s].status \in Live => panel'[s].days >= panel[s].days
      BY <1>3, CallEnables
    <2> QED BY <1>0, <2>1, <2>2, <2>3 DEF Served, PanelUser
  <1>4. ASSUME NEW p \in Sessions, ActivateUnlink(p)
        PROVE  /\ UNCHANGED <<sub, term>>
               /\ Served(s) /\ ~Served(s)' => tx[p].pc = "unlink" /\ tx[p].old = s
    BY <1>4, UnlinkDisables DEF Served
  <1> QED BY <1>1, <1>2, <1>3, <1>4, ServiceSteps

\* Days are granted only on a subscription that the panel serves from then on,
\* whatever calls and answers are lost and whoever replaces what; only an
\* activation that is replacing a live subscription takes the service from it.
THEOREM GrantsServed == Spec => GrantsAreServed
  <1> DEFINE A == \A s \in Subs :
               /\ (sub[s].status \notin Live /\ sub'[s].status \in Live) \/ term'[s] # term[s]
                    => Served(s)'
               /\ sub[s].status \in Live /\ Served(s) /\ ~Served(s)'
                    => \E p \in Sessions : tx[p].pc = "unlink" /\ tx[p].old = s
  <1>1. ASSUME Init PROVE Serving
    <2>1. ASSUME NEW s \in Subs PROVE sub[s].handle = FALSE
      <3>1. CASE s \in DOMAIN Legacy
        <4>1. sub[s] = [NoSub EXCEPT !.status = "EXPIRED", !.user = Legacy[s].user,
                                    !.plan = Trial, !.started = Legacy[s].started]
          BY <1>1, <3>1 DEF Init
        <4> QED BY <4>1 DEF NoSub
      <3>2. CASE s \notin DOMAIN Legacy
        <4>1. sub[s] = NoSub
          BY <1>1, <3>2 DEF Init
        <4> QED BY <4>1 DEF NoSub
      <3> QED BY <3>1, <3>2
    <2>2. ASSUME NEW p \in Sessions PROVE tx[p].pc = "idle"
      <3>1. tx[p] = IdleTx
        BY <1>1 DEF Init
      <3> QED BY <3>1 DEF IdleTx
    <2> QED BY <2>1, <2>2 DEF Serving
  <1>2. Spec => []Serving
    BY <1>1, ServingStep, Safety, PTL DEF Spec
  <1>3. IInv /\ Serving /\ [Next]_vars => A
    BY GrantsStep
  <1>4. GrantsAreServed <=> [][A]_vars
    BY DEF GrantsAreServed
  <1> HIDE DEF A
  <1>5. Spec => [][A]_vars
    BY <1>2, <1>3, Safety, PTL DEF Spec
  <1> QED BY <1>4, <1>5
=============================================================================
