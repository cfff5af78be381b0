----------------------------- MODULE TypeProofs -----------------------------
(***************************************************************************)
(* Type correctness of Entitlements, for every value of the constants.     *)
(***************************************************************************)
EXTENDS Invariant, TLAPS

USE DEF Live, Rows, Sources

-----------------------------------------------------------------------------
(* The records and functions that the actions build.                       *)

\* The fields of rows and transactions have the types their record sets give them.
LEMMA RecordTypes ==
  IdleTx \in Tx /\ NoSub \in SubRow /\ NoOrder \in OrderRow
  BY DEF IdleTx, Tx, NoSub, SubRow, NoOrder, OrderRow, Labels

\* A step that gives session p the transaction t.
LEMMA TxUpdate ==
  ASSUME TypeOK, TxShape, NEW p \in Sessions, NEW t \in Tx, Shaped(t),
         tx' = [tx EXCEPT ![p] = t]
  PROVE  tx' \in [Sessions -> Tx] /\ TxShape'
  <1>1. \A q \in Sessions : tx'[q] = IF q = p THEN t ELSE tx[q]
    BY DEF TypeOK
  <1>2. ASSUME NEW q \in Sessions PROVE Shaped(tx[q])'
    <2>1. CASE q = p
      BY <1>1, <2>1 DEF Shaped, IdleTx
    <2>2. CASE q # p
      BY <1>1, <2>2 DEF Shaped, IdleTx, TxShape
    <2> QED BY <2>1, <2>2
  <1> QED BY <1>2 DEF TypeOK, TxShape

\* Ending a session keeps lock and tx well typed.
LEMMA EndType ==
  ASSUME TypeOK, TxShape, NEW p \in Sessions, End(p)
  PROVE  /\ lock' \in [Rows -> Sessions \cup {None}]
         /\ tx' \in [Sessions -> Tx] /\ TxShape'
  <1>1. Shaped(IdleTx)
    BY DEF Shaped, IdleTx
  <1>2. lock' \in [Rows -> Sessions \cup {None}]
    BY DEF TypeOK, End
  <1> QED BY <1>1, <1>2, RecordTypes, TxUpdate DEF End

\* Taking locks keeps lock well typed.
LEMMA TakeType ==
  ASSUME TypeOK, NEW p \in Sessions, NEW R, Take(p, R)
  PROVE  lock' \in [Rows -> Sessions \cup {None}]
  BY DEF TypeOK, Take

\* A step that writes no order and no subscription.
LEMMA QuietShape ==
  ASSUME Shape, NEW p \in Sessions, NEW t \in Tx, Shaped(t), Existing(t),
         tx' = [tx EXCEPT ![p] = t],
         UNCHANGED <<order, sub, term>>
  PROVE  tx' \in [Sessions -> Tx] /\ TxShape' /\ RowShape' /\ TxRefers'
  <1>1. tx' \in [Sessions -> Tx] /\ TxShape'
    BY TxUpdate DEF Shape
  <1>2. RowShape'
    BY DEF RowShape, OrderShaped, SubShaped, Shape
  <1>3. \A q \in Sessions : tx'[q] = IF q = p THEN t ELSE tx[q]
    BY DEF TypeOK, Shape
  <1>4. TxRefers'
    BY <1>3 DEF TxRefers, Existing, Shape
  <1> QED BY <1>1, <1>2, <1>4

\* The same for a step that only moves on.
LEMMA GotoShape ==
  ASSUME Shape, NEW p \in Sessions, NEW l \in Labels, Goto(p, l),
         Shaped([tx[p] EXCEPT !.pc = l]),
         UNCHANGED <<order, sub, term>>
  PROVE  tx' \in [Sessions -> Tx] /\ TxShape' /\ RowShape' /\ TxRefers'
  <1> DEFINE t == [tx[p] EXCEPT !.pc = l]
  <1>0. tx[p] \in Tx /\ Existing(tx[p])
    BY DEF Shape, TypeOK, TxRefers
  <1>1. t \in Tx
    BY <1>0 DEF Tx
  <1>2. Existing(t)
    BY <1>0 DEF Existing, Tx
  <1>3. tx' = [tx EXCEPT ![p] = t]
    BY DEF Goto
  <1> QED BY <1>1, <1>2, <1>3, QuietShape

\* The INSERT step of both kinds of handler.
LEMMA InsertShape ==
  ASSUME Shape, NEW p \in Sessions, NEW s \in Subs,
         NEW l \in {"fk", "panel"}, l = "fk" => tx[p].op = "pay", InsertSub(p, s, l),
         tx[p].op \in {"pay", "activate", "trial"},
         UNCHANGED <<order, sub, term>>
  PROVE  tx' \in [Sessions -> Tx] /\ TxShape' /\ RowShape' /\ TxRefers'
  <1> DEFINE t == [tx[p] EXCEPT !.pc = l, !.mode = "insert", !.sub = s,
                                !.exp = tx[p].now + tx[p].days]
  <1>0. tx[p] \in Tx /\ tx[p].now + tx[p].days \in Nat /\ Shaped(tx[p]) /\ Existing(tx[p])
    BY DEF Shape, TypeOK, Tx, TxShape, TxRefers
  <1>1. t \in Tx
    <2>1. l \in Labels
      BY DEF Labels
    <2> QED BY <1>0, <2>1 DEF Tx
  <1>2. tx' = [tx EXCEPT ![p] = t]
    BY DEF InsertSub
  <1>3. Shaped(t)
    <2>1. tx[p].pc = "insert" /\ s # None
      BY StorageAssumption DEF InsertSub
    <2> QED BY <1>0, <2>1 DEF Shaped, IdleTx, Tx
  <1>4. Existing(t)
    BY <1>0 DEF Existing, Tx
  <1> QED BY <1>1, <1>2, <1>3, <1>4, QuietShape

\* A session ends; its commit wrote rows but deleted none.
LEMMA EndShape ==
  ASSUME Shape, NEW p \in Sessions, End(p),
         \A o \in Orders : order[o].status # "NONE" => order'[o].status # "NONE",
         \A s \in Subs : sub[s].status # "NONE" => sub'[s].status # "NONE",
         \A s \in Subs : sub[s].handle = TRUE => sub'[s].handle = TRUE
  PROVE  /\ lock' \in [Rows -> Sessions \cup {None}]
         /\ tx' \in [Sessions -> Tx] /\ TxShape' /\ TxRefers'
  <1>1. /\ lock' \in [Rows -> Sessions \cup {None}]
        /\ tx' \in [Sessions -> Tx] /\ TxShape'
    BY EndType DEF Shape
  <1>2. \A q \in Sessions : tx'[q] = IF q = p THEN IdleTx ELSE tx[q]
    BY DEF TypeOK, Shape, End
  <1>3. Existing(IdleTx)'
    BY DEF Existing, IdleTx
  <1>4. ASSUME NEW q \in Sessions, q # p PROVE Existing(tx[q])'
    <2>1. tx[q] \in Tx /\ Shaped(tx[q]) /\ Existing(tx[q])
      BY DEF Shape, TypeOK, TxShape, TxRefers
    <2>2. tx'[q] = tx[q]
      BY <1>2, <1>4
    <2>3. /\ tx[q].op \in {"pay", "refund"} => tx[q].order \in Orders
          /\ tx[q].mode = "extend" => tx[q].sub \in Subs
          /\ tx[q].old # None => tx[q].old \in Subs
      BY <2>1 DEF Shaped, Tx
    <2>4. tx[q].op \in {"pay", "refund"} => order'[tx[q].order].status # "NONE"
      BY <2>1, <2>3 DEF Existing
    <2>5. tx[q].mode = "extend" => sub'[tx[q].sub].status # "NONE"
      BY <2>1, <2>3 DEF Existing
    <2>6. tx[q].mode = "extend" /\ tx[q].op = "activate" => sub'[tx[q].sub].handle = TRUE
      BY <2>1, <2>3 DEF Existing
    <2>7. tx[q].old # None => sub'[tx[q].old].status # "NONE"
      BY <2>1, <2>3 DEF Existing
    <2> QED BY <2>2, <2>4, <2>5, <2>6, <2>7 DEF Existing
  <1> QED BY <1>1, <1>2, <1>3, <1>4 DEF TxRefers

\* The initial state is well shaped.
LEMMA TypeInit == Init => Shape
  <1> SUFFICES ASSUME Init PROVE Shape
    OBVIOUS
  <1>1. sub \in [Subs -> SubRow]
    <2>1. \A s \in DOMAIN Legacy : Legacy[s].user \in Users /\ Legacy[s].started \in Nat
      BY StorageAssumption
    <2>2. \A s \in DOMAIN Legacy :
            [NoSub EXCEPT !.status = "EXPIRED", !.user = Legacy[s].user,
                          !.plan = Trial, !.started = Legacy[s].started] \in SubRow
      BY <2>1 DEF NoSub, SubRow
    <2> QED BY <2>2, RecordTypes DEF Init
  <1>2. tx \in [Sessions -> Tx] /\ order \in [Orders -> OrderRow]
    BY RecordTypes DEF Init
  <1>3. panel \in [Subs -> PanelUser]
    BY DEF Init, PanelUser
  <1>4. TxShape
    BY DEF Init, TxShape, Shaped, IdleTx
  <1>5. RowShape
    BY StorageAssumption DEF Init, RowShape, OrderShaped, SubShaped, NoSub, NoOrder
  <1>6. TxRefers
    BY DEF Init, TxRefers, Existing, IdleTx
  <1>7. now \in Nat /\ now >= Opening
    <2>1. Opening \in Nat
      BY StorageAssumption
    <2>2. now = Opening
      BY DEF Init
    <2> QED BY <2>1, <2>2
  <1>8. lock \in [Rows -> Sessions \cup {None}] /\ charge \in [Charges -> Orders \cup {None}]
    BY DEF Init
  <1> QED BY <1>1, <1>2, <1>3, <1>4, <1>5, <1>6, <1>7, <1>8 DEF Init, TypeOK, Shape

-----------------------------------------------------------------------------
(* Every step keeps the types.                                             *)

\* Shape survives create_order taking its snapshot.
LEMMA TypeOrderBegin ==
  ASSUME Shape, NEW p \in Sessions, NEW u \in Users, NEW pl \in Plans, OrderBegin(p, u, pl)
  PROVE  Shape'
  <1> DEFINE t == [IdleTx EXCEPT !.op = "order", !.pc = "lock", !.user = u, !.plan = pl,
                                 !.now = now, !.seen = PendingOrders(u)]
  <1>1. t \in Tx
    BY DEF Shape, TypeOK, IdleTx, Tx, Labels, PendingOrders
  <1>2. Shaped(t) /\ Existing(t)
    BY DEF IdleTx, Shaped, Existing
  <1> QED BY <1>1, <1>2, QuietShape DEF OrderBegin, TypeOK, Shape

\* Shape survives create_order's commit.
LEMMA TypeOrderCommit ==
  ASSUME Shape, NEW p \in Sessions, NEW o \in Orders, OrderCommit(p, o)
  PROVE  Shape'
  <1> DEFINE new == [NoOrder EXCEPT !.status = "PENDING", !.user = tx[p].user,
                                    !.plan = tx[p].plan, !.created = tx[p].now]
  <1>0. tx[p] \in Tx /\ Shaped(tx[p]) /\ Existing(tx[p])
    BY DEF Shape, TypeOK, TxShape, TxRefers
  <1>1. tx[p].user \in Users /\ tx[p].plan \in Plans /\ tx[p].now \in Nat
    BY <1>0 DEF OrderCommit, Shaped, Tx
  <1>2. new \in OrderRow /\ new.user \in Users /\ new.plan \in Plans
    BY <1>1, StorageAssumption DEF NoOrder, OrderRow
  <1>3. \A d \in Orders : order[d] \in OrderRow
    BY DEF TypeOK, Shape
  <1>4. \A d \in Orders : /\ [order[d] EXCEPT !.status = "FAILED"] \in OrderRow
                          /\ [order[d] EXCEPT !.status = "FAILED"].user = order[d].user
                          /\ [order[d] EXCEPT !.status = "FAILED"].plan = order[d].plan
    BY <1>3 DEF OrderRow
  <1>5. \A d \in Orders : order'[d] = IF d = o THEN new
                                      ELSE IF d \in Draft(p)
                                           THEN [order[d] EXCEPT !.status = "FAILED"]
                                           ELSE order[d]
    BY DEF OrderCommit
  <1>6. order' \in [Orders -> OrderRow]
    BY <1>2, <1>3, <1>4 DEF OrderCommit
  <1>7. \A d \in Draft(p) : order[d].status # "NONE"
    BY DEF Draft
  <1>8. RowShape'
    BY <1>2, <1>4, <1>5, <1>7 DEF OrderCommit, RowShape, OrderShaped, SubShaped, Shape
  <1>9. \A d \in Orders : order[d].status # "NONE" => order'[d].status # "NONE"
    BY <1>3, <1>5 DEF OrderRow, NoOrder
  <1> QED BY <1>6, <1>8, <1>9, EndShape DEF OrderCommit, TypeOK, Shape

\* Shape survives mark_paid locking its order.
LEMMA TypePayBegin ==
  ASSUME Shape, NEW p \in Sessions, NEW c \in Charges, PayBegin(p, c)
  PROVE  Shape'
  <1> DEFINE o == charge[c]
             t == [IdleTx EXCEPT !.op = "pay", !.pc = "read", !.user = order[o].user,
                                 !.order = o, !.charge = c, !.plan = order[o].plan,
                                 !.days = Days[order[o].plan], !.now = now]
  <1>1. o \in Orders
    BY DEF PayBegin, Shape, TypeOK
  <1>2. order[o].user \in Users /\ order[o].plan \in Plans
    BY <1>1 DEF PayBegin, Shape, RowShape, OrderShaped, SubShaped
  <1>3. t \in Tx
    BY <1>1, <1>2, StorageAssumption DEF Shape, TypeOK, IdleTx, Tx, Labels
  <1>4. Shaped(t) /\ Existing(t)
    BY <1>1, <1>2 DEF IdleTx, Shaped, Existing, PayBegin, Shape, TypeOK
  <1> QED BY <1>3, <1>4, QuietShape, TakeType DEF PayBegin, TypeOK, Shape

\* Shape survives mark_paid taking its snapshot of subscriptions.
LEMMA TypePayRead ==
  ASSUME Shape, NEW p \in Sessions, PayRead(p)
  PROVE  Shape'
  <1> DEFINE t == [tx[p] EXCEPT !.pc = "lock", !.seen = Renewable(tx[p].user)]
  <1>0. tx[p] \in Tx /\ Shaped(tx[p]) /\ Existing(tx[p])
    BY DEF Shape, TypeOK, TxShape, TxRefers
  <1>1. t \in Tx
    BY <1>0 DEF Tx, Labels, Renewable
  <1>2. Shaped(t) /\ Existing(t)
    BY <1>0 DEF PayRead, Shaped, Existing, Tx
  <1>3. tx' = [tx EXCEPT ![p] = t]
    BY DEF PayRead
  <1> QED BY <1>1, <1>2, <1>3, QuietShape DEF PayRead, TypeOK, Shape

\* Shape survives mark_paid choosing the row to extend.
LEMMA TypePayLock ==
  ASSUME Shape, NEW p \in Sessions, PayLock(p)
  PROVE  Shape'
  <1>0. tx[p] \in Tx /\ Shaped(tx[p]) /\ Existing(tx[p])
    BY DEF Shape, TypeOK, TxShape, TxRefers
  <1>1. CASE Goto(p, "insert")
    <2>1. Shaped([tx[p] EXCEPT !.pc = "insert"])
      BY <1>0 DEF PayLock, Shaped, Tx
    <2> QED BY <1>1, <2>1, GotoShape, TakeType DEF PayLock, TypeOK, Shape, Labels
  <1>2. ASSUME NEW s \in Newest(StillRenewable(p)),
               tx' = [tx EXCEPT ![p].pc = "panel", ![p].mode = "extend", ![p].sub = s,
                                ![p].exp = Extended(s, tx[p].days, tx[p].now)]
        PROVE  Shape'
    <2> DEFINE t == [tx[p] EXCEPT !.pc = "panel", !.mode = "extend", !.sub = s,
                                  !.exp = Extended(s, tx[p].days, tx[p].now)]
    <2>1. s \in Subs /\ s # None /\ sub[s].status # "NONE"
      BY StorageAssumption DEF Newest, StillRenewable, Renewable
    <2>2. Extended(s, tx[p].days, tx[p].now) \in Nat
      BY <1>0, <2>1 DEF Extended, Later, Shape, TypeOK, SubRow, Tx
    <2>3. t \in Tx
      BY <1>0, <2>1, <2>2 DEF Tx, Labels
    <2>4. Shaped(t) /\ Existing(t)
      BY <1>0, <2>1, <2>2 DEF PayLock, Shaped, Existing, Tx
    <2>5. tx' = [tx EXCEPT ![p] = t]
      BY <1>2
    <2>6. tx' \in [Sessions -> Tx] /\ TxShape' /\ RowShape' /\ TxRefers'
      BY <2>3, <2>4, <2>5, QuietShape DEF PayLock
    <2> QED BY <2>6, TakeType DEF PayLock, TypeOK, Shape
  <1> QED BY <1>1, <1>2 DEF PayLock

\* Shape survives mark_paid's INSERT.
LEMMA TypePayInsert ==
  ASSUME Shape, NEW p \in Sessions, NEW s \in Subs, PayInsert(p, s)
  PROVE  Shape'
  BY InsertShape DEF PayInsert, TypeOK, Shape

\* Shape survives mark_paid's foreign key check.
LEMMA TypePayForeignKey ==
  ASSUME Shape, NEW p \in Sessions, PayForeignKey(p)
  PROVE  Shape'
  <1>1. Shaped([tx[p] EXCEPT !.pc = "panel"])
    BY DEF Shape, TypeOK, TxShape, Shaped, Tx, PayForeignKey
  <1> QED BY <1>1, GotoShape DEF PayForeignKey, TypeOK, Shape, Labels

\* Shape survives refund locking its order.
LEMMA TypeRefundBegin ==
  ASSUME Shape, NEW p \in Sessions, NEW o \in Orders, RefundBegin(p, o)
  PROVE  Shape'
  <1> DEFINE t == [IdleTx EXCEPT !.op = "refund", !.pc = "lock", !.order = o,
                                 !.seen = {s \in Subs : sub[s].order = o}]
  <1>1. t \in Tx
    BY DEF IdleTx, Tx, Labels
  <1>2. Shaped(t) /\ Existing(t)
    BY DEF IdleTx, Shaped, Existing, RefundBegin
  <1> QED BY <1>1, <1>2, QuietShape, TakeType DEF RefundBegin, TypeOK, Shape

\* Shape survives mark_paid's commit.
LEMMA TypePayCommit ==
  ASSUME Shape, NEW p \in Sessions, PayCommit(p)
  PROVE  Shape'
  <1> DEFINE t == tx[p]
             s == tx[p].sub
             o == tx[p].order
             paid == [order[o] EXCEPT !.status = "PAID", !.charge = t.charge]
  <1>0. t \in Tx /\ Shaped(t) /\ Existing(t)
    BY DEF Shape, TypeOK, TxShape, TxRefers
  <1>1. s \in Subs /\ o \in Orders /\ t.user \in Users /\ t.mode \in {"insert", "extend"}
    BY <1>0 DEF PayCommit, Shaped, Tx
  <1>2. sub[s] \in SubRow /\ order[o] \in OrderRow
    BY <1>1 DEF Shape, TypeOK
  <1>3. PaidRow(p) \in SubRow
    <2>1. CASE t.mode = "insert"
      BY <1>0, <1>1, <2>1 DEF PaidRow, NoSub, SubRow, Tx
    <2>2. CASE t.mode # "insert"
      BY <1>0, <1>1, <1>2, <2>2 DEF PaidRow, SubRow, Tx
    <2> QED BY <2>1, <2>2
  <1>4. PaidRow(p).status = "ACTIVE" /\ PaidRow(p).handle = TRUE /\ PaidRow(p).user \in Users
    <2>1. sub[s].status # "NONE" => sub[s].user \in Users
      BY <1>1 DEF Shape, RowShape, OrderShaped, SubShaped
    <2> QED BY <1>0, <1>1, <1>2, <2>1 DEF PaidRow, NoSub, SubRow, Existing
  <1>5. /\ paid \in OrderRow /\ paid.status = "PAID"
        /\ paid.user \in Users /\ paid.plan \in Plans
    <2>1. order[o].user \in Users /\ order[o].plan \in Plans
      BY <1>0, <1>1 DEF Shape, RowShape, OrderShaped, SubShaped, Existing, PayCommit
    <2> QED BY <1>0, <1>2, <2>1 DEF OrderRow, Tx
  <1>6. order' = [order EXCEPT ![o] = paid] /\ sub' = [sub EXCEPT ![s] = PaidRow(p)]
    BY DEF PayCommit
  <1>7. sub' \in [Subs -> SubRow] /\ order' \in [Orders -> OrderRow]
    BY <1>3, <1>5, <1>6 DEF Shape, TypeOK
  <1>8. grants' \in [Sources -> Nat] /\ term' \in [Subs -> Nat]
    BY <1>0, <1>1 DEF PayCommit, Shape, TypeOK, Tx
  <1>9. \A d \in Orders : order'[d] = IF d = o THEN paid ELSE order[d]
    BY <1>6 DEF Shape, TypeOK
  <1>10. \A z \in Subs : /\ sub'[z] = IF z = s THEN PaidRow(p) ELSE sub[z]
                         /\ z # s => term'[z] = term[z]
    BY <1>6 DEF PayCommit, Shape, TypeOK
  <1>11. RowShape'
    <2>1. \A d \in Orders : order'[d].status # "NONE"
                           => order'[d].user \in Users /\ order'[d].plan \in Plans
      BY <1>5, <1>9 DEF RowShape, OrderShaped, SubShaped, Shape
    <2>2. \A z \in Subs : z # s => sub'[z] = sub[z] /\ term'[z] = term[z]
      BY <1>10
    <2>3. sub'[s] = PaidRow(p)
      BY <1>1, <1>10
    <2> QED BY <1>4, <2>1, <2>2, <2>3 DEF RowShape, OrderShaped, SubShaped, Shape
  <1>12. /\ \A d \in Orders : order[d].status # "NONE" => order'[d].status # "NONE"
         /\ \A z \in Subs : /\ sub[z].status # "NONE" => sub'[z].status # "NONE"
                            /\ sub[z].handle = TRUE => sub'[z].handle = TRUE
    BY <1>4, <1>5, <1>9, <1>10
  <1>13. /\ lock' \in [Rows -> Sessions \cup {None}]
         /\ tx' \in [Sessions -> Tx] /\ TxShape' /\ TxRefers'
    BY <1>12, EndShape DEF PayCommit
  <1> QED BY <1>7, <1>8, <1>11, <1>13 DEF PayCommit, TypeOK, Shape

\* Shape survives refund's commit.
LEMMA TypeRefundCommit ==
  ASSUME Shape, NEW p \in Sessions, RefundCommit(p)
  PROVE  Shape'
  <1> DEFINE ended(s) == [sub[s] EXCEPT !.status = "REVOKED", !.order = None]
             o == tx[p].order
             refunded == [order[o] EXCEPT !.status = "REFUNDED"]
  <1>0. tx[p] \in Tx /\ Shaped(tx[p]) /\ Existing(tx[p]) /\ o \in Orders
    BY DEF Shape, TypeOK, TxShape, TxRefers, Shaped, RefundCommit
  <1>1. \A s \in Subs : /\ ended(s) \in SubRow /\ ended(s).status = "REVOKED"
                        /\ ended(s).user = sub[s].user /\ ended(s).handle = sub[s].handle
    <2> TAKE s \in Subs
    <2>1. sub[s] \in SubRow
      BY DEF Shape, TypeOK
    <2> QED BY <2>1 DEF SubRow
  <1>2. /\ refunded \in OrderRow /\ refunded.status = "REFUNDED"
        /\ refunded.user = order[o].user /\ refunded.plan = order[o].plan
    <2>1. order[o] \in OrderRow
      BY <1>0 DEF Shape, TypeOK
    <2> QED BY <2>1 DEF OrderRow
  <1>3. \A s \in Subs : sub'[s] = IF s \in Funded(p) THEN ended(s) ELSE sub[s]
    BY DEF RefundCommit
  <1>4. order' = [order EXCEPT ![o] = refunded]
    BY DEF RefundCommit
  <1>5. \A d \in Orders : order'[d] = IF d = o THEN refunded ELSE order[d]
    BY <1>4 DEF Shape, TypeOK
  <1>6. sub' \in [Subs -> SubRow] /\ order' \in [Orders -> OrderRow]
    BY <1>1, <1>2, <1>4 DEF RefundCommit, Shape, TypeOK
  <1>7. \A s \in Funded(p) : sub[s].status \in Live
    BY DEF Funded
  <1>8. RowShape'
    <2>1. order[o].status # "NONE"
      BY <1>0 DEF RefundCommit, Existing
    <2>2. \A d \in Orders : order'[d].status # "NONE"
                           => order'[d].user \in Users /\ order'[d].plan \in Plans
      BY <1>2, <1>5, <2>1 DEF RowShape, OrderShaped, SubShaped, Shape
    <2>3. \A s \in Subs : \/ sub'[s] = sub[s]
                         \/ /\ sub'[s].status = "REVOKED" /\ sub'[s].user = sub[s].user
                            /\ sub[s].status \in Live
      BY <1>1, <1>3, <1>7
    <2>4. \A s \in Subs : SubShaped(s)'
      <3> TAKE s \in Subs
      <3>1. SubShaped(s) /\ term'[s] = term[s]
        BY DEF RefundCommit, RowShape, Shape
      <3> QED BY <2>3, <3>1 DEF SubShaped, NoSub
    <2> QED BY <2>2, <2>4 DEF RowShape, OrderShaped
  <1>9. /\ \A d \in Orders : order[d].status # "NONE" => order'[d].status # "NONE"
        /\ \A s \in Subs : /\ sub[s].status # "NONE" => sub'[s].status # "NONE"
                           /\ sub[s].handle = TRUE => sub'[s].handle = TRUE
    BY <1>1, <1>2, <1>3, <1>5
  <1>10. /\ lock' \in [Rows -> Sessions \cup {None}]
         /\ tx' \in [Sessions -> Tx] /\ TxShape' /\ TxRefers'
    BY <1>9, EndShape DEF RefundCommit
  <1> QED BY <1>6, <1>8, <1>10 DEF RefundCommit, TypeOK, Shape

\* Shape survives locking the users row.
LEMMA TypeLockUser ==
  ASSUME Shape, NEW p \in Sessions, LockUser(p)
  PROVE  Shape'
  <1>0. tx[p] \in Tx /\ Shaped(tx[p])
    BY DEF Shape, TypeOK, TxShape
  <1>1. /\ Shaped([tx[p] EXCEPT !.pc = "read"])
        /\ Shaped([tx[p] EXCEPT !.pc = "insertUser"])
    BY <1>0 DEF LockUser, Issuing, Shaped, Tx
  <1>2. CASE tx[p].user \in users
    BY <1>1, <1>2, GotoShape, TakeType DEF LockUser, TypeOK, Shape, Labels
  <1>3. CASE tx[p].user \notin users
    BY <1>1, <1>3, GotoShape DEF LockUser, TypeOK, Shape, Labels
  <1> QED BY <1>2, <1>3

\* Shape survives the INSERT of a users row.
LEMMA TypeInsertUser ==
  ASSUME Shape, NEW p \in Sessions, InsertUser(p)
  PROVE  Shape'
  <1>1. Shaped([tx[p] EXCEPT !.pc = "read"])
    BY DEF InsertUser, Issuing, Shape, TypeOK, TxShape, Shaped, Tx
  <1> QED BY <1>1, GotoShape, TakeType DEF InsertUser, TypeOK, Shape, Labels

\* Shape survives the INSERT of activate and create_trial.
LEMMA TypeIssueInsert ==
  ASSUME Shape, NEW p \in Sessions, NEW s \in Subs, IssueInsert(p, s)
  PROVE  Shape'
  BY InsertShape DEF IssueInsert, Issuing, TypeOK, Shape

\* Shape survives activate's start.
LEMMA TypeActivateBegin ==
  ASSUME Shape, NEW p \in Sessions, NEW u \in Users, NEW k \in Codes, ActivateBegin(p, u, k)
  PROVE  Shape'
  <1> DEFINE t == [IdleTx EXCEPT !.op = "activate", !.pc = "code", !.user = u, !.code = k,
                                 !.plan = CodePlan[k], !.days = Days[CodePlan[k]], !.now = now]
  <1>1. CodePlan[k] \in Plans /\ Days[CodePlan[k]] \in Nat
    BY StorageAssumption
  <1>2. t \in Tx
    BY <1>1 DEF Shape, TypeOK, IdleTx, Tx, Labels
  <1>3. Shaped(t) /\ Existing(t)
    BY <1>1 DEF IdleTx, Shaped, Existing, Shape, TypeOK
  <1> QED BY <1>2, <1>3, QuietShape DEF ActivateBegin, TypeOK, Shape

\* Shape survives activate locking its code.
LEMMA TypeActivateCode ==
  ASSUME Shape, NEW p \in Sessions, ActivateCode(p)
  PROVE  Shape'
  <1>1. Shaped([tx[p] EXCEPT !.pc = "user"])
    BY DEF ActivateCode, Shape, TypeOK, TxShape, Shaped, Tx
  <1> QED BY <1>1, GotoShape, TakeType DEF ActivateCode, TypeOK, Shape, Labels

\* Shape survives activate taking its snapshot.
LEMMA TypeActivateRead ==
  ASSUME Shape, NEW p \in Sessions, ActivateRead(p)
  PROVE  Shape'
  <1> DEFINE t == [tx[p] EXCEPT !.pc = "lock", !.seen = LiveSubs(tx[p].user)]
  <1>0. tx[p] \in Tx /\ Shaped(tx[p]) /\ Existing(tx[p])
    BY DEF Shape, TypeOK, TxShape, TxRefers
  <1>1. t \in Tx
    BY <1>0 DEF Tx, Labels, LiveSubs
  <1>2. Shaped(t) /\ Existing(t)
    BY <1>0 DEF ActivateRead, Shaped, Existing, Tx
  <1>3. tx' = [tx EXCEPT ![p] = t]
    BY DEF ActivateRead
  <1> QED BY <1>1, <1>2, <1>3, QuietShape DEF ActivateRead, TypeOK, Shape

\* Shape survives activate choosing to create, extend or replace.
LEMMA TypeActivateLock ==
  ASSUME Shape, NEW p \in Sessions, ActivateLock(p)
  PROVE  Shape'
  <1>0. tx[p] \in Tx /\ Shaped(tx[p]) /\ Existing(tx[p])
    BY DEF Shape, TypeOK, TxShape, TxRefers
  <1>1. CASE Goto(p, "insert")
    <2>1. Shaped([tx[p] EXCEPT !.pc = "insert"])
      BY <1>0 DEF ActivateLock, Shaped, Tx
    <2> QED BY <1>1, <2>1, GotoShape, TakeType DEF ActivateLock, TypeOK, Shape, Labels
  <1>2. ASSUME NEW s \in tx[p].seen \cap LiveSubs(tx[p].user)
        PROVE  /\ s \in Subs /\ s # None /\ sub[s].status # "NONE" /\ sub[s].handle = TRUE
               /\ Later(sub[s].exp, tx[p].now) + tx[p].days \in Nat
    <2>1. s \in Subs /\ s # None /\ sub[s].status # "NONE" /\ sub[s].handle = TRUE
      BY StorageAssumption DEF LiveSubs, Shape, RowShape, SubShaped
    <2>2. sub[s].exp \in Nat /\ tx[p].now \in Nat /\ tx[p].days \in Nat
      BY <1>0, <2>1 DEF Shape, TypeOK, SubRow, Tx
    <2> QED BY <2>1, <2>2 DEF Later
  <1>3. ASSUME NEW s \in tx[p].seen \cap LiveSubs(tx[p].user),
               tx' = [tx EXCEPT ![p].pc = "panel", ![p].mode = "extend", ![p].sub = s,
                        ![p].exp = Later(sub[s].exp, tx[p].now) + tx[p].days]
        PROVE  Shape'
    <2> DEFINE e == Later(sub[s].exp, tx[p].now) + tx[p].days
               t == [tx[p] EXCEPT !.pc = "panel", !.mode = "extend", !.sub = s, !.exp = e]
    <2>1. t \in Tx
      <3>1. e \in Nat /\ s \in Subs
        BY <1>2
      <3> HIDE DEF e
      <3> QED BY <1>0, <3>1 DEF Tx, Labels
    <2>2. Shaped(t) /\ Existing(t)
      <3>1. s # None /\ sub[s].status # "NONE" /\ sub[s].handle = TRUE
        BY <1>2
      <3> HIDE DEF e
      <3> QED BY <1>0, <3>1 DEF ActivateLock, Shaped, Existing, Tx
    <2>3. tx' = [tx EXCEPT ![p] = t]
      BY <1>3
    <2>4. tx' \in [Sessions -> Tx] /\ TxShape' /\ RowShape' /\ TxRefers'
      BY <2>1, <2>2, <2>3, QuietShape DEF ActivateLock
    <2> QED BY <2>4, TakeType DEF ActivateLock, TypeOK, Shape
  <1>4. ASSUME NEW s \in tx[p].seen \cap LiveSubs(tx[p].user),
               tx' = [tx EXCEPT ![p].pc = "unlink", ![p].old = s]
        PROVE  Shape'
    <2> DEFINE t == [tx[p] EXCEPT !.pc = "unlink", !.old = s]
    <2>1. t \in Tx
      BY <1>0, <1>2 DEF Tx, Labels
    <2>2. Shaped(t) /\ Existing(t)
      BY <1>0, <1>2 DEF ActivateLock, Shaped, Existing, Tx
    <2>3. tx' = [tx EXCEPT ![p] = t]
      BY <1>4
    <2>4. tx' \in [Sessions -> Tx] /\ TxShape' /\ RowShape' /\ TxRefers'
      BY <2>1, <2>2, <2>3, QuietShape DEF ActivateLock
    <2> QED BY <2>4, TakeType DEF ActivateLock, TypeOK, Shape
  <1> QED BY <1>1, <1>3, <1>4 DEF ActivateLock

\* Shape survives activate disabling the row it replaces.
LEMMA TypeActivateUnlink ==
  ASSUME Shape, NEW p \in Sessions, ActivateUnlink(p)
  PROVE  Shape'
  <1>0. tx[p] \in Tx /\ Shaped(tx[p])
    BY DEF Shape, TypeOK, TxShape
  <1>1. Shaped([tx[p] EXCEPT !.pc = "insert"])
    BY <1>0 DEF ActivateUnlink, Shaped, Tx
  <1>2. panel' \in [Subs -> PanelUser]
    BY DEF ActivateUnlink, Shape, TypeOK, PanelUser
  <1> QED BY <1>1, <1>2, GotoShape DEF ActivateUnlink, TypeOK, Shape, Labels

\* The row that activate and create_trial insert.
LEMMA NewRowType ==
  ASSUME Shape, NEW p \in Sessions, tx[p].user \in Users, NEW st \in Live
  PROVE  /\ NewRow(p, st) \in SubRow /\ NewRow(p, st).status = st
         /\ NewRow(p, st).handle = TRUE /\ NewRow(p, st).user = tx[p].user
  <1>1. tx[p] \in Tx
    BY DEF Shape, TypeOK
  <1> QED BY <1>1 DEF NewRow, NoSub, SubRow, Tx

\* Shape survives activate's commit.
LEMMA TypeActivateCommit ==
  ASSUME Shape, NEW p \in Sessions, ActivateCommit(p)
  PROVE  Shape'
  <1> DEFINE t == tx[p]
             s == tx[p].sub
             renewed == [sub[s] EXCEPT !.status = "ACTIVE", !.exp = t.exp]
             row == IF t.mode = "insert" THEN NewRow(p, "ACTIVE") ELSE renewed
             ended(z) == [sub[z] EXCEPT !.status = "REVOKED"]
  <1>0. t \in Tx /\ Shaped(t) /\ Existing(t)
    BY DEF Shape, TypeOK, TxShape, TxRefers
  <1>1. s \in Subs /\ t.code \in Codes /\ t.user \in Users /\ t.mode \in {"insert", "extend"}
    BY <1>0 DEF ActivateCommit, Shaped, Tx
  <1>2. /\ row \in SubRow /\ row.status = "ACTIVE"
        /\ row.user \in Users /\ row.handle = TRUE
    <2>1. CASE t.mode = "insert"
      BY <1>1, <2>1, NewRowType
    <2>2. CASE t.mode # "insert"
      <3>1. sub[s] \in SubRow /\ sub[s].user \in Users /\ sub[s].handle = TRUE
        BY <1>0, <1>1, <2>2 DEF Shape, TypeOK, RowShape, SubShaped, Existing, ActivateCommit
      <3>2. /\ renewed \in SubRow /\ renewed.status = "ACTIVE"
            /\ renewed.user \in Users /\ renewed.handle = TRUE
        BY <1>0, <3>1 DEF SubRow, Tx
      <3> QED BY <2>2, <3>2
    <2> QED BY <2>1, <2>2
  <1>3. \A z \in Subs : /\ ended(z) \in SubRow /\ ended(z).status = "REVOKED"
                        /\ ended(z).user = sub[z].user /\ ended(z).handle = sub[z].handle
    BY DEF Shape, TypeOK, SubRow
  <1>4. \A z \in Subs : sub'[z] = IF z = s THEN row ELSE IF z = t.old THEN ended(z) ELSE sub[z]
    BY DEF ActivateCommit
  <1>5. sub' \in [Subs -> SubRow]
    <2> HIDE DEF row, ended
    <2>1. sub' = [z \in Subs |-> IF z = s THEN row
                                ELSE IF z = t.old THEN ended(z) ELSE sub[z]]
      BY DEF ActivateCommit, row, ended
    <2> QED BY <1>2, <1>3, <2>1 DEF Shape, TypeOK
  <1>6. \A z \in Subs : z # s => term'[z] = term[z]
    BY DEF ActivateCommit, Shape, TypeOK
  <1>7. RowShape'
    <2> HIDE DEF row, ended
    <2>1. \A z \in Subs : SubShaped(z)'
      <3> TAKE z \in Subs
      <3>1. SubShaped(z)
        BY DEF RowShape, Shape
      <3>2. CASE z = s
        BY <1>2, <1>4, <3>2 DEF SubShaped
      <3>3. CASE z # s /\ z = t.old
        <4>1. sub[z].status # "NONE"
          BY <1>0, <3>3, StorageAssumption DEF Existing
        <4> QED BY <1>3, <1>4, <3>1, <3>3, <4>1 DEF SubShaped
      <3>4. CASE z # s /\ z # t.old
        BY <1>4, <1>6, <3>1, <3>4 DEF SubShaped, NoSub
      <3> QED BY <3>2, <3>3, <3>4
    <2> QED BY <2>1 DEF ActivateCommit, RowShape, OrderShaped, Shape
  <1>8. \A z \in Subs : /\ sub[z].status # "NONE" => sub'[z].status # "NONE"
                        /\ sub[z].handle = TRUE => sub'[z].handle = TRUE
    <2> HIDE DEF row, ended
    <2> QED BY <1>2, <1>3, <1>4
  <1>9. /\ lock' \in [Rows -> Sessions \cup {None}]
        /\ tx' \in [Sessions -> Tx] /\ TxShape' /\ TxRefers'
    BY <1>8, EndShape DEF ActivateCommit
  <1>10. /\ grants' \in [Sources -> Nat] /\ term' \in [Subs -> Nat]
         /\ code' \in [Codes -> {"ACTIVE", "USED", "REVOKED"}]
         /\ users' \subseteq Users
    <2>0. t.days \in Nat /\ t.code \in Sources
      BY <1>0, <1>1 DEF Tx
    <2>1. grants' \in [Sources -> Nat] /\ term' \in [Subs -> Nat]
      <3>1. grants' = [grants EXCEPT ![t.code] = grants[t.code] + 1]
        BY DEF ActivateCommit
      <3>2. term' = [term EXCEPT ![s] = term[s] + t.days]
        BY DEF ActivateCommit
      <3> QED BY <1>1, <2>0, <3>1, <3>2 DEF Shape, TypeOK
    <2>2. Spent(t.code) \in {"ACTIVE", "USED", "REVOKED"}
      BY <1>1 DEF Spent, Shape, TypeOK
    <2>3. code' \in [Codes -> {"ACTIVE", "USED", "REVOKED"}]
      BY <2>2 DEF ActivateCommit, Shape, TypeOK
    <2>4. users' \subseteq Users
      BY <1>1 DEF ActivateCommit, Shape, TypeOK
    <2> QED BY <2>1, <2>3, <2>4
  <1> QED BY <1>5, <1>7, <1>9, <1>10 DEF ActivateCommit, TypeOK, Shape

\* Shape survives create_trial's look-up of the trials row.
LEMMA TypeTrialBegin ==
  ASSUME Shape, NEW p \in Sessions, NEW u \in Users, TrialBegin(p, u)
  PROVE  Shape'
  <1> DEFINE t == [IdleTx EXCEPT !.op = "trial", !.pc = "user", !.user = u,
                                 !.plan = Trial, !.days = TrialDays]
  <1>1. t \in Tx
    BY StorageAssumption DEF IdleTx, Tx, Labels
  <1>2. Shaped(t) /\ Existing(t)
    BY DEF IdleTx, Shaped, Existing
  <1> QED BY <1>1, <1>2, QuietShape DEF TrialBegin, TypeOK, Shape

\* Shape survives create_trial's look-up of a live subscription.
LEMMA TypeTrialRead ==
  ASSUME Shape, NEW p \in Sessions, TrialRead(p)
  PROVE  Shape'
  <1> DEFINE t == [tx[p] EXCEPT !.pc = "insert", !.now = now]
  <1>0. tx[p] \in Tx /\ Shaped(tx[p]) /\ Existing(tx[p])
    BY DEF Shape, TypeOK, TxShape, TxRefers
  <1>1. t \in Tx
    BY <1>0 DEF Tx, Labels, Shape, TypeOK
  <1>2. Shaped(t) /\ Existing(t)
    BY <1>0 DEF TrialRead, Shaped, Existing, Tx, Shape, TypeOK
  <1>3. tx' = [tx EXCEPT ![p] = t]
    BY DEF TrialRead
  <1> QED BY <1>1, <1>2, <1>3, QuietShape DEF TrialRead, TypeOK, Shape

\* Shape survives create_trial's commit.
LEMMA TypeTrialCommit ==
  ASSUME Shape, NEW p \in Sessions, TrialCommit(p)
  PROVE  Shape'
  <1> DEFINE s == tx[p].sub
             row == NewRow(p, "TRIAL")
  <1>0. tx[p] \in Tx /\ Shaped(tx[p])
    BY DEF Shape, TypeOK, TxShape
  <1>1. s \in Subs /\ tx[p].user \in Users
    BY <1>0 DEF TrialCommit, Shaped, Tx
  <1>2. /\ row \in SubRow /\ row.status = "TRIAL"
        /\ row.user \in Users /\ row.handle = TRUE
    BY <1>1, NewRowType
  <1> HIDE DEF row
  <1>3. sub' = [sub EXCEPT ![s] = row]
    BY DEF TrialCommit, row
  <1>4. \A z \in Subs : /\ sub'[z] = IF z = s THEN row ELSE sub[z]
                        /\ z # s => term'[z] = term[z]
    BY <1>3 DEF TrialCommit, Shape, TypeOK
  <1>5. RowShape'
    <2>1. \A z \in Subs : SubShaped(z)'
      <3> TAKE z \in Subs
      <3>1. SubShaped(z)
        BY DEF RowShape, Shape
      <3> QED BY <1>2, <1>4, <3>1 DEF SubShaped, NoSub
    <2> QED BY <2>1 DEF TrialCommit, RowShape, OrderShaped, Shape
  <1>6. /\ lock' \in [Rows -> Sessions \cup {None}]
        /\ tx' \in [Sessions -> Tx] /\ TxShape' /\ TxRefers'
    <2>1. /\ \A z \in Subs : sub[z].status # "NONE" => sub'[z].status # "NONE"
          /\ \A z \in Subs : sub[z].handle = TRUE => sub'[z].handle = TRUE
      BY <1>2, <1>4
    <2> QED BY <2>1, EndShape DEF TrialCommit
  <1>7. sub' \in [Subs -> SubRow]
    BY <1>2, <1>3 DEF Shape, TypeOK
  <1>8. term' \in [Subs -> Nat] /\ users' \subseteq Users /\ trial' \subseteq Users
    BY <1>0, <1>1 DEF TrialCommit, Shape, TypeOK, Tx
  <1> QED BY <1>5, <1>6, <1>7, <1>8 DEF TrialCommit, TypeOK, Shape

\* A call to the panel leaves the panel well-typed.
LEMMA TypePanel ==
  ASSUME Shape, NEW p \in Sessions, NEW n \in 1 .. PanelTries, PanelCall(p, n)
  PROVE  panel' \in [Subs -> PanelUser]
  <1> DEFINE s == tx[p].sub
  <1>1. tx[p] \in Tx /\ Shaped(tx[p])
    BY DEF Shape, TypeOK, TxShape
  <1>2. s \in Subs /\ tx[p].days \in Nat
    BY <1>1 DEF PanelCall, Shaped, Tx
  <1>3. n \in Nat
    BY StorageAssumption
  <1>4. panel[s] \in PanelUser /\ panel[s].days \in Nat
    BY <1>2 DEF Shape, TypeOK, PanelUser
  <1>5. n * tx[p].days \in Nat
    BY <1>2, <1>3
  <1> DEFINE more == n * tx[p].days
  <1>6. panel[s].days + more \in Nat
    BY <1>4, <1>5
  <1>7. CASE panel' = [panel EXCEPT ![s] = [state |-> "enabled", days |-> tx[p].days]]
    BY <1>2, <1>7 DEF Shape, TypeOK, PanelUser
  <1>8. CASE panel' = [panel EXCEPT ![s].days = @ + n * tx[p].days]
    <2>1. panel' = [panel EXCEPT ![s] = [panel[s] EXCEPT !.days = panel[s].days + more]]
      BY <1>8
    <2> HIDE DEF more
    <2>2. [panel[s] EXCEPT !.days = panel[s].days + more] \in PanelUser
      BY <1>4, <1>6 DEF PanelUser
    <2> QED BY <2>1, <2>2 DEF Shape, TypeOK
  <1> QED BY <1>7, <1>8 DEF PanelCall, Applied

\* Shape survives an answered panel call.
LEMMA TypePanelAnswers ==
  ASSUME Shape, NEW p \in Sessions, PanelAnswers(p)
  PROVE  Shape'
  <1>1. tx[p] \in Tx /\ Shaped(tx[p])
    BY DEF Shape, TypeOK, TxShape
  <1>2. tx[p].pc = "panel"
    BY DEF PanelAnswers, PanelCall
  <1>3. Shaped([tx[p] EXCEPT !.pc = "commit"])
    BY <1>1, <1>2 DEF Shaped, Tx
  <1>4. panel' \in [Subs -> PanelUser]
    BY TypePanel DEF PanelAnswers
  <1> QED BY <1>3, <1>4, GotoShape DEF PanelAnswers, TypeOK, Shape, Labels

\* A session that ends without a commit.
LEMMA TypeRollback ==
  ASSUME Shape, NEW p \in Sessions, End(p), panel' \in [Subs -> PanelUser],
         UNCHANGED <<now, users, order, sub, code, trial, charge, grants, term>>
  PROVE  Shape'
  <1>1. RowShape'
    BY DEF RowShape, OrderShaped, SubShaped, Shape
  <1> QED BY <1>1, EndShape DEF TypeOK, Shape

\* A step outside every session that leaves the transactions alone.
LEMMA TypeOutside ==
  ASSUME Shape, UNCHANGED <<users, order, trial, lock, tx, panel, grants, term>>,
         now' \in Nat, now' >= Opening, charge' \in [Charges -> Orders \cup {None}],
         code' \in [Codes -> {"ACTIVE", "USED", "REVOKED"}],
         sub' \in [Subs -> SubRow],
         \A s \in Subs : \/ sub'[s] = sub[s]
                        \/ /\ sub[s].status \in Live /\ sub'[s].status = "REVOKED"
                           /\ sub'[s].user = sub[s].user /\ sub'[s].handle = sub[s].handle
  PROVE  Shape'
  <1>1. \A s \in Subs : SubShaped(s)'
    BY DEF Shape, RowShape, SubShaped
  <1>2. RowShape'
    BY <1>1 DEF Shape, RowShape, OrderShaped
  <1>3. TxShape'
    <2> SUFFICES ASSUME NEW q \in Sessions PROVE Shaped(tx[q])'
      BY DEF TxShape
    <2>1. Shaped(tx[q])
      BY DEF Shape, TxShape
    <2> QED BY <2>1 DEF Shaped, IdleTx
  <1>4. TxRefers'
    <2> SUFFICES ASSUME NEW q \in Sessions PROVE Existing(tx[q])'
      BY DEF TxRefers
    <2>1. tx[q] \in Tx /\ Shaped(tx[q]) /\ Existing(tx[q])
      BY DEF Shape, TypeOK, TxShape, TxRefers
    <2>2. /\ tx[q].mode = "extend" => tx[q].sub \in Subs
          /\ tx[q].old # None => tx[q].old \in Subs
      BY <2>1 DEF Shaped, Tx
    <2> QED BY <2>1, <2>2 DEF Existing
  <1> QED BY <1>2, <1>3, <1>4 DEF Shape, TypeOK

\* Shape survives the admin's revocation of a subscription.
LEMMA TypeRevokeSubscription ==
  ASSUME Shape, NEW s \in Subs, RevokeSubscription(s)
  PROVE  Shape'
  <1> DEFINE ended == [sub[s] EXCEPT !.status = "REVOKED", !.exp = now]
  <1>1. /\ ended \in SubRow /\ ended.status = "REVOKED"
        /\ ended.user = sub[s].user /\ ended.handle = sub[s].handle
    BY DEF Shape, TypeOK, SubRow
  <1>2. sub' = [sub EXCEPT ![s] = ended]
    BY DEF RevokeSubscription
  <1> HIDE DEF ended
  <1>3. sub' \in [Subs -> SubRow]
    BY <1>1, <1>2 DEF Shape, TypeOK
  <1>4. \A z \in Subs : sub'[z] = IF z = s THEN ended ELSE sub[z]
    BY <1>2 DEF Shape, TypeOK
  <1> QED BY <1>1, <1>3, <1>4, TypeOutside DEF RevokeSubscription, Shape, TypeOK

-----------------------------------------------------------------------------

\* Shape is inductive: no step of a handler breaks a type, or a group of fields that
\* belong together.
THEOREM TypeStep == Shape /\ [Next]_vars => Shape'
  <1> SUFFICES ASSUME Shape, [Next]_vars PROVE Shape'
    OBVIOUS
  <1>1. ASSUME NEW p \in Sessions, PaymentStep(p) PROVE Shape'
    BY <1>1, TypeOrderBegin, TypeOrderCommit, TypePayBegin, TypePayRead, TypePayLock,
       TypePayInsert, TypePayForeignKey, TypePayCommit, TypeRefundBegin, TypeRefundCommit
       DEF PaymentStep
  <1>2. ASSUME NEW p \in Sessions, ActivationStep(p) PROVE Shape'
    BY <1>2, TypeLockUser, TypeInsertUser, TypeIssueInsert, TypeActivateBegin,
       TypeActivateCode, TypeActivateRead, TypeActivateLock, TypeActivateUnlink,
       TypeActivateCommit, TypeTrialBegin, TypeTrialRead, TypeTrialCommit
       DEF ActivationStep
  <1>3. ASSUME NEW p \in Sessions, PanelAnswers(p) PROVE Shape'
    BY <1>3, TypePanelAnswers
  <1>4. ASSUME NEW p \in Sessions, PanelFails(p) PROVE Shape'
    BY <1>4, TypePanel, TypeRollback DEF PanelFails
  <1>5. ASSUME NEW p \in Sessions, Abort(p) PROVE Shape'
    BY <1>5, TypeRollback DEF Abort, Shape, TypeOK
  <1>6. ASSUME NEW c \in Charges, NEW o \in Orders, Precheck(c, o) PROVE Shape'
    BY <1>6, TypeOutside DEF Precheck, Shape, TypeOK
  <1>7. ASSUME NEW s \in Subs, RevokeSubscription(s) PROVE Shape'
    BY <1>7, TypeRevokeSubscription
  <1>8. ASSUME NEW k \in Codes, RevokeCode(k) PROVE Shape'
    BY <1>8, TypeOutside DEF RevokeCode, Shape, TypeOK
  <1>9. CASE Tick
    BY <1>9, StorageAssumption, TypeOutside DEF Tick, Shape, TypeOK
  <1>10. CASE UNCHANGED vars
    BY <1>10, TypeOutside DEF vars, Shape, TypeOK
  <1> QED BY <1>1, <1>2, <1>3, <1>4, <1>5, <1>6, <1>7, <1>8, <1>9, <1>10
          DEF Next, AdminStep

\* Whatever the handlers do, every table, lock and open transaction keeps its
\* type: the columns mark_paid, activate and create_trial write are of the kind
\* the tables hold.
THEOREM TypeCorrect == Spec => []TypeOK
  <1>1. Shape => TypeOK
    BY DEF Shape
  <1> QED BY <1>1, TypeInit, TypeStep, PTL DEF Spec

=============================================================================
