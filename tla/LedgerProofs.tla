---------------------------- MODULE LedgerProofs ----------------------------
(***************************************************************************)
(* Entitlements implements Ledger, for every value of the constants: every *)
(* commit is one entry in the ledger, every other step leaves it alone.    *)
(***************************************************************************)
EXTENDS EntitlementsProofs

USE DEF Live, Rows, Sources

-----------------------------------------------------------------------------
(* The subscription a user holds.                                          *)

\* With at most one live row per user, Held is that row, or None without one.
LEMMA HeldIs ==
  ASSUME OneLiveSubscription, NEW u
  PROVE  /\ Held(u) = None <=> LiveSubs(u) = {}
         /\ \A s \in LiveSubs(u) : Held(u) = s
         /\ Held(u) # None => Held(u) \in LiveSubs(u)
  <1>1. None \notin LiveSubs(u)
    BY StorageAssumption DEF LiveSubs
  <1>2. \A s, z \in LiveSubs(u) : s = z
    BY DEF OneLiveSubscription, LiveSubs
  <1>3. CASE LiveSubs(u) = {}
    BY <1>3 DEF Held
  <1>4. CASE LiveSubs(u) # {}
    <2>1. Held(u) \in LiveSubs(u)
      BY <1>4 DEF Held
    <2> QED BY <1>1, <1>2, <1>4, <2>1
  <1> QED BY <1>3, <1>4

\* The same one step later.
LEMMA HeldWillBe ==
  ASSUME OneLiveSubscription', NEW u
  PROVE  /\ Held(u)' = None <=> LiveSubs(u)' = {}
         /\ \A s \in LiveSubs(u)' : Held(u)' = s
         /\ Held(u)' # None => Held(u)' \in LiveSubs(u)'
  <1>1. None \notin LiveSubs(u)'
    BY StorageAssumption DEF LiveSubs
  <1>2. \A s, z \in LiveSubs(u)' : s = z
    BY DEF OneLiveSubscription, LiveSubs
  <1>3. CASE LiveSubs(u)' = {}
    BY <1>3 DEF Held
  <1>4. CASE LiveSubs(u)' # {}
    <2>1. Held(u)' \in LiveSubs(u)'
      BY <1>4 DEF Held
    <2> QED BY <1>1, <1>2, <1>4, <2>1
  <1> QED BY <1>3, <1>4

\* The initial tables are the initial ledger.
LEMMA LedgerInit == Init => Promise!Init
  <1> SUFFICES ASSUME Init PROVE Promise!Init
    OBVIOUS
  <1>1. \A u \in Users : LiveSubs(u) = {}
    BY StorageAssumption DEF Init, LiveSubs, NoSub
  <1>2. \A u \in Users : Held(u) = None
    BY <1>1 DEF Held
  <1>3. \A s \in Subs : sub[s].order = None
    BY StorageAssumption DEF Init, NoSub
  <1>4. \A o \in Orders : order[o] = NoOrder
    BY DEF Init
  <1> QED BY <1>2, <1>3, <1>4 DEF Init, Promise!Init, NoOrder

-----------------------------------------------------------------------------
(* Commits are entries.                                                    *)

\* What the ledger sees of the state.
Bill == [o \in Orders |-> [status |-> order[o].status, user |-> order[o].user,
                           plan |-> order[o].plan]]
Holds == [u \in Users |-> Held(u)]
Fund == [s \in Subs |-> sub[s].order]

\* A commit that leaves user u with s, and every other user with what they had.
LEMMA GrantEntry ==
  ASSUME IInv, IInv', NEW u \in Users, NEW s \in Subs,
         sub[s].status \in Live => sub[s].user = u,
         sub'[s].status \in Live, sub'[s].user = u,
         \A z \in Subs : z # s /\ sub'[z].status \in Live => sub'[z] = sub[z],
         \A z \in Subs : z # s /\ sub[z].status \in Live /\ sub[z].user # u => sub'[z] = sub[z]
  PROVE  /\ \A v \in Users : v # u => Held(v) # s
         /\ Holds' = [Holds EXCEPT ![u] = s]
  <1>0. OneLiveSubscription /\ OneLiveSubscription'
    BY DEF IInv
  <1>1. ASSUME NEW v \in Users, v # u PROVE Held(v) # s /\ Held(v)' = Held(v)
    <2>1. LiveSubs(v)' = LiveSubs(v)
      BY <1>1 DEF LiveSubs
    <2>2. s \notin LiveSubs(v)
      BY <1>1 DEF LiveSubs
    <2>3. s # None
      BY StorageAssumption
    <2>4. Held(v)' = Held(v)
      BY <2>1 DEF Held
    <2> QED BY <1>0, <2>2, <2>3, <2>4, HeldIs
  <1>2. Held(u)' = s
    <2>1. s \in LiveSubs(u)'
      BY DEF LiveSubs
    <2> QED BY <1>0, <2>1, HeldWillBe
  <1> QED BY <1>1, <1>2 DEF Holds

\* mark_paid's commit settles the order.
LEMMA PayEntry ==
  ASSUME IInv, IInv', NEW p \in Sessions, PayCommit(p)
  PROVE  Promise!Next
  <1>a. PICK t, s, o, row :
          t = tx[p] /\ s = tx[p].sub /\ o = tx[p].order /\ row = PaidRow(p)
    OBVIOUS
  <1>0. /\ Shape /\ Reliant(p) /\ InsertsAlone(p) /\ t \in Tx /\ Shaped(t)
        /\ t.op = "pay" /\ t.pc = "commit"
    BY <1>a, Start DEF PayCommit
  <1>1. /\ s \in Subs /\ o \in Orders /\ t.mode \in {"insert", "extend"} /\ t.old = None
        /\ t.user \in Users /\ t.plan \in Plans /\ t.days \in Nat /\ t.days = Days[t.plan]
    BY <1>a, <1>0 DEF Shaped, Tx
  <1>2. /\ sub' = [sub EXCEPT ![s] = row] /\ term' = [term EXCEPT ![s] = @ + t.days]
        /\ order' = [order EXCEPT ![o].status = "PAID", ![o].charge = t.charge]
        /\ UNCHANGED <<code, trial>>
        /\ sub \in [Subs -> SubRow] /\ order \in [Orders -> OrderRow]
    BY <1>a, <1>0 DEF PayCommit, Shape, TypeOK
  <1>3. order[o].status = "PENDING" /\ order[o].user = t.user /\ order[o].plan = t.plan
    BY <1>a, <1>0 DEF Reliant, HoldsOrder
  <1>4. row.status = "ACTIVE" /\ row.order = o /\ row.user = t.user
    <2>1. CASE t.mode = "insert"
      BY <1>a, <1>1, <2>1 DEF PaidRow, NoSub
    <2>2. CASE t.mode = "extend"
      <3>1. sub[s] \in SubRow /\ sub[s].user = t.user
        BY <1>a, <1>0, <1>1, <1>2, <2>2 DEF Reliant, HoldsSub
      <3> QED BY <1>a, <1>1, <2>2, <3>1 DEF PaidRow, SubRow
    <2> QED BY <1>1, <2>1, <2>2
  <1>5. /\ t.mode = "insert" => sub[s].status = "NONE" /\ LiveSubs(t.user) = {}
        /\ t.mode = "extend" => sub[s].user = t.user
                                /\ sub[s].status \in Live \cup {"EXPIRED"}
    BY <1>a, <1>0, <1>1, StorageAssumption DEF Reliant, HoldsSub, InsertsAlone, Inserted, LiveSubs
  <1>6. \A z \in LiveSubs(t.user) : z = s
    <2>1. CASE t.mode = "insert"
      BY <1>5, <2>1
    <2>2. CASE t.mode = "extend" /\ sub[s].status \in Live
      BY <1>1, <1>5, <2>2 DEF IInv, OneLiveSubscription, LiveSubs
    <2>3. CASE t.mode = "extend" /\ sub[s].status = "EXPIRED"
      <3>1. ~IndexTaken(p, t.user)
        BY <1>a, <2>3 DEF PayCommit, Revives
      <3> QED BY <1>a, <1>1, <3>1, StorageAssumption DEF IndexTaken, LiveSubs
    <2> QED BY <1>1, <1>5, <2>1, <2>2, <2>3
  <1>7. /\ \A v \in Users : v # t.user => Held(v) # s
        /\ Holds' = [Holds EXCEPT ![t.user] = s]
    <2>1. \A z \in Subs : sub'[z] = IF z = s THEN row ELSE sub[z]
      BY <1>2
    <2>2. sub[s].status \in Live => sub[s].user = t.user
      BY <1>1, <1>5
    <2>3. \A z \in Subs : z # s => sub'[z] = sub[z]
      BY <2>1
    <2>4. sub'[s].status \in Live /\ sub'[s].user = t.user
      BY <1>1, <1>4, <2>1
    <2> QED BY <1>1, <1>2, <2>2, <2>3, <2>4, GrantEntry
  <1>8. Held(t.user) \in {None, s}
    BY <1>6, HeldIs DEF IInv
  <1>9. Bill[o].status = "PENDING" /\ Bill[o].user = t.user /\ Bill[o].plan = t.plan
    BY <1>1, <1>3 DEF Bill
  <1>10. Bill' = [Bill EXCEPT ![o].status = "PAID"]
    <2>1. \A d \in Orders : order'[d] = IF d = o THEN [order[o] EXCEPT !.status = "PAID",
                                                                  !.charge = t.charge]
                                                 ELSE order[d]
      BY <1>1, <1>2
    <2>2. [order[o] EXCEPT !.status = "PAID", !.charge = t.charge].user = order[o].user
      BY <1>1, <1>2 DEF OrderRow
    <2>3. [order[o] EXCEPT !.status = "PAID", !.charge = t.charge].plan = order[o].plan
      BY <1>1, <1>2 DEF OrderRow
    <2>4. [order[o] EXCEPT !.status = "PAID", !.charge = t.charge].status = "PAID"
      BY <1>1, <1>2 DEF OrderRow
    <2> QED BY <1>1, <2>1, <2>2, <2>3, <2>4 DEF Bill
  <1>11. Fund' = [Fund EXCEPT ![s] = o]
    BY <1>1, <1>2, <1>4 DEF Fund
  <1>12. Promise!Settle(o, s)
    <2>1. Bill[o].status = "PENDING" /\ Holds[Bill[o].user] \in {None, s}
      BY <1>1, <1>8, <1>9 DEF Holds
    <2>2. Promise!Grant(t.user, s, Days[Bill[o].plan])
      <3>1. s = Holds[t.user] \/ \A v \in Users : Holds[v] # s
        BY <1>1, <1>7, <1>8, StorageAssumption DEF Holds
      <3>2. term' = [term EXCEPT ![s] = @ + Days[Bill[o].plan]]
        BY <1>1, <1>2, <1>9
      <3> QED BY <1>7, <3>1, <3>2 DEF Promise!Grant, Promise!Usable, Holds
    <2> QED BY <1>2, <1>9, <1>10, <1>11, <2>1, <2>2 DEF Promise!Settle, Bill, Holds, Fund
  <1>13. \E d \in Orders, z \in Subs : Promise!Settle(d, z)
    BY <1>1, <1>12
  <1> QED BY <1>13 DEF Promise!Next

\* activate's commit redeems the code.
LEMMA RedeemEntry ==
  ASSUME IInv, IInv', NEW p \in Sessions, ActivateCommit(p)
  PROVE  Promise!Next
  <1>a. PICK t, s, k, w : t = tx[p] /\ s = tx[p].sub /\ k = tx[p].code /\ w = tx[p].old
    OBVIOUS
  <1>0. /\ Shape /\ Reliant(p) /\ InsertsAlone(p) /\ t \in Tx /\ Shaped(t)
        /\ t.op = "activate" /\ t.pc = "commit" /\ sub \in [Subs -> SubRow]
    BY <1>a, Start DEF ActivateCommit, Shape, TypeOK
  <1>1. /\ s \in Subs /\ k \in Codes /\ t.mode \in {"insert", "extend"} /\ t.user \in Users
        /\ t.days = Days[CodePlan[k]] /\ t.days \in Nat /\ (t.mode = "extend" => w = None)
    BY <1>a, <1>0 DEF Shaped, Tx
  <1>2. /\ t.mode = "insert" => /\ sub[s].status = "NONE" /\ Inserted(p)
                                /\ LiveSubs(t.user) \subseteq {w}
        /\ t.mode = "extend" => sub[s].user = t.user /\ sub[s].status \in Live
        /\ w # None => sub[w].user = t.user /\ sub[w].status \in Live
        /\ code[k] = "ACTIVE"
    BY <1>a, <1>0 DEF Reliant, HoldsSub, HoldsCode, InsertsAlone, Inserted
  <1>3. w # s
    BY <1>1, <1>2, StorageAssumption
  <1>4. /\ sub'[s].status \in Live /\ sub'[s].user = t.user /\ sub'[s].order = sub[s].order
    <2>1. CASE t.mode = "insert"
      <3>1. sub'[s] = NewRow(p, "ACTIVE")
        BY <1>a, <1>1, <2>1 DEF ActivateCommit
      <3>2. sub[s].order = None
        BY <1>0, <1>1, <1>2, <2>1 DEF Shape, RowShape, SubShaped, NoSub
      <3> QED BY <1>a, <1>1, <2>1, <3>1, <3>2 DEF NewRow, NoSub
    <2>2. CASE t.mode = "extend"
      <3>1. sub'[s] = [sub[s] EXCEPT !.status = "ACTIVE", !.exp = t.exp]
        BY <1>a, <1>1, <2>2 DEF ActivateCommit
      <3>2. sub[s] \in SubRow
        BY <1>0, <1>1
      <3> QED BY <1>2, <2>2, <3>1, <3>2 DEF SubRow
    <2> QED BY <1>1, <2>1, <2>2
  <1>5. \A z \in Subs : z = w => sub'[z].status = "REVOKED" /\ sub'[z].order = sub[z].order
    <2> SUFFICES ASSUME w \in Subs
                 PROVE  sub'[w].status = "REVOKED" /\ sub'[w].order = sub[w].order
      OBVIOUS
    <2>1. sub'[w] = [sub[w] EXCEPT !.status = "REVOKED"]
      BY <1>a, <1>3 DEF ActivateCommit
    <2>2. sub[w] \in SubRow
      BY <1>0
    <2> QED BY <2>1, <2>2 DEF SubRow
  <1>6. \A z \in Subs : z # s /\ z # w => sub'[z] = sub[z]
    BY <1>a DEF ActivateCommit
  <1>7. /\ term' = [term EXCEPT ![s] = @ + Days[CodePlan[k]]]
        /\ code' = [code EXCEPT ![k] = IF k \in SingleUse THEN "USED" ELSE @]
        /\ UNCHANGED <<order, trial>>
    BY <1>a, <1>1 DEF ActivateCommit, Spent
  <1>8. /\ \A v \in Users : v # t.user => Held(v) # s
        /\ Holds' = [Holds EXCEPT ![t.user] = s]
    <2>1. sub[s].status \in Live => sub[s].user = t.user
      BY <1>1, <1>2
    <2>2. \A z \in Subs : z # s /\ sub'[z].status \in Live => sub'[z] = sub[z]
      BY <1>5, <1>6
    <2>3. \A z \in Subs : z # s /\ sub[z].status \in Live /\ sub[z].user # t.user
                          => sub'[z] = sub[z]
      BY <1>2, <1>6, StorageAssumption
    <2> QED BY <1>1, <1>4, <2>1, <2>2, <2>3, GrantEntry
  <1>9. Fund' = Fund
    BY <1>4, <1>5, <1>6 DEF Fund
  <1>10. Promise!Redeem(t.user, k, s)
    <2>1. s = Holds[t.user] \/ \A v \in Users : Holds[v] # s
      BY <1>1, <1>8 DEF Holds
    <2>2. Promise!Grant(t.user, s, Days[CodePlan[k]])
      BY <1>7, <1>8, <2>1 DEF Promise!Grant, Promise!Usable, Holds
    <2> QED BY <1>2, <1>7, <1>9, <2>2 DEF Promise!Redeem, Bill, Holds, Fund
  <1>11. \E u \in Users, c \in Codes, z \in Subs : Promise!Redeem(u, c, z)
    BY <1>1, <1>10
  <1> QED BY <1>11 DEF Promise!Next

\* create_trial's commit starts the trial.
LEMMA TrialEntry ==
  ASSUME IInv, IInv', NEW p \in Sessions, TrialCommit(p)
  PROVE  Promise!Next
  <1>a. PICK t, s, row : t = tx[p] /\ s = tx[p].sub /\ row = NewRow(p, "TRIAL")
    OBVIOUS
  <1>0. /\ Shape /\ InsertsAlone(p) /\ t \in Tx /\ Shaped(t)
        /\ t.op = "trial" /\ t.pc = "commit" /\ t.user \notin trial
    BY <1>a, Start DEF TrialCommit, TrialFree
  <1>1. /\ s \in Subs /\ t.mode = "insert" /\ t.old = None /\ t.user \in Users
        /\ t.days = TrialDays
    BY <1>0, <1>a DEF Shaped, Tx
  <1>2. sub[s].status = "NONE" /\ LiveSubs(t.user) = {} /\ sub[s].order = None
    <2>1. sub[s].status = "NONE" /\ LiveSubs(t.user) \subseteq {t.old}
      BY <1>a, <1>0, <1>1 DEF InsertsAlone, Inserted
    <2> QED BY <1>0, <1>1, <2>1, StorageAssumption
            DEF LiveSubs, Shape, RowShape, SubShaped, NoSub
  <1>3. /\ \A z \in Subs : sub'[z] = IF z = s THEN row ELSE sub[z]
        /\ term' = [term EXCEPT ![s] = @ + TrialDays]
        /\ trial' = trial \cup {t.user} /\ UNCHANGED <<order, code>>
    BY <1>a, <1>0, <1>1 DEF TrialCommit, Shape, TypeOK
  <1>4. row.status = "TRIAL" /\ row.user = t.user /\ row.order = None
    BY <1>a, <1>1 DEF NewRow, NoSub
  <1>5. /\ \A v \in Users : v # t.user => Held(v) # s
        /\ Holds' = [Holds EXCEPT ![t.user] = s]
    <2>1. \A z \in Subs : z # s => sub'[z] = sub[z]
      BY <1>3
    <2>2. sub'[s].status \in Live /\ sub'[s].user = t.user
      BY <1>1, <1>3, <1>4
    <2> QED BY <1>1, <1>2, <2>1, <2>2, GrantEntry
  <1>6. Held(t.user) = None
    BY <1>2 DEF Held
  <1>7. Fund' = Fund
    BY <1>2, <1>3, <1>4 DEF Fund
  <1>8. Promise!StartTrial(t.user, s)
    <2>1. \A v \in Users : Holds[v] # s
      BY <1>1, <1>5, <1>6, StorageAssumption DEF Holds
    <2>2. Promise!Grant(t.user, s, TrialDays)
      BY <1>3, <1>5, <2>1 DEF Promise!Grant, Promise!Usable, Holds
    <2> QED BY <1>0, <1>1, <1>3, <1>6, <1>7, <2>2 DEF Promise!StartTrial, Fund
  <1>9. \E u \in Users, z \in Subs : Promise!StartTrial(u, z)
    BY <1>1, <1>8
  <1> QED BY <1>9 DEF Promise!Next

\* A withdrawal of some live subscriptions, which leaves the others alone.
LEMMA HoldsLess ==
  ASSUME IInv, IInv', NEW W \in SUBSET Subs,
         \A z \in W : sub'[z].status \notin Live,
         \A z \in Subs \ W : sub'[z] = sub[z],
         NEW v \in Users
  PROVE  Held(v)' = IF Held(v) \in W THEN None ELSE Held(v)
  <1>0. OneLiveSubscription /\ OneLiveSubscription'
    BY DEF IInv
  <1>1. LiveSubs(v)' = LiveSubs(v) \ W
    BY DEF LiveSubs
  <1>2. CASE Held(v) \in W
    <2>1. LiveSubs(v)' = {}
      <3>1. Held(v) # None
        BY <1>2, StorageAssumption
      <3>2. \A z \in LiveSubs(v) : z = Held(v)
        BY <1>0, <3>1, HeldIs
      <3> QED BY <1>1, <1>2, <3>2
    <2> QED BY <1>0, <1>2, <2>1, HeldWillBe
  <1>3. CASE Held(v) \notin W
    <2>1. LiveSubs(v)' = LiveSubs(v)
      <3>1. \A z \in LiveSubs(v) : z = Held(v)
        BY <1>0, HeldIs
      <3> QED BY <1>1, <1>3, <3>1
    <2> QED BY <1>3, <2>1 DEF Held
  <1> QED BY <1>2, <1>3

\* refund's commit gives the money back.
LEMMA RefundEntry ==
  ASSUME IInv, IInv', NEW p \in Sessions, RefundCommit(p)
  PROVE  Promise!Next
  <1>a. PICK o, W : o = tx[p].order /\ W = Funded(p) \cap Subs
    OBVIOUS
  <1>0. /\ Shape /\ Reliant(p) /\ tx[p].op = "refund" /\ o \in Orders
        /\ sub \in [Subs -> SubRow] /\ order \in [Orders -> OrderRow]
    BY <1>a, Start DEF RefundCommit, Shaped, Shape, TypeOK
  <1>1. /\ order[o].status = "PAID"
        /\ \A z \in Subs : sub[z].order = o => z \in tx[p].seen
    BY <1>a, <1>0 DEF Reliant, HoldsOrder
  <1>2. \A z \in Subs : z \in W <=> sub[z].order = o /\ sub[z].status \in Live
    BY <1>a, <1>1 DEF Funded
  <1>3. /\ \A z \in W : sub'[z].status = "REVOKED" /\ sub'[z].order = None
        /\ \A z \in Subs \ W : sub'[z] = sub[z]
        /\ W \in SUBSET Subs
    BY <1>a, <1>0 DEF RefundCommit, SubRow
  <1>4. order' = [order EXCEPT ![o].status = "REFUNDED"] /\ UNCHANGED <<code, trial, term>>
    BY <1>a DEF RefundCommit
  <1>5. Bill' = [Bill EXCEPT ![o].status = "REFUNDED"]
    <2>1. \A d \in Orders : order'[d] = IF d = o THEN [order[o] EXCEPT !.status = "REFUNDED"]
                                                 ELSE order[d]
      BY <1>0, <1>4
    <2>2. /\ [order[o] EXCEPT !.status = "REFUNDED"].user = order[o].user
          /\ [order[o] EXCEPT !.status = "REFUNDED"].plan = order[o].plan
          /\ [order[o] EXCEPT !.status = "REFUNDED"].status = "REFUNDED"
      BY <1>0 DEF OrderRow
    <2> QED BY <1>0, <2>1, <2>2 DEF Bill
  <1>6. \A v \in Users : Held(v)' = IF Held(v) \in W THEN None ELSE Held(v)
    BY <1>3, HoldsLess
  <1>b. PICK ends : ends = {u \in Users : Holds[u] # None /\ Fund[Holds[u]] = o}
    OBVIOUS
  <1>7. \A u \in Users : u \in ends <=> Held(u) \in W
    <2> SUFFICES ASSUME NEW u \in Users PROVE u \in ends <=> Held(u) \in W
      OBVIOUS
    <2>1. Held(u) # None => Held(u) \in Subs /\ sub[Held(u)].status \in Live
      BY HeldIs DEF IInv, LiveSubs
    <2>2. None \notin W
      BY <1>3, StorageAssumption
    <2> QED BY <1>b, <1>2, <2>1, <2>2 DEF Holds, Fund
  <1>8. Holds' = [u \in Users |-> IF u \in ends THEN None ELSE Holds[u]]
    BY <1>6, <1>7 DEF Holds
  <1>9. \A z \in W : \E u \in ends : Holds[u] = z
    <2> SUFFICES ASSUME NEW z \in W PROVE \E u \in ends : Holds[u] = z
      OBVIOUS
    <2>1. z \in Subs /\ sub[z].status \in Live /\ sub[z].user \in Users
      BY <1>0, <1>2, <1>3 DEF Shape, RowShape, SubShaped
    <2>2. Held(sub[z].user) = z
      BY <2>1, HeldIs DEF IInv, LiveSubs
    <2> QED BY <1>7, <2>1, <2>2 DEF Holds
  <1>10. Fund' = [z \in Subs |-> IF \E u \in ends : Holds[u] = z THEN None ELSE Fund[z]]
    <2>1. \A z \in Subs : (\E u \in ends : Holds[u] = z) <=> z \in W
      BY <1>b, <1>7, <1>9 DEF Holds
    <2> QED BY <1>3, <2>1 DEF Fund
  <1>11. Promise!Refund(o)
    <2>1. Bill[o].status = "PAID"
      BY <1>0, <1>1 DEF Bill
    <2> QED BY <1>b, <1>4, <1>5, <1>8, <1>10, <2>1 DEF Promise!Refund, Bill, Holds, Fund
  <1>12. \E d \in Orders : Promise!Refund(d)
    BY <1>0, <1>11
  <1> QED BY <1>12 DEF Promise!Next

\* The admin's revocation withdraws the subscription its user holds.
LEMMA WithdrawEntry ==
  ASSUME IInv, IInv', NEW s \in Subs, RevokeSubscription(s)
  PROVE  Promise!Next
  <1>a. PICK u : u = sub[s].user
    OBVIOUS
  <1>0. Shape /\ sub \in [Subs -> SubRow]
    BY DEF IInv, Shape, TypeOK
  <1>1. sub[s].status \in Live /\ UNCHANGED <<order, code, trial, term>>
    BY DEF RevokeSubscription
  <1>2. /\ \A z \in Subs \ {s} : sub'[z] = sub[z]
        /\ sub'[s].status = "REVOKED" /\ sub'[s].order = sub[s].order
    BY <1>0 DEF RevokeSubscription, SubRow
  <1>3. u \in Users
    BY <1>a, <1>0, <1>1 DEF Shape, RowShape, SubShaped
  <1>4. \A v \in Users : Held(v)' = IF Held(v) = s THEN None ELSE Held(v)
    <2>1. PICK W \in SUBSET Subs : W = {s}
      OBVIOUS
    <2>2. \A z \in W : sub'[z].status \notin Live
      BY <1>2, <2>1
    <2>3. \A z \in Subs \ W : sub'[z] = sub[z]
      BY <1>2, <2>1
    <2>4. \A v \in Users : Held(v)' = IF Held(v) \in W THEN None ELSE Held(v)
      BY <2>2, <2>3, HoldsLess
    <2> QED BY <2>1, <2>4
  <1>5. \A v \in Users : Held(v) = s <=> v = u
    <2> SUFFICES ASSUME NEW v \in Users PROVE Held(v) = s <=> v = u
      OBVIOUS
    <2>1. s \in LiveSubs(v) <=> v = u
      BY <1>a, <1>1 DEF LiveSubs
    <2>2. s # None
      BY StorageAssumption
    <2> QED BY <2>1, <2>2, HeldIs DEF IInv
  <1>6. Holds' = [Holds EXCEPT ![u] = None] /\ Holds[u] # None
    BY <1>3, <1>4, <1>5, StorageAssumption DEF Holds
  <1>7. Fund' = Fund
    BY <1>2 DEF Fund
  <1>8. Promise!Withdraw(u)
    BY <1>1, <1>6, <1>7 DEF Promise!Withdraw, Bill, Holds, Fund
  <1>9. \E v \in Users : Promise!Withdraw(v)
    BY <1>3, <1>8
  <1> QED BY <1>9 DEF Promise!Next

\* create_order's commit opens the order.
LEMMA OpenEntry ==
  ASSUME IInv, NEW p \in Sessions, NEW o \in Orders, OrderCommit(p, o)
  PROVE  Promise!Next
  <1>a. PICK u, pl : u = tx[p].user /\ pl = tx[p].plan
    OBVIOUS
  <1>0. u \in Users /\ pl \in Plans /\ order \in [Orders -> OrderRow]
    BY <1>a, Start DEF OrderCommit, Shaped, IInv, Shape, TypeOK
  <1>1. /\ order[o].status = "NONE"
        /\ order'[o].status = "PENDING" /\ order'[o].user = u /\ order'[o].plan = pl
    BY <1>a DEF OrderCommit, NoOrder
  <1>2. \A d \in Orders : d # o =>
          IF d \in Draft(p) THEN /\ order'[d].status = "FAILED" /\ order'[d].user = order[d].user
                                 /\ order'[d].plan = order[d].plan
          ELSE order'[d] = order[d]
    BY <1>0 DEF OrderCommit, OrderRow
  <1>3. \A d \in Orders : d \in Draft(p) <=> order[d].status = "PENDING" /\ order[d].user = u
    <2>1. \A d \in Orders : d \in Draft(p) => order[d].status = "PENDING" /\ order[d].user = u
      <3>1. HoldsOrder(p) /\ tx[p].op = "order"
        BY DEF OrderCommit, IInv, Reliant
      <3>2. \A d \in tx[p].seen \cap Orders : order[d].user = u
        BY <1>a, <3>1 DEF HoldsOrder
      <3> QED BY <3>2 DEF Draft
    <2>2. \A d \in Orders : order[d].status = "PENDING" /\ order[d].user = u => d \in Draft(p)
      BY <1>a DEF OrderCommit, PendingTaken, PendingOrders
    <2> QED BY <2>1, <2>2
  <1>4. UNCHANGED <<sub, code, trial, term>>
    BY DEF OrderCommit
  <1>5. Holds' = Holds /\ Fund' = Fund
    <2>1. \A v \in Users : Held(v)' = Held(v)
      BY <1>4 DEF Held, LiveSubs
    <2> QED BY <1>4, <2>1 DEF Holds, Fund
  <1>6. Bill' = [d \in Orders |->
           IF d = o THEN [status |-> "PENDING", user |-> u, plan |-> pl]
           ELSE IF Bill[d].user = u /\ Bill[d].status = "PENDING"
                THEN [Bill[d] EXCEPT !.status = "FAILED"]
           ELSE Bill[d]]
    BY <1>1, <1>2, <1>3 DEF Bill
  <1>7. Promise!Open(u, o, pl)
    BY <1>1, <1>4, <1>5, <1>6 DEF Promise!Open, Bill, Holds, Fund
  <1>8. \E v \in Users, d \in Orders, x \in Plans : Promise!Open(v, d, x)
    BY <1>0, <1>7
  <1> QED BY <1>8 DEF Promise!Next

\* The admin voids a code.
LEMMA VoidEntry ==
  ASSUME NEW k \in Codes, RevokeCode(k)
  PROVE  Promise!Next
  <1>1. Holds' = Holds /\ Fund' = Fund
    <2>1. \A v \in Users : Held(v)' = Held(v)
      BY DEF RevokeCode, Held, LiveSubs
    <2> QED BY <2>1 DEF RevokeCode, Holds, Fund
  <1>2. Promise!Void(k)
    BY <1>1 DEF RevokeCode, Promise!Void, Holds, Fund
  <1>3. \E c \in Codes : Promise!Void(c)
    BY <1>2
  <1> QED BY <1>3 DEF Promise!Next

\* Nothing else is seen by the ledger: waits, panel calls, rollbacks, time.
LEMMA NoEntry ==
  ASSUME UNCHANGED <<order, sub, code, trial, term>>
  PROVE  UNCHANGED Promise!ledger
  <1>1. \A v \in Users : Held(v)' = Held(v)
    BY DEF Held, LiveSubs
  <1> QED BY <1>1 DEF Promise!ledger

-----------------------------------------------------------------------------

\* Every step of a handler is one entry in the ledger or leaves the ledger alone.
THEOREM LedgerStep == IInv /\ IInv' /\ [Next]_vars => [Promise!Next]_(Promise!ledger)
  <1> SUFFICES ASSUME IInv, IInv', [Next]_vars PROVE [Promise!Next]_(Promise!ledger)
    OBVIOUS
  <1>1. ASSUME NEW p \in Sessions, PaymentStep(p) PROVE [Promise!Next]_(Promise!ledger)
    <2>1. \/ UNCHANGED <<order, sub, code, trial, term>>
          \/ PayCommit(p) \/ RefundCommit(p) \/ \E o \in Orders : OrderCommit(p, o)
      BY <1>1 DEF PaymentStep, OrderBegin, PayBegin, PayRead, PayLock, PayInsert,
                  PayForeignKey, RefundBegin
    <2> QED BY <2>1, PayEntry, RefundEntry, OpenEntry, NoEntry
  <1>2. ASSUME NEW p \in Sessions, ActivationStep(p) PROVE [Promise!Next]_(Promise!ledger)
    <2>1. \/ UNCHANGED <<order, sub, code, trial, term>>
          \/ ActivateCommit(p) \/ TrialCommit(p)
      BY <1>2 DEF ActivationStep, LockUser, InsertUser, IssueInsert, ActivateBegin,
                  ActivateCode, ActivateRead, ActivateLock, ActivateUnlink, TrialBegin,
                  TrialRead
    <2> QED BY <2>1, RedeemEntry, TrialEntry, NoEntry
  <1>3. CASE AdminStep
    BY <1>3, WithdrawEntry, VoidEntry DEF AdminStep
  <1>4. CASE UNCHANGED <<order, sub, code, trial, term>>
    BY <1>4, NoEntry
  <1> QED BY <1>1, <1>2, <1>3, <1>4
          DEF Next, PanelAnswers, PanelFails, Abort, Precheck, Tick, vars

\* The handlers keep the ledger's promise: whatever the interleaving, every commit
\* is one atomic purchase, redemption, trial, refund or withdrawal.
THEOREM Implements == Spec => KeepsLedger
  <1>1. Spec => []IInv
    BY Safety
  <1>2. Spec => Promise!Init /\ [][Promise!Next]_(Promise!ledger)
    BY <1>1, LedgerInit, LedgerStep, PTL DEF Spec
  <1> QED BY <1>2 DEF KeepsLedger, Promise!Spec
=============================================================================
