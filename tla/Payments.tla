------------------------------ MODULE Payments ------------------------------
(***************************************************************************)
(* api/app/services/billing.py: create_order, precheck, mark_paid, refund. *)
(* A request that ends without writing anything (a reused draft, a replay, *)
(* a wrong status or amount) is a stuttering step; a wrong amount belongs  *)
(* here because the FAILED it assigns is rolled back by its own raise.     *)
(***************************************************************************)
EXTENDS Store

-----------------------------------------------------------------------------
(* create_order                                                            *)

PendingOrders(u) == {o \in Orders : order[o].user = u /\ order[o].status = "PENDING"}

\* begin; SELECT ... WHERE user_id = u AND status = 'PENDING' FOR UPDATE.
OrderBegin(p, u, pl) ==
  /\ Idle(p)
  /\ tx' = [tx EXCEPT ![p] = [IdleTx EXCEPT !.op = "order", !.pc = "lock",
                                !.user = u, !.plan = pl, !.now = now,
                                !.seen = PendingOrders(u)]]
  /\ UNCHANGED <<now, users, order, sub, code, trial, charge, lock, panel, grants, term>>

\* Mutant: the draft is judged by the snapshot, not looked at again.
DraftAsRead(p) == tx[p].seen

\* The draft found, if it is still PENDING once its lock is granted.
Draft(p) == {d \in tx[p].seen : order[d].status = "PENDING"}

Stale(p, d) == order[d].created + PendingTTL <= tx[p].now

\* Mutant: the partial unique index was never created.
NoPendingIndex(p) == FALSE

\* ix_orders_one_pending_per_user: another PENDING order is a duplicate key.
PendingTaken(p) == PendingOrders(tx[p].user) \ Draft(p) # {}

\* Fail the stale draft, INSERT a new order, commit.  A fresh draft is handed
\* out again and a duplicate PENDING row or an unknown user is an
\* IntegrityError: both end the session without a change (Abort).
OrderCommit(p, o) ==
  /\ tx[p].op = "order" /\ tx[p].pc = "lock"
  /\ \A d \in tx[p].seen : Free(p, d)
  /\ \A d \in Draft(p) : Stale(p, d)
  /\ ~PendingTaken(p)
  /\ tx[p].user \in users /\ Free(p, tx[p].user)
  /\ order[o].status = "NONE"
  /\ order' = [d \in Orders |->
       IF d = o THEN [NoOrder EXCEPT !.status = "PENDING", !.user = tx[p].user,
                                     !.plan = tx[p].plan, !.created = tx[p].now]
       ELSE IF d \in Draft(p) THEN [order[d] EXCEPT !.status = "FAILED"]
       ELSE order[d]]
  /\ End(p)
  /\ UNCHANGED <<now, users, sub, code, trial, charge, panel, grants, term>>

-----------------------------------------------------------------------------
(* precheck                                                                *)

\* Mutant: the order id of the payload is taken from the wrong field.
PrecheckMixesIds(c, o) ==
  /\ charge[c] = None
  /\ order[o].status = "PENDING"
  /\ charge' = [charge EXCEPT ![c] = c]
  /\ UNCHANGED <<now, users, order, sub, code, trial, lock, tx, panel, grants, term>>

\* The bot answers ok to a pre_checkout_query of a PENDING order, read without
\* a lock, and Telegram charges the user.  From here on the successful_payment
\* message, and the bot's retries of it, can reach mark_paid at any time.
Precheck(c, o) ==
  /\ charge[c] = None
  /\ order[o].status = "PENDING"
  /\ charge' = [charge EXCEPT ![c] = o]
  /\ UNCHANGED <<now, users, order, sub, code, trial, lock, tx, panel, grants, term>>

-----------------------------------------------------------------------------
(* mark_paid                                                               *)

\* begin; lock the order; only a PENDING one goes on.
PayBegin(p, c) ==
  LET o == charge[c] IN
  /\ Idle(p)
  /\ o # None
  /\ Free(p, o)
  /\ order[o].status = "PENDING"
  /\ Take(p, {o})
  /\ tx' = [tx EXCEPT ![p] = [IdleTx EXCEPT !.op = "pay", !.pc = "read",
                                !.user = order[o].user, !.order = o, !.charge = c,
                                !.plan = order[o].plan, !.days = Days[order[o].plan],
                                !.now = now]]
  /\ UNCHANGED <<now, users, order, sub, code, trial, charge, panel, grants, term>>

\* The user's subscriptions mark_paid may extend.
Renewable(u) ==
  {s \in Subs : sub[s].user = u /\ sub[s].status \in {"ACTIVE", "TRIAL", "EXPIRED"}}

\* SELECT ... FOR UPDATE takes its snapshot.
PayRead(p) ==
  /\ tx[p].op = "pay" /\ tx[p].pc = "read"
  /\ tx' = [tx EXCEPT ![p].pc = "lock", ![p].seen = Renewable(tx[p].user)]
  /\ UNCHANGED <<now, users, order, sub, code, trial, charge, lock, panel, grants, term>>

\* _extend_subscription: where the term of s ends after d more days.
Extended(s, d, at) ==
  d + (IF sub[s].status \in Live THEN Later(sub[s].exp, at) ELSE at)

\* Mutant: no ORDER BY.
FirstFound(S) == S

\* ORDER BY started_at DESC, first row.
Newest(S) == {s \in S : \A z \in S : sub[z].started <= sub[s].started}

\* Mutant: the rows are extended as the snapshot saw them.
MatchAsRead(p) == tx[p].seen

\* The rows of the snapshot that still match once their locks are granted.
StillRenewable(p) == tx[p].seen \cap Renewable(tx[p].user)

\* The locks are granted: extend the newest row.
PayLock(p) ==
  /\ tx[p].op = "pay" /\ tx[p].pc = "lock"
  /\ \A s \in tx[p].seen : Free(p, s)
  /\ Take(p, tx[p].seen)
  /\ IF StillRenewable(p) = {}
     THEN Goto(p, "insert")
     ELSE \E s \in Newest(StillRenewable(p)) :
            tx' = [tx EXCEPT ![p].pc = "panel", ![p].mode = "extend", ![p].sub = s,
                             ![p].exp = Extended(s, tx[p].days, tx[p].now)]
  /\ UNCHANGED <<now, users, order, sub, code, trial, charge, panel, grants, term>>

\* No row to extend: INSERT one and flush it.
PayInsert(p, s) ==
  /\ tx[p].op = "pay"
  /\ InsertSub(p, s, "fk")
  /\ UNCHANGED <<now, users, order, sub, code, trial, charge, lock, panel, grants, term>>

\* The foreign key check of the INSERT needs FOR KEY SHARE on the users row,
\* which FOR UPDATE of another session blocks.
PayForeignKey(p) ==
  /\ tx[p].op = "pay" /\ tx[p].pc = "fk"
  /\ Free(p, tx[p].user)
  /\ Goto(p, "panel")
  /\ UNCHANGED <<now, users, order, sub, code, trial, charge, lock, panel, grants, term>>

\* The UPDATE that revives an EXPIRED row enters the index only now.
Revives(p) == tx[p].mode = "extend" /\ sub[tx[p].sub].status = "EXPIRED"

\* The row mark_paid writes, new or extended.
PaidRow(p) ==
  IF tx[p].mode = "insert"
  THEN [NoSub EXCEPT !.status = "ACTIVE", !.user = tx[p].user, !.plan = tx[p].plan,
                     !.started = tx[p].now, !.exp = tx[p].exp, !.order = tx[p].order,
                     !.handle = TRUE]
  ELSE [sub[tx[p].sub] EXCEPT !.status = "ACTIVE", !.exp = tx[p].exp,
                              !.order = tx[p].order, !.handle = TRUE]

PayCommit(p) ==
  /\ tx[p].op = "pay" /\ tx[p].pc = "commit"
  /\ Revives(p) => /\ IndexHolders(p, tx[p].user) = {}
                   /\ ~IndexTaken(p, tx[p].user)
  /\ sub' = [sub EXCEPT ![tx[p].sub] = PaidRow(p)]
  /\ order' = [order EXCEPT ![tx[p].order].status = "PAID",
                            ![tx[p].order].charge = tx[p].charge]
  /\ grants' = [grants EXCEPT ![tx[p].order] = @ + 1]
  /\ term' = [term EXCEPT ![tx[p].sub] = @ + tx[p].days]
  /\ End(p)
  /\ UNCHANGED <<now, users, code, trial, charge, panel>>

-----------------------------------------------------------------------------
(* refund: the transition after Telegram has returned the money.           *)

\* begin; lock the PAID order; find the subscription it paid last.
RefundBegin(p, o) ==
  /\ Idle(p)
  /\ Free(p, o)
  /\ order[o].status = "PAID"
  /\ Take(p, {o})
  /\ tx' = [tx EXCEPT ![p] = [IdleTx EXCEPT !.op = "refund", !.pc = "lock", !.order = o,
                                !.seen = {s \in Subs : sub[s].order = o}]]
  /\ UNCHANGED <<now, users, order, sub, code, trial, charge, panel, grants, term>>

\* Mutant: the money goes back and the subscription stays.
NothingFunded(p) == {}

\* The subscription found, if it is still live and paid by the order.
Funded(p) == {s \in tx[p].seen : sub[s].order = tx[p].order /\ sub[s].status \in Live}

\* Once its lock is granted it is revoked.  The panel is not told.
RefundCommit(p) ==
  /\ tx[p].op = "refund" /\ tx[p].pc = "lock"
  /\ \A s \in tx[p].seen : Free(p, s)
  /\ sub' = [s \in Subs |-> IF s \in Funded(p)
                            THEN [sub[s] EXCEPT !.status = "REVOKED", !.order = None]
                            ELSE sub[s]]
  /\ order' = [order EXCEPT ![tx[p].order].status = "REFUNDED"]
  /\ End(p)
  /\ UNCHANGED <<now, users, code, trial, charge, panel, grants, term>>

-----------------------------------------------------------------------------

PaymentStep(p) ==
  \/ \E u \in Users, pl \in Plans : OrderBegin(p, u, pl)
  \/ \E o \in Orders : OrderCommit(p, o)
  \/ \E c \in Charges : PayBegin(p, c)
  \/ PayRead(p)
  \/ PayLock(p)
  \/ \E s \in Subs : PayInsert(p, s)
  \/ PayForeignKey(p)
  \/ PayCommit(p)
  \/ \E o \in Orders : RefundBegin(p, o)
  \/ RefundCommit(p)

=============================================================================
