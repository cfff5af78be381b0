---------------------------- MODULE Entitlements ----------------------------
(***************************************************************************)
(* Everything that creates, extends or withdraws a subscription, running   *)
(* concurrently over one database and one panel: Payments and Activation   *)
(* composed, with the properties that make the whole correct.              *)
(***************************************************************************)
EXTENDS Payments, Activation

Next ==
  \/ \E p \in Sessions :
       \/ PaymentStep(p)
       \/ ActivationStep(p)
       \/ PanelAnswers(p)
       \/ PanelFails(p)
       \/ Abort(p)
  \/ \E c \in Charges, o \in Orders : Precheck(c, o)
  \/ AdminStep
  \/ Tick

Spec == Init /\ [][Next]_vars

-----------------------------------------------------------------------------
(* Safety                                                                  *)

\* A user never has two live subscriptions, whichever handlers race: this is
\* what get_subscription, the panel and the reminders all take for granted.
OneLiveSubscription ==
  \A s, z \in Subs :
    /\ sub[s].status \in Live /\ sub[z].status \in Live
    /\ sub[s].user = sub[z].user
    => s = z

\* Every order grants days exactly once, at the commit that makes it PAID,
\* however often and however concurrently successful_payment is reported.
\* A single-use code is spent exactly when it has granted, once.
GrantedOnce ==
  /\ \A o \in Orders :
       grants[o] = IF order[o].status \in {"PAID", "REFUNDED"} THEN 1 ELSE 0
  /\ \A k \in SingleUse :
       /\ grants[k] <= 1
       /\ code[k] = "ACTIVE" => grants[k] = 0

\* A live subscription never rests on an order that is not paid, or no longer:
\* a refund and a renewal that race leave it on the newer order or revoked.
LiveIsPaidFor ==
  \A s \in Subs : sub[s].status \in Live /\ sub[s].order # None
                  => order[sub[s].order].status = "PAID"

\* No grant is lost: a live subscription lasts at least as long as all the
\* days that payments and codes have added to it, even when two handlers
\* extend it at once.
NoGrantLost ==
  \A s \in Subs : sub[s].status \in Live => sub[s].exp >= sub[s].started + term[s]

\* The term that the panel holds for a live subscription, served or not, is never
\* shorter than the database granted.
PanelCovers ==
  \A s \in Subs : sub[s].status \in Live /\ sub[s].handle => panel[s].days >= term[s]

\* One trial per user for ever, although the trials row is looked up without
\* a lock: a second trial is refused even after the first was revoked.
OneTrial ==
  \A s, z \in Subs \ DOMAIN Legacy :
    sub[s].plan = Trial /\ sub[z].plan = Trial /\ sub[s].user = sub[z].user => s = z

\* A user never has two orders that can be paid.
OnePendingOrder ==
  \A o, d \in Orders :
    /\ order[o].status = "PENDING" /\ order[d].status = "PENDING"
    /\ order[o].user = order[d].user
    => o = d

-----------------------------------------------------------------------------
(* Action properties                                                       *)

\* A payment extends the subscription the user has: when it finds a live one it
\* takes that one in hand, never an older expired row (which the index would
\* then refuse for ever), and at its commit no other one is live.
PaymentExtendsLive ==
  [][/\ \A p \in Sessions :
          /\ tx[p].op = "pay" /\ tx[p].mode = "none" /\ tx'[p].mode = "extend"
          /\ tx[p].seen \cap LiveSubs(tx[p].user) # {}
          => sub[tx'[p].sub].status \in Live
     /\ \A o \in Orders : order[o].status = "PENDING" /\ order'[o].status = "PAID"
          => \A s \in LiveSubs(order[o].user) :
               sub'[s].status = "ACTIVE" /\ sub'[s].order = o /\ sub'[s].exp >= sub[s].exp]_vars

\* An order moves along its documented life cycle only.  Paying an order and
\* failing it as stale exclude each other even when both are under way.
OrderLifeCycle ==
  [][\A o \in Orders : order'[o].status # order[o].status =>
       <<order[o].status, order'[o].status>> \in
         {<<"NONE", "PENDING">>, <<"PENDING", "PAID">>, <<"PENDING", "FAILED">>,
          <<"PAID", "REFUNDED">>}]_vars

\* A withdrawn subscription stays withdrawn: no handler that read it while it
\* was live brings it back or changes its term.
RevokedIsFinal ==
  [][\A s \in Subs : sub[s].status = "REVOKED" => sub'[s] = sub[s]]_vars

\* The panel serves a subscription, for as long as the database granted.
Served(s) == panel[s].state = "enabled" /\ panel[s].days >= term[s]

\* Days are granted only on a subscription that the panel serves from then on:
\* every commit comes after a call that the panel applied, and none goes through
\* on a user that is disabled there.  Only an activation that is replacing a live
\* subscription takes the service away from it; when that activation is rolled
\* back the subscription stays live and is served no more.
GrantsAreServed ==
  [][\A s \in Subs :
       /\ (sub[s].status \notin Live /\ sub'[s].status \in Live) \/ term'[s] # term[s]
            => Served(s)'
       /\ sub[s].status \in Live /\ Served(s) /\ ~Served(s)'
            => \E p \in Sessions : tx[p].pc = "unlink" /\ tx[p].old = s]_vars

-----------------------------------------------------------------------------
(* Refinement                                                              *)

\* The subscription a user holds: the live one.
Held(u) == IF LiveSubs(u) = {} THEN None ELSE CHOOSE s \in LiveSubs(u) : TRUE

Promise == INSTANCE Ledger WITH
  bill     <- [o \in Orders |-> [status |-> order[o].status, user |-> order[o].user,
                                 plan |-> order[o].plan]],
  voucher  <- code,
  trialled <- trial,
  holds    <- [u \in Users |-> Held(u)],
  fund     <- [s \in Subs |-> sub[s].order]

\* The handlers keep the promise: however their sessions interleave, wait, fail
\* and are retried, each commit is one atomic entry in the ledger.
KeepsLedger == Promise!Spec

=============================================================================
