------------------------------- MODULE Ledger -------------------------------
(***************************************************************************)
(* What the subscription service promises, without sessions, locks or a    *)
(* panel: every purchase, redemption, trial, refund and withdrawal is one  *)
(* atomic step on a ledger in which a user holds at most one subscription. *)
(***************************************************************************)
EXTENDS Naturals

CONSTANTS Users, Orders, Codes, Subs, None, Plans, Days, TrialDays, CodePlan, SingleUse

VARIABLES
  bill,     \* order -> its status, buyer and plan
  voucher,  \* code -> its status
  trialled, \* users who have had their trial
  holds,    \* user -> the subscription the user holds, or None
  fund,     \* subscription -> the order that paid for it last, or None
  term      \* subscription -> days granted to it

ledger == <<bill, voucher, trialled, holds, fund, term>>

Init ==
  /\ bill = [o \in Orders |-> [status |-> "NONE", user |-> None, plan |-> None]]
  /\ voucher = [k \in Codes |-> "ACTIVE"]
  /\ trialled = {}
  /\ holds = [u \in Users |-> None]
  /\ fund = [s \in Subs |-> None]
  /\ term = [s \in Subs |-> 0]

\* s is u's own subscription or one nobody holds.
Usable(u, s) == s = holds[u] \/ \A v \in Users : holds[v] # s

\* d days go to s, which u holds from now on.
Grant(u, s, d) ==
  /\ term' = [term EXCEPT ![s] = @ + d]
  /\ Usable(u, s)
  /\ holds' = [holds EXCEPT ![u] = s]

\* A new order; the buyer's previous unpaid one lapses.
Open(u, o, pl) ==
  /\ bill[o].status = "NONE"
  /\ bill' = [d \in Orders |->
       IF d = o THEN [status |-> "PENDING", user |-> u, plan |-> pl]
       ELSE IF bill[d].user = u /\ bill[d].status = "PENDING"
            THEN [bill[d] EXCEPT !.status = "FAILED"]
       ELSE bill[d]]
  /\ UNCHANGED <<voucher, trialled, holds, fund, term>>

\* The order is settled and its days go to the subscription the buyer holds.
Settle(o, s) ==
  LET u == bill[o].user IN
  /\ bill[o].status = "PENDING"
  /\ Grant(u, s, Days[bill[o].plan])
  /\ holds[u] \in {None, s}
  /\ bill' = [bill EXCEPT ![o].status = "PAID"]
  /\ fund' = [fund EXCEPT ![s] = o]
  /\ UNCHANGED <<voucher, trialled>>

\* A code is redeemed, on the subscription held or on one that replaces it.
Redeem(u, k, s) ==
  /\ voucher[k] = "ACTIVE"
  /\ voucher' = [voucher EXCEPT ![k] = IF k \in SingleUse THEN "USED" ELSE @]
  /\ Grant(u, s, Days[CodePlan[k]])
  /\ UNCHANGED <<bill, trialled, fund>>

StartTrial(u, s) ==
  /\ u \notin trialled
  /\ trialled' = trialled \cup {u}
  /\ holds[u] = None
  /\ Grant(u, s, TrialDays)
  /\ UNCHANGED <<bill, voucher, fund>>

\* The money goes back; a subscription still resting on it ends.
Refund(o) ==
  LET ends == {u \in Users : holds[u] # None /\ fund[holds[u]] = o} IN
  /\ bill[o].status = "PAID"
  /\ bill' = [bill EXCEPT ![o].status = "REFUNDED"]
  /\ fund' = [s \in Subs |-> IF \E u \in ends : holds[u] = s THEN None ELSE fund[s]]
  /\ holds' = [u \in Users |-> IF u \in ends THEN None ELSE holds[u]]
  /\ UNCHANGED <<voucher, trialled, term>>

Withdraw(u) ==
  /\ holds[u] # None
  /\ holds' = [holds EXCEPT ![u] = None]
  /\ UNCHANGED <<bill, voucher, trialled, fund, term>>

Void(k) ==
  /\ voucher[k] # "REVOKED"
  /\ voucher' = [voucher EXCEPT ![k] = "REVOKED"]
  /\ UNCHANGED <<bill, trialled, holds, fund, term>>

Next ==
  \/ \E u \in Users, o \in Orders, pl \in Plans : Open(u, o, pl)
  \/ \E o \in Orders, s \in Subs : Settle(o, s)
  \/ \E u \in Users, k \in Codes, s \in Subs : Redeem(u, k, s)
  \/ \E u \in Users, s \in Subs : StartTrial(u, s)
  \/ \E o \in Orders : Refund(o)
  \/ \E u \in Users : Withdraw(u)
  \/ \E k \in Codes : Void(k)

Spec == Init /\ [][Next]_ledger

=============================================================================
