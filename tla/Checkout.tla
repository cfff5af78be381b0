------------------------------ MODULE Checkout ------------------------------
(***************************************************************************)
(* A purchase as the bot sees it: handlers/purchase.py, the API client and *)
(* the dispatcher, against Telegram on one side and the API on the other.  *)
(* One user.  What an order goes through inside the API is modules         *)
(* Payments and Ledger; here each of its transactions is one step.         *)
(***************************************************************************)
EXTENDS Integers, FiniteSets

CONSTANTS
  Invoices,     \* orders, in the end as many as the user starts
  Charges,      \* taps on the pay button
  Attempts,     \* stop_after_attempt of the client
  Nobody        \* no charge, no invoice

ASSUME CheckoutAssumption ==
  Nobody \notin Charges \cup Invoices /\ Attempts \in Nat \ {0}

VARIABLES
  order,      \* status per order
  payer,      \* the charge an order was paid with
  latest,     \* the order the subscription rests on, last_order_id
  invoices,   \* those sent to the user
  charge,     \* per charge: where it is, for which invoice, attempts made
  underway,   \* charges whose report is on its way to the API
  told        \* what the bot has answered

checkoutVars == <<order, payer, latest, invoices, charge, underway, told>>

CheckoutTypeOK ==
  /\ order \in [Invoices -> {"none", "PENDING", "PAID", "FAILED"}]
  /\ payer \in [Invoices -> Charges \cup {Nobody}]
  /\ latest \in Invoices \cup {Nobody}
  /\ invoices \subseteq Invoices /\ underway \subseteq Charges
  /\ charge \in [Charges -> [at : {"free", "approved", "charged", "report", "wait", "over"},
                             for : Invoices \cup {Nobody}, tries : 0 .. Attempts]]
  /\ told \in [Charges -> {"nothing", "paid", "failed"}]

CheckoutInit ==
  /\ order = [i \in Invoices |-> "none"]
  /\ payer = [i \in Invoices |-> Nobody]
  /\ latest = Nobody
  /\ invoices = {} /\ underway = {}
  /\ charge = [c \in Charges |-> [at |-> "free", for |-> Nobody, tries |-> 0]]
  /\ told = [c \in Charges |-> "nothing"]

At(c, where) == charge[c].at = where
Move(c, where) == charge' = [charge EXCEPT ![c].at = where]

-----------------------------------------------------------------------------
(* The user, Telegram and the bot's handlers up to the charge              *)

\* create_order: a draft that is not stale is offered again, a stale one fails.
BuyPlan(i) ==
  /\ \/ order[i] = "PENDING" /\ UNCHANGED order
     \/ /\ order[i] = "none"
        /\ order' = [j \in Invoices |-> IF j = i THEN "PENDING"
                                        ELSE IF order[j] = "PENDING" THEN "FAILED" ELSE order[j]]
  /\ invoices' = invoices \cup {i} \/ UNCHANGED invoices
  /\ UNCHANGED <<payer, latest, charge, underway, told>>

\* on_pre_checkout answers ok for a PENDING order ...
Approve(c, i) ==
  /\ At(c, "free") /\ i \in invoices /\ order[i] = "PENDING"
  /\ charge' = [charge EXCEPT ![c] = [at |-> "approved", for |-> i, tries |-> 0]]
  /\ UNCHANGED <<order, payer, latest, invoices, underway, told>>

\* ... and refuses any other.
Refuse(i) ==
  /\ i \in invoices /\ order[i] # "PENDING"
  /\ UNCHANGED checkoutVars

\* Telegram takes the Stars, or the user thinks better of it.
Charge(c) ==
  /\ At(c, "approved")
  /\ Move(c, "charged") \/ charge' = [charge EXCEPT ![c] = [@ EXCEPT !.at = "free", !.for = Nobody]]
  /\ UNCHANGED <<order, payer, latest, invoices, underway, told>>

-----------------------------------------------------------------------------
(* on_successful_payment and ApiClient._request                            *)

\* successful_payment is a message: the throttle may drop it among others.
Throttle(c) ==
  /\ At(c, "charged") /\ Move(c, "over")
  /\ UNCHANGED <<order, payer, latest, invoices, underway, told>>

Handle(c) ==
  /\ At(c, "charged") /\ Move(c, "report")
  /\ UNCHANGED <<order, payer, latest, invoices, underway, told>>

Report(c) ==
  /\ At(c, "report")
  /\ charge' = [charge EXCEPT ![c].at = "wait", ![c].tries = @ + 1]
  /\ underway' = underway \cup {c}
  /\ UNCHANGED <<order, payer, latest, invoices, told>>

\* The answer reaches the handler if it still waits; or it is lost.
Answer(c, what) ==
  \/ /\ At(c, "wait") /\ Move(c, "over")
     /\ told' = [told EXCEPT ![c] = what]
  \/ UNCHANGED <<charge, told>>

\* mark_paid commits.
MarkPaid(c) ==
  LET i == charge[c].for IN
  /\ c \in underway /\ order[i] = "PENDING"
  /\ order' = [order EXCEPT ![i] = "PAID"]
  /\ payer' = [payer EXCEPT ![i] = c]
  /\ latest' = i
  /\ underway' = underway \ {c}
  /\ Answer(c, "paid")
  /\ UNCHANGED invoices

\* Mutant: a report that was processed before is refused.
RefuseReplay(c) == FALSE

\* The report was processed before, and the subscription still rests on it.
Replayed(c) == LET i == charge[c].for IN payer[i] = c /\ latest = i

Replay(c) ==
  /\ c \in underway /\ Replayed(c)
  /\ underway' = underway \ {c}
  /\ Answer(c, "paid")
  /\ UNCHANGED <<order, payer, latest, invoices>>

\* OrderNotPending, a 409: PAID by another charge, FAILED, or a replay after a
\* newer order has taken over the subscription.
Deny(c) ==
  /\ c \in underway /\ order[charge[c].for] # "PENDING" /\ ~Replayed(c)
  /\ underway' = underway \ {c}
  /\ Answer(c, "failed")
  /\ UNCHANGED <<order, payer, latest, invoices>>

\* Neither database nor panel has to work: 5xx, rolled back.
Break(c) ==
  /\ c \in underway
  /\ underway' = underway \ {c}
  /\ UNCHANGED <<order, payer, latest, invoices, charge, told>>

\* A connection error or a 5xx is tried again, then raised; the dispatcher logs
\* what a handler raises and goes on with the next update.
Retry(c) ==
  /\ At(c, "wait")
  /\ Move(c, IF charge[c].tries < Attempts THEN "report" ELSE "over")
  /\ UNCHANGED <<order, payer, latest, invoices, underway, told>>

\* The total timeout is no connection error: raised at once.
TimeOut(c) ==
  /\ At(c, "wait") /\ Move(c, "over")
  /\ UNCHANGED <<order, payer, latest, invoices, underway, told>>

BotRestarts ==
  /\ charge' = [c \in Charges |-> IF charge[c].at \in {"report", "wait"}
                                  THEN [charge[c] EXCEPT !.at = "over"] ELSE charge[c]]
  /\ UNCHANGED <<order, payer, latest, invoices, underway, told>>

Serve(c)   == MarkPaid(c) \/ Replay(c) \/ Deny(c) \/ Break(c)
BotStep(c) == Handle(c) \/ Report(c) \/ Retry(c)

CheckoutNext ==
  \/ \E c \in Charges : Charge(c) \/ Throttle(c) \/ TimeOut(c) \/ BotStep(c) \/ Serve(c)
  \/ \E i \in Invoices : BuyPlan(i) \/ Refuse(i) \/ \E c \in Charges : Approve(c, i)
  \/ BotRestarts

CheckoutSpec == CheckoutInit /\ [][CheckoutNext]_checkoutVars

-----------------------------------------------------------------------------
(* Properties                                                              *)

\* Whatever is lost, repeated or overtaken on the way, who reads "paid" has been
\* granted the days.  Who reads "failed" has not, with one exception that the code
\* makes against the docstring of mark_paid ("return the existing state"): a
\* report that the client had to repeat, and that meets a subscription a newer
\* order has taken over in the meantime, is answered OrderNotPending, although
\* its first copy was granted.
ToldTheTruth ==
  \A c \in Charges : LET i == charge[c].for IN
    /\ told[c] = "paid"   => order[i] = "PAID" /\ payer[i] = c
    /\ told[c] = "failed" => payer[i] # c \/ (latest # i /\ charge[c].tries >= 2)

\* ARCHITECTURE.md 23: "the bot answers 5xx, Telegram repeats successful_payment"
\* until the order is PAID: every charge is granted in the end.
ChargeIsGranted ==
  \A c \in Charges : At(c, "charged") ~> (\E i \in Invoices : payer[i] = c)
=============================================================================
