---------------------------- MODULE RequestsProofs ----------------------------
(***************************************************************************)
(* Requests: what the bot answers about a purchase (Checkout), and what    *)
(* the limiters let through (Console), for every number of charges,        *)
(* invoices, concurrent requests and every limit.                          *)
(***************************************************************************)
EXTENDS Console, Checkout, TLAPS

-----------------------------------------------------------------------------
(* Checkout: an order that was paid or has failed stays so, a charge keeps *)
(* its invoice, and an answer is the last that happens to the handler.     *)

Places == {"free", "approved", "charged", "report", "wait", "over"}

ChargeOK(c) ==
  LET i == charge[c].for IN
  /\ i # Nobody => order[i] # "none"
  /\ charge[c].at # "free" => i # Nobody
  /\ charge[c].at \in {"approved", "charged"} => charge[c].tries = 0
  /\ charge[c].at = "report" => charge[c].tries < Attempts
  /\ c \in underway => charge[c].at \in {"report", "wait", "over"} /\ charge[c].tries >= 1
  /\ i # Nobody /\ payer[i] = c => /\ charge[c].at \in {"report", "wait", "over"}
                                   /\ charge[c].tries >= IF c \in underway THEN 2 ELSE 1
  /\ told[c] # "nothing" => charge[c].at = "over"
  /\ told[c] = "paid" => order[i] = "PAID" /\ payer[i] = c
  /\ told[c] = "failed" => /\ order[i] \in {"PAID", "FAILED"}
                           /\ payer[i] # c \/ (latest # i /\ charge[c].tries >= 2)

CheckoutInv ==
  /\ CheckoutTypeOK
  /\ \A i \in Invoices : payer[i] # Nobody => order[i] = "PAID"
  /\ \A c \in Charges : ChargeOK(c)

LEMMA CheckoutInitInv == CheckoutInit => CheckoutInv
  <1> SUFFICES ASSUME CheckoutInit PROVE CheckoutInv
    OBVIOUS
  <1>1. CheckoutTypeOK
    BY CheckoutAssumption DEF CheckoutInit, CheckoutTypeOK
  <1>2. \A i \in Invoices : payer[i] = Nobody
    BY DEF CheckoutInit
  <1>3. ASSUME NEW c \in Charges PROVE ChargeOK(c)
    BY DEF CheckoutInit, ChargeOK
  <1> QED BY <1>1, <1>2, <1>3 DEF CheckoutInv

\* The types of one charge.
LEMMA ChargeType ==
  ASSUME CheckoutInv, NEW c \in Charges
  PROVE  /\ charge[c] \in [at : Places, for : Invoices \cup {Nobody}, tries : 0 .. Attempts]
         /\ charge[c].at \in Places /\ charge[c].for \in Invoices \cup {Nobody}
         /\ charge[c].tries \in 0 .. Attempts
         /\ charge[c].at # "free" => charge[c].for \in Invoices
  BY DEF CheckoutInv, CheckoutTypeOK, ChargeOK, Places

LEMMA TwoFields ==
  ASSUME NEW x \in [at : Places, for : Invoices \cup {Nobody}, tries : 0 .. Attempts], NEW w, NEW t
  PROVE  [x EXCEPT !.at = w, !.tries = t] = [at |-> w, for |-> x.for, tries |-> t]
  <1> DEFINE y == [x EXCEPT !.at = w]
  <1>1. y = [at |-> w, for |-> x.for, tries |-> x.tries]
    OBVIOUS
  <1> HIDE DEF y
  <1>2. [y EXCEPT !.tries = t] = [at |-> w, for |-> x.for, tries |-> t]
    BY <1>1
  <1> QED BY <1>2 DEF y

LEMMA MoveRecord ==
  ASSUME CheckoutInv, NEW c \in Charges, NEW where, Move(c, where)
  PROVE  charge' = [charge EXCEPT ![c] = [at |-> where, for |-> charge[c].for, tries |-> charge[c].tries]]
  <1>1. [charge[c] EXCEPT !.at = where] = [at |-> where, for |-> charge[c].for, tries |-> charge[c].tries]
    BY ChargeType
  <1> QED BY <1>1 DEF Move

\* A step in which one charge moves and no order does.
LEMMA MoveStep ==
  ASSUME CheckoutInv, NEW c \in Charges,
         NEW r \in [at : Places, for : Invoices \cup {Nobody}, tries : 0 .. Attempts],
         charge' = [charge EXCEPT ![c] = r], UNCHANGED <<order, payer, latest, invoices>>,
         underway' \subseteq underway \cup {c},
         told' = told \/ (\E a \in {"paid", "failed"} : told' = [told EXCEPT ![c] = a]),
         ChargeOK(c)'
  PROVE  CheckoutInv'
  <1>1. CheckoutTypeOK'
    BY DEF CheckoutInv, CheckoutTypeOK, Places
  <1>2. ASSUME NEW d \in Charges PROVE ChargeOK(d)'
    <2>1. CASE d = c
      BY <2>1
    <2>2. CASE d # c
      <3>1. charge'[d] = charge[d] /\ told'[d] = told[d] /\ (d \in underway' => d \in underway)
        BY <2>2 DEF CheckoutInv, CheckoutTypeOK
      <3> QED BY <3>1 DEF CheckoutInv, ChargeOK
    <2> QED BY <2>1, <2>2
  <1> QED BY <1>1, <1>2 DEF CheckoutInv

\* A step in which no charge moves and no answer is given.
LEMMA OrderStep ==
  ASSUME CheckoutInv, UNCHANGED <<payer, latest, charge, underway, told>>,
         order' \in [Invoices -> {"none", "PENDING", "PAID", "FAILED"}],
         invoices' \subseteq Invoices,
         \A i \in Invoices : \/ order'[i] = order[i]
                             \/ order[i] \in {"none", "PENDING"} /\ order'[i] # "none"
  PROVE  CheckoutInv'
  <1>1. CheckoutTypeOK'
    BY DEF CheckoutInv, CheckoutTypeOK
  <1>2. ASSUME NEW c \in Charges PROVE ChargeOK(c)'
    <2>1. ChargeOK(c) /\ charge[c].for \in Invoices \cup {Nobody}
      BY ChargeType DEF CheckoutInv
    <2>2. CASE charge[c].for = Nobody
      BY <2>1, <2>2 DEF ChargeOK
    <2>3. CASE charge[c].for \in Invoices
      BY <2>1, <2>3 DEF ChargeOK
    <2> QED BY <2>1, <2>2, <2>3
  <1>3. \A i \in Invoices : payer'[i] # Nobody => order'[i] = "PAID"
    BY DEF CheckoutInv
  <1> QED BY <1>1, <1>2, <1>3 DEF CheckoutInv

-----------------------------------------------------------------------------
(* The bot and Telegram                                                    *)

LEMMA ThrottleStep == ASSUME CheckoutInv, NEW c \in Charges, Throttle(c) PROVE CheckoutInv'
  <1> DEFINE r == [at |-> "over", for |-> charge[c].for, tries |-> charge[c].tries]
  <1>1. charge[c].at = "charged" /\ UNCHANGED <<order, payer, latest, invoices, underway, told>>
    BY DEF Throttle, At
  <1>2. charge' = [charge EXCEPT ![c] = r]
    BY MoveRecord DEF Throttle
  <1>3. r \in [at : Places, for : Invoices \cup {Nobody}, tries : 0 .. Attempts]
    BY <1>1, ChargeType, CheckoutAssumption DEF Places, CheckoutInv, ChargeOK
  <1>4. charge'[c] = r
    BY <1>2 DEF CheckoutInv, CheckoutTypeOK
  <1>5. ChargeOK(c)'
    BY <1>1, <1>3, <1>4, ChargeType, CheckoutAssumption DEF CheckoutInv, ChargeOK
  <1> HIDE DEF r
  <1> QED BY <1>1, <1>2, <1>3, <1>5, MoveStep

LEMMA HandleStep == ASSUME CheckoutInv, NEW c \in Charges, Handle(c) PROVE CheckoutInv'
  <1> DEFINE r == [at |-> "report", for |-> charge[c].for, tries |-> charge[c].tries]
  <1>1. charge[c].at = "charged" /\ UNCHANGED <<order, payer, latest, invoices, underway, told>>
    BY DEF Handle, At
  <1>2. charge' = [charge EXCEPT ![c] = r]
    BY MoveRecord DEF Handle
  <1>3. r \in [at : Places, for : Invoices \cup {Nobody}, tries : 0 .. Attempts]
    BY <1>1, ChargeType, CheckoutAssumption DEF Places, CheckoutInv, ChargeOK
  <1>4. charge'[c] = r
    BY <1>2 DEF CheckoutInv, CheckoutTypeOK
  <1>5. ChargeOK(c)'
    BY <1>1, <1>3, <1>4, ChargeType, CheckoutAssumption DEF CheckoutInv, ChargeOK
  <1> HIDE DEF r
  <1> QED BY <1>1, <1>2, <1>3, <1>5, MoveStep

LEMMA ReportStep == ASSUME CheckoutInv, NEW c \in Charges, Report(c) PROVE CheckoutInv'
  <1> DEFINE r == [at |-> "wait", for |-> charge[c].for, tries |-> charge[c].tries + 1]
  <1>1. charge[c].at = "report" /\ underway' = underway \cup {c}
        /\ UNCHANGED <<order, payer, latest, invoices, told>>
    BY DEF Report, At
  <1>2. charge' = [charge EXCEPT ![c] = r]
    <2>1. charge' = [charge EXCEPT ![c] = [charge[c] EXCEPT !.at = "wait", !.tries = charge[c].tries + 1]]
      BY DEF Report, CheckoutInv, CheckoutTypeOK
    <2>2. [charge[c] EXCEPT !.at = "wait", !.tries = charge[c].tries + 1] = r
      BY ChargeType, TwoFields
    <2> QED BY <2>1, <2>2
  <1>3. r \in [at : Places, for : Invoices \cup {Nobody}, tries : 0 .. Attempts]
    <2>1. charge[c].tries < Attempts
      BY <1>1 DEF CheckoutInv, ChargeOK
    <2>2. charge[c].tries + 1 \in 0 .. Attempts
      BY <2>1, ChargeType, CheckoutAssumption
    <2> QED BY <2>2, ChargeType DEF Places
  <1>4. charge'[c] = r
    BY <1>2 DEF CheckoutInv, CheckoutTypeOK
  <1>5. ChargeOK(c)'
    BY <1>1, <1>3, <1>4, ChargeType, CheckoutAssumption DEF CheckoutInv, ChargeOK
  <1> HIDE DEF r
  <1> QED BY <1>1, <1>2, <1>3, <1>5, MoveStep

LEMMA RetryStep == ASSUME CheckoutInv, NEW c \in Charges, Retry(c) PROVE CheckoutInv'
  <1> DEFINE r == [at |-> IF charge[c].tries < Attempts THEN "report" ELSE "over",
                for |-> charge[c].for, tries |-> charge[c].tries]
  <1>1. charge[c].at = "wait" /\ UNCHANGED <<order, payer, latest, invoices, underway, told>>
    BY DEF Retry, At
  <1>2. charge' = [charge EXCEPT ![c] = r]
    BY MoveRecord DEF Retry
  <1>3. r \in [at : Places, for : Invoices \cup {Nobody}, tries : 0 .. Attempts]
    BY <1>1, ChargeType, CheckoutAssumption DEF Places, CheckoutInv, ChargeOK
  <1>4. charge'[c] = r
    BY <1>2 DEF CheckoutInv, CheckoutTypeOK
  <1>5. ChargeOK(c)'
    BY <1>1, <1>3, <1>4, ChargeType, CheckoutAssumption DEF CheckoutInv, ChargeOK
  <1> HIDE DEF r
  <1> QED BY <1>1, <1>2, <1>3, <1>5, MoveStep

LEMMA TimeOutStep == ASSUME CheckoutInv, NEW c \in Charges, TimeOut(c) PROVE CheckoutInv'
  <1> DEFINE r == [at |-> "over", for |-> charge[c].for, tries |-> charge[c].tries]
  <1>1. charge[c].at = "wait" /\ UNCHANGED <<order, payer, latest, invoices, underway, told>>
    BY DEF TimeOut, At
  <1>2. charge' = [charge EXCEPT ![c] = r]
    BY MoveRecord DEF TimeOut
  <1>3. r \in [at : Places, for : Invoices \cup {Nobody}, tries : 0 .. Attempts]
    BY <1>1, ChargeType, CheckoutAssumption DEF Places, CheckoutInv, ChargeOK
  <1>4. charge'[c] = r
    BY <1>2 DEF CheckoutInv, CheckoutTypeOK
  <1>5. ChargeOK(c)'
    BY <1>1, <1>3, <1>4, ChargeType, CheckoutAssumption DEF CheckoutInv, ChargeOK
  <1> HIDE DEF r
  <1> QED BY <1>1, <1>2, <1>3, <1>5, MoveStep

LEMMA ChargeStep == ASSUME CheckoutInv, NEW c \in Charges, Charge(c) PROVE CheckoutInv'
  <1>1. charge[c].at = "approved" /\ UNCHANGED <<order, payer, latest, invoices, underway, told>>
    BY DEF Charge, At
  <1>2. ChargeOK(c) /\ charge[c].tries = 0 /\ charge[c].for \in Invoices /\ c \notin underway
        /\ told[c] = "nothing"
    BY <1>1, ChargeType DEF CheckoutInv, ChargeOK
  <1>3. CASE Move(c, "charged")
    <2> DEFINE r == [at |-> "charged", for |-> charge[c].for, tries |-> charge[c].tries]
    <2>1. charge' = [charge EXCEPT ![c] = r]
      BY <1>3, MoveRecord
    <2>2. r \in [at : Places, for : Invoices \cup {Nobody}, tries : 0 .. Attempts]
      BY ChargeType DEF Places
    <2>3. charge'[c] = r
      BY <2>1 DEF CheckoutInv, CheckoutTypeOK
    <2>4. ChargeOK(c)'
      BY <1>1, <1>2, <2>3 DEF ChargeOK
    <2> HIDE DEF r
    <2> QED BY <1>1, <2>1, <2>2, <2>4, MoveStep
  <1>4. CASE charge' = [charge EXCEPT ![c] = [@ EXCEPT !.at = "free", !.for = Nobody]]
    <2> DEFINE r == [at |-> "free", for |-> Nobody, tries |-> charge[c].tries]
               y == [charge[c] EXCEPT !.at = "free"]
    <2>1. y = [at |-> "free", for |-> charge[c].for, tries |-> charge[c].tries]
      BY ChargeType
    <2> HIDE DEF y
    <2>2. [y EXCEPT !.for = Nobody] = r
      BY <2>1
    <2>3. charge' = [charge EXCEPT ![c] = r]
      BY <1>4, <2>2 DEF y
    <2>4. r \in [at : Places, for : Invoices \cup {Nobody}, tries : 0 .. Attempts]
      BY ChargeType DEF Places
    <2>5. charge'[c] = r
      BY <2>3 DEF CheckoutInv, CheckoutTypeOK
    <2>6. ChargeOK(c)'
      BY <1>1, <1>2, <2>5 DEF ChargeOK
    <2> HIDE DEF r
    <2> QED BY <1>1, <2>3, <2>4, <2>6, MoveStep
  <1> QED BY <1>3, <1>4 DEF Charge

LEMMA ApproveStep ==
  ASSUME CheckoutInv, NEW c \in Charges, NEW i \in Invoices, Approve(c, i) PROVE CheckoutInv'
  <1> DEFINE r == [at |-> "approved", for |-> i, tries |-> 0]
  <1>1. charge[c].at = "free" /\ order[i] = "PENDING" /\ charge' = [charge EXCEPT ![c] = r]
        /\ UNCHANGED <<order, payer, latest, invoices, underway, told>>
    BY DEF Approve, At
  <1>2. r \in [at : Places, for : Invoices \cup {Nobody}, tries : 0 .. Attempts]
    BY CheckoutAssumption DEF Places
  <1>3. charge'[c] = r
    BY <1>1 DEF CheckoutInv, CheckoutTypeOK
  <1>4. c \notin underway /\ told[c] = "nothing"
    BY <1>1 DEF CheckoutInv, ChargeOK, CheckoutTypeOK
  <1>5. payer[i] # c
    BY <1>1, CheckoutAssumption DEF CheckoutInv
  <1>6. ChargeOK(c)'
    BY <1>1, <1>3, <1>4, <1>5, CheckoutAssumption DEF ChargeOK
  <1> HIDE DEF r
  <1> QED BY <1>1, <1>2, <1>6, MoveStep

\* Handlers in progress are gone.
LEMMA RestartStep == ASSUME CheckoutInv, BotRestarts PROVE CheckoutInv'
  <1> DEFINE Interrupted(c) == charge[c].at \in {"report", "wait"}
             Gone(c) == [at |-> "over", for |-> charge[c].for, tries |-> charge[c].tries]
  <1>1. UNCHANGED <<order, payer, latest, invoices, underway, told>>
    BY DEF BotRestarts
  <1>2. ASSUME NEW c \in Charges
        PROVE  charge'[c] = IF Interrupted(c) THEN Gone(c) ELSE charge[c]
    <2>1. charge'[c] = IF Interrupted(c) THEN [charge[c] EXCEPT !.at = "over"] ELSE charge[c]
      BY DEF BotRestarts
    <2>2. [charge[c] EXCEPT !.at = "over"] = Gone(c)
      BY ChargeType
    <2> HIDE DEF Interrupted, Gone
    <2> QED BY <2>1, <2>2
  <1>3. ASSUME NEW c \in Charges
        PROVE  /\ charge'[c] \in [at : Places, for : Invoices \cup {Nobody}, tries : 0 .. Attempts]
               /\ Interrupted(c) => /\ charge'[c].at = "over" /\ charge'[c].for = charge[c].for
                                     /\ charge'[c].tries = charge[c].tries
    <2>1. /\ charge[c] \in [at : Places, for : Invoices \cup {Nobody}, tries : 0 .. Attempts]
          /\ Gone(c) \in [at : Places, for : Invoices \cup {Nobody}, tries : 0 .. Attempts]
          /\ Gone(c).at = "over" /\ Gone(c).for = charge[c].for
          /\ Gone(c).tries = charge[c].tries
      BY ChargeType DEF Places
    <2> HIDE DEF Interrupted, Gone
    <2> QED BY <1>2, <2>1
  <1>4. charge' \in [Charges -> [at : Places, for : Invoices \cup {Nobody}, tries : 0 .. Attempts]]
    <2>1. charge' = [c \in Charges |-> charge'[c]]
      BY DEF BotRestarts
    <2> QED BY <1>3, <2>1
  <1>5. CheckoutTypeOK'
    BY <1>1, <1>4 DEF CheckoutInv, CheckoutTypeOK, Places
  <1>6. ASSUME NEW c \in Charges PROVE ChargeOK(c)'
    <2>1. ChargeOK(c)
      BY DEF CheckoutInv
    <2>2. CASE Interrupted(c)
      <3>1. charge'[c].at = "over" /\ charge'[c].for = charge[c].for
            /\ charge'[c].tries = charge[c].tries
        BY <1>3, <2>2
      <3> QED BY <1>1, <2>1, <2>2, <3>1 DEF ChargeOK
    <2>3. CASE ~Interrupted(c)
      <3>1. charge'[c] = charge[c]
        BY <1>2, <2>3
      <3> QED BY <1>1, <2>1, <3>1 DEF ChargeOK
    <2> QED BY <2>2, <2>3
  <1> QED BY <1>1, <1>5, <1>6 DEF CheckoutInv

-----------------------------------------------------------------------------
(* The API                                                                 *)

\* An answer reaches the handler, or it does not.
LEMMA AnswerStep ==
  ASSUME CheckoutInv, NEW c \in Charges, NEW a \in {"paid", "failed"}, Answer(c, a),
         UNCHANGED <<order, payer, latest, invoices>>, underway' \subseteq underway,
         LET i == charge[c].for IN
           IF a = "paid" THEN order[i] = "PAID" /\ payer[i] = c
           ELSE /\ order[i] \in {"PAID", "FAILED"}
                /\ payer[i] # c \/ (latest # i /\ charge[c].tries >= 2)
  PROVE  CheckoutInv'
  <1> DEFINE r == [at |-> "over", for |-> charge[c].for, tries |-> charge[c].tries]
  <1>1. CASE /\ charge[c].at = "wait" /\ Move(c, "over")
             /\ told' = [told EXCEPT ![c] = a]
    <2>1. charge' = [charge EXCEPT ![c] = r]
      BY <1>1, MoveRecord
    <2>2. r \in [at : Places, for : Invoices \cup {Nobody}, tries : 0 .. Attempts]
      BY ChargeType DEF Places
    <2>3. charge'[c] = r /\ told'[c] = a
      BY <1>1, <2>1 DEF CheckoutInv, CheckoutTypeOK
    <2>4. ChargeOK(c) /\ charge[c].for \in Invoices
      BY <1>1, ChargeType DEF CheckoutInv
    <2>5. ChargeOK(c)'
      BY <1>1, <2>3, <2>4, CheckoutAssumption DEF ChargeOK
    <2> HIDE DEF r
    <2> QED BY <1>1, <2>1, <2>2, <2>5, MoveStep
  <1>2. CASE UNCHANGED <<charge, told>>
    BY <1>2 DEF CheckoutInv, CheckoutTypeOK, ChargeOK
  <1> QED BY <1>1, <1>2 DEF Answer, At

LEMMA ReplayStep == ASSUME CheckoutInv, NEW c \in Charges, Replay(c) PROVE CheckoutInv'
  <1>1. c \in underway /\ payer[charge[c].for] = c /\ underway' \subseteq underway /\ Answer(c, "paid")
        /\ UNCHANGED <<order, payer, latest, invoices>>
    BY DEF Replay, Replayed
  <1>2. charge[c].for \in Invoices
    BY <1>1, ChargeType DEF CheckoutInv, ChargeOK
  <1>3. order[charge[c].for] = "PAID"
    BY <1>1, <1>2, CheckoutAssumption DEF CheckoutInv
  <1> QED BY <1>1, <1>3, AnswerStep

LEMMA DenyStep == ASSUME CheckoutInv, NEW c \in Charges, Deny(c) PROVE CheckoutInv'
  <1>1. c \in underway /\ order[charge[c].for] # "PENDING" /\ ~Replayed(c)
        /\ underway' \subseteq underway /\ Answer(c, "failed")
        /\ UNCHANGED <<order, payer, latest, invoices>>
    BY DEF Deny
  <1>2. charge[c].for \in Invoices
    BY <1>1, ChargeType DEF CheckoutInv, ChargeOK
  <1>3. order[charge[c].for] \in {"PAID", "FAILED"}
    BY <1>1, <1>2, CheckoutAssumption DEF CheckoutInv, CheckoutTypeOK, ChargeOK
  <1>4. payer[charge[c].for] = c => charge[c].tries >= 2
    BY <1>1, <1>2, CheckoutAssumption DEF CheckoutInv, ChargeOK
  <1> QED BY <1>1, <1>3, <1>4, AnswerStep DEF Replayed

LEMMA BreakStep == ASSUME CheckoutInv, NEW c \in Charges, Break(c) PROVE CheckoutInv'
  BY DEF Break, CheckoutInv, CheckoutTypeOK, ChargeOK

\* The payment of an order that nobody has been answered about.
LEMMA MarkPaidStep == ASSUME CheckoutInv, NEW c \in Charges, MarkPaid(c) PROVE CheckoutInv'
  <1> DEFINE i == charge[c].for
  <1>1. c \in underway /\ order[i] = "PENDING" /\ order' = [order EXCEPT ![i] = "PAID"]
        /\ payer' = [payer EXCEPT ![i] = c] /\ latest' = i /\ underway' = underway \ {c}
        /\ Answer(c, "paid") /\ invoices' = invoices
    BY DEF MarkPaid
  <1>2. CheckoutTypeOK /\ i \in Invoices /\ c \in Charges
    BY <1>1, ChargeType DEF CheckoutInv, ChargeOK
  <1> HIDE DEF i
  <1>3. order'[i] = "PAID" /\ payer'[i] = c
        /\ \A j \in Invoices : j # i => order'[j] = order[j] /\ payer'[j] = payer[j]
    BY <1>1, <1>2 DEF CheckoutTypeOK
  <1>4. \A j \in Invoices : payer'[j] # Nobody => order'[j] = "PAID"
    BY <1>3 DEF CheckoutInv
  <1>5. ASSUME NEW d \in Charges, charge'[d] = charge[d], told'[d] = told[d]
        PROVE  ChargeOK(d)'
    <2>1. ChargeOK(d) /\ charge[d].for \in Invoices \cup {Nobody}
      BY ChargeType DEF CheckoutInv
    <2>2. told[d] # "nothing" => charge[d].for # i
      <3>1. told[d] \in {"nothing", "paid", "failed"}
        BY <1>2 DEF CheckoutTypeOK
      <3> QED BY <1>1, <2>1, <3>1 DEF ChargeOK
    <2>3. told[d] # "nothing" => charge[d].for \in Invoices
      BY <2>1 DEF ChargeOK
    <2> QED BY <1>1, <1>2, <1>3, <1>5, <2>1, <2>2, <2>3 DEF ChargeOK
  <1>6. CASE UNCHANGED <<charge, told>>
    <2>1. CheckoutTypeOK'
      BY <1>1, <1>2, <1>6 DEF CheckoutTypeOK
    <2> QED BY <1>4, <1>5, <1>6, <2>1 DEF CheckoutInv
  <1>7. CASE /\ charge[c].at = "wait" /\ Move(c, "over")
             /\ told' = [told EXCEPT ![c] = "paid"]
    <2> DEFINE r == [at |-> "over", for |-> i, tries |-> charge[c].tries]
    <2>1. charge' = [charge EXCEPT ![c] = r]
      BY <1>7, MoveRecord DEF i
    <2>2. r \in [at : Places, for : Invoices \cup {Nobody}, tries : 0 .. Attempts]
      BY <1>2, ChargeType DEF Places
    <2>3. charge'[c] = r /\ told'[c] = "paid"
          /\ \A d \in Charges : d # c => charge'[d] = charge[d] /\ told'[d] = told[d]
      BY <1>2, <1>7, <2>1 DEF CheckoutTypeOK
    <2>4. ChargeOK(c)'
      <3>1. charge[c].tries >= 1 /\ charge'[c].tries = charge[c].tries /\ charge'[c].for = i
            /\ charge'[c].at = "over" /\ c \notin underway'
        BY <1>1, <2>3 DEF CheckoutInv, ChargeOK
      <3> QED BY <1>1, <1>2, <1>3, <2>3, <3>1, CheckoutAssumption DEF ChargeOK
    <2>5. CheckoutTypeOK'
      <3> HIDE DEF r
      <3> QED BY <1>1, <1>2, <1>7, <2>1, <2>2 DEF CheckoutTypeOK, Places
    <2>6. \A d \in Charges : ChargeOK(d)'
      BY <1>5, <2>3, <2>4
    <2> QED BY <1>4, <2>5, <2>6 DEF CheckoutInv
  <1> QED BY <1>1, <1>6, <1>7 DEF Answer, At

\* A draft is offered again, or a new one fails those that were pending.
LEMMA BuyStep == ASSUME CheckoutInv, NEW i \in Invoices, BuyPlan(i) PROVE CheckoutInv'
  <1>1. invoices' \subseteq Invoices /\ UNCHANGED <<payer, latest, charge, underway, told>>
    BY DEF BuyPlan, CheckoutInv, CheckoutTypeOK
  <1>2. CASE UNCHANGED order
    BY <1>1, <1>2, OrderStep DEF CheckoutInv, CheckoutTypeOK
  <1>3. CASE /\ order[i] = "none"
             /\ order' = [j \in Invoices |-> IF j = i THEN "PENDING"
                                             ELSE IF order[j] = "PENDING" THEN "FAILED" ELSE order[j]]
    <2>1. order' \in [Invoices -> {"none", "PENDING", "PAID", "FAILED"}]
      BY <1>3 DEF CheckoutInv, CheckoutTypeOK
    <2>2. \A j \in Invoices : \/ order'[j] = order[j]
                              \/ order[j] \in {"none", "PENDING"} /\ order'[j] # "none"
      BY <1>3
    <2> QED BY <1>1, <2>1, <2>2, OrderStep
  <1> QED BY <1>2, <1>3 DEF BuyPlan

LEMMA CheckoutNextInv == CheckoutInv /\ [CheckoutNext]_checkoutVars => CheckoutInv'
  <1> SUFFICES ASSUME CheckoutInv, [CheckoutNext]_checkoutVars PROVE CheckoutInv'
    OBVIOUS
  <1>1. ASSUME NEW c \in Charges, Charge(c) \/ Throttle(c) \/ TimeOut(c) \/ BotStep(c)
        PROVE  CheckoutInv'
    BY <1>1, ChargeStep, ThrottleStep, TimeOutStep, HandleStep, ReportStep, RetryStep DEF BotStep
  <1>2. ASSUME NEW c \in Charges, Serve(c)
        PROVE  CheckoutInv'
    BY <1>2, MarkPaidStep, ReplayStep, DenyStep, BreakStep DEF Serve
  <1>3. CASE UNCHANGED checkoutVars
    BY <1>3 DEF checkoutVars, CheckoutInv, CheckoutTypeOK, ChargeOK
  <1>4. ASSUME NEW i \in Invoices, BuyPlan(i) \/ Refuse(i) \/ \E c \in Charges : Approve(c, i)
        PROVE  CheckoutInv'
    BY <1>3, <1>4, BuyStep, ApproveStep DEF Refuse
  <1> QED BY <1>1, <1>2, <1>3, <1>4, RestartStep DEF CheckoutNext

\* The inductive invariant of a purchase.
THEOREM CheckoutSafety == CheckoutSpec => []CheckoutInv
  BY CheckoutInitInv, CheckoutNextInv, PTL DEF CheckoutSpec

\* Orders, charges and answers stay in their domains.
THEOREM CheckoutTypeCorrect == CheckoutSpec => []CheckoutTypeOK
  <1>1. CheckoutInv => CheckoutTypeOK
    BY DEF CheckoutInv
  <1> QED BY <1>1, CheckoutSafety, PTL

\* Who reads "paid" has the days of this charge; who reads "failed" has not, but
\* for a report that was repeated after a newer order took the subscription over.
THEOREM AnswersAreTrue == CheckoutSpec => []ToldTheTruth
  <1>1. CheckoutInv => ToldTheTruth
    BY DEF CheckoutInv, ChargeOK, ToldTheTruth
  <1> QED BY <1>1, CheckoutSafety, PTL
-----------------------------------------------------------------------------
(* Console: requests are counted before they are let through, and a        *)
(* handler that is under way is at one of its statements.                  *)

HitsCounted ==
  /\ hits \in [Limited -> 0 .. Limit + 1]
  /\ let \in [Limited -> Nat] /\ unchecked \in Nat
  /\ \A k \in Limited : let[k] <= hits[k] + FailedOpen(k) /\ let[k] <= Limit + FailedOpen(k)

\* What is known of one counter.
LEMMA CountsAt ==
  ASSUME HitsCounted, NEW k \in Limited
  PROVE  /\ hits[k] \in 0 .. Limit + 1 /\ let[k] \in Nat /\ FailedOpen(k) \in Nat /\ Limit \in Nat
         /\ let[k] <= hits[k] + FailedOpen(k) /\ let[k] <= Limit + FailedOpen(k)
  BY ConsoleAssumption DEF HitsCounted, FailedOpen

LEMMA CountType ==
  ASSUME HitsCounted, NEW k, Count(k)
  PROVE  /\ hits' \in [Limited -> 0 .. Limit + 1]
         /\ \A j \in Limited : hits'[j] >= hits[j]
         /\ \A j \in Limited : j # k => hits'[j] = hits[j]
         /\ k \in Limited => hits'[k] = IF hits[k] > Limit THEN hits[k] ELSE hits[k] + 1
  <1> DEFINE n == IF hits[k] > Limit THEN hits[k] ELSE hits[k] + 1
  <1>1. hits' = [hits EXCEPT ![k] = n] /\ hits \in [Limited -> 0 .. Limit + 1]
    BY DEF Count, HitsCounted
  <1>2. CASE k \in Limited
    <2>1. n \in 0 .. Limit + 1 /\ n >= hits[k]
      BY <1>2, CountsAt
    <2>2. \A j \in Limited : hits[j] \in 0 .. Limit + 1 /\ hits[j] >= hits[j]
      BY CountsAt
    <2> QED BY <1>1, <1>2, <2>1, <2>2
  <1>3. CASE k \notin Limited
    <2>1. hits' = hits
      BY <1>1, <1>3
    <2>2. \A j \in Limited : hits[j] >= hits[j]
      BY CountsAt
    <2> QED BY <1>1, <1>3, <2>1, <2>2
  <1> QED BY <1>2, <1>3

LEMMA IncrementStep == ASSUME HitsCounted, NEW c \in Calls, Increment(c) PROVE HitsCounted'
  <1> DEFINE k == Handler(c)
             m == IF hits[k] + 1 <= Limit THEN let[k] + 1 ELSE let[k]
  <1>1. Count(k) /\ let' = [let EXCEPT ![k] = m] /\ UNCHANGED unchecked
    BY DEF Increment, Within
  <1> HIDE DEF k
  <1>2. ASSUME NEW j \in Limited
        PROVE  /\ let'[j] \in Nat
               /\ let'[j] <= hits'[j] + FailedOpen(j)' /\ let'[j] <= Limit + FailedOpen(j)'
    <2>1. FailedOpen(j)' = FailedOpen(j)
      BY <1>1 DEF FailedOpen
    <2>2. CASE j = k
      <3>1. let'[j] = m /\ hits'[j] = IF hits[j] > Limit THEN hits[j] ELSE hits[j] + 1
        BY <1>1, <2>2, CountType DEF HitsCounted
      <3> QED BY <2>1, <2>2, <3>1, CountsAt
    <2>3. CASE j # k
      <3>1. let'[j] = let[j] /\ hits'[j] = hits[j]
        BY <1>1, <2>3, CountType DEF HitsCounted
      <3> QED BY <2>1, <3>1, CountsAt
    <2> QED BY <2>2, <2>3
  <1>3. let' \in [Limited -> Nat]
    BY <1>1, <1>2 DEF HitsCounted
  <1> QED BY <1>1, <1>2, <1>3, CountType DEF HitsCounted

\* INCR counts without letting anything through.
LEMMA CountStep ==
  ASSUME HitsCounted, NEW k, Count(k) \/ UNCHANGED hits, UNCHANGED <<let, unchecked>>
  PROVE  HitsCounted'
  <1>1. hits' \in [Limited -> 0 .. Limit + 1] /\ \A j \in Limited : hits'[j] >= hits[j]
    BY CountType, CountsAt DEF HitsCounted
  <1>2. ASSUME NEW j \in Limited
        PROVE  let'[j] <= hits'[j] + FailedOpen(j)' /\ let'[j] <= Limit + FailedOpen(j)'
    <2>1. FailedOpen(j)' = FailedOpen(j) /\ let'[j] = let[j] /\ hits'[j] >= hits[j]
          /\ hits'[j] \in 0 .. Limit + 1
      BY <1>1 DEF FailedOpen
    <2> QED BY <2>1, CountsAt
  <1> QED BY <1>1, <1>2 DEF HitsCounted

\* A message that Redis did not answer for is let through, and known to be one.
LEMMA RedisFailsStep == ASSUME HitsCounted, NEW c \in Calls, RedisFails(c) PROVE HitsCounted'
  <1> DEFINE k == Handler(c)
  <1>1. Count(k) \/ UNCHANGED hits
    BY DEF RedisFails
  <1>2. CASE UNCHANGED <<let, unchecked>>
    BY <1>1, <1>2, CountStep
  <1>3. CASE k = "message" /\ let' = [let EXCEPT ![k] = @ + 1] /\ unchecked' = unchecked + 1
    <2>1. hits' \in [Limited -> 0 .. Limit + 1] /\ \A j \in Limited : hits'[j] >= hits[j]
      BY <1>1, CountType, CountsAt DEF HitsCounted
    <2>2. ASSUME NEW j \in Limited
          PROVE  /\ let'[j] \in Nat
                 /\ let'[j] <= hits'[j] + FailedOpen(j)' /\ let'[j] <= Limit + FailedOpen(j)'
      <3>1. hits'[j] \in 0 .. Limit + 1 /\ hits'[j] >= hits[j]
        BY <2>1
      <3>2. CASE j = "message"
        <4>1. let'[j] = let[j] + 1 /\ FailedOpen(j)' = FailedOpen(j) + 1
          BY <1>3, <3>2 DEF FailedOpen, HitsCounted
        <4> QED BY <3>1, <4>1, CountsAt
      <3>3. CASE j # "message"
        <4>1. let'[j] = let[j] /\ FailedOpen(j)' = FailedOpen(j)
          BY <1>3, <3>3 DEF FailedOpen, HitsCounted
        <4> QED BY <3>1, <4>1, CountsAt
      <3> QED BY <3>2, <3>3
    <2>3. let' \in [Limited -> Nat]
      <3>1. DOMAIN let' = Limited /\ let' = [j \in Limited |-> let'[j]]
        BY <1>3 DEF HitsCounted
      <3> QED BY <2>2, <3>1
    <2>4. unchecked' \in Nat
      BY <1>3 DEF HitsCounted
    <2> QED BY <2>1, <2>2, <2>3, <2>4 DEF HitsCounted
  <1> QED BY <1>2, <1>3 DEF RedisFails

LEMMA WindowEndsStep == ASSUME HitsCounted, NEW k \in Limited, WindowEnds(k) PROVE HitsCounted'
  <1>1. hits' = [hits EXCEPT ![k] = 0] /\ let' = [let EXCEPT ![k] = 0]
        /\ unchecked' = IF k = "message" THEN 0 ELSE unchecked
    BY DEF WindowEnds
  <1>2. hits' \in [Limited -> 0 .. Limit + 1] /\ let' \in [Limited -> Nat] /\ unchecked' \in Nat
    BY <1>1, ConsoleAssumption DEF HitsCounted
  <1>3. ASSUME NEW j \in Limited
        PROVE  let'[j] <= hits'[j] + FailedOpen(j)' /\ let'[j] <= Limit + FailedOpen(j)'
    <2>1. CASE j = k
      <3>1. let'[j] = 0 /\ hits'[j] = 0 /\ FailedOpen(j)' \in Nat
        BY <1>1, <1>2, <2>1 DEF HitsCounted, FailedOpen
      <3> QED BY <3>1, ConsoleAssumption
    <2>2. CASE j # k
      <3>1. let'[j] = let[j] /\ hits'[j] = hits[j]
        BY <1>1, <2>2 DEF HitsCounted
      <3>2. FailedOpen(j)' = FailedOpen(j)
        BY <1>1, <2>2 DEF FailedOpen
      <3> QED BY <3>1, <3>2, CountsAt
    <2> QED BY <2>1, <2>2
  <1> QED BY <1>2, <1>3 DEF HitsCounted

\* Only INCR, a limiter without Redis and the end of a window touch the counters.
LEMMA CountedNext == HitsCounted /\ [ConsoleNext]_consoleVars => HitsCounted'
  <1> SUFFICES ASSUME HitsCounted, [ConsoleNext]_consoleVars PROVE HitsCounted'
    OBVIOUS
  <1>1. ASSUME NEW c \in Calls, Increment(c) \/ IncrementUnanswered(c) \/ RedisFails(c)
        PROVE  HitsCounted'
    BY <1>1, IncrementStep, CountStep, RedisFailsStep DEF IncrementUnanswered
  <1>2. ASSUME NEW k \in Limited, WindowEnds(k) PROVE HitsCounted'
    BY <1>2, WindowEndsStep
  <1>3. CASE UNCHANGED <<hits, let, unchecked>>
    BY <1>3 DEF HitsCounted, FailedOpen
  <1>4. ASSUME NEW c \in Calls, Advance(c), ~Increment(c) PROVE UNCHANGED <<hits, let, unchecked>>
    BY <1>4 DEF Advance, Expire, Remote, Select, Flush, Begin, PushRefund
  <1>5. ASSUME NEW c \in Calls, PushUnanswered(c) \/ \E h \in Served : Arrive(c, h)
        PROVE  UNCHANGED <<hits, let, unchecked>>
    BY <1>5 DEF PushUnanswered, Arrive
  <1>6. CASE ApiRestarts \/ UNCHANGED consoleVars
    BY <1>3, <1>6 DEF ApiRestarts, consoleVars
  <1> QED BY <1>1, <1>2, <1>3, <1>4, <1>5, <1>6 DEF ConsoleNext

\* Whatever requests run at the same time, and whichever commands of theirs are
\* lost or count twice, no window of a limiter of the API lets more than the limit
\* through (check_rate_limit), and one of the bot's only what it did not check
\* because Redis did not answer (ThrottlingMiddleware).
THEOREM LimitIsKept == ConsoleSpec => []LimitHolds
  <1>1. ConsoleInit => HitsCounted
    BY ConsoleAssumption DEF ConsoleInit, HitsCounted, FailedOpen
  <1>2. HitsCounted => LimitHolds
    BY DEF HitsCounted, LimitHolds
  <1> QED BY <1>1, <1>2, CountedNext, PTL DEF ConsoleSpec

\* A request that is under way is at a statement of its handler, and counts for
\* a limiter when it still has to set its TTL.
CallRecord == [handler : Served \cup {"none"}, at : 0 .. 4, begun : BOOLEAN, first : BOOLEAN,
               ok : Served \cup {"none"}]

CallOK(r) ==
  /\ r.handler # "none" => r.at \in 1 .. Len(Steps(r.handler))
  /\ r.first => r.handler \in Limited

CallsInv ==
  /\ call \in [Calls -> CallRecord] /\ \A c \in Calls : CallOK(call[c])
  /\ ttl \subseteq Limited /\ stored \subseteq Served
  /\ stars \in BOOLEAN /\ cuts \in 0 .. MaxCuts

LEMMA StepsOf ==
  ASSUME NEW h \in Handlers
  PROVE  /\ Len(Steps(h)) \in 1 .. 4
         /\ \A i \in 1 .. Len(Steps(h)) : Steps(h)[i] = "limit" => i = 1
  <1>1. Steps(h) \in {LoginSteps, ToggleSteps, ResetSteps, ProfileSteps, CreateSteps, UpdateSteps,
                      DeleteSteps, PullSteps, RefundSteps, NodeSteps, ActivateSteps, MessageSteps}
    BY DEF Handlers, Steps
  <1>2. CASE Steps(h) \in {LoginSteps, ToggleSteps, ResetSteps}
    BY <1>2 DEF LoginSteps, ToggleSteps, ResetSteps
  <1>3. CASE Steps(h) \in {ProfileSteps, CreateSteps, UpdateSteps}
    BY <1>3 DEF ProfileSteps, CreateSteps, UpdateSteps
  <1>4. CASE Steps(h) \in {DeleteSteps, PullSteps, RefundSteps}
    BY <1>4 DEF DeleteSteps, PullSteps, RefundSteps
  <1>5. CASE Steps(h) \in {NodeSteps, ActivateSteps, MessageSteps}
    BY <1>5 DEF NodeSteps, ActivateSteps, MessageSteps
  <1> QED BY <1>1, <1>2, <1>3, <1>4, <1>5

LEMMA NoCallOK == NoCall \in CallRecord /\ CallOK(NoCall)
  BY DEF NoCall, Answered, CallRecord, CallOK

\* The request of a statement, and the limiter it counts for.
LEMMA CallFacts ==
  ASSUME CallsInv, NEW c \in Calls, Busy(c)
  PROVE  /\ call[c] \in CallRecord /\ Handler(c) \in Served /\ Handler(c) \in Handlers
         /\ call[c].at \in 1 .. Len(Steps(Handler(c))) /\ Len(Steps(Handler(c))) \in 1 .. 4
         /\ Comes(c, "limit") => Handler(c) \in Limited
  <1>1. call[c] \in CallRecord /\ Handler(c) \in Served /\ Handler(c) \in Handlers
        /\ call[c].at \in 1 .. Len(Steps(Handler(c)))
    BY ConsoleAssumption DEF CallsInv, CallRecord, CallOK, Busy, Handler
  <1> QED BY <1>1, StepsOf DEF Comes, Limited

\* A request goes on, ends or begins.
LEMMA CallStep ==
  ASSUME CallsInv, NEW c \in Calls, NEW r \in CallRecord, CallOK(r), call' = [call EXCEPT ![c] = r],
         ttl' \subseteq Limited, stored' \subseteq Served,
         stars' \in BOOLEAN, cuts' \in 0 .. MaxCuts
  PROVE  CallsInv'
  <1>1. call' \in [Calls -> CallRecord] /\ \A x \in Calls : call'[x] = IF x = c THEN r ELSE call[x]
    BY DEF CallsInv
  <1>2. \A x \in Calls : CallOK(call'[x])
    BY <1>1 DEF CallsInv
  <1> QED BY <1>1, <1>2 DEF CallsInv

LEMMA GoOnOK ==
  ASSUME CallsInv, NEW c \in Calls, Busy(c), NEW begun \in BOOLEAN, GoOn(c, begun)
  PROVE  \E r \in CallRecord : CallOK(r) /\ call' = [call EXCEPT ![c] = r]
  <1>1. CASE call[c].at < Len(Steps(Handler(c)))
    <2> DEFINE r == [call[c] EXCEPT !.at = call[c].at + 1, !.begun = begun, !.first = FALSE]
    <2>1. call' = [call EXCEPT ![c] = r]
      BY <1>1 DEF GoOn, CallsInv
    <2>2. call[c].at + 1 \in 1 .. Len(Steps(Handler(c))) /\ call[c].at + 1 \in 0 .. 4
      <3> DEFINE n == Len(Steps(Handler(c)))
      <3>1. n \in 1 .. 4 /\ call[c].at \in 1 .. n /\ call[c].at < n
        BY <1>1, CallFacts
      <3> HIDE DEF n
      <3>2. call[c].at + 1 \in 1 .. n /\ call[c].at + 1 \in 0 .. 4
        BY <3>1
      <3> QED BY <3>2 DEF n
    <2>3. r \in CallRecord
      BY <2>2, CallFacts DEF CallRecord
    <2>4. r.handler = Handler(c) /\ r.at = call[c].at + 1 /\ r.first = FALSE
      BY CallFacts DEF CallRecord, Handler
    <2> HIDE DEF r
    <2> QED BY <2>1, <2>2, <2>3, <2>4 DEF CallOK
  <1>2. CASE ~(call[c].at < Len(Steps(Handler(c))))
    <2>1. call' = [call EXCEPT ![c] = Answered(Handler(c))]
      BY <1>2 DEF GoOn
    <2>2. Answered(Handler(c)) \in CallRecord /\ CallOK(Answered(Handler(c)))
      BY CallFacts DEF Answered, CallRecord, CallOK
    <2> QED BY <2>1, <2>2
  <1> QED BY <1>1, <1>2

\* A statement of a handler, or an error in its place.
LEMMA StatementStep ==
  ASSUME CallsInv, NEW c \in Calls, Busy(c),
         Fail(c) \/ \E begun \in BOOLEAN : GoOn(c, begun),
         ttl' \subseteq Limited, stored' \subseteq Served,
         stars' \in BOOLEAN, cuts' \in 0 .. MaxCuts
  PROVE  CallsInv'
  BY GoOnOK, NoCallOK, CallStep DEF Fail

LEMMA CutType == ASSUME CallsInv, Cut PROVE cuts' \in 0 .. MaxCuts
  BY ConsoleAssumption DEF CallsInv, Cut

LEMMA IncrementType == ASSUME CallsInv, NEW c \in Calls, Increment(c) PROVE CallsInv'
  <1>1. Busy(c) /\ Handler(c) \in Limited /\ UNCHANGED <<ttl, stored, stars, cuts>>
    BY CallFacts DEF Increment, Comes
  <1>2. CASE call' = [call EXCEPT ![c].first = TRUE]
    <2> DEFINE r == [call[c] EXCEPT !.first = TRUE]
    <2>1. call' = [call EXCEPT ![c] = r]
      BY <1>2 DEF CallsInv
    <2>2. r \in CallRecord
      BY <1>1, CallFacts DEF CallRecord
    <2>3. r.handler = Handler(c) /\ r.at = call[c].at
      BY <1>1, CallFacts DEF CallRecord, Handler
    <2> HIDE DEF r
    <2>4. CallOK(r)
      BY <1>1, <2>3, CallFacts DEF CallOK
    <2> QED BY <1>1, <2>1, <2>2, <2>4, CallStep DEF CallsInv
  <1>3. CASE GoOn(c, FALSE) \/ Fail(c)
    BY <1>1, <1>3, StatementStep DEF CallsInv
  <1> QED BY <1>2, <1>3 DEF Increment

LEMMA AdvanceType == ASSUME CallsInv, NEW c \in Calls, Advance(c) PROVE CallsInv'
  <1>1. CASE Expire(c)
    <2>1. Busy(c) /\ ttl' \subseteq Limited
      BY <1>1, CallFacts DEF Expire, Comes, CallsInv
    <2> QED BY <1>1, <2>1, StatementStep DEF Expire, CallsInv
  <1>2. CASE Remote(c) \/ Select(c) \/ Flush(c)
    <2>1. Busy(c) /\ UNCHANGED <<ttl, stored, stars, cuts>> /\ call[c].begun \in BOOLEAN
      BY <1>2, CallFacts DEF Remote, Select, Flush, Comes, CallRecord
    <2>2. Fail(c) \/ GoOn(c, TRUE) \/ GoOn(c, call[c].begun)
      BY <1>2 DEF Remote, Select, Flush
    <2> QED BY <2>1, <2>2, StatementStep DEF CallsInv
  <1>3. CASE Begin(c)
    <2>1. Busy(c) /\ UNCHANGED <<ttl, stars, cuts>>
      BY <1>3 DEF Begin, Comes
    <2>2. stored' = stored \/ stored' = stored \cup {Handler(c)}
      BY <1>3 DEF Begin
    <2>3. stored' \subseteq Served
      BY <2>1, <2>2, CallFacts DEF CallsInv
    <2> QED BY <1>3, <2>1, <2>3, StatementStep DEF Begin, CallsInv
  <1>4. CASE PushRefund(c)
    <2>1. Busy(c) /\ UNCHANGED <<ttl, stored, cuts>> /\ stars' \in BOOLEAN
      BY <1>4 DEF PushRefund, Comes, CallsInv
    <2> QED BY <1>4, <2>1, StatementStep DEF PushRefund, CallsInv
  <1> QED BY <1>1, <1>2, <1>3, <1>4, IncrementType DEF Advance

LEMMA CallsNext == CallsInv /\ [ConsoleNext]_consoleVars => CallsInv'
  <1> SUFFICES ASSUME CallsInv, [ConsoleNext]_consoleVars PROVE CallsInv'
    OBVIOUS
  <1>1. ASSUME NEW c \in Calls, RedisFails(c) \/ IncrementUnanswered(c) PROVE CallsInv'
    <2>1. Busy(c) /\ Handler(c) \in Limited /\ UNCHANGED <<stored, stars>> /\ cuts' \in 0 .. MaxCuts
      BY <1>1, CallFacts, CutType DEF RedisFails, IncrementUnanswered, Comes
    <2>2. ttl' \subseteq Limited
      BY <1>1, <2>1 DEF RedisFails, IncrementUnanswered, CallsInv
    <2>3. CASE RedisFails(c)
      BY <2>1, <2>2, <2>3, StatementStep DEF RedisFails, CallsInv
    <2>4. CASE IncrementUnanswered(c)
      BY <2>1, <2>2, <2>4 DEF IncrementUnanswered, CallsInv
    <2> QED BY <1>1, <2>3, <2>4
  <1>2. ASSUME NEW c \in Calls, PushUnanswered(c) PROVE CallsInv'
    <2>1. Busy(c) /\ UNCHANGED <<ttl, stored>> /\ stars' \in BOOLEAN
      BY <1>2 DEF PushUnanswered, Comes
    <2> QED BY <1>2, <2>1, CutType, StatementStep DEF PushUnanswered, CallsInv
  <1>3. ASSUME NEW c \in Calls, NEW h \in Served, Arrive(c, h) PROVE CallsInv'
    <2> DEFINE r == [NoCall EXCEPT !.handler = h, !.at = 1]
    <2> DEFINE y == [NoCall EXCEPT !.handler = h]
    <2>1. y \in CallRecord /\ y.handler = h /\ y.first = NoCall.first
      BY NoCallOK DEF CallRecord
    <2> HIDE DEF y
    <2>2. [y EXCEPT !.at = 1] \in CallRecord /\ [y EXCEPT !.at = 1].handler = h
          /\ [y EXCEPT !.at = 1].at = 1 /\ [y EXCEPT !.at = 1].first = NoCall.first
      BY <2>1 DEF CallRecord
    <2>3. r \in CallRecord /\ r.handler = h /\ r.at = 1 /\ r.first = NoCall.first
      BY <2>2 DEF y
    <2>4. call' = [call EXCEPT ![c] = r] /\ UNCHANGED <<ttl, stored, stars, cuts>>
      BY <1>3 DEF Arrive
    <2> HIDE DEF r
    <2>5. ~NoCall.first
      BY DEF NoCall, Answered
    <2>6. 1 \in 1 .. Len(Steps(h))
      BY ConsoleAssumption, StepsOf
    <2>7. CallOK(r)
      BY <2>3, <2>5, <2>6 DEF CallOK
    <2> QED BY <2>3, <2>4, <2>7, CallStep DEF CallsInv
  <1>4. CASE ApiRestarts
    <2>1. call' = [c \in Calls |-> NoCall] /\ UNCHANGED <<ttl, stored, stars>>
      BY <1>4 DEF ApiRestarts
    <2>2. cuts' \in 0 .. MaxCuts
      BY <1>4, CutType DEF ApiRestarts
    <2> QED BY <2>1, <2>2, NoCallOK DEF CallsInv
  <1>5. ASSUME NEW k \in Limited, WindowEnds(k) PROVE CallsInv'
    BY <1>5 DEF WindowEnds, CallsInv
  <1>6. CASE UNCHANGED consoleVars
    BY <1>6 DEF consoleVars, CallsInv
  <1> QED BY <1>1, <1>2, <1>3, <1>4, <1>5, <1>6, AdvanceType DEF ConsoleNext

\* Requests, sessions and counters stay in their domains; no handler runs past
\* its last statement.
THEOREM ConsoleTypeCorrect == ConsoleSpec => []ConsoleTypeOK
  <1>1. ConsoleInit => HitsCounted /\ CallsInv
    <2>1. ConsoleInit => HitsCounted
      BY ConsoleAssumption DEF ConsoleInit, HitsCounted, FailedOpen
    <2>2. ConsoleInit => call \in [Calls -> CallRecord] /\ \A c \in Calls : CallOK(call[c])
      BY NoCallOK DEF ConsoleInit
    <2>3. ConsoleInit => ttl = {} /\ stored = {} /\ cuts \in 0 .. MaxCuts
      BY ConsoleAssumption DEF ConsoleInit
    <2>4. ConsoleInit => stars \in BOOLEAN
      BY Zenon DEF ConsoleInit
    <2>5. ConsoleInit => CallsInv
      BY <2>2, <2>3, <2>4 DEF CallsInv
    <2> QED BY <2>1, <2>5
  <1>2. HitsCounted /\ CallsInv => ConsoleTypeOK
    BY DEF HitsCounted, CallsInv, ConsoleTypeOK, CallRecord
  <1> QED BY <1>1, <1>2, CountedNext, CallsNext, PTL DEF ConsoleSpec
=============================================================================
