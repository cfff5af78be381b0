----------------------------- MODULE Reminders ------------------------------
(***************************************************************************)
(* The reminder worker, workers/reminders.py.  A pass collects what is due *)
(* in one session, then sends and records one reminder after the other,    *)
(* each record in a transaction of its own; meanwhile subscriptions age,   *)
(* are renewed in place, or end.                                           *)
(***************************************************************************)
EXTENDS Integers, FiniteSets

CONSTANTS
  Renewables,     \* subscriptions
  LastBucket,     \* number of buckets; the code has three, 24h, 6h and 1h
  MaxUpsets,      \* bound: crashes, lost writes and errors of Telegram
  MaxRenewals     \* bound: renewals

ASSUME ReminderAssumption == LastBucket \in Nat \ {0} /\ MaxUpsets \in Nat /\ MaxRenewals \in Nat

\* What is left of a subscription: more than a day (LastBucket + 1), then the
\* bucket it is in, down to 1, the last hour; 0 when it has expired.
Buckets == 1 .. LastBucket
Plenty  == LastBucket + 1
Due     == Renewables \X Buckets

VARIABLES
  left,       \* per subscription
  live,       \* those ACTIVE or in TRIAL
  renewed,    \* those renewed, and how often altogether
  logged,     \* reminder_log, <<subscription, bucket>>
  reminder,   \* the pass in progress: collected and not yet handled
  scanned,    \* a pass that saw the subscription in this bucket has ended
  copies,     \* history: messages delivered per subscription and bucket
  missed,     \* history: reminders Telegram failed to acknowledge for once
  upsets

reminderVars == <<left, live, renewed, logged, reminder, scanned, copies, missed, upsets>>

Asleep == [pc |-> "rest", seen |-> {}, todo |-> {}, item |-> <<>>]

RemindersTypeOK ==
  /\ left \in [Renewables -> 0 .. Plenty]
  /\ renewed \in [who : SUBSET Renewables, times : 0 .. MaxRenewals]
  /\ live \subseteq Renewables /\ scanned \subseteq Renewables
  /\ logged \subseteq Due /\ missed \subseteq Due
  /\ reminder \in [pc : {"rest", "send", "record"}, seen : SUBSET Renewables,
                   todo : SUBSET Due, item : Due \cup {<<>>}]
  /\ (reminder.pc = "record" => reminder.item \in Due)
  /\ copies \in [Due -> Nat]
  /\ upsets \in 0 .. MaxUpsets

RemindersInit ==
  /\ left = [s \in Renewables |-> Plenty]
  /\ renewed = [who |-> {}, times |-> 0]
  /\ live = Renewables
  /\ logged = {} /\ scanned = {} /\ missed = {}
  /\ reminder = Asleep
  /\ copies = [d \in Due |-> 0]
  /\ upsets = 0

-----------------------------------------------------------------------------
(* Subscriptions                                                           *)

\* A bucket lasts an hour or more and a pass starts every SCAN_INTERVAL_SEC
\* (15 minutes): some pass both sees the subscription in it and ends.
Age(s) ==
  /\ left[s] > 0
  /\ left[s] \in Buckets /\ s \in live => s \in scanned
  /\ left' = [left EXCEPT ![s] = @ - 1]
  /\ scanned' = scanned \ {s}
  /\ reminder' = [reminder EXCEPT !.seen = @ \ {s}]
  /\ UNCHANGED <<live, renewed, logged, copies, missed, upsets>>

\* A payment or a code extends the row; nothing clears its log.
Renew(s) ==
  /\ s \in live /\ renewed.times < MaxRenewals
  /\ left' = [left EXCEPT ![s] = Plenty]
  /\ renewed' = [who |-> renewed.who \cup {s}, times |-> renewed.times + 1]
  /\ scanned' = scanned \ {s}
  /\ reminder' = [reminder EXCEPT !.seen = @ \ {s}]
  /\ UNCHANGED <<live, logged, copies, missed, upsets>>

Terminate(s) ==
  /\ live' = live \ {s} /\ live' # live
  /\ UNCHANGED <<left, renewed, logged, reminder, scanned, copies, missed, upsets>>

-----------------------------------------------------------------------------
(* run_once                                                                *)

\* Mutant: the first bucket that has begun, not the latest.
EarliestBucket(s) == LastBucket

\* _choose_bucket: the smallest that holds what is left.
ChosenBucket(s) == left[s]

\* _collect
Collect ==
  /\ reminder.pc = "rest"
  /\ reminder' = [pc |-> "send", item |-> <<>>, seen |-> live,
                  todo |-> {<<s, ChosenBucket(s)>> : s \in {x \in live : left[x] \in Buckets}} \ logged]
  /\ UNCHANGED <<left, live, renewed, logged, scanned, copies, missed, upsets>>

Take(d) == reminder.pc = "send" /\ d \in reminder.todo

Deliver(d) == copies' = [copies EXCEPT ![d] = @ + 1]

SendReminder(d) ==
  /\ Take(d)
  /\ Deliver(d)
  /\ reminder' = [reminder EXCEPT !.pc = "record", !.todo = @ \ {d}, !.item = d]
  /\ UNCHANGED <<left, live, renewed, logged, scanned, missed, upsets>>

\* TelegramAPIError, the message delivered or not: nothing is recorded, and the
\* next pass collects it again.
RefuseReminder(d) ==
  /\ Take(d)
  /\ Deliver(d) \/ UNCHANGED copies
  /\ upsets < MaxUpsets /\ upsets' = upsets + 1
  /\ missed' = missed \cup {d}
  /\ reminder' = [reminder EXCEPT !.todo = @ \ {d}]
  /\ UNCHANGED <<left, live, renewed, logged, scanned>>

\* Mutant: the record is not written.
RecordNothing ==
  /\ reminder.pc = "record"
  /\ reminder' = [reminder EXCEPT !.pc = "send", !.item = <<>>]
  /\ UNCHANGED <<left, live, renewed, logged, scanned, copies, missed, upsets>>

Record ==
  /\ reminder.pc = "record"
  /\ logged' = logged \cup {reminder.item}
  /\ reminder' = [reminder EXCEPT !.pc = "send", !.item = <<>>]
  /\ UNCHANGED <<left, live, renewed, scanned, copies, missed, upsets>>

EndPass ==
  /\ reminder.pc = "send" /\ reminder.todo = {}
  /\ reminder' = Asleep
  /\ scanned' = scanned \cup reminder.seen
  /\ UNCHANGED <<left, live, renewed, logged, copies, missed, upsets>>

\* A restart, or a database error that run_once does not catch.
AbortPass ==
  /\ reminder.pc # "rest"
  /\ upsets < MaxUpsets /\ upsets' = upsets + 1
  /\ reminder' = Asleep
  /\ UNCHANGED <<left, live, renewed, logged, scanned, copies, missed>>

RemindersNext ==
  \/ Collect \/ Record \/ EndPass \/ AbortPass
  \/ \E d \in Due : SendReminder(d) \/ RefuseReminder(d)
  \/ \E s \in Renewables : Age(s) \/ Renew(s) \/ Terminate(s)

RemindersSpec == RemindersInit /\ [][RemindersNext]_reminderVars

-----------------------------------------------------------------------------
(* Properties                                                              *)

\* A reminder is repeated only when something was lost between sending and
\* recording it, and a recorded one was delivered.
OncePerUpset ==
  \A d \in Due :
    /\ copies[d] <= 1 + upsets
    /\ d \in logged => copies[d] >= 1

\* In its first term a subscription is reminded in every bucket it passes
\* through, before the bucket ends, unless Telegram fails: also when passes are
\* aborted, and others renew or end meanwhile.
RemindedInTime ==
  \A s \in live \ renewed.who : \A b \in Buckets :
    left[s] < b /\ <<s, b>> \notin missed => <<s, b>> \in logged
=============================================================================
