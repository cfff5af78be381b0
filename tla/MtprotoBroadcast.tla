-------------------------- MODULE MtprotoBroadcast --------------------------
(***************************************************************************)
(* The broadcaster worker, its Redis markers and the bot's notify server:  *)
(* workers/mtproto_broadcaster.py, services/mtproto_broadcast.py and       *)
(* bot/app/notify_server.py, fed by the rotations of MtprotoRotation.  One *)
(* worker reads the stream; every await in it is a step of its own, and it *)
(* can crash at any of them.  A message to a user carries the link that    *)
(* issue answers when the bot asks for it.                                 *)
(***************************************************************************)
EXTENDS MtprotoRotation, FiniteSets

CONSTANTS
  Users,
  PerSecond     \* mtg_broadcast_rl_global_per_sec

ASSUME BroadcastAssumption == PerSecond \in Nat

VARIABLES
  next,      \* the stream entry the consumer group reads next
  pending,   \* entries read and not acknowledged
  unseen,    \* history: entries read whose answer never reached the worker
  worker,    \* the loop of the broadcaster
  idem,      \* idempotency markers, <<event, user>>
  cooling,   \* users with a cooldown marker
  slots,     \* users with a per-chat rate marker
  sent,      \* the global counter of this second
  dms,       \* history: the messages users got
  due,       \* history: <<entry, user>>, the recipients resolved for an entry
  settled    \* history: <<entry, user, how>>, what the worker did about them

markers   == <<idem, cooling, slots, sent>>
broadcast == <<next, pending, unseen, worker, markers, dms, due, settled>>
vars      == <<rotation, broadcast>>

Entries == 1 .. Len(stream)

Worker == [pc    : {"poll", "resolve", "loop", "cooldown", "slot", "global", "post", "mark",
                    "release"},
           entry : Nat,
           todo  : SUBSET Users,        \* recipients not yet in hand
           to    : Users \cup {None},   \* the one in hand
           stop  : BOOLEAN]             \* leave the loop as "partial"

Polling == [pc |-> "poll", entry |-> 0, todo |-> {}, to |-> None, stop |-> FALSE]

TypeOK ==
  /\ RotationTypeOK
  /\ next \in Nat
  /\ pending \subseteq Entries /\ unseen \subseteq Entries
  /\ worker \in Worker
  /\ idem \subseteq Secrets \X Users
  /\ cooling \subseteq Users /\ slots \subseteq Users
  /\ sent \in 0 .. PerSecond
  /\ dms \subseteq [event : Secrets, user : Users, link : Secrets]
  /\ due \subseteq Entries \X Users

Init ==
  /\ RotationInit
  /\ next = 1
  /\ pending = {} /\ unseen = {}
  /\ worker = Polling
  /\ idem = {} /\ cooling = {} /\ slots = {} /\ sent = 0
  /\ dms = {} /\ due = {} /\ settled = {}

Event     == stream[worker.entry]
Goto(l)   == worker' = [worker EXCEPT !.pc = l]
GiveUp    == worker' = [worker EXCEPT !.pc = "release", !.stop = TRUE]

\* The recipient in hand is through; on to the next one.
Settle(how) ==
  /\ worker' = [worker EXCEPT !.pc = "loop", !.to = None]
  /\ settled' = settled \cup {<<worker.entry, worker.to, how>>}

-----------------------------------------------------------------------------
(* run_loop                                                                *)

\* Mutant: nothing new is read while an entry is pending.
PollWhenClear ==
  /\ worker.pc = "poll"
  /\ next \in Entries
  /\ pending = {}
  /\ next' = next + 1
  /\ pending' = {next}
  /\ worker' = [worker EXCEPT !.pc = "resolve", !.entry = next]
  /\ UNCHANGED <<rotation, unseen, markers, dms, due, settled>>

\* XREADGROUP ">" hands out an entry never handed out before.  Its answer can
\* be lost: the entry is then pending without the worker knowing of it.
Poll ==
  /\ worker.pc = "poll"
  /\ next \in Entries
  /\ next' = next + 1
  /\ pending' = pending \cup {next}
  /\ \/ worker' = [worker EXCEPT !.pc = "resolve", !.entry = next] /\ UNCHANGED unseen
     \/ unseen' = unseen \cup {next} /\ UNCHANGED worker
  /\ UNCHANGED <<rotation, markers, dms, due, settled>>

\* Everybody was tried: XACK.
Acknowledge ==
  /\ worker.pc = "loop" /\ worker.todo = {}
  /\ pending' = pending \ {worker.entry}
  /\ worker' = Polling
  /\ UNCHANGED <<rotation, next, unseen, markers, dms, due, settled>>

\* The container is restarted, or an exception ends _process_event.
Crash ==
  /\ worker.pc # "poll"
  /\ worker' = Polling
  /\ UNCHANGED <<rotation, next, unseen, pending, markers, dms, due, settled>>

-----------------------------------------------------------------------------
(* _process_event                                                          *)

\* The users with a live subscription, as of now: any, since module
\* Entitlements starts and ends subscriptions at any time.
Resolve ==
  /\ worker.pc = "resolve"
  /\ \E live \in SUBSET Users :
       /\ worker' = [worker EXCEPT !.pc = "loop", !.todo = live]
       /\ due' = due \cup {<<worker.entry, u>> : u \in live}
  /\ UNCHANGED <<rotation, next, unseen, pending, markers, dms, settled>>

\* Mutant: the marker is looked up but not set.
ClaimForgets(u) ==
  /\ worker.pc = "loop" /\ u \in worker.todo
  /\ <<Event, u>> \notin idem
  /\ worker' = [worker EXCEPT !.pc = "cooldown", !.todo = @ \ {u}, !.to = u]
  /\ UNCHANGED <<rotation, next, unseen, pending, markers, dms, due, settled>>

\* check_idempotency: SET NX succeeds ...
Claim(u) ==
  /\ worker.pc = "loop" /\ u \in worker.todo
  /\ <<Event, u>> \notin idem
  /\ idem' = idem \cup {<<Event, u>>}
  /\ worker' = [worker EXCEPT !.pc = "cooldown", !.todo = @ \ {u}, !.to = u]
  /\ UNCHANGED <<rotation, next, unseen, pending, cooling, slots, sent, dms, due, settled>>

\* ... or finds the marker of an earlier entry of the same event.
Duplicate(u) ==
  /\ worker.pc = "loop" /\ u \in worker.todo
  /\ <<Event, u>> \in idem
  /\ worker' = [worker EXCEPT !.todo = @ \ {u}]
  /\ settled' = settled \cup {<<worker.entry, u, "duplicate">>}
  /\ UNCHANGED <<rotation, next, unseen, pending, markers, dms, due>>

\* check_cooldown
Cooldown ==
  /\ worker.pc = "cooldown"
  /\ Goto(IF worker.to \in cooling THEN "release" ELSE "slot")
  /\ UNCHANGED <<rotation, next, unseen, pending, markers, dms, due, settled>>

\* acquire_chat_send_slot: the chat's own marker first ...
ChatSlot ==
  /\ worker.pc = "slot"
  /\ slots' = slots \cup {worker.to}
  /\ IF worker.to \in slots THEN GiveUp ELSE Goto("global")
  /\ UNCHANGED <<rotation, next, unseen, pending, idem, cooling, sent, dms, due, settled>>

\* Mutant: the counter is compared before it counts this message.
GlobalSlotLate ==
  /\ worker.pc = "global"
  /\ IF sent <= PerSecond
     THEN sent' = sent + 1 /\ Goto("post") /\ UNCHANGED slots
     ELSE slots' = slots \ {worker.to} /\ GiveUp /\ UNCHANGED sent
  /\ UNCHANGED <<rotation, next, unseen, pending, idem, cooling, dms, due, settled>>

\* ... then the counter of the second; beyond the limit the marker is dropped.
GlobalSlot ==
  /\ worker.pc = "global"
  /\ IF sent < PerSecond
     THEN sent' = sent + 1 /\ Goto("post") /\ UNCHANGED slots
     ELSE slots' = slots \ {worker.to} /\ GiveUp /\ UNCHANGED sent
  /\ UNCHANGED <<rotation, next, unseen, pending, idem, cooling, dms, due, settled>>

\* mark_sent, after any answer in 200 .. 299
MarkSent ==
  /\ worker.pc = "mark"
  /\ cooling' = cooling \cup {worker.to}
  /\ Settle("answered")
  /\ UNCHANGED <<rotation, next, unseen, pending, idem, slots, sent, dms, due>>

\* Mutant: the recipient in hand counts as through although it is given up.
ReleaseGoesOn ==
  /\ worker.pc = "release"
  /\ idem' = idem \ {<<Event, worker.to>>}
  /\ worker' = [worker EXCEPT !.pc = "loop", !.to = None, !.stop = FALSE]
  /\ UNCHANGED <<rotation, next, unseen, pending, cooling, slots, sent, dms, due, settled>>

\* release_idempotency: go on after a cooldown, else leave the entry pending.
Release ==
  /\ worker.pc = "release"
  /\ idem' = idem \ {<<Event, worker.to>>}
  /\ IF worker.stop
     THEN /\ worker' = Polling
          /\ settled' = settled \cup {<<worker.entry, worker.to, "given up">>}
     ELSE Settle("cooling")
  /\ UNCHANGED <<rotation, next, unseen, pending, cooling, slots, sent, dms, due>>

-----------------------------------------------------------------------------
(* _post_to_bot and the bot's handle_mtproto_rotated                       *)

\* The bot asks issue for the link of the day and sends it: the oldest ACTIVE
\* secret.
Message(s) ==
  /\ s \in Oldest
  /\ dms' = dms \cup {[event |-> Event, user |-> worker.to, link |-> s]}

\* 200 {"status": "ok"}
PostSent(s) ==
  /\ worker.pc = "post"
  /\ Message(s)
  /\ Goto("mark")
  /\ UNCHANGED <<rotation, next, unseen, pending, markers, due, settled>>

\* 200 {"status": "skipped"}: the API refused (the subscription has ended, the
\* pool is empty) or Telegram did.
PostSkipped ==
  /\ worker.pc = "post"
  /\ Goto("mark")
  /\ UNCHANGED <<rotation, next, unseen, pending, markers, dms, due, settled>>

\* 400 or 401: retrying would not help.
PostRejected ==
  /\ worker.pc = "post"
  /\ Settle("rejected")
  /\ UNCHANGED <<rotation, next, unseen, pending, markers, dms, due>>

\* 503, a network error or a timeout, with or without the message sent.
PostFails ==
  /\ worker.pc = "post"
  /\ \/ \E s \in Secrets : Message(s)
     \/ UNCHANGED dms
  /\ GiveUp
  /\ UNCHANGED <<rotation, next, unseen, pending, markers, due, settled>>

-----------------------------------------------------------------------------
(* Redis expires the markers.                                              *)

CooldownExpires(u) ==
  /\ cooling' = cooling \ {u} /\ cooling' # cooling
  /\ UNCHANGED <<rotation, next, unseen, pending, worker, idem, slots, sent, dms, due, settled>>

SlotExpires(u) ==
  /\ slots' = slots \ {u} /\ slots' # slots
  /\ UNCHANGED <<rotation, next, unseen, pending, worker, idem, cooling, sent, dms, due, settled>>

NextSecond ==
  /\ sent # 0 /\ sent' = 0
  /\ UNCHANGED <<rotation, next, unseen, pending, worker, idem, cooling, slots, dms, due, settled>>

WorkerStep ==
  \/ Poll \/ Acknowledge \/ Resolve \/ Cooldown \/ ChatSlot \/ GlobalSlot \/ MarkSent \/ Release
  \/ \E u \in Users : Claim(u) \/ Duplicate(u)
  \/ \E s \in Secrets : PostSent(s)
  \/ PostSkipped \/ PostRejected \/ PostFails

Next ==
  \/ RotationNext /\ UNCHANGED broadcast
  \/ WorkerStep
  \/ Crash
  \/ \E u \in Users : CooldownExpires(u) \/ SlotExpires(u)
  \/ NextSecond

Spec == Init /\ [][Next]_vars

\* The worker's loop keeps running; the bot answers one way or another, or the
\* HTTP client times out.
FairSpec == Spec /\ WF_vars(WorkerStep)

-----------------------------------------------------------------------------
(* Properties                                                              *)

\* An entry is acknowledged only when every recipient resolved for it has been
\* answered, rejected, found cooling down or found handled already.
AckMeansSettled ==
  \A d \in due :
    d[1] < next /\ d[1] \notin pending
    => \E h \in settled : <<h[1], h[2]>> = d /\ h[3] # "given up"

\* An event gets at most one answer per chat, also when the client's retries
\* put it on the stream twice.
OneAnswerPerEvent ==
  \A a, b \in settled :
    a[3] = "answered" /\ b[3] = "answered" /\ a[2] = b[2] /\ stream[a[1]] = stream[b[1]]
    => a = b

\* A message about a rotation never carries the secret that it revoked: the
\* event follows the commit, and the bot asks for the link after the event.
NeverTheOldLink ==
  \A d \in dms : d.link # replaced[d.event]

\* Every entry that waits on the stream reaches the worker, but one that Redis
\* hands out in an answer that is lost, which nobody reads again: a crash, a
\* rejected message, a bot that is down or such a loss does not stop the entries
\* behind it.
EveryEntryIsRead ==
  \A i \in 1 .. MaxStream :
    i \in Entries /\ next <= i ~> (i \in unseen \/ (worker.pc = "resolve" /\ worker.entry = i))

\* "partial: leave un-ACK'd so it re-appears next tick": an entry the worker
\* gives up is taken up again.
PartialIsRedelivered ==
  \A i \in 1 .. MaxStream :
    (i \in pending /\ \E u \in Users : <<i, u, "given up">> \in settled)
      ~> (worker.pc = "resolve" /\ worker.entry = i)

\* After a rotation users are sent the new link: no message carries a secret
\* older than the one it announces.
FreshDeeplink ==
  \A d \in dms : \A i, j \in DOMAIN born : born[i] = d.link /\ born[j] = d.event => i >= j
=============================================================================
