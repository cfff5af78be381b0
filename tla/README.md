# Vlessich: a verification project

Vlessich is a VPN shop on Telegram. A bot and a mini-app let a user start a trial, redeem a code
or buy a plan with Telegram Stars; a FastAPI service keeps orders, codes and subscriptions in
PostgreSQL and tells a Remnawave panel whom to serve; workers probe nodes, send reminders, rotate
MTProto secrets and broadcast the new ones through a Redis stream.

This directory holds TLA+ models of the parts in which concurrency and failure decide whether the
system is correct, TLC runs on small instances, and theorems checked by TLAPS. `PROJECT.json` maps
every definition to the source lines it stands for.

Contents: 1 inventory, 2 modules and how they correspond to the code, 3 runs, 4 bounds, 5 fairness,
6 proofs, 7 disagreements found, 8 what is not modelled, 9 plan.

## 1. Inventory

| Component (source) | State | Operations | What makes it hard | What makes it correct |
|---|---|---|---|---|
| Billing (`api/app/services/billing.py`, `routers/payments.py`) | `orders`, `subscriptions` | `create_order`, `precheck`, `mark_paid`, `refund` | the bot repeats `successful_payment`; a payment, a code and a refund meet on one subscription; panel calls inside the transaction | days granted once per order, never lost, never on an unpaid order; at most one draft |
| Codes (`routers/codes.py`) | `codes`, `subscriptions`, `users` | `activate`: create, extend or replace | one single-use code, many redeemers; replacement against renewal | at most one grant per single-use code |
| Trials (`routers/trials.py`) | `trials`, `subscriptions`, `users` | `create_trial` | unlocked look-ups before the insert | one trial per user for ever |
| Admin (`routers/admin/subscriptions.py`, `codes.py`) | same tables | revoke a subscription, revoke a code | a handler already holds a reading of the row | revoked is final |
| Remnawave client (`services/remnawave.py`) | panel users (external) | create, extend, revoke with up to three attempts | an answer is lost after the call took effect | whoever is granted days is served them |
| Database (`db.py`, `models.py`, migrations) | rows, row locks, partial unique indexes | `session.begin()`, `FOR UPDATE`, flush, commit, rollback | READ COMMITTED: re-check after a wait, rows inserted meanwhile unseen; waits on index entries and foreign keys | no wait lasts for ever |
| MTProto pool (`services/mtproto_allocator.py`, `routers/mtproto.py`, `routers/admin/mtproto.py`) | `mtproto_secrets`, scope user | issue, rotate, revoke, bootstrap | `SKIP LOCKED`; REVOKED is flushed before the claim | one secret per user, one user per secret, one secret per port |
| MTProto rotation (`workers/mtproto_rotator.py`, `startup/mtproto_seed.py`, `routers/admin/mtproto.py`) | `mtproto_secrets`, scope shared | seed, rotate, auto-rotate, announce | no index keeps the row unique; announcement after the commit, best effort | users get the current secret |
| MTProto broadcast (`workers/mtproto_broadcaster.py`, `services/mtproto_broadcast.py`, `bot/app/notify_server.py`) | stream and pending list, Redis markers | read, claim, throttle, post, acknowledge | duplicates, crashes, timeouts, rate limits | one answer per event and chat, nobody dropped, nobody told a revoked secret |
| Node prober and node admin (`workers/prober.py`, `probe_backends.py`, `routers/admin/nodes.py`) | `nodes`, counters in memory, audit rows | read, probe, apply; create, patch, rotate | read and write in two sessions, counters that outlive a failed commit and not a restart | a verdict rests on a full run of results; what is decided reaches the table |
| Rulesets (`services/ruleset/*.py`, `workers/ruleset_puller.py`, `startup/ruleset_seed.py`) | `ruleset_sources`, `ruleset_snapshots` | seed, pull pass, build | one transaction for all sources, feeds that fail in different ways, admins holding rows | one current snapshot, the last good one; both engines route alike |
| Smart routing requests (`routers/smart_routing.py`, `routers/admin/ruleset.py`) | the user's flags, sources | set profile, create, change, delete, pull | a session closed without a commit | what is acknowledged is stored |
| Admin refunds (`routers/admin/orders.py`, `bot/app/notify_server.py`) | Telegram and `orders` | refund | two systems, one of them behind the network | Stars given back are recorded |
| Reminders (`workers/reminders.py`) | `reminder_log` | collect, send, record | crash between send and record, renewals meanwhile | every bucket reminded, once |
| Rate limits (`ratelimit.py`, `bot/app/middlewares/throttling.py`) | Redis counters | `INCR`, `EXPIRE` | two commands, each can be lost | never more than the limit, but for what the bot lets pass unchecked; a window that ends |
| Purchases in the bot (`handlers/purchase.py`, `services/api_client.py`, `main.py`) | Telegram's updates, nothing of its own | buy, pre-checkout, successful payment | lost answers, retries, timeouts, the throttle, restarts | what the user reads is true; who was charged is granted the days |
| Mini-app router, admin login (`routers/webapp.py`, `routers/admin/auth.py`) | little | toggle, reset device, log in | begin after a read | see section 7 |
| User interfaces, edge workers, cryptography, formats, metrics | none | | | not modelled, section 8 |

Components interact through four things: rows and locks of PostgreSQL (every API handler and
worker), the panel (called by billing, codes and trials inside their transactions), Redis (stream
and markers between rotation and broadcast, counters of the limiters) and HTTP between bot and API in
both directions. The compose file runs each worker as one process of its own.
`PROJECT.json` lists, under `hazards`, what can go wrong at which line and which property would
show it.

## 2. Modules

| Module | Models | Relation |
|---|---|---|
| `Store` | tables, locks, transactions, unique index on live subscriptions, the panel | base of the entitlement core |
| `Payments` | `create_order`, `precheck`, `mark_paid`, `refund` | extends `Store` |
| `Activation` | `activate`, `create_trial`, both admin revocations | extends `Store` |
| `Entitlements` | the two composed, all properties | extends both |
| `Ledger` | abstract specification: a ledger with atomic entries | implemented by `Entitlements` (`Promise`, `KeepsLedger`) |
| `Progress` | who waits for whom, deadlock detection, fairness | extends `Entitlements` |
| `Invariant` | the inductive invariant | extends `Entitlements` |
| `TypeProofs`, `EntitlementsProofs`, `LedgerProofs` | theorems | each extends the one before, the first `Invariant` |
| `MtprotoPool` | per-user secrets | on its own; any subscription may end or start at any time |
| `MtprotoPoolProofs` | theorems | extends `MtprotoPool` |
| `MtprotoRotation` | the shared secret and its announcements | base of the next |
| `MtprotoBroadcast` | broadcaster, markers, bot endpoint | extends `MtprotoRotation` |
| `Prober` | the prober's pass and the node administration | on its own |
| `Rulesets` | seed, parsers and the puller's pass | base of the next |
| `Routing` | the builders of the sing-box and Clash rules | extends `Rulesets`; no variables of its own |
| `Reminders` | the reminder worker next to renewals and terminations | on its own |
| `Console` | limiters, and the handlers that read before they write | on its own |
| `Checkout` | a purchase as the bot sees it | on its own; the inside of the API is `Payments` and `Ledger` |
| `Deployment` | the five above and `MtprotoBroadcast` side by side, with the fairness of all | extends them |
| `WorkersProofs` | theorems about the prober, the reminders and the broadcast | extends `Prober`, `Reminders`, `MtprotoBroadcast` |
| `RulesetsProofs` | theorems about the puller and both route builders | extends `Routing` |
| `RequestsProofs` | theorems about the limiters, the read-first handlers and the purchases | extends `Console`, `Checkout` |
| `DeploymentProofs` | the whole is the parts side by side, hence has their theorems | extends `Deployment` and the three above |
| `MCEntitlements`, `MCProgress`, `MCMtprotoPool`, `MCMtprotoBroadcast`, `MCDeployment` | instances for TLC | |

**How a handler becomes actions.** A handler runs in one `async with session.begin()`. Every
statement that can wait for another session is a step: a `SELECT ... FOR UPDATE` is a read step,
which fills `seen` with the rows of its snapshot, and a lock step, enabled when all of them are free,
which keeps the ones that still match. An `INSERT` or `UPDATE` that enters a unique index waits for
sessions with an uncommitted entry of the same key. A panel call is a step. Table variables hold
committed rows; uncommitted writes sit in `tx[p]` until the commit step, so that other sessions see
nothing before it and a rollback (`Abort`, `Rollback`) is simply forgetting. What does not wait is
not a step of its own: a lock and the assignments after it are one action. A request that is
refused before it wrote anything changes no table and is a stutter or an `Abort`. Operations that write one
row and await nothing between lock and commit (the admin revocations) are one action.

**Correspondence, entitlement core.** `OrderBegin`/`OrderCommit` are `create_order`. `Precheck` is
the bot's `on_pre_checkout` with the API's `precheck`: from then on the charge exists and
`PayBegin` can happen for it any number of times, which is how a repeated `successful_payment` is
modelled. `PayBegin`, `PayRead`, `PayLock`, then `PanelAnswers` on an existing row, or `PayInsert`,
`PayForeignKey`, `PanelAnswers` on a new one, then `PayCommit` are `mark_paid`.
`RefundBegin`/`RefundCommit` are `billing.refund`. `ActivateBegin`, `ActivateCode`, `LockUser`
(`InsertUser` for a new user), `ActivateRead`, `ActivateLock`, then (extend) the panel, (create)
`IssueInsert` and the panel, or (replace) `ActivateUnlink`, `IssueInsert` and the panel, then
`ActivateCommit` are `activate`; `TrialBegin`, `LockUser`, `TrialRead`, `IssueInsert`, the panel and
`TrialCommit` are `create_trial`. `PanelCall(p, n)` is a call delivered n times because of the
client's retries; `PanelFails` is a call whose effect remains while the answer, and the
transaction, are lost. `panel` has, per subscription, the days the panel has been told and whether
its user exists and is enabled there: `ActivateUnlink` deletes the user of the row it replaces at once, before the
commit, and a deleted user cannot be extended. `grants` and `term` are history variables.

**Correspondence, MTProto.** In `MtprotoPool` a secret is a pair of its port and its number on that
port; `Claimable`/`Claim`/`PoolFull`/`Flush` are `_claim_free_slot` and its caller's error,
shared by `issue` and `rotate_user_secret` as in the code. `handed` is the history of answers of
`issue`. In `MtprotoRotation` a session that has committed goes on to `Emit`, which may fail, or be
applied more than once by the Redis client's retries. In `MtprotoBroadcast` each `await` of
`_process_event` is a step (`Claim`, `Cooldown`, `ChatSlot`, `GlobalSlot`, `Post...`, `MarkSent`,
`Release`), and `Crash` can happen at any of them. The bot's endpoint is the `Post...` actions: the
link a user gets is the one `issue` answers at that moment (`Oldest`). `Poll` may lose the answer of
`XREADGROUP`: the entry is then delivered as far as Redis knows, and `unseen` remembers that the worker never
had it.

**Correspondence, workers.** `Prober`: `ReadNodes`, `ProbeAll` (or `ProbeRaises`, an encoding error
that `gather` passes on) and `WriteFindings` are `run_once`; `WriteFails` is a commit that fails after
`_apply` has changed the counters. The status a verdict assigns goes to an object of the session
`run_once` closed, so no action of the prober writes `nodes`. `tail` and `grounds` are histories of
probe results. `Rulesets`: `BeginPass`, then `Fetch` and `Store` per source, `CommitPass`; a feed that
raises something else than the puller expects (`FetchRaises`) ends the transaction of the pass.
Snapshots are kept by payload, as the index on the hash does. `AdminWrites`/`AdminCloses` hold a row
lock until the session is closed. `Routing` computes both rule lists from the current snapshots.
`Reminders`: `Collect`, `SendReminder`/`RefuseReminder`, `Record`, `EndPass`. `left` is the bucket a
subscription is in. `Age` waits until a pass has seen the subscription in its bucket and ended, which
is the schedule (a scan each 15 minutes, buckets of an hour and more); without it nothing could be said
about time. `AbortPass` may come at any moment, so it also stands for what the reminders of other
subscriptions do to the pass of this one.

**Correspondence, requests.** In `Console` a handler is the list of its statements, since the
question is what its session does in between. A session starts its transaction with the first
statement (SQLAlchemy's autobegin) and `session.begin()` raises if there is one (`Begin`);
`get_session` closes the session without a commit. As coded, `login`, `toggle_routing` and
`reset_device` therefore always answer 500 at their `begin()`. The other modules model what admins do
all the same: it is those handlers' own code that is checked, however the admin got a token. `hits` counts up to
`Limit + 1`, beyond which the code no longer tells numbers apart. `INCR` and `EXPIRE` are two steps; an
`INCR` can be applied and repeated by the client (`IncrementUnanswered`), and when Redis gives no answer at all
(`RedisFails`) the API fails while the bot lets the message through, which `let` counts and `unchecked`
remembers. `Checkout` takes each transaction
of the API as one step, which `Ledger` justifies; `underway` is the set of charges some report of
which has not been processed, so that concurrent duplicates of one report are one element. The
client's three attempts are `Report`/`Retry`, its total timeout `TimeOut`, which is not retried.
An order refunded later is not part of it.

Definitions named "Mutant" model plausible bugs in one definition each. No specification uses them; they
show that the property they are paired with in `PROJECT.json` can fail.

## 3. Runs

| Run | Question | Checks |
|---|---|---|
| `purchases` | Two sessions order, pay, refund and start trials for one user who has two expired rows from before; an admin revokes. | `TypeOK`, `OneLiveSubscription`, `GrantedOnce`, `LiveIsPaidFor`, `GrantsAreServed`, `OnePendingOrder`, `PaymentExtendsLive`, `OrderLifeCycle`, refinement `KeepsLedger` |
| `mixed` | A payment, a code and a trial meet on one subscription, which an activation may be replacing. | `IInv` (the invariant of the proofs), `NoGrantLost`, `OneTrial`, `GrantedOnce`, `RevokedIsFinal`, `GrantsAreServed`, `KeepsLedger` |
| `progress` | Does every transaction end? | `EveryTransactionEnds` (liveness) |
| `pool` | Two users and two admins on two ports. | `PoolTypeOK`, `OneSecretPerUser`, `PortServedOnce`, `PrivateSecrets`, `NoWaitCycle`, `RotationKeepsAccess`, `PoolInv` (the invariant of the proofs) |
| `deployment` | Rotations by an admin and the worker, announced zero, one or two times, and their broadcast; every other worker, the limited and the read-first handlers, and the bot's purchases, with their faults. | safety: `DeploymentTypeOK`, `VerdictBacked`, `CurrentIsLastGood`, `EnginesAgree`, `EveryRouteIsListed`, `OncePerUpset`, `RemindedInTime`, `LimitHolds`, `ToldTheTruth`, `AckMeansSettled`, `OneAnswerPerEvent`, `NeverTheOldLink`; liveness: `AllEntriesAreRead`, `NodesAreJudged`, `ListsAreFollowed` |
| `redelivery`, `freshlink`, `verdict`, `refund`, `acknowledged`, `charged`, `blocked` | Seven statements of the documentation the code does not keep (section 7). | one property each, violated |

What the passing runs show, in words: whatever the interleaving of handlers, retries, lost answers
and rollbacks, each commit of the entitlement core is one atomic entry of the abstract ledger; a
cycle of waits between `mark_paid` (which holds an index entry and waits for the users row) and
`activate` (the other way round) does occur, and PostgreSQL's deadlock detector is needed to end it; the pool's
handlers never need it; and a rotation's message never carries the secret that rotation revoked. A verdict of
the prober takes its full run of results; a source keeps the last good list through failed pulls;
sing-box and Clash agree on every domain; a reminder is repeated only after a loss. Days are granted only on a subscription that the panel serves
from then on. And whoever reads that a payment failed has not been granted its days, whatever was retried,
timed out or lost, but for one case (section 7): a repeated report that a newer order has overtaken.

## 4. Bounds

All are named in the `.cfg` files. They cut the state space, never an action's guard alone:

- *Two sessions.* Every hazard listed is between two handlers. A third can only be one more waiter.
  The theorems hold for any number of sessions.
- *One user* in `purchases` and `mixed`: rows of different users share only codes and the
  placeholder `sub_url_token`. Two redeemers of a single-use code are two sessions of `mixed`; that
  they may be two users is covered by the theorem `ExactlyOnce`.
- *Two orders, two charges, four subscription ids* (`purchases`): a draft going stale, its successor,
  two charges on one order. Two of the ids are expired rows from before, one started after the other, so
  that the choice of the row to revive is a choice; the other two are the rows of the two open sessions.
  `mixed` and `progress` start without old rows and have three ids: a replaced, a live and an uncommitted row.
- `Opening` is the clock at the start: 2 in `purchases`, after both old rows, 1 elsewhere.
- `Horizon` is one tick after `Opening` in `purchases` and `mixed`, one-day plans, `PendingTTL = 1`: drafts
  become stale, subscriptions run out before they are extended, codes pass `ValidUntil`, handlers'
  clocks are older than the present. In `progress` the clock stands still: no wait depends on it.
- `PanelTries = 2`: a call applied once or twice. The client tries three times; a third delivery adds the
  same days again. `MaxPanelDays = 3` in `mixed`: a trial, a code and a payment on one subscription, or a
  call applied twice on top of a grant. `MaxPanelDays = 2` in `purchases`: both orders on a revived
  row, or a payment on a trial, or a call applied twice on a row that had nothing.
- *Pool*: two users, two ports with at most two secrets each, two sessions: the pool can be empty,
  a port can be bootstrapped twice.
- *Broadcast*: three secrets, one user, `MaxStream = 2` entries (two announcements of one
  event, or two events, which is what the cooldown needs), `XaddTries = 2`, one message per second.
  `Early`, the constraint of `deployment`, keeps two kinds of behaviour: an admin rotates twice before the
  clock ticks, or the secret is rotated once after that, by the rotator, which waits for its age, or by an
  admin. No step of the worker leaves it, so no behaviour that its fairness demands is cut short. The
  violations use one or two users and requests.
- *Deployment*: the modules share no variable, and every property speaks of one of them. A behaviour
  of the whole, restricted to the variables of one part, is a behaviour of that part with stuttering;
  so the run lets one part move per behaviour (`active`) and holds the others still. This makes the
  state space the sum of the parts, not their product.
- `Nodes = {n1, n2}`, one of which the resolver cannot encode, both thresholds 2, one fault: a run
  broken by a restart or a lost commit, a pass that raises, a patch between read and write. The code's
  thresholds (3 and 5) need longer runs and no other case; the theorem holds for all.
- Two feeds that overlap, one of each parser that matters, with two payloads, an unreachable answer, a
  refused and an undecodable one, three domains of which one is below another: overlapping lists, a
  return to an earlier payload, partial failure. `MaxLost = 1`: a lost pass has no memory.
- One subscription, three buckets, two upsets, two renewals: subscriptions interact only through
  aborted passes, which may come anyway.
- Two requests at a time, `Limit = 1`, one cut (a crash, an `INCR` applied twice, or Redis not answering):
  the request that finds the counter at 1 and one that passes between its two commands.
- Two invoices, two charges, two attempts: a stale invoice paid, a charge overtaken by another order,
  a retry after an answer that was lost.
- `SYMMETRY` only in safety runs and only over ids that no definition distinguishes.
- `CHECK_DEADLOCK` is on everywhere: in every state some request can begin, or a rollback or an
  outside event can happen.

## 5. Fairness

`Progress!FairSpec`: strong fairness of each session's next step, since PostgreSQL grants a lock in the
order of requests and a released lock is not taken away from its waiters for ever; weak fairness of
the deadlock detector (`deadlock_timeout`, on by default). The panel answers or fails within the
HTTP client's timeout (`services/remnawave.py`). Requests need not arrive, and crashes need not happen.
`Deployment!WorkersFairness`: weak fairness of the prober's loop; strong fairness of the puller's, which
waits for row locks that admins take and give back, granted in the order of requests; weak fairness of
the seed at the start of the API, of closing an admin's session, and of the broadcaster's loop, `while True`
around a bounded `XREADGROUP` and an HTTP client with a timeout (which is also `MtprotoBroadcast!FairSpec`).
`RequestsFairness`: weak fairness of a request's next statement, of Redis expiring a counter that has a TTL,
and of the bot's and the API's handling of what has reached them. `FairWorkers`, the specification of
`deployment`, assumes the first only; the violated properties of the deployment are checked under both
(`FairDeployment`), so that their counterexamples are not just systems that stopped. Nothing is assumed of nodes,
feeds, admins, users, rotations, faults, crashes, the bot's answers to the broadcaster, or of `AbortPass`.

## 6. Proofs

Every safety invariant and every action property that a passing run checks is a theorem, for every value of
the constants the ASSUMEs allow.

The entitlement core, for any number of users, orders, codes, subscriptions, charges and sessions, from
`StorageAssumption`: the parameters have their types, keys and NULL are disjoint, and the
expired rows from before were started before `Opening`, one user's one after another. The last is what
`ORDER BY started_at DESC` takes for granted: `started_at` is a timestamp, and between two rows with
the same one the query would choose either. LedgerProofs needs nothing further.

- **Type correctness** (`TypeProofs!TypeCorrect`): `TypeOK` is not inductive. A lock step copies
  fields of a transaction to a row, so the proof needs which fields are set together (`TxShape`),
  which columns a row has (`RowShape`) and that rows a transaction refers to exist (`TxRefers`).
  `Shape` is their conjunction; `TypeStep` shows it inductive.
- **Safety** (`EntitlementsProofs!Safety`): the safety properties are not inductive either, since a
  commit is right only because of what the transaction has relied on since it read. `IInv` adds: a
  transaction holds the rows it is about to write, and they still have the status it saw
  (`HoldsOrder`, `HoldsCode`, `HoldsSub`); the value it will write covers every earlier grant, and the
  panel has been told before the commit (`CoversTerm`); an uncommitted INSERT of a live row is the
  only one of its user (`InsertsAlone`); trials are recorded (`TrialRecorded`). `SafeStep` has one
  case per action. `OneLive`, `ExactlyOnce`, `PaidFor`, `NoDayLost`, `TrialOnce` and
  `OneDraft` follow; `LifeCycle` and `RevokedForGood` are action properties from the same invariant.
- **What the panel serves** (`EntitlementsProofs!GrantsServed`): `CoversTerm` has the days; `Serving` adds that a
  transaction about to commit has its user enabled at the panel, and that a row with a handle has a user
  there. `ServiceSteps` sorts every step into the commits that grant days, a call, the deletion of the user that
  is replaced, and the rest, which changes nothing of it. The delicate case is `UnlinkDisables`: the row that is
  disabled is locked by its activation, so no other transaction is about to commit days on it.
- **The row a payment extends** (`EntitlementsProofs!PaymentExtends`): `IInv` says who holds a row, not
  which row is chosen. `Seniority` adds the order of a user's rows: expired rows differ in their start
  and are older than the live one (`Elder`); a payment that waits for its locks has seen every
  expired row of its user, the row it revives is the youngest of them, and a live row it
  extends is not cut short (`Renews`). `Ordered` proves it: rows become expired nowhere in the
  model, an insert gets the handler's clock, which is not before `Opening`, and a revival leaves
  `started` alone. Given it, a payment that sees a live row takes that one, and at its commit no
  other row of the user is live, by `InsertsAlone` and the index.
- **Refinement** (`LedgerProofs!Implements`): `Spec => KeepsLedger`. The mapping reads the ledger off
  the committed tables; a user holds the live subscription. Every step but the commits is a stutter;
  each commit is one ledger entry, by the locks of `IInv`.

The other parts:

- **The pool** (`MtprotoPoolProofs!PoolSafety`), for any number of users, ports, secrets and sessions,
  from `PoolAssumption` (ports are numbers, which orders them; `None` is none of the ids): uniqueness
  is not inductive, because a claim is written long after the row was read. `PoolInv` adds that a
  session holds the rows it will write and that they are still FREE, or the user's (`HoldsRows`), that
  a flushed claim is the only one for its user, who has no other secret (`ClaimsAlone`), that flushed
  inserts have their ports to themselves (`InsertsAlone`), and that a secret handed out is still its
  user's row (`HandedOver`). Two lemmas carry the proof: `Step`, for a session that moves without
  writing, and `Commit`, for one that writes rows nobody else relies on. `OneSecret`, `PortOnce` and
  `Private` are read off the invariant, `AccessKept` is an action property from it, and `NoCycle`
  ranks the waits: a lock waits for sessions past their own lock, a claim and a commit for nobody,
  and two sessions in a cycle of flushes would both hold the one ACTIVE row of their user.
- **The broadcast** (`WorkersProofs!BroadcastSafety`), for any number of rotations, users, entries and
  duplicates. `RotationInv`: a secret that a rotation has replaced is REVOKED and stays so, and what is on
  the stream was committed before, which `LinkInv` passes on to the messages; the link in
  a message is that of an ACTIVE row at the moment of sending, so it cannot be the replaced one. `EntryInv`: entries are
  read in the order of the stream, once each. `MarkerInv`: the marker of the recipient in hand is
  the worker's own, and nobody has been answered under it, so a second announcement of the event finds the
  marker; with it `OneAnswerPerEvent` is inductive. `DueInv`: each recipient of the entry in hand is
  still to do, in hand or settled, so that nobody is left when it is acknowledged.
  `AcknowledgedSettled`, `AnsweredOnce` and `RevokedNotSent` are read off the invariant.
- **The prober** (`WorkersProofs!ProberSafety`), for any nodes, backends, thresholds and number of
  faults: that a verdict had its run of results is not inductive, as the counters are what decides.
  `CountBacked` says that after the results of the pass in hand are taken in, `fails` (or `oks`) failures (or
  successes) in a row end the history of the node. `RunGrows` is the lemma on sequences behind it: a
  result that continues a run makes it longer. `VerdictsAreBacked` is read off.
- **The reminders** (`WorkersProofs!RemindersSafety`), for any number of subscriptions and buckets:
  `CopyInv` counts deliveries against upsets, one more for what is in hand or recorded; `SeenInv` says
  where the reminder of a subscription's bucket is: recorded, missed, still to do, or in hand.
  `DeliveredOncePerUpset` and `EveryBucketReminded` follow.
- **The puller** (`RulesetsProofs!RulesetSafety`), for any feeds and answers: `PassInv` says that what a
  pass is about to write marks exactly the payload it has fetched, and that a source is fetched once
  per pass; `StoredMarksOne` is the lemma about the demotion and the mark. `OneCurrentSnapshot` follows.
- **The routes** (`RulesetsProofs!EnginesRouteAlike`, `RoutesAreListed`), for any feeds and a
  finite set of domains: both engines take the first rule that matches. `LeastIndex` and `FirstHit` turn
  that into a minimum over a finite set of indices; `Listing` says that the enumeration of a set has
  each element at some index; `BlockFirst` follows, and with it
  `Engines`: one rule per group, as sing-box is given them, and one rule per domain, as Clash is, decide
  alike because both lists have the groups in the same order.
- **Purchases** (`RequestsProofs!CheckoutSafety`), for any number of charges, invoices and attempts:
  `ChargeOK` ties the place of a charge to its attempts and its answer to the state of its order, and says
  that a charge refused after it was granted is one that was reported again. The
  delicate step is `MarkPaid`: nobody can have been told about the order it pays, since an answer
  implies an order that is no longer PENDING. `AnswersAreTrue` follows.
- **Limits** (`RequestsProofs!LimitIsKept`), for any limit and number of requests: what was let through
  a window is at most what was counted in it, and the messages that passed unchecked (`HitsCounted`).
- **The whole** (`DeploymentProofs!DeploymentOfParts`): a behaviour of `DeploymentSpec` is, part by part, a
  behaviour of the part's specification, since the steps of the others leave its variables alone
  (`StepOfParts`). `DeploymentTypeCorrect` and `DeploymentSafe` (all safety invariants of `deployment`
  at once) then are the theorems of the parts.

Assumptions of these are the ASSUMEs of the modules: thresholds and limits are positive, the rate of
messages is a number, the domains are finitely many, NULL-like constants are none of the ids. TLC evaluates
them in `deployment`.

Only model-checked: what holds under fairness (`EveryTransactionEnds` and the three liveness
properties of `deployment`), which is outside the prover. The violated properties are findings,
so there is nothing to prove.

## 7. Disagreements between code and documentation

1. *A partial broadcast is never resumed* (`redelivery`). `run_loop` reads `XREADGROUP ... ">"`, which
   returns new entries only; an entry left unacknowledged, as `mtproto_broadcaster.py:257` intends,
   stays in the pending list. The recipients behind the one that was throttled are not told.
2. *Two shared secrets can be ACTIVE* (`freshlink`). The second of two concurrent rotations finds the
   row it waited for REVOKED and does not see the fresh one; both insert. `issue` hands out the older
   from then on, against `TZ.md:1058`.
3. *The prober's verdict does not reach the row* (`verdict`). `_apply` assigns to nodes that
   `run_once` loaded in a session it has closed; probes and the audit row are committed, the status is
   not, against `ARCHITECTURE.md:614-616`. The node stays HEALTHY and is ruled burned again and again.
4. *A refund is not recorded* (`refund`). `refund_order` reads the order, which begins a transaction,
   and `billing.refund` begins another: it raises after Telegram has given the Stars back. The
   order stays PAID, and a retry meets Telegram's refusal. `Payments` models `billing.refund` itself,
   on a session that has not begun, as the unit tests call it.
5. *Acknowledged and rolled back* (`acknowledged`). `set_profile` and the ruleset handlers of the admin
   only flush; `get_session` closes the session.
6. *Nobody repeats `successful_payment`* (`charged`). `billing.py:367` counts on Telegram to repeat it;
   the bot's dispatcher has handled the update by then, and Telegram does not send it again.

7. *A blocked user stays blocked* (`blocked`). Only the request that reads the counter at 1 sends `EXPIRE`
   (`ratelimit.py:26-28`, `35-37`). If that `INCR` was applied and its answer lost, the client's retry reads 2
   (redis-py 6, which `redis>=5.0` admits, retries by default); if the API stops, or fails, between the
   two commands, nobody sends it either. The counter then has no TTL and only grows: after the limit the
   user is refused for ever, where `plan-stage-1.md:68-69` has him told to wait ten minutes. The bot's own limiter
   does not suffer from it, as its key carries the number of the window.

More disagreements, which the models contain but no violated run states; where a passing property touches one,
it names it as its exception:

- *A replay can be denied.* `mark_paid` promises to "return the existing state" for a repeated report of the
  same charge (`billing.py:303-305`). It looks for the subscription by `last_order_id` (312-321), and once a
  newer order has extended that row it finds none and raises `OrderNotPending`: the user reads that the payment
  failed, although the days were granted by the first copy and are still there. `ToldTheTruth` excludes exactly
  this: the report was sent at least twice, and a newer order was paid since.
- *A rolled-back replacement takes the service away.* `activate` deletes the old panel user (`codes.py:232`)
  before the new one is created and before the commit. If the creation or the commit fails, the database rolls
  back (`ARCHITECTURE.md:197`, "Single-transaction flow" in `codes.py:3`) and the panel does not: the old
  subscription is live, with days left, and not served. Extending it, by a payment or a code of the same plan,
  then fails with the panel's 404 until another activation replaces it. `GrantsAreServed` says that this is the
  only way to lose the service of a live subscription, and that no days are ever granted on one that has lost it.
- *An entry can be lost between Redis and the worker.* If `XREADGROUP`'s answer is lost the entry is pending, and
  nothing reads pending entries, as in 1. `AllEntriesAreRead` says that every entry on the stream is worked on
  or is one of these (`unseen`), so that none is held up by what happened to those before it.
- *Skipped counts as sent.* The cooldown marker is set for a `200 skipped` too (`mtproto_broadcaster.py:180`,
  whose comment speaks of a successful message).
- *One bad feed aborts all.* A feed that cannot be decoded aborts the pass for all sources, where
  `puller.py:203-204` says that one bad source cannot abort the others; `ListsAreFollowed` is stated for feeds
  that can be decoded, `NodesAreJudged` likewise for hostnames the resolver can encode.

Accepted behaviour, which the models contain: the rotator rotates a secret an admin has just
rotated (`mtproto_rotator.py:106` checks the age before it locks); a message may arrive twice when the
HTTP client gives up after the bot has sent it (`mtproto_broadcaster.py:170`); a renewed subscription
is not reminded a second time in a bucket, as `reminder_log` outlives the renewal (`reminders.py:83`).

## 8. Not modelled

- Formats and stateless code: subscription payloads, URLs, configuration files around the rules,
  signatures, encryption, tokens, user interfaces, metrics, logging, edge workers, scripts.
- What `toggle_routing` and `reset_device` would do after the `begin()` that raises.
- Read-only handlers, and the bot's handlers that make one call and show its answer.
- Traffic through the proxy backend beyond its result, which may be anything.
- The `users` rows' other columns, devices, traffic limits and audit rows: nothing modelled reads them.
- `phone_e164` hashing and fingerprints in trials: a second unique key with the same behaviour.
- The connection pool (`db.py:21`): a request that gets no connection has not begun.
- `mtproto_secrets` and the entitlement tables share `users` rows through a foreign key; an issue
  may wait for an activation of the same user, never the other way round, so no cycle is lost.
- Trimming of the stream (10000 entries), expiry of idempotency markers (24 h) and events for one
  user, which take the same path with one recipient.

## 9. Plan

Done: the entitlement core with its refinement; the MTProto pool, the rotation and the broadcast; the
prober, the rulesets and routes, the reminders, the limiters, the purchases, the read-first handlers; the
deployment that composes them; whether the panel serves what was granted; proofs of every safety and action
property. Left:

1. `Checkout` as a refinement of the ledger: a user who reads "paid" holds an entry of it.
